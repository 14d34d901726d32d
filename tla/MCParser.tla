------------------------------ MODULE MCParser ------------------------------
(* Parser for TLC: the spellings are interchangeable model values. *)
EXTENDS Parser, TLC

IdSymmetry == Permutations(Ids)

\* The nonterminals are expanded as far as Derivations says.
ASSUME DerivationsComplete == Unfold(Derivations) = Derivations
=============================================================================
