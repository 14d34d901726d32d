-------------------------- MODULE MCContextProtocol --------------------------
(* ContextProtocol for TLC: identifiers are interchangeable model values. *)
EXTENDS ContextProtocol, TLC

IdSymmetry == Permutations(Ids)
=============================================================================
