----------------------------- MODULE MCSession -----------------------------
EXTENDS Session, TLC

Symmetry ==
  Permutations(BisonParams) \cup Permutations(Lexers)
=============================================================================
