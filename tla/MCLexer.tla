------------------------------ MODULE MCLexer ------------------------------
(* Lexer for TLC. *)
EXTENDS Lexer
=============================================================================
