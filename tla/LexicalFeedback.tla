--------------------------- MODULE LexicalFeedback ---------------------------
(***************************************************************************)
(* What the scanner and the parser promise each other about identifiers.   *)
(*                                                                         *)
(* An identifier is two tokens.  The scanner hands over NAME and remembers  *)
(* the spelling; the next token it hands over, whatever the text goes on   *)
(* with, is TYPE or VARIABLE, by the typedef names of that later moment.   *)
(* In between the parser may take NAME and change the typedef names as it  *)
(* likes.  Lexer implements this with flex's rules and checkToken, Parser  *)
(* with bison's lookahead; neither mentions the other.                     *)
(***************************************************************************)
CONSTANT Ids

VARIABLES
  token,      \* the token handed over and not yet taken
  name,       \* the identifier whose second half is still to come
  typedefs    \* the names that are typedef names now

vars == <<token, name, typedefs>>

Init ==
  /\ token = "none"
  /\ name = "none"
  /\ typedefs = {}

FirstHalf(id) ==
  /\ name = "none"
  /\ token' = "NAME"
  /\ name' = id
  /\ UNCHANGED typedefs

SecondHalf ==
  /\ name # "none"
  /\ token \in {"NAME", "none"}
  /\ token' = IF name \in typedefs THEN "TYPE" ELSE "VARIABLE"
  /\ name' = "none"
  /\ UNCHANGED typedefs

\* any other token: never between the halves
OtherToken ==
  /\ name = "none"
  /\ token' = "OTHER"
  /\ UNCHANGED <<name, typedefs>>

Taken ==
  /\ token' = "none"
  /\ UNCHANGED <<name, typedefs>>

\* Semantic actions declare names and restore earlier sets: typedefs changes in
\* any way, at any time, and nothing else does.
Declares == UNCHANGED <<token, name>>

Next ==
  \/ \E id \in Ids : FirstHalf(id)
  \/ SecondHalf
  \/ OtherToken
  \/ Taken
  \/ Declares

Spec == Init /\ [][Next]_vars
=============================================================================
