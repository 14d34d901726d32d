------------------------------- MODULE Scopes -------------------------------
(***************************************************************************)
(* The reference against which the parser's typedef-name table is judged:  *)
(* scopes of identifiers as C11 6.2.1 defines them.                        *)
(*                                                                         *)
(* A scope maps every identifier to what the scope declares it to be; a    *)
(* sequence of scopes lists the file scope first and the innermost scope   *)
(* last.  An identifier is a typedef name where the innermost scope that    *)
(* declares it declares it as one (6.2.1p4, 6.2.3, 6.7.8).  Nothing here   *)
(* mentions snapshots or tables.                                           *)
(***************************************************************************)
EXTENDS Naturals, Sequences

CONSTANT Ids        \* the spellings a program may declare

\* "other": an object, function, parameter or enumeration constant
Kind  == {"none", "type", "other"}
Scope == [Ids -> Kind]

NoDeclarations == [id \in Ids |-> "none"]

Types(scope) == {id \in Ids : scope[id] = "type"}

\* Level j of ss is the innermost of the first k levels to declare id, and
\* declares it as a typedef name.
TypeAt(ss, k, j, id) ==
  /\ j \in 1..k
  /\ ss[j][id] = "type"
  /\ \A i \in (j + 1)..k : ss[i][id] = "none"

\* The typedef names visible in the first k scopes of ss.
VisibleTypes(ss, k) == {id \in Ids : \E j \in 1..k : TypeAt(ss, k, j, id)}

Visible(ss) == VisibleTypes(ss, Len(ss))

\* The innermost scope declares id as kind, from now on.
Declare(ss, id, kind) == [ss EXCEPT ![Len(ss)] = [@ EXCEPT ![id] = kind]]

Enter(ss, scope) == Append(ss, scope)
Leave(ss) == SubSeq(ss, 1, Len(ss) - 1)
=============================================================================
