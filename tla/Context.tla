------------------------------- MODULE Context -------------------------------
(***************************************************************************)
(* declarator/context.h: the table of typedef names that are in scope.     *)
(*                                                                         *)
(* struct Context keeps one unordered_set<string>, `current'.  A name is in *)
(* it iff an ordinary identifier of that spelling is at the moment visible *)
(* as a typedef name; everything else - variables, functions, enumeration  *)
(* constants, undeclared names - is represented by absence.  The operators *)
(* below are the member functions, as functions of the set.                *)
(***************************************************************************)

\* bool is_typedefname(const string& id)
is_typedefname(current, id) == id \in current

\* void declare_typedefname(const string& id): the value of `current' after it
declare_typedefname(current, id) == current \cup {id}

\* Mutant of declare_varname: a variable does not hide a typedef name.
declare_varname_ignored(current, id) == current

\* void declare_varname(const string& id): an ordinary declaration hides a
\* typedef name of the same spelling, so the name is erased
declare_varname(current, id) == current \ {id}

\* context save_context(): the set is copied, not referenced, so a later
\* declaration leaves the snapshot alone
save_context(current) == current

\* void restore_context(const context& snapshot): the value of `current' after it
restore_context(snapshot) == snapshot
=============================================================================
