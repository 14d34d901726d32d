----------------------------- MODULE Declarator -----------------------------
(***************************************************************************)
(* declarator/declarator.h: the semantic value of a C declarator.          *)
(*                                                                         *)
(* struct declarator is a variant of three structs; `tag' says which one a *)
(* value holds.  Every alternative has the declared identifier; only a     *)
(* function_declarator has a context, the set of typedef names at the end  *)
(* of the parameter list that a function body must see again.              *)
(***************************************************************************)
EXTENDS Context

DeclaratorTag == {"identifier", "function", "other"}

\* identifier_declarator{i}
identifier_declarator(i) == [tag |-> "identifier", identifier |-> i, ctx |-> {}]

\* Mutant of KeptContext: a later parameter list replaces the first.
LatestContext(d, savedCtx) == savedCtx

\* The constructor visits the declarator it is built from: the first
\* parameter list applied to the name is kept, a later one (of a returned
\* function type) is not; over an other_declarator the member `ctx' is left
\* default-constructed, that is empty.
KeptContext(d, savedCtx) ==
  CASE d.tag = "identifier" -> savedCtx
    [] d.tag = "function"   -> d.ctx
    [] d.tag = "other"      -> {}

function_declarator(d, savedCtx) ==
  [tag |-> "function", identifier |-> d.identifier, ctx |-> KeptContext(d, savedCtx)]

\* Arrays and declarators with an identifier list: the name only, whatever
\* was recorded before.
other_declarator(d) == [tag |-> "other", identifier |-> d.identifier, ctx |-> {}]

\* Mutant of reinstall_function_context: the function's own name stays.
reinstall_parameters(d, current) ==
  IF d.tag = "function" THEN restore_context(d.ctx) ELSE current

\* void declarator::reinstall_function_context(Context&): the value of
\* Context::current after it
reinstall_function_context(d, current) ==
  IF d.tag = "function"
  THEN declare_varname(restore_context(d.ctx), d.identifier)
  ELSE current
=============================================================================
