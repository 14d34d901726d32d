--------------------------- MODULE ContextProtocol ---------------------------
(***************************************************************************)
(* The discipline by which the grammar's semantic actions use the Context  *)
(* of declarator/context.h, without the grammar.                           *)
(*                                                                         *)
(* Context keeps only the set of names that are typedef names *now*.  There *)
(* is no scope stack in the program: block structure exists because each   *)
(* scoped_* rule of c11parser.bison.y saves the set before its construct   *)
(* and restores it after, and because a function definition, whose body    *)
(* comes after its parameter list was left, re-installs the set recorded   *)
(* in its declarator.  `saved' is the sequence of snapshots live on the    *)
(* parser's value stack.  `scopes' is the C11 scope structure the program  *)
(* text has at this point; the code has no such variable, it is the        *)
(* reference the invariants compare with.                                  *)
(***************************************************************************)
EXTENDS Scopes, Context

CONSTANT MaxDepth    \* bound: scopes open at once, the file scope included

ASSUME MaxDepthAssumption == MaxDepth \in Nat \ {0}
ASSUME IdsAssumption == "none" \notin Ids    \* "none" stands for no name

VARIABLES
  current,   \* Context::current
  saved,     \* the live snapshots, outermost first
  params,    \* the parameter list a function definition may re-install
  scopes     \* C11 scopes open here, file scope first

vars == <<current, saved, params, scopes>>

\* What function_declarator keeps of a parameter list: the set at its end
\* (ctx) and the name declared (fn); scope is what the list declared, file the
\* file scope it was read in.
ParamList == [ctx : SUBSET Ids, scope : Scope, file : Scope, fn : Ids]
NoParams  == [ctx |-> {}, scope |-> NoDeclarations, file |-> NoDeclarations, fn |-> "none"]

\* The list of fn, left now.
ListOf(fn, ctx) == [ctx |-> ctx, scope |-> scopes[Len(scopes)], file |-> scopes[1], fn |-> fn]

TypeOK ==
  /\ current \in SUBSET Ids
  /\ saved \in Seq(SUBSET Ids)
  /\ params \in ParamList \cup {NoParams}
  /\ scopes \in Seq(Scope)
  /\ Len(scopes) \in 1..MaxDepth

Init ==
  /\ current = {}
  /\ saved = <<>>
  /\ params = NoParams
  /\ scopes = <<NoDeclarations>>

-----------------------------------------------------------------------------
(* One action per use of Context by the grammar. *)

\* save_context at the start of a parameter list, block, selection or
\* iteration statement, substatement or a definition without a prototype
EnterScope ==
  /\ Len(scopes) < MaxDepth
  /\ saved' = Append(saved, save_context(current))
  /\ scopes' = Enter(scopes, NoDeclarations)
  /\ UNCHANGED <<current, params>>

\* Mutant of LeaveScope: the snapshot stays.
LeaveScopeKeepsSnapshot ==
  /\ Len(saved) > 0
  /\ current' = restore_context(saved[Len(saved)])
  /\ scopes' = Leave(scopes)
  /\ UNCHANGED <<saved, params>>

\* restore_context($ctx) at the end of the construct
LeaveScope ==
  /\ Len(saved) > 0
  /\ current' = restore_context(saved[Len(saved)])
  /\ saved' = SubSeq(saved, 1, Len(saved) - 1)
  /\ scopes' = Leave(scopes)
  /\ UNCHANGED params

\* Mutants of LeaveParams: the snapshot stays; the set kept is that before the
\* list.
LeaveParamsKeepsSnapshot(fn) ==
  /\ Len(saved) = 1
  /\ Types(scopes[Len(scopes)]) = {}
  /\ current' = restore_context(saved[1])
  /\ params' = ListOf(fn, save_context(current))
  /\ scopes' = Leave(scopes)
  /\ UNCHANGED saved
LeaveParamsKeepsOuter(fn) ==
  /\ Len(saved) = 1
  /\ Types(scopes[Len(scopes)]) = {}
  /\ current' = restore_context(saved[1])
  /\ saved' = <<>>
  /\ params' = ListOf(fn, saved[1])
  /\ scopes' = Leave(scopes)

\* scoped_parameter_type_list_ back at file scope: the set as it was at the
\* end of the list survives, in the declarator of the name fn.  A parameter
\* declaration cannot be a typedef.
LeaveParams(fn) ==
  /\ Len(saved) = 1
  /\ Types(scopes[Len(scopes)]) = {}
  /\ current' = restore_context(saved[1])
  /\ saved' = <<>>
  /\ params' = ListOf(fn, save_context(current))
  /\ scopes' = Leave(scopes)

\* declarator_typedefname
DeclareType(id) ==
  /\ current' = declare_typedefname(current, id)
  /\ scopes' = Declare(scopes, id, "type")
  /\ UNCHANGED <<saved, params>>

\* Mutant of DeclareVar: the live snapshots share the set.
DeclareVarShared(id) ==
  /\ current' = declare_varname(current, id)
  /\ saved' = [k \in DOMAIN saved |-> declare_varname(saved[k], id)]
  /\ scopes' = Declare(scopes, id, "other")
  /\ UNCHANGED params

\* declarator_varname, enumerator
DeclareVar(id) ==
  /\ current' = declare_varname(current, id)
  /\ scopes' = Declare(scopes, id, "other")
  /\ UNCHANGED <<saved, params>>

\* The declarator is popped without having started a definition.
ForgetParams ==
  /\ params' = NoParams
  /\ UNCHANGED <<current, saved, scopes>>

\* declarator::reinstall_function_context: the set a function body starts with
Reinstalled(p) == declare_varname(restore_context(p.ctx), p.fn)

\* Since the list was left, the file scope declared no other name than fn.
FitsFileScope == \A id \in Ids \ {params.fn} : scopes[1][id] = params.file[id]

\* function_definition1: the body of fn reopens the scope of its parameters
\* (C11 6.2.1p4), after fn itself and nothing else was declared at file scope.
EnterBody ==
  /\ Len(scopes) = 1
  /\ Len(scopes) < MaxDepth
  /\ params # NoParams
  /\ FitsFileScope
  /\ scopes[1][params.fn] = "other"
  /\ saved' = Append(saved, save_context(current))
  /\ current' = Reinstalled(params)
  /\ scopes' = Enter(scopes, params.scope)
  /\ params' = NoParams

Next ==
  \/ EnterScope
  \/ LeaveScope
  \/ \E fn \in Ids : LeaveParams(fn)
  \/ \E id \in Ids : DeclareType(id)
  \/ \E id \in Ids : DeclareVar(id)
  \/ ForgetParams
  \/ EnterBody

Spec == Init /\ [][Next]_vars

-----------------------------------------------------------------------------
(* What the discipline guarantees. *)

\* There is one live snapshot for every open scope but the innermost: no
\* construct loses its snapshot or restores that of another.
OneSnapshotPerScope == Len(scopes) = Len(saved) + 1

\* Context::current is exactly the set of typedef names C11's scope rules
\* make visible at this point of the program - the set the lexer consults
\* for the second half of every split token.
CurrentIsVisible == current = Visible(scopes)

\* Every live snapshot is what is visible in the scope it will be restored
\* for, however many declarations were made since it was taken.
SnapshotsAreVisible ==
  \A k \in 1..Len(saved) : saved[k] = VisibleTypes(scopes, k)

\* As long as the file scope declares only the function itself, a remembered
\* parameter list still fits it, except for that name, which
\* reinstall_function_context erases: the set to re-install is what the
\* reopened parameter scope will make visible.
ParamsFitFileScope ==
  (params # NoParams /\ FitsFileScope) =>
    /\ Types(params.scope) = {}
    /\ params.ctx \ {params.fn} =
         Visible(<<scopes[1], params.scope>>) \ {params.fn}
=============================================================================
