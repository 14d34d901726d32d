------------------------------- MODULE Parser -------------------------------
(***************************************************************************)
(* C11Parser (c11parser.bison.y) and the identifier part of Lexer::yylex,   *)
(* over every program the modelled rules derive.                           *)
(*                                                                         *)
(* bison reads one token ahead and reduces on it, so the NAME of an        *)
(* identifier is often fetched while semantic actions that will declare    *)
(* something or restore a snapshot are still to run.  The lexer therefore   *)
(* splits an identifier: the lookup happens in the next yylex call, which  *)
(* the parser makes only after shifting NAME.                              *)
(*                                                                         *)
(* The LALR automaton is abstracted to the derivation it recognises:       *)
(* `stack' holds the symbols still to come, chosen ahead by Expand, which  *)
(* has no counterpart in the program.  Whether bison fetches the lookahead *)
(* before running a pending action or needs none to decide (a default      *)
(* reduction) is left open.  A program the parser rejects is a behaviour    *)
(* that stops early.  `scopes', and `own' in the semantic values, are not   *)
(* in the code: they say what C11 makes of the program text, by the marks   *)
(* of the grammar alone.                                                   *)
(***************************************************************************)
EXTENDS Naturals, Sequences, FiniteSets, Scopes, Declarator, Grammar

CONSTANTS
  MaxDepth,    \* bound: scopes open at once, the file scope included
  MaxBrackets  \* bound: brackets ( [ { open at once

ASSUME MaxDepthAssumption == MaxDepth \in Nat \ {0}
ASSUME IdsAssumption == "none" \notin Ids    \* "none" stands for no name

VARIABLES
  stack,                \* symbols still to come, the next one first
  vals,                 \* semantic values of the symbols on bison's stack
  context,              \* BisonParam::context
  la,                   \* the lookahead token, if one was fetched
  lexer_state,          \* Lexer::lexer_state
  identifierToLookup,   \* Lexer::identifierToLookup
  scopes                \* C11 scopes open here

vars == <<stack, vals, context, la, lexer_state, identifierToLookup, scopes>>
lexer == <<lexer_state, identifierToLookup>>

-----------------------------------------------------------------------------
(* Semantic values.  own says what C11 derives from the declarator: the    *)
(* derivation closest to the name (by), the scope of its parameters and    *)
(* the file scope they were declared under if that is a parameter list,     *)
(* and the latest derivation (last).                                       *)

Derivation == {"none", "params", "idlist", "array", "pointer"}
NotDerived ==
  [by |-> "none", last |-> "none", scope |-> NoDeclarations, file |-> NoDeclarations]

Value ==
  [tag : {"string", "snapshot", "context"} \cup DeclaratorTag,
   identifier : Ids \cup {"none"},
   ctx : SUBSET Ids,
   own : [by : Derivation, last : Derivation, scope : Scope, file : Scope]]

ValueOf(d, own) == [tag |-> d.tag, identifier |-> d.identifier, ctx |-> d.ctx, own |-> own]
StringValue(id) == ValueOf([tag |-> "string", identifier |-> id, ctx |-> {}], NotDerived)
ContextValue(tag, c, own) == ValueOf([tag |-> tag, identifier |-> "none", ctx |-> c], own)
DeclaratorOf(v) == [tag |-> v.tag, identifier |-> v.identifier, ctx |-> v.ctx]

Derived(v, by, list) ==
  IF v.own.by = "none"
  THEN [by |-> by, last |-> by, scope |-> list.scope, file |-> list.file]
  ELSE [v.own EXCEPT !.last = by]

\* No array of functions, no function returning a function or an array (C11
\* 6.7.6.2p1, 6.7.6.3p1): programs do not contain them.
MayDerive(v, by) ==
  /\ v.own.last \in {"params", "idlist"} => by = "pointer"
  /\ v.own.last = "array" => by \notin {"params", "idlist"}

NoToken == [kind |-> "none", value |-> "none"]
Top == vals[Len(vals)]                     \* $$ of the last symbol
Below(n) == SubSeq(vals, 1, Len(vals) - n) \* the stack without the last n values
Push(v) == vals' = Append(vals, v)
Replace(v) == vals' = Append(Below(1), v)

\* Shape of the state; a name is held exactly by the values and the lexer
\* states that use one.
TypeOK ==
  /\ stack \in Seq(Nonterminal \cup Token \cup Action \cup Mark)
  /\ vals \in Seq(Value)
  /\ \A k \in DOMAIN vals :
       vals[k].identifier = "none" <=> vals[k].tag \in {"snapshot", "context"}
  /\ context \in SUBSET Ids
  /\ la \in [kind : Token \cup {"none"}, value : Ids \cup {"none"}]
  /\ lexer_state \in {"SRegular", "SIdent"}
  /\ identifierToLookup \in IF lexer_state = "SIdent" THEN Ids ELSE {"none"}
  /\ scopes \in Seq(Scope)
  /\ Len(scopes) \in 1..MaxDepth

Init ==
  /\ stack = Start
  /\ vals = <<>>
  /\ context = {}
  /\ la = NoToken
  /\ lexer_state = "SRegular"
  /\ identifierToLookup = "none"
  /\ scopes = <<NoDeclarations>>

-----------------------------------------------------------------------------
(* Derivation, lookahead and shift. *)

\* The i-th symbol to come is the next that is not an action.
IsNext(i) == Leads(stack, i)

\* What a mark means for the C11 scopes, v being the value before it.
Marked(ss, mark, v) ==
  CASE mark = "%scope"    -> Enter(ss, NoDeclarations)
    [] mark = "%body"     -> Enter(ss, v.own.scope)
    [] mark = "%end"      -> Leave(ss)
    [] mark = "%ordinary" -> Declare(ss, v.identifier, "other")
    [] mark = "%type"     -> Declare(ss, v.identifier, "type")

\* Symbols `rest' are still to come; a mark before the next is passed.
Goes(rest) ==
  /\ IF rest # <<>> /\ rest[1] \in Mark
     THEN /\ stack' = Tail(rest)
          /\ scopes' = Marked(scopes, rest[1], vals'[Len(vals')])
     ELSE stack' = rest /\ scopes' = scopes
  /\ Len(scopes') <= MaxDepth

\* The scopes that will be open where the next of these symbols is read.
DepthBefore(symbols) ==
  LET count(marks) == Cardinality({j \in Pending(symbols) : symbols[j] \in marks})
  IN  Len(scopes') + count({"%scope", "%body"}) - count({"%end"})

\* The rest of the program is chosen, as far as its next token: ahead of the
\* pending actions only if that token can matter to them or they to it.
Expand ==
  \E i \in DOMAIN stack :
    /\ IsNext(i)
    /\ stack[i] \in Nonterminal
    /\ UNCHANGED <<vals, context, la, lexer>>
    /\ \E rhs \in Derivations[stack[i]] :
         /\ i = 1 \/ stack[1] = "@below_ELSE" \/ FirstToken(rhs) \in {"NAME", "none"}
         /\ Goes(Spliced(stack, i, rhs))
    /\ Len(SelectSeq(stack', LAMBDA s : s \in Closing)) <= MaxBrackets
    /\ DepthBefore(stack') <= MaxDepth

\* Lexer::yylex, first half of an identifier: checkToken on a NAME
YylexName(i, id) ==
  /\ IsNext(i) /\ stack[i] = "NAME"
  /\ lexer_state = "SRegular"
  /\ la = NoToken
  /\ la' = [kind |-> "NAME", value |-> id]
  /\ lexer_state' = "SIdent"
  /\ identifierToLookup' = id
  /\ UNCHANGED <<stack, vals, context, scopes>>

\* Mutant of YylexSecondHalf: identifierToLookup is not cleared.
YylexSecondHalfKeepsName ==
  /\ lexer_state = "SIdent"
  /\ la = NoToken
  /\ la' = [kind |-> IF is_typedefname(context, identifierToLookup) THEN "TYPE" ELSE "VARIABLE",
            value |-> "none"]
  /\ lexer_state' = "SRegular"
  /\ UNCHANGED <<stack, vals, context, identifierToLookup, scopes>>

\* Lexer::yylex at entry in SIdent: the second half, whatever the parser needs
YylexSecondHalf ==
  /\ lexer_state = "SIdent"
  /\ la = NoToken
  /\ la' = [kind |-> IF is_typedefname(context, identifierToLookup) THEN "TYPE" ELSE "VARIABLE",
            value |-> "none"]
  /\ lexer_state' = "SRegular"
  /\ identifierToLookup' = "none"
  /\ UNCHANGED <<stack, vals, context, scopes>>

\* Lexer::yylex on any other token, which shares no state with the actions:
\* it is fetched when they have run, and then shifted at once, unless one of
\* them needs the lookahead.
YylexOther(i) ==
  /\ IsNext(i)
  /\ stack[i] \notin Nonterminal \cup {"NAME", "TYPE", "VARIABLE"}
  /\ lexer_state = "SRegular"
  /\ la = NoToken
  /\ \/ /\ i = 1
        /\ UNCHANGED <<vals, la>>
        /\ Goes(Tail(stack))
     \/ /\ i > 1 /\ stack[1] = "@below_ELSE"
        /\ la' = [kind |-> stack[i], value |-> "none"]
        /\ UNCHANGED <<stack, vals, scopes>>
  /\ UNCHANGED <<context, lexer>>

Shift ==
  /\ stack # <<>>
  /\ la # NoToken
  /\ stack[1] = la.kind
  /\ IF la.kind = "NAME" THEN Push(StringValue(la.value)) ELSE UNCHANGED vals
  /\ Goes(Tail(stack))
  /\ la' = NoToken
  /\ UNCHANGED <<context, lexer>>

-----------------------------------------------------------------------------
(* Semantic actions.  Each runs when it is next to come. *)

ToReduce(a) ==
  /\ stack # <<>>
  /\ stack[1] = a

Reduced ==
  /\ Goes(Tail(stack))
  /\ UNCHANGED <<la, lexer>>

\* save_context, before the construct whose rule restores it
SaveContext ==
  /\ ToReduce("@save_context")
  /\ Push(ContextValue("snapshot", save_context(context), NotDerived))
  /\ UNCHANGED context
  /\ Reduced

\* Mutant of ScopedStatement: the outermost live snapshot is restored.
ScopedStatementRestoresFirst ==
  /\ ToReduce("@restore_context")
  /\ context' = restore_context(SelectSeq(vals, LAMBDA v : v.tag = "snapshot")[1].ctx)
  /\ vals' = Below(1)
  /\ Reduced

\* scoped_compound_statement_, scoped_selection_statement_,
\* scoped_iteration_statement_, scoped_statement_
ScopedStatement ==
  /\ ToReduce("@restore_context")
  /\ context' = restore_context(Top.ctx)
  /\ vals' = Below(1)
  /\ Reduced

\* parameter_type_list: its save_context is the value of the list
ParameterTypeList ==
  /\ ToReduce("@parameter_type_list")
  /\ Push(ContextValue("context", save_context(context),
                       [NotDerived EXCEPT !.scope = scopes[Len(scopes)], !.file = scopes[1]]))
  /\ UNCHANGED context
  /\ Reduced

\* Mutant of ScopedParameterTypeList: the parameters are not left.
ScopedParameterTypeListKeepsContext ==
  /\ ToReduce("@scoped_parameter_type_list_")
  /\ vals' = Append(Below(2), Top)
  /\ UNCHANGED context
  /\ Reduced

\* Mutant of ScopedParameterTypeList: the two contexts are mixed up.
ScopedParameterTypeListReturnsOuter ==
  /\ ToReduce("@scoped_parameter_type_list_")
  /\ context' = restore_context(vals[Len(vals) - 1].ctx)
  /\ vals' = Append(Below(2), [Top EXCEPT !.ctx = vals[Len(vals) - 1].ctx])
  /\ Reduced

ScopedParameterTypeList ==
  /\ ToReduce("@scoped_parameter_type_list_")
  /\ context' = restore_context(vals[Len(vals) - 1].ctx)
  /\ vals' = Append(Below(2), Top)
  /\ Reduced

IdentifierDeclarator ==
  /\ ToReduce("@identifier_declarator")
  /\ Replace(ValueOf(identifier_declarator(Top.identifier), NotDerived))
  /\ UNCHANGED context
  /\ Reduced

\* direct_declarator "[" ... "]" and direct_declarator "(" identifiers ")"
OtherDeclarator(a, by) ==
  /\ ToReduce(a)
  /\ MayDerive(Top, by)
  /\ Replace(ValueOf(other_declarator(DeclaratorOf(Top)), Derived(Top, by, NotDerived)))
  /\ UNCHANGED context
  /\ Reduced

FunctionDeclarator ==
  /\ ToReduce("@function_declarator")
  /\ LET d == vals[Len(vals) - 1]
     IN  /\ MayDerive(d, "params")
         /\ vals' = Append(Below(2),
                           ValueOf(function_declarator(DeclaratorOf(d), Top.ctx),
                                   Derived(d, "params", Top.own)))
  /\ UNCHANGED context
  /\ Reduced

\* declarator: pointer direct_declarator - the value is passed on
PointerDeclarator ==
  /\ ToReduce("@pointer")
  /\ Replace(ValueOf(DeclaratorOf(Top), Derived(Top, "pointer", NotDerived)))
  /\ UNCHANGED context
  /\ Reduced

DeclaratorVarname ==
  /\ ToReduce("@declarator_varname")
  /\ context' = declare_varname(context, Top.identifier)
  /\ UNCHANGED vals
  /\ Reduced

DeclaratorTypedefname ==
  /\ ToReduce("@declarator_typedefname")
  /\ context' = declare_typedefname(context, Top.identifier)
  /\ UNCHANGED vals
  /\ Reduced

Enumerator ==
  /\ ToReduce("@enumerator")
  /\ context' = declare_varname(context, Top.identifier)
  /\ UNCHANGED vals
  /\ Reduced

\* A value no enclosing rule uses is popped with its symbol.
PopValue ==
  /\ ToReduce("@pop")
  /\ vals' = Below(1)
  /\ UNCHANGED context
  /\ Reduced

\* function_definition1.  A function definition declares a function (C11
\* 6.9.1p2); its body reopens the scope of the function's parameters.
FunctionDefinition1 ==
  /\ ToReduce("@function_definition1")
  /\ Top.own.by \in {"params", "idlist"}
  /\ Replace(ContextValue("snapshot", save_context(context), Top.own))
  /\ context' = reinstall_function_context(DeclaratorOf(Top), context)
  /\ Reduced

\* Mutant of FunctionDefinition: nothing is restored.
FunctionDefinitionKeepsContext ==
  /\ ToReduce("@function_definition")
  /\ vals' = Below(1)
  /\ UNCHANGED context
  /\ Reduced

FunctionDefinition ==
  /\ ToReduce("@function_definition")
  /\ context' = restore_context(Top.ctx)
  /\ vals' = Below(1)
  /\ Reduced

\* if without else: the rule has the lower precedence below_ELSE, so it is
\* reduced only on a lookahead other than "else".
IfWithoutElse ==
  /\ ToReduce("@below_ELSE")
  /\ la # NoToken
  /\ la.kind # "else"
  /\ UNCHANGED <<vals, context>>
  /\ Reduced

Next ==
  \/ Expand
  \/ \E i \in DOMAIN stack, id \in Ids : YylexName(i, id)
  \/ YylexSecondHalf
  \/ \E i \in DOMAIN stack : YylexOther(i)
  \/ Shift
  \/ SaveContext
  \/ ScopedStatement
  \/ ParameterTypeList
  \/ ScopedParameterTypeList
  \/ IdentifierDeclarator
  \/ OtherDeclarator("@array", "array")
  \/ OtherDeclarator("@identifier_list", "idlist")
  \/ FunctionDeclarator
  \/ PointerDeclarator
  \/ DeclaratorVarname
  \/ DeclaratorTypedefname
  \/ Enumerator
  \/ PopValue
  \/ FunctionDefinition1
  \/ FunctionDefinition
  \/ IfWithoutElse

Spec == Init /\ [][Next]_vars

-----------------------------------------------------------------------------
(* What the parser promises. *)

\* Each identifier is classified as C11's scope rules classify it at that
\* point of the text: the second half of its split token is TYPE iff the name
\* is visible as a typedef name, although bison may have read the NAME before
\* it ran the actions that declare, save and restore (yylex, c11parser.flex.l).
ClassifiedAsC11 ==
  [][YylexSecondHalf =>
       (la'.kind = "TYPE" <=> identifierToLookup \in Visible(scopes))]_vars

Feedback ==
  INSTANCE LexicalFeedback WITH
    token <- IF la.kind \in {"none", "NAME", "TYPE", "VARIABLE"} THEN la.kind ELSE "OTHER",
    name <- identifierToLookup, typedefs <- context

\* The parser asks for the second half as the scanner hands it out: what it
\* gets is classified by Context as the actions have left it at that moment.
UsesFeedback == Feedback!Spec

\* Between external declarations nothing of a finished declaration is left:
\* no semantic value, no open scope, no half-read identifier, and Context
\* holds what the file scope declares (translation_unit_file).
FileScopeClean ==
  (stack # <<>> /\ stack[1] \in {"translation_unit_file", "more_declarations"}) =>
    /\ vals = <<>>
    /\ la = NoToken /\ lexer_state = "SRegular"
    /\ Len(scopes) = 1
    /\ context = Types(scopes[1])

-----------------------------------------------------------------------------
(* The parser follows the discipline of ContextProtocol. *)

IsSnapshot(v) == v.tag = "snapshot"

\* The snapshots among the first k of the values vs.
Snapshots(vs, k) == {i \in 1..k : IsSnapshot(vs[i])}

\* The snapshots on the value stack that will be restored, outermost first.
LiveIn(vs) ==
  [j \in 1..Cardinality(Snapshots(vs, Len(vs))) |->
     vs[CHOOSE i \in DOMAIN vs : IsSnapshot(vs[i]) /\ Cardinality(Snapshots(vs, i)) = j].ctx]

LiveSnapshots == LiveIn(vals)

\* The list x as the protocol remembers it, read for the name fn.
AsParams(x, fn) == [ctx |-> x.ctx, scope |-> x.own.scope, file |-> x.own.file, fn |-> fn]

NoList == [ctx |-> {}, scope |-> NoDeclarations, file |-> NoDeclarations, fn |-> "none"]

\* The parameter list among the values vs that a definition would reopen: that of
\* the file-scope declarator being parsed, recorded in it or just read.
PendingIn(vs) ==
  IF "definition" \notin Features \/ vs = <<>> THEN NoList ELSE
  LET d == vs[1]
  IN  CASE d.tag = "function" /\ d.own.by = "params" -> AsParams(d, d.identifier)
        [] d.tag = "identifier" /\ d.own.by = "none" /\ Len(vs) >= 2 /\ vs[2].tag = "context"
             -> AsParams(vs[2], d.identifier)
        [] OTHER -> NoList

PendingParams == PendingIn(vals)

Protocol ==
  INSTANCE ContextProtocol WITH
    current <- context, saved <- LiveSnapshots, params <- PendingParams

\* Every step of the parser is a step of the protocol or leaves its state
\* alone, so what is proved of the protocol holds of the parser.
FollowsProtocol == Protocol!Spec
=============================================================================
