---------------------------- MODULE ParserProofs ----------------------------
(***************************************************************************)
(* Proofs about Parser for every set of spellings, features and bounds.     *)
(*                                                                         *)
(* First the two halves of an identifier: the scanner's state and the      *)
(* lookahead alone keep them together, whatever the grammar derives.       *)
(*                                                                         *)
(* Then the semantic actions.  ParserInv says that the symbols still to be *)
(* derived fit the values on bison's stack: some Shape K is what the       *)
(* symbols consume, one role after the other, and the values are those of  *)
(* K (Sound, in ParserValues), or those of K but for a pair of actions     *)
(* between which a name is read (Matches).  There is one lemma per action; *)
(* each also shows which step of ContextProtocol the action takes.         *)
(***************************************************************************)
EXTENDS ParserValues

(* A name is remembered exactly between its halves, when no other token has    *)
(* been fetched.                                                             *)
HalvesInv ==
  /\ lexer_state \in {"SRegular", "SIdent"}
  /\ lexer_state = "SRegular" => identifierToLookup = "none"
  /\ lexer_state = "SIdent" => identifierToLookup \in Ids /\ la.kind \in {"NAME", "none"}

LEMMA HalvesStart == Init => HalvesInv /\ Feedback!Init
  BY DEF Init, HalvesInv, Feedback!Init, NoToken

(* The semantic actions: each is a reduction. *)
LEMMA ReductionFeeds ==
  ASSUME HalvesInv, Reduced
  PROVE  HalvesInv' /\ Feedback!Declares
  BY DEF HalvesInv, Reduced, lexer, Feedback!Declares

LEMMA NameFeeds ==
  ASSUME HalvesInv, NEW i, NEW id \in Ids, YylexName(i, id)
  PROVE  HalvesInv' /\ Feedback!FirstHalf(id)
  BY DEF HalvesInv, YylexName, Feedback!FirstHalf

LEMMA SecondHalfFeeds ==
  ASSUME HalvesInv, YylexSecondHalf
  PROVE  HalvesInv' /\ Feedback!SecondHalf
<1>1. /\ identifierToLookup \in Ids /\ identifierToLookup # "none"
      /\ lexer_state' = "SRegular" /\ identifierToLookup' = "none"
  BY IdsAssumption DEF HalvesInv, YylexSecondHalf
<1>2. la'.kind = IF identifierToLookup \in context THEN "TYPE" ELSE "VARIABLE"
  BY DEF YylexSecondHalf, is_typedefname
<1>3. la.kind = "none" /\ context' = context
  BY DEF YylexSecondHalf, NoToken
<1> QED
  BY <1>1, <1>2, <1>3 DEF HalvesInv, Feedback!SecondHalf

\* Any other token: shifted at once it leaves no trace, fetched it is OtherToken.
LEMMA OtherFeeds ==
  ASSUME HalvesInv, NEW i, YylexOther(i)
  PROVE  HalvesInv' /\ (Feedback!OtherToken \/ Feedback!Taken \/ Feedback!Declares)
<1>1. /\ la.kind = "none" /\ identifierToLookup = "none" /\ context' = context
      /\ lexer_state' = lexer_state /\ identifierToLookup' = identifierToLookup
      /\ lexer_state = "SRegular"
  BY DEF HalvesInv, YylexOther, NoToken, lexer
<1>2. HalvesInv'
  BY <1>1 DEF HalvesInv
<1>3. CASE la' = la
  BY <1>1, <1>2, <1>3 DEF Feedback!Declares
<1>4. CASE la' = [kind |-> stack[i], value |-> "none"]
  <2>1. la'.kind = stack[i] /\ stack[i] \notin {"NAME", "TYPE", "VARIABLE"}
    BY <1>4 DEF YylexOther
  <2> QED
    BY <2>1, <1>1, <1>2 DEF Feedback!OtherToken, Feedback!Taken
<1> QED
  BY <1>2, <1>3, <1>4 DEF YylexOther

LEMMA ShiftFeeds ==
  ASSUME HalvesInv, Shift
  PROVE  HalvesInv' /\ Feedback!Taken
  BY DEF HalvesInv, Shift, lexer, NoToken, Feedback!Taken

LEMMA ExpandFeeds ==
  ASSUME HalvesInv, Expand
  PROVE  HalvesInv' /\ Feedback!Declares
  BY DEF HalvesInv, Expand, lexer, Feedback!Declares

LEMMA StepFeeds ==
  ASSUME HalvesInv, [Next]_vars
  PROVE  HalvesInv' /\ [Feedback!Next]_(Feedback!vars)
<1>1. CASE UNCHANGED vars
  BY <1>1 DEF vars, HalvesInv, Feedback!Next, Feedback!Declares
<1>2. CASE Expand
  BY <1>2, ExpandFeeds DEF Feedback!Next
<1>3. ASSUME NEW i \in DOMAIN stack, NEW id \in Ids, YylexName(i, id)
      PROVE  HalvesInv' /\ Feedback!Next
  BY <1>3, NameFeeds DEF Feedback!Next
<1>4. CASE YylexSecondHalf
  BY <1>4, SecondHalfFeeds DEF Feedback!Next
<1>5. ASSUME NEW i \in DOMAIN stack, YylexOther(i)
      PROVE  HalvesInv' /\ Feedback!Next
  BY <1>5, OtherFeeds DEF Feedback!Next
<1>6. CASE Shift
  BY <1>6, ShiftFeeds DEF Feedback!Next
<1>7. CASE Reduced
  BY <1>7, ReductionFeeds DEF Feedback!Next
<1>8. ASSUME Next, ~Reduced
      PROVE  \/ Expand \/ YylexSecondHalf \/ Shift
             \/ \E i \in DOMAIN stack, id \in Ids : YylexName(i, id)
             \/ \E i \in DOMAIN stack : YylexOther(i)
  BY <1>8 DEF Next, SaveContext, ScopedStatement, ParameterTypeList,
    ScopedParameterTypeList, IdentifierDeclarator, OtherDeclarator, FunctionDeclarator,
    PointerDeclarator, DeclaratorVarname, DeclaratorTypedefname, Enumerator, PopValue,
    FunctionDefinition1, FunctionDefinition, IfWithoutElse
<1> QED
  BY <1>1, <1>2, <1>3, <1>4, <1>5, <1>6, <1>7, <1>8

(* Whatever the grammar derives and its actions declare, the parser takes      *)
(* identifiers as the scanner's contract hands them out (%parse-param Lexer,   *)
(* yylex in c11parser.flex.l).                                               *)
THEOREM UsesFeedbackHolds == Spec => UsesFeedback
<1>1. Init => HalvesInv /\ Feedback!Init
  BY HalvesStart
<1>2. HalvesInv /\ [Next]_vars => HalvesInv' /\ [Feedback!Next]_(Feedback!vars)
  BY StepFeeds
<1> QED
  BY <1>1, <1>2, PTL DEF Spec, UsesFeedback, Feedback!Spec

-----------------------------------------------------------------------------
(* The symbols that the rest of a program is made of. *)

Vocabulary == Nonterminal \cup Token \cup Action \cup Mark

LEMMA SpelledProductions ==
  \A nt \in Nonterminal : Productions[nt] \subseteq Seq(Vocabulary) \cap Seq(Symbol)
<1> SUFFICES ASSUME NEW nt \in Nonterminal, NEW rhs \in Productions[nt]
             PROVE  rhs \in Seq(Vocabulary) \cap Seq(Symbol)
  OBVIOUS
<1>1. rhs \in Seq(Symbol)
  BY GrammarTyped DEF Good
<1>2. \A i \in 1..Len(rhs) : rhs[i] \in ToSet(rhs)
  BY <1>1 DEF ToSet
<1>3. ToSet(rhs) \in {ToSet(x) : x \in UNION {Productions[n] : n \in Nonterminal}}
  OBVIOUS
<1>4. \A i \in 1..Len(rhs) : rhs[i] \in Vocabulary
  BY <1>2, <1>3 DEF Token, Vocabulary
<1> QED
  BY <1>1, <1>4

LEMMA VocabularyIsSymbols == Vocabulary \subseteq Symbol
<1>1. Nonterminal \cup Action \cup Mark \subseteq Symbol
  BY Nonterminals DEF Symbol
<1>2. ASSUME NEW t \in Token PROVE t \in Symbol
  <2>1. PICK nt \in Nonterminal : \E rhs \in Productions[nt] : t \in ToSet(rhs)
    BY <1>2 DEF Token
  <2>2. PICK rhs \in Productions[nt] : t \in ToSet(rhs)
    BY <2>1
  <2>3. PICK i \in DOMAIN rhs : t = rhs[i]
    BY <2>2 DEF ToSet
  <2>4. rhs \in Seq(Symbol)
    BY SpelledProductions
  <2> QED
    BY <2>3, <2>4
<1> QED
  BY <1>1, <1>2 DEF Vocabulary

LEMMA SpelledSplice ==
  ASSUME NEW S, NEW seq \in Seq(S), NEW i \in 1..Len(seq), NEW x \in Seq(S)
  PROVE  Spliced(seq, i, x) \in Seq(S)
  BY DEF Spliced

LEMMA SpelledUnfold ==
  ASSUME NEW rules, \A nt \in Nonterminal : rules[nt] \subseteq Seq(Vocabulary)
  PROVE  \A nt \in Nonterminal : Unfold(rules)[nt] \subseteq Seq(Vocabulary)
<1> SUFFICES ASSUME NEW nt \in Nonterminal, NEW y \in Unfold(rules)[nt]
             PROVE  y \in Seq(Vocabulary)
  OBVIOUS
<1>1. \/ y \in rules[nt]
      \/ \E rhs \in rules[nt] : \E i \in DOMAIN rhs :
           rhs[i] \in Nonterminal /\ \E x \in Productions[rhs[i]] : y = Spliced(rhs, i, x)
  BY DEF Unfold
<1>2. ASSUME NEW rhs \in rules[nt], NEW i \in DOMAIN rhs, rhs[i] \in Nonterminal,
             NEW x \in Productions[rhs[i]]
      PROVE  Spliced(rhs, i, x) \in Seq(Vocabulary)
  <2>1. rhs \in Seq(Vocabulary) /\ i \in 1..Len(rhs) /\ x \in Seq(Vocabulary)
    BY <1>2, SpelledProductions
  <2> QED
    BY <2>1, SpelledSplice
<1> QED
  BY <1>1, <1>2

LEMMA SpelledDerivations == \A nt \in Nonterminal : Derivations[nt] \subseteq Seq(Vocabulary)
<1> DEFINE Ok(rules) == \A nt \in Nonterminal : rules[nt] \subseteq Seq(Vocabulary)
<1>1. Ok(Productions)
  BY SpelledProductions
<1>2. \A rules : Ok(rules) => Ok(Unfold(rules))
  BY SpelledUnfold
<1> HIDE DEF Ok
<1>3. Ok(Derivations)
  BY <1>1, <1>2 DEF Derivations
<1> QED
  BY <1>3 DEF Ok

LEMMA TokensAre ==
  /\ {"YYEOF", "NAME", "TYPE", "VARIABLE"} \subseteq Token
  /\ Token \cap Nonterminal = {} /\ Token \cap Silent = {} /\ Nonterminal \cap Silent = {}
  /\ "translation_unit_file" \in Nonterminal
<1>1. /\ {"YYEOF", "NAME", "TYPE", "VARIABLE"} \cap (Nonterminal \cup Action \cup Mark) = {}
      /\ Nonterminal \cap Silent = {}
      /\ {"translation_unit_file", "more_declarations", "general_identifier"} \subseteq Nonterminal
  BY Nonterminals
     DEF FileLevel, Local, Anywhere, ParameterDeclarator, Special, Action, Mark, Silent
<1>2. <<"YYEOF">> \in Productions["more_declarations"]
  <2>1. "more_declarations" \in DOMAIN TranslationUnit
        /\ <<"YYEOF">> \in TranslationUnit["more_declarations"]
    BY DEF TranslationUnit
  <2> QED
    BY <2>1 DEF Productions
<1>3. /\ <<"NAME", "TYPE">> \in Productions["general_identifier"]
      /\ <<"NAME", "VARIABLE">> \in Productions["general_identifier"]
  <2>1. /\ "general_identifier" \in DOMAIN Identifiers
        /\ <<"NAME", "TYPE">> \in Identifiers["general_identifier"]
        /\ <<"NAME", "VARIABLE">> \in Identifiers["general_identifier"]
    BY DEF Identifiers
  <2> QED
    BY <2>1 DEF Productions
<1>4. ASSUME NEW nt \in Nonterminal, NEW rhs \in Productions[nt], NEW t \in ToSet(rhs),
             t \notin Nonterminal \cup Action \cup Mark
      PROVE  t \in Token
  BY <1>4 DEF Token
<1>5. /\ "YYEOF" \in ToSet(<<"YYEOF">>)
      /\ "NAME" \in ToSet(<<"NAME", "TYPE">>) /\ "TYPE" \in ToSet(<<"NAME", "TYPE">>)
      /\ "VARIABLE" \in ToSet(<<"NAME", "VARIABLE">>)
  BY DEF ToSet
<1>6. {"YYEOF", "NAME", "TYPE", "VARIABLE"} \subseteq Token
  BY <1>1, <1>2, <1>3, <1>4, <1>5
<1> QED
  BY <1>1, <1>6 DEF Token, Silent

-----------------------------------------------------------------------------
(* What must follow a value that awaits something. *)

MarkRole == {"saved", "left", "closing", "varname", "constant", "heldvar", "typename", "body"}

Expected(r) ==
  CASE r = "half" -> {"TYPE", "VARIABLE"}
    [] r = "saved" -> {"%scope"}
    [] r \in {"left", "closing"} -> {"%end"}
    [] r \in {"varname", "constant", "heldvar"} -> {"%ordinary"}
    [] r = "typename" -> {"%type"}
    [] r = "body" -> {"%body"}
    [] r = "list" -> {"@scoped_parameter_type_list_"}
    [] r = "defined" -> {"@function_definition1"}

LEMMA LastOfAppended ==
  ASSUME NEW c \in Shape, NEW r \in Role
  PROVE  /\ Append(c, r) \in Shape /\ Append(c, r) # <<>>
         /\ Append(c, r)[Len(Append(c, r))] = r
<1> DEFINE b == Append(c, r)
<1>1. b \in Shape /\ b # <<>> /\ Len(b) = Len(c) + 1 /\ b[Len(c) + 1] = r
  BY AppendedShape
<1> HIDE DEF b
<1>2. b \in Shape /\ b # <<>> /\ b[Len(b)] = r
  BY <1>1
<1> QED
  BY <1>2 DEF b

LEMMA SameAppended ==
  ASSUME NEW c \in Shape, NEW r \in Role
  PROVE  \A x \in Shape, y \in Role : Append(c, r) = Append(x, y) => x = c /\ y = r
  BY AppendEqual DEF Shape

LEMMA LastOfReplaced ==
  ASSUME NEW a, NEW b, NEW r1 \in Role, NEW r2, Replaces(a, b, r1, r2)
  PROVE  a # <<>> /\ a[Len(a)] = r1
  BY AppendedShape DEF Replaces

LEMMA LastOfDeclarator ==
  ASSUME NEW a, OnDeclarator(a)
  PROVE  a # <<>> /\ a[Len(a)] \in {"held", "declarator"}
<1>1. "declarator" \in Role
  BY DEF Role
<1>2. CASE a = <<"held">>
  BY <1>2
<1>3. ASSUME NEW c \in Shape, a = Append(c, "declarator")
      PROVE  a # <<>> /\ a[Len(a)] = "declarator"
  BY <1>1, <1>3, AppendedShape
<1> QED
  BY <1>2, <1>3 DEF OnDeclarator

LEMMA AwaitedSymbol ==
  ASSUME NEW a \in Shape, a # <<>>, a[Len(a)] \in Awaiting, NEW s \in Symbol, NEW b \in Shape,
         Effect(s, a, b)
  PROVE  s \in Expected(a[Len(a)])
<1> DEFINE r == a[Len(a)]
<1>1. ~Open(a) /\ ~Free(a)
  BY DEF Open, Free
<1>2. ~OnDeclarator(a)
  BY LastOfDeclarator DEF Awaiting
<1>3. \A r1 \in Role, r2 \in Role : Replaces(a, b, r1, r2) => r = r1
  BY LastOfReplaced
<1>4. \A c \in Shape, r1 \in Role : a = Append(c, r1) => r = r1
  BY AppendedShape
<1>5. /\ \A x \in {"half", "saved", "block", "plist", "closing", "string", "context", "declarator",
                   "varname", "typename", "constant", "held", "heldvar", "defined", "left",
                   "list", "body"} : x \in Role
      /\ \A x \in {"string", "declarator", "context", "block", "plist", "held"} : x \notin Awaiting
  BY DEF Role, Awaiting
<1>6. r = "half" \/ r \in MarkRole \/ r \in {"list", "defined"}
  BY DEF Awaiting, MarkRole
<1>7. CASE s \in FileLevel \cup Local \cup Anywhere \cup ParameterDeclarator \cup Plain
  BY <1>1, <1>7, FileLevelEffect, LocalEffect, AnywhereEffect, ParameterDeclaratorEffect, PlainEffect
<1>8. CASE s \in Special
  BY <1>1, <1>2, <1>8, NameEffect, DeclaratorEffect, DeclaratorVarnameEffect,
     DeclaratorTypedefnameEffect, SuffixesEffect, ScopedListEffect, FunctionEffect,
     Function1Effect DEF Special
<1>9. CASE s \in {"NAME", "TYPE", "VARIABLE"}
  BY <1>1, <1>3, <1>5, <1>9, FirstHalfEffect, SecondHalfEffect DEF Expected
<1>10. CASE s \in Mark
  <2>1. CASE s = "%scope"
    BY <1>3, <1>5, <2>1, ScopeEffect DEF Expected
  <2>2. CASE s = "%end"
    BY <1>3, <1>4, <1>5, <2>2, EndEffect DEF Expected
  <2>3. CASE s = "%body"
    <3>1. a = <<"body">>
      BY <2>3, BodyEffect
    <3> QED
      BY <2>3, <3>1 DEF Expected
  <2>4. CASE s = "%ordinary"
    <3>1. a = <<"heldvar">> => r = "heldvar"
      OBVIOUS
    <3>2. r \in {"varname", "constant", "heldvar"}
      BY <1>3, <1>5, <2>4, <3>1, OrdinaryEffect
    <3> QED
      BY <2>4, <3>2 DEF Expected
  <2>5. CASE s = "%type"
    BY <1>3, <1>5, <2>5, TypeEffect DEF Expected
  <2> QED
    BY <1>10, <2>1, <2>2, <2>3, <2>4, <2>5 DEF Mark
<1>11. CASE s \in Action
  <2>1. CASE s = "@below_ELSE"
    BY <1>7, <2>1 DEF Plain
  <2>2. CASE s \in {"@save_context", "@array", "@identifier_list", "@pointer"}
    BY <1>1, <1>2, <2>2, SaveEffect, ArrayEffect, IdentifierListEffect, PointerEffect
  <2>3. CASE s \in {"@restore_context", "@function_definition"}
    BY <1>3, <1>5, <2>3, RestoreEffect
  <2>4. CASE s = "@parameter_type_list"
    BY <1>4, <1>5, <2>4, ListEffect
  <2>5. CASE s = "@scoped_parameter_type_list_"
    <3>1. PICK c \in Shape : a = Append(Append(c, "plist"), "list")
      BY <2>5, LeaveListEffect
    <3>2. r = "list"
      BY <1>4, <1>5, <3>1, AppendedShape
    <3> QED
      BY <2>5, <3>2 DEF Expected
  <2>6. CASE s = "@identifier_declarator"
    <3>1. a = <<"string">> => r = "string"
      OBVIOUS
    <3> QED
      BY <1>3, <1>5, <2>6, <3>1, IdentifierEffect
  <2>7. CASE s = "@function_declarator"
    <3>1. a = Append(b, "context")
      BY <2>7, FunctionDeclaratorEffect
    <3> QED
      BY <1>4, <1>5, <3>1
  <2>8. CASE s \in {"@declarator_varname", "@declarator_typedefname", "@enumerator"}
    <3>1. a = <<"held">> => r = "held"
      OBVIOUS
    <3> QED
      BY <1>1, <1>5, <2>8, <3>1, DeclareVarEffect, DeclareTypeEffect, EnumeratorEffect
  <2>9. CASE s = "@pop"
    BY <1>4, <1>5, <2>9, PopEffect
  <2>10. CASE s = "@function_definition1"
    <3>1. a = <<"defined">>
      BY <2>10, DefineEffect
    <3> QED
      BY <2>10, <3>1 DEF Expected
  <2> QED
    BY <1>11, <2>1, <2>2, <2>3, <2>4, <2>5, <2>6, <2>7, <2>8, <2>9, <2>10 DEF Action
<1> QED
  BY <1>7, <1>8, <1>9, <1>10, <1>11 DEF Symbol

LEMMA MarksAwaited ==
  ASSUME NEW a \in Shape, NEW s \in Mark, NEW b \in Shape, Effect(s, a, b)
  PROVE  a # <<>> /\ a[Len(a)] \in MarkRole
<1>1. \A r1 \in Role, r2 \in Role : Replaces(a, b, r1, r2) => a # <<>> /\ a[Len(a)] = r1
  BY LastOfReplaced
<1>2. \A c \in Shape, r1 \in Role : a = Append(c, r1) => a # <<>> /\ a[Len(a)] = r1
  BY AppendedShape
<1>3. \A x \in {"saved", "plist", "block", "left", "closing", "varname", "constant", "typename",
                "context", "declarator", "string"} : x \in Role
  BY DEF Role
<1>4. CASE s = "%scope"
  BY <1>1, <1>3, <1>4, ScopeEffect DEF MarkRole
<1>5. CASE s = "%end"
  BY <1>1, <1>2, <1>3, <1>5, EndEffect DEF MarkRole
<1>6. CASE s = "%body"
  <2>1. a = <<"body">>
    BY <1>6, BodyEffect
  <2> QED
    BY <2>1 DEF MarkRole
<1>7. CASE s = "%ordinary"
  <2>1. a = <<"heldvar">> => a # <<>> /\ a[Len(a)] = "heldvar"
    OBVIOUS
  <2> QED
    BY <1>1, <1>3, <1>7, <2>1, OrdinaryEffect DEF MarkRole
<1>8. CASE s = "%type"
  BY <1>1, <1>3, <1>8, TypeEffect DEF MarkRole
<1> QED
  BY <1>4, <1>5, <1>6, <1>7, <1>8 DEF Mark

-----------------------------------------------------------------------------
(* Taking the first symbol. *)

LEMMA FirstOf ==
  ASSUME NEW seq \in Seq(Symbol), seq # <<>>, NEW a, FitsBetween(seq, a, <<>>)
  PROVE  /\ seq[1] \in Symbol /\ Tail(seq) \in Seq(Symbol)
         /\ \E b \in Shape : Effect(seq[1], a, b) /\ FitsBetween(Tail(seq), b, <<>>)
<1>1. Len(seq) \in Nat /\ 1 \in 1..Len(seq) /\ seq[1] \in Symbol /\ Tail(seq) \in Seq(Symbol)
  OBVIOUS
<1>2. PICK c \in Shape, d \in Shape :
        /\ FitsBetween(SubSeq(seq, 1, 1 - 1), a, c)
        /\ Effect(seq[1], c, d)
        /\ FitsBetween(SubSeq(seq, 1 + 1, Len(seq)), d, <<>>)
  BY <1>1, FitsSplit
<1>3. SubSeq(seq, 1, 1 - 1) = <<>> /\ SubSeq(seq, 1 + 1, Len(seq)) = Tail(seq)
  BY <1>1
<1>4. <<>> \in Seq(Symbol)
  OBVIOUS
<1>5. a = c
  BY <1>2, <1>3, <1>4, FitsEnds
<1> QED
  BY <1>1, <1>2, <1>3, <1>5

LEMMA NothingLeft ==
  ASSUME NEW a, FitsBetween(<<>>, a, <<>>)
  PROVE  a = <<>>
<1>1. <<>> \in Seq(Symbol)
  OBVIOUS
<1> QED
  BY <1>1, FitsEnds

(* A step goes on to the next symbol, past the mark that the value awaits.    *)
LEMMA GoesOn ==
  ASSUME NEW rest \in Seq(Symbol), NEW b \in Shape, FitsBetween(rest, b, <<>>), Goes(rest),
         b = <<>> \/ b[Len(b)] \notin MarkRole
  PROVE  stack' = rest /\ scopes' = scopes /\ Len(scopes') <= MaxDepth
<1>1. ASSUME rest # <<>>, rest[1] \in Mark PROVE FALSE
  <2>1. PICK d \in Shape : Effect(rest[1], b, d)
    BY <1>1, FirstOf
  <2> QED
    BY <1>1, <2>1, MarksAwaited
<1> QED
  BY <1>1 DEF Goes

LEMMA GoesPast ==
  ASSUME NEW rest \in Seq(Symbol), NEW b \in Shape, FitsBetween(rest, b, <<>>), Goes(rest),
         b # <<>>, b[Len(b)] \in MarkRole
  PROVE  \E m \in Expected(b[Len(b)]), d \in Shape :
           /\ Effect(m, b, d) /\ FitsBetween(stack', d, <<>>)
           /\ rest # <<>> /\ rest[1] = m /\ m \in Mark
           /\ stack' = Tail(rest) /\ scopes' = Marked(scopes, m, vals'[Len(vals')])
           /\ Len(scopes') <= MaxDepth
<1>1. rest # <<>>
  BY NothingLeft
<1>2. PICK d \in Shape : Effect(rest[1], b, d) /\ FitsBetween(Tail(rest), d, <<>>)
  BY <1>1, FirstOf
<1>3. rest[1] \in Expected(b[Len(b)])
  BY <1>1, <1>2, FirstOf, AwaitedSymbol DEF MarkRole, Awaiting
<1>4. rest[1] \in Mark
  BY <1>3 DEF Expected, MarkRole, Mark
<1> QED
  BY <1>1, <1>2, <1>3, <1>4 DEF Goes

(* The same, role by role. *)
LEMMA GoesScope ==
  ASSUME NEW rest \in Seq(Symbol), NEW c \in Shape, FitsBetween(rest, Append(c, "saved"), <<>>),
         Goes(rest)
  PROVE  /\ Len(scopes') <= MaxDepth /\ scopes' = Enter(scopes, NoDeclarations)
         /\ rest # <<>> /\ rest[1] \in Mark /\ stack' = Tail(rest)
         /\ \/ FitsBetween(stack', Append(c, "plist"), <<>>)
            \/ OutsideList(c) /\ FitsBetween(stack', Append(c, "block"), <<>>)
<1> DEFINE b == Append(c, "saved")
<1>1. "saved" \in Role
  BY DEF Role
<1>2. b \in Shape /\ b # <<>> /\ b[Len(b)] = "saved"
  BY <1>1, LastOfAppended
<1> HIDE DEF b
<1>3. PICK m \in Expected("saved"), d \in Shape :
           /\ Effect(m, b, d) /\ FitsBetween(stack', d, <<>>)
           /\ rest # <<>> /\ rest[1] = m /\ m \in Mark
           /\ stack' = Tail(rest) /\ scopes' = Marked(scopes, m, vals'[Len(vals')])
           /\ Len(scopes') <= MaxDepth
  BY <1>2, GoesPast DEF b, MarkRole
<1>4. m = "%scope"
  BY <1>3 DEF Expected
<1>5. \A x \in Shape : b = Append(x, "saved") => x = c
  BY <1>1, SameAppended DEF b
<1>6. Replaces(b, d, "saved", "plist") \/ (OutsideList(b) /\ Replaces(b, d, "saved", "block"))
  BY <1>3, <1>4, ScopeEffect
<1>7. \/ d = Append(c, "plist")
      \/ d = Append(c, "block") /\ OutsideList(b)
  BY <1>5, <1>6 DEF Replaces
<1>8. OutsideList(b) => OutsideList(c)
  BY <1>1, AppendedOutsideList DEF b
<1>9. scopes' = Enter(scopes, NoDeclarations)
  BY <1>3, <1>4 DEF Marked
<1> QED
  BY <1>3, <1>7, <1>8, <1>9

LEMMA GoesEnd ==
  ASSUME NEW rest \in Seq(Symbol), NEW c \in Shape, NEW r \in {"left", "closing"},
         FitsBetween(rest, Append(c, r), <<>>), Goes(rest)
  PROVE  /\ Len(scopes') <= MaxDepth /\ scopes' = Leave(scopes)
         /\ rest # <<>> /\ rest[1] \in Mark /\ stack' = Tail(rest)
         /\ r = "left" => FitsBetween(stack', c, <<>>)
         /\ r = "closing" => FitsBetween(stack', Append(c, "context"), <<>>)
<1> DEFINE b == Append(c, r)
<1>1. r \in Role /\ "left" \in Role /\ "closing" \in Role
  BY DEF Role
<1>2. b \in Shape /\ b # <<>> /\ b[Len(b)] = r
  BY <1>1, LastOfAppended
<1>3. \A x \in Shape, y \in Role : b = Append(x, y) => x = c /\ y = r
  BY <1>1, SameAppended
<1> HIDE DEF b
<1>4. PICK m \in Expected(r), d \in Shape :
           /\ Effect(m, b, d) /\ FitsBetween(stack', d, <<>>)
           /\ rest # <<>> /\ rest[1] = m /\ m \in Mark
           /\ stack' = Tail(rest) /\ scopes' = Marked(scopes, m, vals'[Len(vals')])
           /\ Len(scopes') <= MaxDepth
  BY <1>2, GoesPast DEF b, MarkRole
<1>5. m = "%end"
  BY <1>4 DEF Expected
<1>6. b = Append(d, "left") \/ Replaces(b, d, "closing", "context")
  BY <1>4, <1>5, EndEffect
<1>7. r = "left" => d = c
  BY <1>1, <1>3, <1>6 DEF Replaces
<1>8. r = "closing" => d = Append(c, "context")
  BY <1>1, <1>3, <1>6 DEF Replaces
<1>9. scopes' = Leave(scopes)
  BY <1>4, <1>5 DEF Marked
<1> QED
  BY <1>4, <1>7, <1>8, <1>9

LEMMA GoesDeclared ==
  ASSUME NEW rest \in Seq(Symbol), NEW c \in Shape, NEW r \in {"varname", "constant", "typename"},
         FitsBetween(rest, Append(c, r), <<>>), Goes(rest)
  PROVE  /\ Len(scopes') <= MaxDepth
         /\ scopes' = Declare(scopes, vals'[Len(vals')].identifier,
                              IF r = "typename" THEN "type" ELSE "other")
         /\ rest # <<>> /\ rest[1] \in Mark /\ stack' = Tail(rest)
         /\ FitsBetween(stack', Append(c, IF r = "constant" THEN "string" ELSE "declarator"), <<>>)
<1> DEFINE b == Append(c, r)
<1>1. r \in Role /\ {"varname", "constant", "typename"} \subseteq Role
  BY DEF Role
<1>2. b \in Shape /\ b # <<>> /\ b[Len(b)] = r
  BY <1>1, LastOfAppended
<1>3. \A x \in Shape, y \in Role : b = Append(x, y) => x = c /\ y = r
  BY <1>1, SameAppended
<1>4. b # <<"heldvar">>
  <2>1. <<"heldvar">>[Len(<<"heldvar">>)] = "heldvar"
    OBVIOUS
  <2> HIDE DEF b
  <2> QED
    BY <1>2, <2>1
<1> HIDE DEF b
<1>5. PICK m \in Expected(r), d \in Shape :
           /\ Effect(m, b, d) /\ FitsBetween(stack', d, <<>>)
           /\ rest # <<>> /\ rest[1] = m /\ m \in Mark
           /\ stack' = Tail(rest) /\ scopes' = Marked(scopes, m, vals'[Len(vals')])
           /\ Len(scopes') <= MaxDepth
  BY <1>2, GoesPast DEF b, MarkRole
<1>6. CASE r = "typename"
  <2>1. m = "%type"
    BY <1>5, <1>6 DEF Expected
  <2>2. Replaces(b, d, "typename", "declarator")
    BY <1>5, <2>1, TypeEffect
  <2>3. d = Append(c, "declarator")
    BY <1>3, <1>1, <2>2 DEF Replaces
  <2> QED
    BY <1>5, <1>6, <2>1, <2>3 DEF Marked
<1>7. CASE r # "typename"
  <2>1. m = "%ordinary"
    BY <1>5, <1>7 DEF Expected
  <2>2. Replaces(b, d, "varname", "declarator") \/ Replaces(b, d, "constant", "string")
    BY <1>4, <1>5, <2>1, OrdinaryEffect
  <2>3. d = Append(c, IF r = "constant" THEN "string" ELSE "declarator")
    BY <1>3, <1>1, <2>2 DEF Replaces
  <2> QED
    BY <1>5, <1>7, <2>1, <2>3 DEF Marked
<1> QED
  BY <1>6, <1>7

LEMMA GoesDefined ==
  ASSUME NEW rest \in Seq(Symbol), NEW r \in {"heldvar", "body"},
         FitsBetween(rest, <<r>>, <<>>), Goes(rest)
  PROVE  /\ Len(scopes') <= MaxDepth
         /\ r = "heldvar" => /\ scopes' = Declare(scopes, vals'[Len(vals')].identifier, "other")
                             /\ FitsBetween(stack', <<"defined">>, <<>>)
         /\ r = "body" => /\ scopes' = Enter(scopes, vals'[Len(vals')].own.scope)
                          /\ FitsBetween(stack', <<"block">>, <<>>)
         /\ rest # <<>> /\ rest[1] \in Mark /\ stack' = Tail(rest)
<1> DEFINE b == <<r>>
<1>1. r \in Role /\ {"varname", "constant", "typename"} \subseteq Role
  BY DEF Role
<1>2. b \in Shape /\ b # <<>> /\ b[Len(b)] = r
  BY <1>1 DEF Shape
<1> HIDE DEF b
<1>3. PICK m \in Expected(r), d \in Shape :
           /\ Effect(m, b, d) /\ FitsBetween(stack', d, <<>>)
           /\ rest # <<>> /\ rest[1] = m /\ m \in Mark
           /\ stack' = Tail(rest) /\ scopes' = Marked(scopes, m, vals'[Len(vals')])
           /\ Len(scopes') <= MaxDepth
  BY <1>2, GoesPast DEF b, MarkRole
<1>4. CASE r = "heldvar"
  <2>1. m = "%ordinary"
    BY <1>3, <1>4 DEF Expected
  <2>2. d = <<"defined">>
    <3>1. \A r1 \in Role : \A r2 : Replaces(b, d, r1, r2) => r1 = "heldvar"
      BY <1>2, <1>4, LastOfReplaced
    <3> QED
      BY <1>1, <1>3, <2>1, <3>1, OrdinaryEffect
  <2> QED
    BY <1>3, <1>4, <2>1, <2>2 DEF Marked
<1>5. CASE r = "body"
  <2>1. m = "%body"
    BY <1>3, <1>5 DEF Expected
  <2> QED
    BY <1>3, <1>5, <2>1, BodyEffect DEF Marked
<1> QED
  BY <1>4, <1>5

-----------------------------------------------------------------------------
(* The invariant.  A shape fits the symbols to come, and the values on the      *)
(* stack suit it; where the shape awaits something, what it waits with is a     *)
(* name whose second half is to come, a list whose parameters are still         *)
(* declared, or the declarator of a function that was just declared.           *)

HalfRead == (lexer_state = "SIdent" /\ la = NoToken) \/ la.kind \in {"TYPE", "VARIABLE"}

JustRead(list, ctx, ss) ==
  list.ctx = ctx /\ list.own.scope = ss[Len(ss)] /\ list.own.file = ss[1]

JustDeclared(d, file) ==
  /\ file[d.identifier] = "other"
  /\ ~Lossy /\ d.own.by = "params" =>
       \A id \in Ids \ {d.identifier} : file[id] = d.own.file[id]

Matches(K, half, vs, ctx, ss) ==
  \/ ~half /\ Sound(K, vs, ss)
  \/ half /\ \E c \in Shape : K = Append(c, "half") /\ Sound(Append(c, "string"), vs, ss)
  \/ ~half /\ \E c \in Shape : /\ K = Append(Append(c, "plist"), "list")
                               /\ Sound(Append(Append(c, "plist"), "context"), vs, ss)
                               /\ JustRead(vs[Len(vs)], ctx, ss)
  \/ ~half /\ K = <<"defined">> /\ Definition /\ Sound(<<"declarator">>, vs, ss)
           /\ JustDeclared(vs[1], ss[1])

Balanced ==
  \E K \in Shape : FitsBetween(stack, K, <<>>) /\ Matches(K, HalfRead, vals, context, scopes)

\* The lookahead is the second half of a name, or the next symbol that is read.
LookaheadFits ==
  \/ la = NoToken
  \/ la.kind \in {"TYPE", "VARIABLE"} /\ la.value = "none" /\ lexer_state = "SRegular"
  \/ /\ la.kind \in Token \ {"TYPE", "VARIABLE"}
     /\ \E i \in Nat : Leads(stack, i) /\ stack[i] = la.kind
     /\ IF la.kind = "NAME" THEN la.value \in Ids /\ lexer_state = "SIdent"
        ELSE lexer_state = "SRegular"

Framed ==
  /\ HalvesInv
  /\ stack \in Seq(Vocabulary)
  /\ context \in SUBSET Ids
  /\ la \in [kind : Token \cup {"none"}, value : Ids \cup {"none"}]
  /\ LookaheadFits
  /\ Len(scopes) <= MaxDepth

ParserInv == Framed /\ Balanced

\* What the protocol lets happen.
Follows == [Protocol!Next]_(Protocol!vars)

(* The same, but that the table may be anything where a scope begins.             *)
DeclaredIn(ctx, id, kind) ==
  IF kind = "type" THEN declare_typedefname(ctx, id) ELSE declare_varname(ctx, id)

Nests ==
  \/ UNCHANGED <<context, LiveSnapshots, scopes>>
  \/ /\ LiveSnapshots' = Append(LiveSnapshots, context)
     /\ \E scope : scopes' = Enter(scopes, scope)
  \/ /\ Len(LiveSnapshots) > 0
     /\ context' = LiveSnapshots[Len(LiveSnapshots)]
     /\ LiveSnapshots' = SubSeq(LiveSnapshots, 1, Len(LiveSnapshots) - 1)
     /\ scopes' = Leave(scopes)
  \/ \E id \in Ids, kind \in {"type", "other"} :
       /\ context' = DeclaredIn(context, id, kind)
       /\ scopes' = Declare(scopes, id, kind)
       /\ UNCHANGED LiveSnapshots

-----------------------------------------------------------------------------
(* What all reductions have in common. *)

LEMMA StackSpelled ==
  ASSUME Framed
  PROVE  stack \in Seq(Symbol)
  BY VocabularyIsSymbols DEF Framed

LEMMA ReductionStart ==
  ASSUME ParserInv, NEW a \in Action, ToReduce(a)
  PROVE  \E K, b \in Shape : /\ Matches(K, HalfRead, vals, context, scopes)
                             /\ Effect(a, K, b) /\ FitsBetween(Tail(stack), b, <<>>)
                             /\ Tail(stack) \in Seq(Symbol)
<1>1. stack \in Seq(Symbol) /\ stack # <<>> /\ stack[1] = a
  BY StackSpelled DEF ParserInv, ToReduce
<1>2. PICK K \in Shape : FitsBetween(stack, K, <<>>) /\ Matches(K, HalfRead, vals, context, scopes)
  BY DEF ParserInv, Balanced
<1> QED
  BY <1>1, <1>2, FirstOf

LEMMA LeadsTail ==
  ASSUME NEW S, NEW seq \in Seq(S), seq # <<>>, seq[1] \in Silent, NEW i \in Nat, Leads(seq, i)
  PROVE  Leads(Tail(seq), i - 1) /\ Tail(seq)[i - 1] = seq[i] /\ i - 1 \in Nat
<1>1. Len(seq) \in Nat /\ DOMAIN seq = 1..Len(seq) /\ i \in 1..Len(seq) /\ i # 1
  BY DEF Leads
<1>2. /\ Len(Tail(seq)) = Len(seq) - 1 /\ DOMAIN Tail(seq) = 1..(Len(seq) - 1)
      /\ \A j \in 1..(Len(seq) - 1) : Tail(seq)[j] = seq[j + 1]
  OBVIOUS
<1>3. i - 1 \in 1..(Len(seq) - 1) /\ (i - 1) + 1 = i
  BY <1>1
<1>4. Tail(seq)[i - 1] = seq[i]
  BY <1>2, <1>3
<1>5. ASSUME NEW j \in 1..((i - 1) - 1) PROVE Tail(seq)[j] \in Silent
  <2>1. j \in 1..(Len(seq) - 1) /\ j + 1 \in 1..(i - 1)
    BY <1>1, <1>3
  <2> QED
    BY <1>2, <2>1 DEF Leads
<1> QED
  BY <1>2, <1>3, <1>4, <1>5 DEF Leads

LEMMA LookaheadKept ==
  ASSUME Framed, UNCHANGED <<la, lexer>>, stack # <<>>, stack[1] \in Silent,
         \/ stack' = Tail(stack)
         \/ stack' = Tail(Tail(stack)) /\ Tail(stack) # <<>> /\ Tail(stack)[1] \in Mark
  PROVE  LookaheadFits' /\ (HalfRead' <=> HalfRead) /\ stack' \in Seq(Vocabulary)
<1>1. stack \in Seq(Vocabulary) /\ Tail(stack) \in Seq(Vocabulary)
  BY DEF Framed
<1>2. stack' \in Seq(Vocabulary)
  <2>1. Tail(stack) # <<>> => Tail(Tail(stack)) \in Seq(Vocabulary)
    BY <1>1
  <2> QED
    BY <1>1, <2>1
<1>3. HalfRead' <=> HalfRead
  BY DEF HalfRead, lexer
<1>4. ASSUME la = NoToken PROVE LookaheadFits'
  BY <1>4 DEF LookaheadFits, NoToken
<1>5. ASSUME la.kind \in {"TYPE", "VARIABLE"}, la.value = "none", lexer_state = "SRegular"
      PROVE  LookaheadFits'
  BY <1>5 DEF LookaheadFits, lexer
<1>6. ASSUME la.kind \in Token \ {"TYPE", "VARIABLE"},
             \E i \in Nat : Leads(stack, i) /\ stack[i] = la.kind,
             IF la.kind = "NAME" THEN la.value \in Ids /\ lexer_state = "SIdent"
             ELSE lexer_state = "SRegular"
      PROVE  LookaheadFits'
  <2>1. PICK i \in Nat : Leads(stack, i) /\ stack[i] = la.kind
    BY <1>6
  <2>2. Leads(Tail(stack), i - 1) /\ Tail(stack)[i - 1] = la.kind /\ i - 1 \in Nat
    BY <1>1, <2>1, LeadsTail
  <2>3. CASE stack' = Tail(stack)
    <3>1. \E k \in Nat : Leads(stack', k) /\ stack'[k] = la.kind
      BY <2>2, <2>3
    <3> QED
      BY <1>6, <3>1 DEF LookaheadFits, lexer
  <2>4. CASE stack' = Tail(Tail(stack)) /\ Tail(stack) # <<>> /\ Tail(stack)[1] \in Mark
    <3>1. Tail(stack)[1] \in Silent
      BY <2>4 DEF Silent
    <3>2. Leads(Tail(Tail(stack)), (i - 1) - 1) /\ Tail(Tail(stack))[(i - 1) - 1] = la.kind
          /\ (i - 1) - 1 \in Nat
      BY <1>1, <2>2, <2>4, <3>1, LeadsTail
    <3>3. \E k \in Nat : Leads(stack', k) /\ stack'[k] = la.kind
      BY <2>4, <3>2
    <3> QED
      BY <1>6, <3>3 DEF LookaheadFits, lexer
  <2> QED
    BY <2>3, <2>4
<1> QED
  BY <1>2, <1>3, <1>4, <1>5, <1>6 DEF Framed, LookaheadFits

LEMMA ReductionFrame ==
  ASSUME Framed, NEW a \in Action, ToReduce(a), Reduced, context' \in SUBSET Ids
  PROVE  Framed' /\ (HalfRead' <=> HalfRead)
<1>1. stack # <<>> /\ stack[1] \in Silent /\ UNCHANGED <<la, lexer>> /\ Goes(Tail(stack))
  BY DEF ToReduce, Silent, Reduced
<1>2. /\ \/ stack' = Tail(stack)
         \/ stack' = Tail(Tail(stack)) /\ Tail(stack) # <<>> /\ Tail(stack)[1] \in Mark
      /\ Len(scopes') <= MaxDepth
  BY <1>1 DEF Goes
<1>3. HalvesInv'
  BY ReductionFeeds DEF Framed
<1>4. LookaheadFits' /\ (HalfRead' <=> HalfRead) /\ stack' \in Seq(Vocabulary)
  BY <1>1, <1>2, LookaheadKept
<1>5. la' \in [kind : Token \cup {"none"}, value : Ids \cup {"none"}]
  BY <1>1 DEF Framed
<1> QED
  BY <1>2, <1>3, <1>4, <1>5 DEF Framed

(* Most actions run when nothing is awaited. *)
LEMMA Settled ==
  ASSUME NEW K \in Shape, NEW b \in Shape, NEW s \in Symbol, Effect(s, K, b),
         s \notin {"TYPE", "VARIABLE", "@scoped_parameter_type_list_", "@function_definition1"},
         NEW half, NEW vs, NEW ctx, NEW ss, Matches(K, half, vs, ctx, ss)
  PROVE  ~half /\ Sound(K, vs, ss)
<1>1. ASSUME K # <<>>, K[Len(K)] \in {"half", "list", "defined"}
      PROVE  FALSE
  <2>1. s \in Expected(K[Len(K)])
    BY <1>1, AwaitedSymbol DEF Awaiting
  <2> QED
    BY <1>1, <2>1 DEF Expected
<1>2. \A c \in Shape : K # Append(c, "half")
  BY <1>1, LastOfAppended DEF Role
<1>3. \A c \in Shape : K # Append(Append(c, "plist"), "list")
  BY <1>1, LastOfAppended DEF Role
<1>4. K # <<"defined">>
  <2>1. <<"defined">>[Len(<<"defined">>)] = "defined" /\ <<"defined">> # <<>>
    OBVIOUS
  <2> QED
    BY <1>1, <2>1
<1> QED
  BY <1>2, <1>3, <1>4 DEF Matches

LEMMA ReductionSettled ==
  ASSUME ParserInv, NEW a \in Action, ToReduce(a),
         a \notin {"@scoped_parameter_type_list_", "@function_definition1"}
  PROVE  \E K, b \in Shape : /\ ~HalfRead /\ Sound(K, vals, scopes)
                             /\ Effect(a, K, b) /\ FitsBetween(Tail(stack), b, <<>>)
                             /\ Tail(stack) \in Seq(Symbol)
<1>1. PICK K \in Shape, b \in Shape :
         /\ Matches(K, HalfRead, vals, context, scopes)
         /\ Effect(a, K, b) /\ FitsBetween(Tail(stack), b, <<>>)
         /\ Tail(stack) \in Seq(Symbol)
  BY ReductionStart
<1>2. a \in Symbol /\ a \notin {"TYPE", "VARIABLE"}
  BY DEF Symbol, Action
<1>3. ~HalfRead /\ Sound(K, vals, scopes)
  BY <1>1, <1>2, Settled
<1> QED
  BY <1>1, <1>3

(* Values that suit a settled shape are what is to show. *)
LEMMA BalancedBy ==
  ASSUME NEW K \in Shape, FitsBetween(stack', K, <<>>), Sound(K, vals', scopes'), ~HalfRead'
  PROVE  Balanced'
  BY DEF Balanced, Matches

(* A step that leaves context, scopes and snapshots alone, and forgets a list    *)
(* at most.                                                                     *)
LEMMA QuietStep ==
  ASSUME context' = context, scopes' = scopes, LiveSnapshots' = LiveSnapshots,
         PendingParams' \in {PendingParams, NoList}
  PROVE  Follows
<1>1. CASE PendingParams' = PendingParams
  BY <1>1 DEF Follows, Protocol!vars
<1>2. CASE PendingParams' = NoList
  BY <1>2 DEF Follows, Protocol!Next, Protocol!ForgetParams, Protocol!NoParams, NoList,
     Protocol!NoDeclarations, NoDeclarations
<1> QED
  BY <1>1, <1>2

-----------------------------------------------------------------------------
(* The actions, one by one: each keeps the invariant and is a step of the       *)
(* protocol, or none.                                                         *)

LEMMA SaveContextSteps ==
  ASSUME ParserInv, SaveContext
  PROVE  ParserInv' /\ Follows
<1> DEFINE v == ContextValue("snapshot", context, NotDerived)
<1>1. /\ ToReduce("@save_context") /\ "@save_context" \in Action /\ context' = context
      /\ vals' = Append(vals, v) /\ Reduced /\ Goes(Tail(stack))
  BY DEF SaveContext, Push, save_context, Reduced, Action
<1>2. context \in SUBSET Ids
  BY DEF ParserInv, Framed
<1>3. Framed' /\ (HalfRead' <=> HalfRead)
  BY <1>1, <1>2, ReductionFrame DEF ParserInv
<1>4. PICK K \in Shape, b \in Shape :
         /\ ~HalfRead /\ Sound(K, vals, scopes)
         /\ Effect("@save_context", K, b) /\ FitsBetween(Tail(stack), b, <<>>)
         /\ Tail(stack) \in Seq(Symbol)
  BY <1>1, ReductionSettled
<1>5. b = Append(K, "saved")
  BY <1>4, SaveEffect
<1>6. /\ Len(scopes') <= MaxDepth /\ scopes' = Enter(scopes, NoDeclarations)
      /\ \/ FitsBetween(stack', Append(K, "plist"), <<>>)
         \/ OutsideList(K) /\ FitsBetween(stack', Append(K, "block"), <<>>)
  BY <1>1, <1>4, <1>5, GoesScope
<1>7. v \in Value /\ ValueSound(v) /\ v.tag = "snapshot" /\ v.ctx = context
  BY <1>2, ContextIs, NotDerivedIs
<1> HIDE DEF v
<1>8. vals \in Seq(Value) /\ scopes \in Seq(Scope)
  BY <1>4 DEF Sound
<1>9. Balanced'
  <2>1. Suits(v, "plist") /\ Suits(v, "block")
    BY <1>7 DEF Suits
  <2>2. CASE FitsBetween(stack', Append(K, "plist"), <<>>)
    <3>1. Sound(Append(K, "plist"), vals', scopes')
      BY <1>1, <1>4, <1>6, <1>7, <2>1, NoDeclarationsIsScope, PushScope
    <3>2. Append(K, "plist") \in Shape
      BY AppendedShape DEF Role
    <3> QED
      BY <1>3, <1>4, <2>2, <3>1, <3>2, BalancedBy
  <2>3. CASE OutsideList(K) /\ FitsBetween(stack', Append(K, "block"), <<>>)
    <3>1. Sound(Append(K, "block"), vals', scopes')
      BY <1>1, <1>4, <1>6, <1>7, <2>1, <2>3, NoDeclarationsIsScope, PushScope
    <3>2. Append(K, "block") \in Shape
      BY AppendedShape DEF Role
    <3> QED
      BY <1>3, <1>4, <2>3, <3>1, <3>2, BalancedBy
  <2> QED
    BY <1>6, <2>2, <2>3
<1>10. Follows
  <2>1. LiveIn(Append(vals, v)) = Append(LiveIn(vals), context)
    BY <1>7, <1>8, LiveInAppend DEF IsSnapshot
  <2>2. LiveSnapshots' = Append(LiveSnapshots, context)
    BY <1>1, <2>1 DEF LiveSnapshots
  <2>3. PendingParams' = PendingParams
    BY <1>1, <1>7, <1>8, PendingPushed DEF PendingParams
  <2>4. Len(scopes) < MaxDepth
    <3>1. Len(Enter(scopes, NoDeclarations)) = Len(scopes) + 1
      BY <1>8, EnterTop, NoDeclarationsIsScope
    <3> QED
      BY <1>6, <1>8, <3>1, MaxDepthAssumption
  <2> QED
    BY <1>1, <1>6, <2>2, <2>3, <2>4
       DEF Follows, Protocol!Next, Protocol!EnterScope, Protocol!save_context, Protocol!Enter,
           Enter, Protocol!NoDeclarations, NoDeclarations
<1> QED
  BY <1>3, <1>9, <1>10 DEF ParserInv

(* restore_context: in a statement's rule, and at the end of a definition.       *)
LEMMA RestoreSteps ==
  ASSUME ParserInv, NEW a \in {"@restore_context", "@function_definition"}, ToReduce(a),
         context' = restore_context(Top.ctx), vals' = Below(1), Reduced
  PROVE  ParserInv' /\ Follows
<1>1. a \in Action /\ Goes(Tail(stack))
  BY DEF Reduced, Action
<1>2. PICK K \in Shape, b \in Shape :
         /\ ~HalfRead /\ Sound(K, vals, scopes)
         /\ Effect(a, K, b) /\ FitsBetween(Tail(stack), b, <<>>)
         /\ Tail(stack) \in Seq(Symbol)
  BY <1>1, ReductionSettled
<1>3. PICK c \in Shape : K = Append(c, "block") /\ b = Append(c, "left")
  BY <1>2, RestoreEffect DEF Replaces
<1>4. PICK us \in Seq(Value), v \in Value :
        /\ vals = Append(us, v) /\ Len(us) = Len(c)
        /\ us = SubSeq(vals, 1, Len(vals) - 1) /\ v = vals[Len(vals)]
        /\ Suits(v, "block") /\ ValueSound(v)
  <2>1. "block" \in Role
    BY DEF Role
  <2> QED
    BY <1>2, <1>3, <2>1, TopBelow
<1>5. vals' = us /\ context' = v.ctx
  BY <1>4 DEF Below, Top, restore_context
<1>6. context' \in SUBSET Ids
  BY <1>5, ValueFields
<1>7. Framed' /\ (HalfRead' <=> HalfRead)
  BY <1>1, <1>6, ReductionFrame DEF ParserInv
<1>8. scopes' = Leave(scopes) /\ FitsBetween(stack', c, <<>>)
  BY <1>1, <1>2, <1>3, GoesEnd
<1>9. Sound(c, us, Leave(scopes)) /\ LiveIn(vals) = Append(LiveIn(us), v.ctx)
  BY <1>2, <1>3, <1>4, PopScope
<1>10. Balanced'
  BY <1>2, <1>5, <1>7, <1>8, <1>9, BalancedBy
<1>11. Follows
  <2>1. LiveIn(us) \in Seq(SUBSET Ids) /\ v.ctx \in SUBSET Ids
    BY LiveInIs, ValueFields
  <2>2. /\ SubSeq(LiveSnapshots, 1, Len(LiveSnapshots) - 1) = LiveSnapshots'
        /\ LiveSnapshots[Len(LiveSnapshots)] = v.ctx /\ Len(LiveSnapshots) > 0
    <3>1. Len(Append(LiveIn(us), v.ctx)) > 0
      BY <2>1
    <3> QED
      BY <1>5, <1>9, <2>1, <3>1, FrontOfAppend DEF LiveSnapshots
  <2>3. PendingParams' = PendingParams
    BY <1>4, <1>5, PendingPushed DEF PendingParams, Suits
  <2> QED
    BY <1>5, <1>8, <2>2, <2>3
       DEF Follows, Protocol!Next, Protocol!LeaveScope, Protocol!restore_context,
           Protocol!Leave, Leave
<1> QED
  BY <1>7, <1>10, <1>11 DEF ParserInv

LEMMA PopSteps ==
  ASSUME ParserInv, PopValue
  PROVE  ParserInv' /\ Follows
<1>1. /\ ToReduce("@pop") /\ "@pop" \in Action /\ context' = context
      /\ vals' = Below(1) /\ Reduced /\ Goes(Tail(stack)) /\ context \in SUBSET Ids
  BY DEF PopValue, Reduced, Action, ParserInv, Framed
<1>2. PICK K \in Shape, b \in Shape :
         /\ ~HalfRead /\ Sound(K, vals, scopes)
         /\ Effect("@pop", K, b) /\ FitsBetween(Tail(stack), b, <<>>)
         /\ Tail(stack) \in Seq(Symbol)
  BY <1>1, ReductionSettled
<1>3. PICK r \in {"string", "declarator", "context"} : K = Append(b, r)
  BY <1>2, PopEffect
<1>4. r \in Role
  BY DEF Role
<1>5. PICK us \in Seq(Value), v \in Value :
        /\ vals = Append(us, v) /\ Len(us) = Len(b)
        /\ us = SubSeq(vals, 1, Len(vals) - 1) /\ v = vals[Len(vals)]
        /\ Suits(v, r) /\ ValueSound(v)
  BY <1>2, <1>3, <1>4, TopBelow
<1>6. vals' = us
  BY <1>1, <1>5 DEF Below
<1>7. Framed' /\ (HalfRead' <=> HalfRead)
  BY <1>1, ReductionFrame DEF ParserInv
<1>8. Sound(b, us, scopes)
  BY <1>2, <1>3, <1>4, <1>5, PopSound
<1>9. b = <<>> \/ b[Len(b)] \notin MarkRole
  <2>1. ASSUME NEW k \in 1..Len(us), b[k] \in MarkRole PROVE FALSE
    <3>1. Suits(us[k], b[k])
      BY <1>8 DEF Sound
    <3> QED
      BY <2>1, <3>1 DEF Suits, MarkRole
  <2>2. b # <<>> => Len(b) \in 1..Len(us)
    BY <1>5 DEF Shape
  <2> QED
    BY <2>1, <2>2
<1>10. stack' = Tail(stack) /\ scopes' = scopes
  BY <1>1, <1>2, <1>9, GoesOn
<1>11. Balanced'
  BY <1>2, <1>6, <1>7, <1>8, <1>10, BalancedBy
<1>12. Follows
  <2>1. LiveIn(vals) = LiveIn(us)
    BY <1>3, <1>5, LiveInAppend DEF Suits, IsSnapshot, DeclaratorTag
  <2> QED
    BY <1>1, <1>5, <1>6, <1>10, <2>1, PendingPopped, QuietStep DEF LiveSnapshots, PendingParams
<1> QED
  BY <1>7, <1>11, <1>12 DEF ParserInv

(* parameter_type_list: the list is read, its scope still open.                 *)
LEMMA ListSteps ==
  ASSUME ParserInv, ParameterTypeList
  PROVE  ParserInv' /\ Follows
<1> DEFINE own == [NotDerived EXCEPT !.scope = scopes[Len(scopes)], !.file = scopes[1]]
           v == ContextValue("context", context, own)
<1>1. /\ ToReduce("@parameter_type_list") /\ "@parameter_type_list" \in Action
      /\ context' = context /\ vals' = Append(vals, v)
      /\ Reduced /\ Goes(Tail(stack)) /\ context \in SUBSET Ids
  BY DEF ParameterTypeList, Push, save_context, Reduced, Action, ParserInv, Framed
<1>2. PICK K \in Shape, b \in Shape :
         /\ ~HalfRead /\ Sound(K, vals, scopes)
         /\ Effect("@parameter_type_list", K, b) /\ FitsBetween(Tail(stack), b, <<>>)
         /\ Tail(stack) \in Seq(Symbol)
  BY <1>1, ReductionSettled
<1>3. PICK c \in Shape : K = Append(c, "plist") /\ b = Append(K, "list")
  BY <1>2, ListEffect
<1>4. scopes \in Seq(Scope) /\ Len(scopes) \in Nat \ {0}
  BY <1>2, OpenScopes DEF Sound
<1>5. /\ own \in [by : Derivation, last : Derivation, scope : Scope, file : Scope]
      /\ own.scope = scopes[Len(scopes)] /\ own.file = scopes[1]
  <2>1. scopes[Len(scopes)] \in Scope /\ scopes[1] \in Scope
    BY <1>4
  <2> QED
    BY <2>1, NotDerivedIs
<1> HIDE DEF own
<1>6. /\ v \in Value /\ ValueSound(v) /\ v.tag = "context" /\ v.ctx = context
      /\ v.own = own
  BY <1>1, <1>5, ContextIs
<1> HIDE DEF v
<1>7. Framed' /\ (HalfRead' <=> HalfRead)
  BY <1>1, ReductionFrame DEF ParserInv
<1>8. stack' = Tail(stack) /\ scopes' = scopes
  <2>1. b # <<>> /\ b[Len(b)] = "list"
    BY <1>2, <1>3, LastOfAppended DEF Role
  <2>2. b[Len(b)] \notin MarkRole
    BY <2>1 DEF MarkRole
  <2> QED
    BY <1>1, <1>2, <2>2, GoesOn
<1>9. Balanced'
  <2>1. Sound(Append(K, "context"), vals', scopes')
    <3>1. Suits(v, "context") /\ "context" \in Role
      BY <1>6 DEF Suits, Role
    <3> QED
      BY <1>1, <1>2, <1>5, <1>6, <1>8, <3>1, PushSound
  <2>2. vals'[Len(vals')] = v
    <3>1. vals \in Seq(Value)
      BY <1>2 DEF Sound
    <3> QED
      BY <1>1, <1>6, <3>1, FrontOfAppend
  <2>3. JustRead(vals'[Len(vals')], context', scopes')
    BY <1>1, <1>5, <1>6, <1>8, <2>2 DEF JustRead
  <2>4. Matches(b, HalfRead', vals', context', scopes')
    BY <1>2, <1>3, <1>7, <2>1, <2>3 DEF Matches
  <2> QED
    BY <1>2, <1>8, <2>4 DEF Balanced
<1>10. Follows
  <2>1. PICK us \in Seq(Value), s \in Value : vals = Append(us, s) /\ s.tag = "snapshot"
    <3>1. "plist" \in Role
      BY DEF Role
    <3>2. PICK us \in Seq(Value), s \in Value : vals = Append(us, s) /\ Suits(s, "plist")
      BY <1>2, <1>3, <3>1, TopBelow
    <3> QED
      BY <3>2 DEF Suits
  <2>2. PendingParams' = PendingParams
    BY <1>1, <1>6, <2>1, PendingListPushed DEF PendingParams
  <2>3. LiveSnapshots' = LiveSnapshots
    <3>1. vals \in Seq(Value)
      BY <1>2 DEF Sound
    <3> QED
      BY <1>1, <1>6, <3>1, LiveInAppend DEF LiveSnapshots, IsSnapshot
  <2> QED
    BY <1>1, <1>8, <2>2, <2>3, QuietStep
<1> QED
  BY <1>7, <1>9, <1>10 DEF ParserInv

LEMMA ListAwaited ==
  ASSUME NEW c \in Shape, NEW half, NEW vs, NEW ctx, NEW ss,
         Matches(Append(Append(c, "plist"), "list"), half, vs, ctx, ss)
  PROVE  /\ ~half /\ Sound(Append(Append(c, "plist"), "context"), vs, ss)
         /\ JustRead(vs[Len(vs)], ctx, ss)
<1> DEFINE p == Append(c, "plist")
           K == Append(p, "list")
<1>1. "plist" \in Role /\ "list" \in Role /\ "half" \in Role
  BY DEF Role
<1>2. p \in Shape /\ K \in Shape
  BY <1>1, AppendedShape
<1>3. ~Sound(K, vs, ss)
  <2>1. ASSUME Sound(K, vs, ss) PROVE FALSE
    <3>1. PICK v \in Value : Suits(v, "list")
      BY <1>1, <1>2, <2>1, TopBelow
    <3> QED
      BY <3>1 DEF Suits
  <2> QED
    BY <2>1
<1>4. \A x \in Shape, y \in Role : K = Append(x, y) => x = p /\ y = "list"
  BY <1>1, <1>2, SameAppended
<1>5. \A x \in Shape : p = Append(x, "plist") => x = c
  BY <1>1, SameAppended
<1>6. K # <<"defined">>
  <2>1. K[Len(K)] = "list"
    BY <1>1, <1>2, LastOfAppended
  <2>2. <<"defined">>[Len(<<"defined">>)] = "defined"
    OBVIOUS
  <2> HIDE DEF K
  <2> QED
    BY <2>1, <2>2
<1>7. \A x \in Shape : Append(x, "plist") \in Shape
  BY <1>1, AppendedShape
<1> HIDE DEF p, K
<1>8. Matches(K, half, vs, ctx, ss)
  BY DEF p, K
<1>9. ~half /\ \E x \in Shape : /\ K = Append(Append(x, "plist"), "list")
                                /\ Sound(Append(Append(x, "plist"), "context"), vs, ss)
                                /\ JustRead(vs[Len(vs)], ctx, ss)
  BY <1>1, <1>3, <1>4, <1>6, <1>8 DEF Matches
<1>10. PICK x \in Shape : /\ K = Append(Append(x, "plist"), "list")
                         /\ Sound(Append(Append(x, "plist"), "context"), vs, ss)
                         /\ JustRead(vs[Len(vs)], ctx, ss)
  BY <1>9
<1>11. x = c
  BY <1>1, <1>4, <1>5, <1>7, <1>10
<1> QED
  BY <1>9, <1>10, <1>11

LEMMA TopTwo ==
  ASSUME NEW us \in Seq(Value), NEW s \in Value, NEW v \in Value
  PROVE  LET vs == Append(Append(us, s), v)
         IN  /\ SubSeq(vs, 1, Len(vs) - 2) = us
             /\ vs[Len(vs) - 1] = s /\ vs[Len(vs)] = v
<1> DEFINE ws == Append(us, s)
           vs == Append(ws, v)
           n == Len(us)
<1>1. /\ ws \in Seq(Value) /\ n \in Nat /\ Len(ws) = n + 1 /\ ws[n + 1] = s
      /\ \A i \in 1..n : ws[i] = us[i]
  BY AppendedValue
<1> HIDE DEF ws
<1>2. /\ vs \in Seq(Value) /\ Len(vs) = n + 2 /\ vs[n + 2] = v
      /\ \A i \in 1..(n + 1) : vs[i] = ws[i]
  BY <1>1, AppendedValue
<1> HIDE DEF vs
<1>3. Len(vs) - 2 = n /\ Len(vs) - 1 = n + 1
  BY <1>1, <1>2
<1>4. SubSeq(vs, 1, n) = us
  <2>1. SubSeq(vs, 1, n) \in Seq(Value) /\ Len(SubSeq(vs, 1, n)) = n
    BY <1>1, <1>2
  <2>2. ASSUME NEW i \in 1..n PROVE SubSeq(vs, 1, n)[i] = us[i]
    <3>1. SubSeq(vs, 1, n)[i] = vs[i]
      BY <1>1, <1>2
    <3>2. vs[i] = ws[i] /\ ws[i] = us[i]
      BY <1>1, <1>2
    <3> QED
      BY <3>1, <3>2
  <2> QED
    BY <1>1, <2>1, <2>2
<1>5. vs[n + 1] = s
  BY <1>1, <1>2
<1> QED
  BY <1>2, <1>3, <1>4, <1>5 DEF vs, ws

(* Two values on top of the stack, by the roles of their shape.                 *)
LEMMA TopTwoBelow ==
  ASSUME NEW c \in Shape, NEW r1 \in Role, NEW r2 \in Role \ {"plist", "block"}, NEW ss,
         Sound(Append(Append(c, r1), r2), vals, ss)
  PROVE  \E us \in Seq(Value), s \in Value, v \in Value :
           /\ vals = Append(Append(us, s), v) /\ Len(us) = Len(c)
           /\ Below(2) = us /\ vals[Len(vals) - 1] = s /\ Top = v
           /\ Suits(s, r1) /\ ValueSound(s) /\ Suits(v, r2) /\ ValueSound(v)
           /\ Sound(Append(c, r1), Append(us, s), ss)
<1>1. Append(c, r1) \in Shape
  BY AppendedShape
<1>2. PICK ws \in Seq(Value), v \in Value : vals = Append(ws, v) /\ Suits(v, r2) /\ ValueSound(v)
  BY <1>1, TopBelow
<1>3. Sound(Append(c, r1), ws, ss)
  BY <1>1, <1>2, PopSound
<1>4. PICK us \in Seq(Value), s \in Value :
        ws = Append(us, s) /\ Len(us) = Len(c) /\ Suits(s, r1) /\ ValueSound(s)
  BY <1>3, TopBelow
<1>5. /\ SubSeq(vals, 1, Len(vals) - 2) = us
      /\ vals[Len(vals) - 1] = s /\ vals[Len(vals)] = v
  BY <1>2, <1>4, TopTwo
<1> QED
  BY <1>2, <1>3, <1>4, <1>5 DEF Below, Top

(* scoped_parameter_type_list_: the list is left; back at file scope, what it   *)
(* read is what a definition would reopen.                                     *)
LEMMA ListLeftSteps ==
  ASSUME ParserInv, ScopedParameterTypeList
  PROVE  ParserInv' /\ Follows
<1>1. /\ ToReduce("@scoped_parameter_type_list_")
      /\ "@scoped_parameter_type_list_" \in Action
      /\ context' = vals[Len(vals) - 1].ctx /\ vals' = Append(Below(2), Top)
      /\ Reduced /\ Goes(Tail(stack))
  BY DEF ScopedParameterTypeList, restore_context, Reduced, Action
<1>2. PICK K \in Shape, b \in Shape :
         /\ Matches(K, HalfRead, vals, context, scopes)
         /\ Effect("@scoped_parameter_type_list_", K, b) /\ FitsBetween(Tail(stack), b, <<>>)
         /\ Tail(stack) \in Seq(Symbol)
  BY <1>1, ReductionStart
<1>3. PICK c \in Shape : K = Append(Append(c, "plist"), "list") /\ b = Append(c, "closing")
  BY <1>2, LeaveListEffect
<1>4. /\ ~HalfRead /\ Sound(Append(Append(c, "plist"), "context"), vals, scopes)
      /\ JustRead(vals[Len(vals)], context, scopes)
  BY <1>2, <1>3, ListAwaited
<1>5. PICK us \in Seq(Value), s \in Value, v \in Value :
        /\ vals = Append(Append(us, s), v) /\ Len(us) = Len(c)
        /\ Below(2) = us /\ vals[Len(vals) - 1] = s /\ Top = v
        /\ Suits(s, "plist") /\ Suits(v, "context") /\ ValueSound(v)
        /\ Sound(Append(c, "plist"), Append(us, s), scopes)
  <2>1. "plist" \in Role /\ "context" \in Role \ {"plist", "block"}
    BY DEF Role
  <2> QED
    BY <1>4, <2>1, TopTwoBelow
<1>6. vals' = Append(us, v) /\ context' = s.ctx /\ s.tag = "snapshot" /\ v.tag = "context"
  BY <1>1, <1>5 DEF Suits
<1>7. context' \in SUBSET Ids
  BY <1>6, ValueFields
<1>8. Framed' /\ (HalfRead' <=> HalfRead)
  BY <1>1, <1>7, ReductionFrame DEF ParserInv
<1>9. scopes' = Leave(scopes) /\ FitsBetween(stack', Append(c, "context"), <<>>)
  BY <1>1, <1>2, <1>3, GoesEnd
<1>10. /\ Sound(c, us, Leave(scopes))
       /\ LiveIn(Append(us, s)) = Append(LiveIn(us), s.ctx)
  BY <1>5, PopScope
<1>11. scopes \in Seq(Scope) /\ Len(scopes) > 1
  <2>1. ~OutsideList(Append(c, "plist"))
    BY AppendedOutsideList DEF Role
  <2> QED
    BY <1>5, <2>1, OpenScopes DEF Sound
<1>12. Leave(scopes)[1] = scopes[1]
  BY <1>11, LeaveKeepsOuter
<1>13. v.ctx = context /\ v.own.scope = scopes[Len(scopes)] /\ v.own.file = scopes[1]
  BY <1>4, <1>5 DEF JustRead, Top
<1>14. Balanced'
  <2>1. Sound(Append(c, "context"), vals', scopes')
    <3>1. "context" \in Role
      BY DEF Role
    <3> QED
      BY <1>5, <1>6, <1>9, <1>10, <1>12, <1>13, <3>1, PushSound
  <2>2. Append(c, "context") \in Shape
    BY AppendedShape DEF Role
  <2> QED
    BY <1>4, <1>8, <1>9, <2>1, <2>2, BalancedBy
<1>15. /\ LiveSnapshots = Append(LiveIn(us), s.ctx) /\ LiveSnapshots' = LiveIn(us)
  <2>1. Append(us, s) \in Seq(Value)
    BY AppendedValue
  <2> QED
    BY <1>5, <1>6, <1>10, <2>1, LiveInAppend DEF LiveSnapshots, IsSnapshot
<1>16. LiveIn(us) \in Seq(SUBSET Ids) /\ s.ctx \in SUBSET Ids
  BY LiveInIs, ValueFields
<1>17. /\ SubSeq(LiveSnapshots, 1, Len(LiveSnapshots) - 1) = LiveSnapshots'
       /\ LiveSnapshots[Len(LiveSnapshots)] = s.ctx
       /\ Len(LiveSnapshots) = Len(LiveIn(us)) + 1 /\ Len(LiveIn(us)) \in Nat
  BY <1>15, <1>16, FrontOfAppend
<1>18. \/ PendingParams' = PendingParams
       \/ /\ Len(us) = 1 /\ us[1].tag = "identifier"
          /\ PendingParams' = AsParams(v, us[1].identifier)
  BY <1>5, <1>6, PendingListLeft DEF PendingParams
<1>19. ASSUME PendingParams' = PendingParams PROVE Follows
  BY <1>6, <1>9, <1>17, <1>19
     DEF Follows, Protocol!Next, Protocol!LeaveScope, Protocol!restore_context,
         Protocol!Leave, Leave
<1>20. ASSUME Len(us) = 1, us[1].tag = "identifier",
              PendingParams' = AsParams(v, us[1].identifier)
       PROVE  Follows
  <2>1. Suits(us[1], c[1]) /\ ValueSound(us[1]) /\ us[1] \in Value
    <3>1. 1 \in 1..Len(us)
      BY <1>20
    <3> QED
      BY <1>10, <3>1 DEF Sound
  <2>2. us[1].identifier \in Ids
    BY <1>20, <2>1, ValueFields DEF ValueSound
  <2>3. c[1] \notin {"plist", "block"}
    BY <1>20, <2>1 DEF Suits
  <2>4. OutsideList(c) /\ OutsideBlock(c)
    BY <1>5, <1>20, <2>3 DEF OutsideList, OutsideBlock
  <2>5. LiveIn(us) = <<>>
    BY <1>10, <2>4, OpenScopes
  <2>6. Types(scopes[Len(scopes)]) = {}
    <3>1. OutsideBlock(Append(c, "plist"))
      BY <2>4, AppendedBlocks DEF Role
    <3>2. \A j \in 2..Len(scopes) : Types(scopes[j]) = {}
      BY <1>5, <3>1 DEF Sound, Leveled
    <3>3. Len(scopes) \in 2..Len(scopes)
      BY <1>11
    <3> QED
      BY <3>2, <3>3
  <2>7. Len(LiveSnapshots) = 1 /\ LiveSnapshots[1] = s.ctx /\ LiveSnapshots' = <<>>
    BY <1>15, <1>17, <2>5
  <2>8. PendingParams' =
          [ctx |-> context, scope |-> scopes[Len(scopes)], file |-> scopes[1],
           fn |-> us[1].identifier]
    BY <1>13, <1>20 DEF AsParams
  <2>9. Protocol!LeaveParams(us[1].identifier)
    BY <1>6, <1>9, <2>6, <2>7, <2>8
       DEF Protocol!LeaveParams, Protocol!ListOf, Protocol!restore_context,
           Protocol!save_context, Protocol!Leave, Leave, Protocol!Types, Types
  <2> QED
    BY <2>2, <2>9 DEF Follows, Protocol!Next
<1> QED
  BY <1>8, <1>14, <1>18, <1>19, <1>20 DEF ParserInv

(* A declarator that may stand on the values us for the declarator d. *)
Stands(K, us, d, ss) ==
  \A v \in Value :
    (/\ v.tag \in DeclaratorTag /\ ValueSound(v)
     /\ ~Lossy /\ v.own.by = "params" => d.own.by = "params" /\ v.own.file = d.own.file)
    => Sound(K, Append(us, v), ss)

LEMMA DeclaratorReplaced ==
  ASSUME NEW K \in Shape, OnDeclarator(K), NEW vs, NEW ss, Sound(K, vs, ss)
  PROVE  \E us \in Seq(Value), d \in Value :
           /\ vs = Append(us, d)
           /\ us = SubSeq(vs, 1, Len(vs) - 1) /\ d = vs[Len(vs)]
           /\ d.tag \in DeclaratorTag /\ ValueSound(d) /\ Stands(K, us, d, ss)
<1>1. "held" \in Role /\ "declarator" \in Role /\ <<>> \in Shape /\ ss \in Seq(Scope)
  BY DEF Role, Shape, Sound
<1>2. CASE K = <<"held">>
  <2>1. PICK c \in Shape : K = Append(c, "held") /\ Len(c) = 0
    <3>1. K = Append(<<>>, "held") /\ Len(<<>>) = 0
      BY <1>2
    <3> QED
      BY <1>1, <3>1
  <2>2. PICK us \in Seq(Value), d \in Value :
           /\ vs = Append(us, d) /\ Len(us) = Len(c)
           /\ us = SubSeq(vs, 1, Len(vs) - 1) /\ d = vs[Len(vs)]
    <3>1. Sound(Append(c, "held"), vs, ss)
      BY <2>1
    <3> QED
      BY <1>1, <3>1, TopBelow
  <2>3. us = <<>>
    BY <2>1, <2>2
  <2>4. vs = <<d>>
    BY <2>2, <2>3, AppendedValue
  <2>5. /\ d.tag \in DeclaratorTag /\ ValueSound(d) /\ Len(ss) = 1 /\ Definition
        /\ ~Lossy => (d.own.by = "params" => d.own.file = ss[1])
    BY <1>1, <1>2, <2>4, HeldSound
  <2>6. ASSUME NEW v \in Value, v.tag \in DeclaratorTag, ValueSound(v),
               ~Lossy /\ v.own.by = "params" => d.own.by = "params" /\ v.own.file = d.own.file
        PROVE  Sound(K, Append(us, v), ss)
    <3>1. Append(us, v) = <<v>>
      BY <2>3, AppendedValue
    <3>2. ~Lossy => (v.own.by = "params" => v.own.file = ss[1])
      BY <2>5, <2>6
    <3>3. Sound(<<"held">>, <<v>>, ss)
      BY <1>1, <2>5, <2>6, <3>2, HeldSound
    <3> QED
      BY <1>2, <3>1, <3>3
  <2> QED
    BY <2>2, <2>5, <2>6 DEF Stands
<1>3. ASSUME NEW c \in Shape, K = Append(c, "declarator")
      PROVE  \E us \in Seq(Value), d \in Value :
           /\ vs = Append(us, d)
           /\ us = SubSeq(vs, 1, Len(vs) - 1) /\ d = vs[Len(vs)]
           /\ d.tag \in DeclaratorTag /\ ValueSound(d) /\ Stands(K, us, d, ss)
  <2>1. PICK us \in Seq(Value), d \in Value :
           /\ vs = Append(us, d)
           /\ us = SubSeq(vs, 1, Len(vs) - 1) /\ d = vs[Len(vs)]
           /\ Suits(d, "declarator") /\ ValueSound(d)
    BY <1>1, <1>3, TopBelow
  <2>2. d.tag \in DeclaratorTag
    BY <2>1 DEF Suits
  <2>3. Sound(c, us, ss)
    BY <1>1, <1>3, <2>1, PopSound
  <2>4. ASSUME NEW v \in Value, v.tag \in DeclaratorTag, ValueSound(v)
        PROVE  Sound(K, Append(us, v), ss)
    <3>1. Suits(v, "declarator")
      BY <2>4 DEF Suits
    <3> QED
      BY <1>1, <1>3, <2>3, <2>4, <3>1, PushSound
  <2> QED
    BY <2>1, <2>2, <2>4 DEF Stands
<1> QED
  <2>1. CASE \E c \in Shape : K = Append(c, "declarator")
    <3>1. PICK us \in Seq(Value), d \in Value :
           /\ vs = Append(us, d)
           /\ us = SubSeq(vs, 1, Len(vs) - 1) /\ d = vs[Len(vs)]
           /\ d.tag \in DeclaratorTag /\ ValueSound(d) /\ Stands(K, us, d, ss)
      BY <1>3, <2>1
    <3> QED
      BY <3>1
  <2> QED
    BY <1>2, <2>1 DEF OnDeclarator

LEMMA OnDeclaratorStart ==
  ASSUME ParserInv, NEW a \in {"@array", "@identifier_list", "@pointer"}, ToReduce(a)
  PROVE  \E K \in Shape :
           /\ ~HalfRead /\ Sound(K, vals, scopes) /\ OnDeclarator(K)
           /\ FitsBetween(Tail(stack), K, <<>>) /\ Tail(stack) \in Seq(Symbol)
           /\ a = "@array" => "array" \in Features
           /\ a = "@identifier_list" => "idlist" \in Features
<1>1. a \in Action /\ a \notin {"@scoped_parameter_type_list_", "@function_definition1"}
  BY DEF Action
<1>2. PICK K \in Shape, b \in Shape :
         /\ ~HalfRead /\ Sound(K, vals, scopes)
         /\ Effect(a, K, b) /\ FitsBetween(Tail(stack), b, <<>>)
         /\ Tail(stack) \in Seq(Symbol)
  BY <1>1, ReductionSettled
<1> QED
  BY <1>2, ArrayEffect, IdentifierListEffect, PointerEffect

(* A declarator is replaced by one made from it. *)
LEMMA OnDeclaratorSteps ==
  ASSUME ParserInv, NEW a \in {"@array", "@identifier_list", "@pointer"}, ToReduce(a),
         Reduced, context' = context, NEW v \in Value, vals' = Append(Below(1), v),
         \A d \in Value : d = Top /\ d.tag \in DeclaratorTag /\ ValueSound(d) =>
           /\ v.tag \in DeclaratorTag /\ ValueSound(v)
           /\ v.own.by = "params" => d.own.by = "params" /\ v.own.file = d.own.file
           /\ \A us \in Seq(Value) : PendingIn(Append(us, v)) \in {PendingIn(Append(us, d)), NoList}
  PROVE  ParserInv' /\ Follows
<1>1. a \in Action /\ Goes(Tail(stack)) /\ context \in SUBSET Ids
  BY DEF Reduced, Action, ParserInv, Framed
<1>2. PICK K \in Shape :
           /\ ~HalfRead /\ Sound(K, vals, scopes) /\ OnDeclarator(K)
           /\ FitsBetween(Tail(stack), K, <<>>) /\ Tail(stack) \in Seq(Symbol)
  BY OnDeclaratorStart
<1>3. PICK us \in Seq(Value), d \in Value :
           /\ vals = Append(us, d)
           /\ us = SubSeq(vals, 1, Len(vals) - 1) /\ d = vals[Len(vals)]
           /\ d.tag \in DeclaratorTag /\ ValueSound(d) /\ Stands(K, us, d, scopes)
  BY <1>2, DeclaratorReplaced
<1>4. /\ v.tag \in DeclaratorTag /\ ValueSound(v)
      /\ v.own.by = "params" => d.own.by = "params" /\ v.own.file = d.own.file
      /\ PendingIn(Append(us, v)) \in {PendingIn(Append(us, d)), NoList}
  BY <1>3 DEF Top
<1>5. vals' = Append(us, v)
  BY <1>3 DEF Below
<1>6. Framed' /\ (HalfRead' <=> HalfRead)
  BY <1>1, ReductionFrame DEF ParserInv
<1>7. stack' = Tail(stack) /\ scopes' = scopes
  <2>1. K # <<>> /\ K[Len(K)] \notin MarkRole
    BY <1>2, LastOfDeclarator DEF MarkRole
  <2> QED
    BY <1>1, <1>2, <2>1, GoesOn
<1>8. Sound(K, vals', scopes')
  BY <1>3, <1>4, <1>5, <1>7 DEF Stands
<1>9. Balanced'
  BY <1>2, <1>6, <1>7, <1>8, BalancedBy
<1>10. LiveSnapshots' = LiveSnapshots
  BY <1>3, <1>4, <1>5, LiveInAppend DEF LiveSnapshots, IsSnapshot, DeclaratorTag
<1>11. PendingParams' \in {PendingParams, NoList}
  BY <1>3, <1>4, <1>5 DEF PendingParams
<1> QED
  BY <1>6, <1>7, <1>9, <1>10, <1>11, QuietStep DEF ParserInv

LEMMA OtherDeclaratorSteps ==
  ASSUME ParserInv,
         OtherDeclarator("@array", "array") \/ OtherDeclarator("@identifier_list", "idlist")
  PROVE  ParserInv' /\ Follows
<1>1. PICK a \in {"@array", "@identifier_list"}, by \in {"array", "idlist"} :
        OtherDeclarator(a, by) /\ (a = "@array" <=> by = "array")
  OBVIOUS
<1> DEFINE v == MadeOther(Top, by)
<1>2. /\ ToReduce(a) /\ Reduced /\ context' = context /\ vals' = Append(Below(1), v)
  BY <1>1 DEF OtherDeclarator, Replace, MadeOther
<1>3. by \in Features
  BY <1>1, <1>2, OnDeclaratorStart
<1>4. PICK K \in Shape : Sound(K, vals, scopes) /\ OnDeclarator(K)
  BY <1>2, OnDeclaratorStart
<1>5. Top \in Value /\ Top.tag \in DeclaratorTag /\ ValueSound(Top)
  BY <1>4, DeclaratorReplaced DEF Top
<1>6. /\ v \in Value /\ v.tag = "other" /\ ValueSound(v)
      /\ v.own.by = "params" => Top.own.by = "params" /\ v.own.file = Top.own.file
  BY <1>3, <1>5, OtherIs
<1> HIDE DEF v
<1>7. \A us \in Seq(Value) : PendingIn(Append(us, v)) \in {PendingIn(Append(us, Top)), NoList}
  BY <1>5, <1>6, PendingOther DEF DeclaratorTag
<1>8. v.tag \in DeclaratorTag
  BY <1>6 DEF DeclaratorTag
<1> QED
  BY <1>2, <1>6, <1>7, <1>8, OnDeclaratorSteps

LEMMA PointerSteps ==
  ASSUME ParserInv, PointerDeclarator
  PROVE  ParserInv' /\ Follows
<1> DEFINE v == MadePointer(Top)
<1>1. /\ ToReduce("@pointer") /\ Reduced /\ context' = context /\ vals' = Append(Below(1), v)
  BY DEF PointerDeclarator, Replace, MadePointer
<1>2. PICK K \in Shape : Sound(K, vals, scopes) /\ OnDeclarator(K)
  BY <1>1, OnDeclaratorStart
<1>3. Top \in Value /\ Top.tag \in DeclaratorTag /\ ValueSound(Top)
  BY <1>2, DeclaratorReplaced DEF Top
<1>4. /\ v \in Value /\ v.tag = Top.tag /\ ValueSound(v)
      /\ v.own.by = "params" => Top.own.by = "params" /\ v.own.file = Top.own.file
  BY <1>3, PointerIs
<1>5. \A us \in Seq(Value) : PendingIn(Append(us, v)) \in {PendingIn(Append(us, Top)), NoList}
  BY <1>3, PendingPointer
<1> HIDE DEF v
<1> QED
  BY <1>1, <1>3, <1>4, <1>5, OnDeclaratorSteps

(* direct_declarator: an identifier; the declarator may turn out to be that of  *)
(* a definition.                                                              *)
LEMMA IdentifierDeclaratorSteps ==
  ASSUME ParserInv, IdentifierDeclarator
  PROVE  ParserInv' /\ Follows
<1> DEFINE v == ValueOf(identifier_declarator(Top.identifier), NotDerived)
<1>1. "string" \in Role /\ "declarator" \in Role /\ "held" \in Role
  BY DEF Role
<1>2. /\ ToReduce("@identifier_declarator") /\ "@identifier_declarator" \in Action
      /\ context' = context /\ vals' = Append(Below(1), v)
      /\ Reduced /\ Goes(Tail(stack)) /\ context \in SUBSET Ids
  BY DEF IdentifierDeclarator, Replace, Reduced, Action, ParserInv, Framed
<1>3. PICK K \in Shape, b \in Shape :
         /\ ~HalfRead /\ Sound(K, vals, scopes)
         /\ Effect("@identifier_declarator", K, b) /\ FitsBetween(Tail(stack), b, <<>>)
         /\ Tail(stack) \in Seq(Symbol)
  BY <1>2, ReductionSettled
<1>4. PICK c \in Shape :
        /\ K = Append(c, "string")
        /\ \/ b = Append(c, "declarator")
           \/ Definition /\ c = <<>> /\ b = <<"held">>
  <2>1. CASE Replaces(K, b, "string", "declarator")
    BY <2>1 DEF Replaces
  <2>2. CASE Definition /\ K = <<"string">> /\ b = <<"held">>
    <3>1. <<>> \in Shape
      BY DEF Shape
    <3>2. K = Append(<<>>, "string")
      BY <2>2
    <3> QED
      BY <2>2, <3>1, <3>2
  <2> QED
    BY <1>3, <2>1, <2>2, IdentifierEffect
<1>5. Sound(Append(c, "string"), vals, scopes)
  BY <1>3, <1>4
<1>6. PICK us \in Seq(Value), s \in Value :
        /\ vals = Append(us, s) /\ Len(us) = Len(c)
        /\ us = SubSeq(vals, 1, Len(vals) - 1) /\ s = vals[Len(vals)]
        /\ Suits(s, "string") /\ ValueSound(s)
  BY <1>1, <1>5, TopBelow
<1>7. s.tag = "string" /\ s.identifier \in Ids
  BY <1>6, ValueFields DEF Suits, ValueSound
<1>8. /\ v \in Value /\ v.tag = "identifier" /\ ValueSound(v) /\ v.own = NotDerived
      /\ vals' = Append(us, v)
  <2>1. Top = s /\ Below(1) = us
    BY <1>6 DEF Top, Below
  <2> QED
    BY <1>2, <1>7, <2>1, IdentifierIs
<1> HIDE DEF v
<1>9. v.tag \in DeclaratorTag /\ Suits(v, "declarator")
  BY <1>8 DEF DeclaratorTag, Suits
<1>10. Framed' /\ (HalfRead' <=> HalfRead)
  BY <1>2, ReductionFrame DEF ParserInv
<1>11. stack' = Tail(stack) /\ scopes' = scopes
  <2>1. b[Len(b)] = "declarator" \/ b[Len(b)] = "held"
    <3>1. <<"held">>[Len(<<"held">>)] = "held"
      OBVIOUS
    <3> QED
      BY <1>1, <1>4, <3>1, LastOfAppended
  <2>2. b[Len(b)] \notin MarkRole
    BY <2>1 DEF MarkRole
  <2> QED
    BY <1>2, <1>3, <2>2, GoesOn
<1>12. Sound(c, us, scopes)
  BY <1>1, <1>5, <1>6, PopSound
<1>13. Sound(b, vals', scopes')
  <2>1. CASE b = Append(c, "declarator")
    BY <1>1, <1>8, <1>9, <1>11, <1>12, <2>1, PushSound
  <2>2. CASE Definition /\ c = <<>> /\ b = <<"held">>
    <3>1. us = <<>> /\ vals' = <<v>>
      <4>1. Len(us) = 0
        BY <1>6, <2>2
      <4>2. us = <<>>
        BY <4>1
      <4> QED
        BY <1>8, <4>2, AppendedValue
    <3>2. scopes \in Seq(Scope)
      BY <1>12 DEF Sound
    <3>3. Len(scopes) = 1
      <4>1. Sound(<<>>, <<>>, scopes)
        BY <1>12, <2>2, <3>1
      <4> QED
        BY <3>2, <4>1, EmptySound
    <3>4. v.own.by # "params"
      BY <1>8, NotDerivedIs
    <3>5. Sound(<<"held">>, <<v>>, scopes)
      BY <1>8, <1>9, <2>2, <3>2, <3>3, <3>4, HeldSound
    <3> QED
      BY <1>11, <2>2, <3>1, <3>5
  <2> QED
    BY <1>4, <2>1, <2>2
<1>14. Balanced'
  BY <1>3, <1>10, <1>11, <1>13, BalancedBy
<1>15. LiveSnapshots' = LiveSnapshots
  BY <1>6, <1>7, <1>8, LiveInAppend DEF LiveSnapshots, IsSnapshot
<1>16. PendingParams' = PendingParams
  BY <1>6, <1>7, <1>8, PendingIdentifier DEF PendingParams
<1> QED
  BY <1>2, <1>10, <1>11, <1>14, <1>15, <1>16, QuietStep DEF ParserInv

(* direct_declarator "(" scoped_parameter_type_list_ ")".  A definition reopens  *)
(* the list that its declarator recorded.                                      *)
LEMMA FunctionDeclaratorSteps ==
  ASSUME ParserInv, FunctionDeclarator
  PROVE  ParserInv' /\ Nests /\ (Lossless => Follows)
<1> DEFINE made == MadeFunction(vals[Len(vals) - 1], Top)
<1>1. "context" \in Role \ {"plist", "block"} /\ "declarator" \in Role /\ "held" \in Role
  BY DEF Role
<1>2. /\ ToReduce("@function_declarator") /\ "@function_declarator" \in Action
      /\ context' = context /\ vals' = Append(Below(2), made)
      /\ Reduced /\ Goes(Tail(stack)) /\ context \in SUBSET Ids
  BY DEF FunctionDeclarator, MadeFunction, Reduced, Action, ParserInv, Framed
<1>3. PICK K \in Shape, b \in Shape :
         /\ ~HalfRead /\ Sound(K, vals, scopes)
         /\ Effect("@function_declarator", K, b) /\ FitsBetween(Tail(stack), b, <<>>)
         /\ Tail(stack) \in Seq(Symbol)
  BY <1>2, ReductionSettled
<1>4. "params" \in Features /\ OnDeclarator(b) /\ K = Append(b, "context")
  BY <1>3, FunctionDeclaratorEffect
<1>5. PICK c \in Shape, r \in {"held", "declarator"} :
        b = Append(c, r) /\ (r = "held" => c = <<>> /\ b = <<"held">>)
  <2>1. CASE b = <<"held">>
    <3>1. b = Append(<<>>, "held") /\ <<>> \in Shape
      BY <2>1 DEF Shape
    <3> QED
      BY <2>1, <3>1
  <2>2. CASE \E c \in Shape : b = Append(c, "declarator")
    BY <2>2
  <2> QED
    BY <1>4, <2>1, <2>2 DEF OnDeclarator
<1>6. r \in Role /\ Sound(Append(Append(c, r), "context"), vals, scopes)
  BY <1>1, <1>3, <1>4, <1>5
<1>7. PICK us \in Seq(Value), d \in Value, l \in Value :
           /\ vals = Append(Append(us, d), l) /\ Len(us) = Len(c)
           /\ Below(2) = us /\ vals[Len(vals) - 1] = d /\ Top = l
           /\ Suits(d, r) /\ ValueSound(d) /\ Suits(l, "context") /\ ValueSound(l)
           /\ Sound(Append(c, r), Append(us, d), scopes)
  BY <1>1, <1>6, TopTwoBelow
<1> DEFINE v == MadeFunction(d, l)
<1>8. vals' = Append(us, v)
  BY <1>2, <1>7
<1>9. d.tag \in DeclaratorTag /\ l.tag = "context"
  BY <1>7 DEF Suits
<1>10. /\ v \in Value /\ v.tag = "function" /\ ValueSound(v)
       /\ v.own.by = IF d.own.by = "none" THEN "params" ELSE d.own.by
       /\ v.own.file = IF d.own.by = "none" THEN l.own.file ELSE d.own.file
  BY <1>4, <1>7, <1>9, FunctionIs
<1>11. Lossless => PendingIn(Append(us, v)) = PendingIn(Append(Append(us, d), l))
  BY <1>4, <1>7, <1>9, PendingFunction
<1> HIDE DEF v, made
<1>12. v.tag \in DeclaratorTag /\ Suits(v, "declarator")
  BY <1>10 DEF DeclaratorTag, Suits
<1>13. Framed' /\ (HalfRead' <=> HalfRead)
  BY <1>2, ReductionFrame DEF ParserInv
<1>14. stack' = Tail(stack) /\ scopes' = scopes
  <2>1. b # <<>> /\ b[Len(b)] \notin MarkRole
    BY <1>4, LastOfDeclarator DEF MarkRole
  <2> QED
    BY <1>2, <1>3, <2>1, GoesOn
<1>15. Sound(b, vals', scopes')
  <2>1. CASE r = "declarator"
    <3>1. Sound(c, us, scopes)
      BY <1>1, <1>7, <2>1, PopSound
    <3> QED
      BY <1>1, <1>5, <1>8, <1>10, <1>12, <1>14, <2>1, <3>1, PushSound
  <2>2. CASE r = "held"
    <3>1. c = <<>> /\ b = <<"held">>
      BY <1>5, <2>2
    <3>2. us = <<>>
      <4>1. Len(us) = 0
        BY <1>7, <3>1
      <4> QED
        BY <4>1
    <3>3. Append(us, d) = <<d>> /\ vals' = <<v>>
      BY <1>8, <1>10, <3>2, AppendedValue
    <3>4. scopes \in Seq(Scope)
      BY <1>7 DEF Sound
    <3>5. Sound(<<"held">>, <<d>>, scopes)
      BY <1>5, <1>7, <2>2, <3>1, <3>3
    <3>6. /\ Len(scopes) = 1 /\ Definition
          /\ ~Lossy => (d.own.by = "params" => d.own.file = scopes[1])
      BY <3>4, <3>5, HeldSound
    <3>7. ~Lossy => l.own.file = scopes[1]
      <4>1. vals[2] = l
        <5>1. <<d>> \in Seq(Value) /\ Len(<<d>>) + 1 = 2
          OBVIOUS
        <5> QED
          BY <1>7, <3>3, <5>1, AppendedValue
      <4>2. K # <<>> /\ K[1] = "held" /\ Len(K) > 1 /\ K[2] = "context"
        <5>1. b[1] = "held" /\ Len(b) = 1
          BY <3>1
        <5>2. /\ K # <<>> /\ Len(K) = Len(b) + 1 /\ K[Len(b) + 1] = "context"
              /\ \A i \in 1..Len(b) : K[i] = b[i]
          BY <1>1, <1>4, AppendedShape
        <5>3. 1 \in 1..Len(b)
          BY <5>1
        <5>4. K[1] = "held"
          BY <5>1, <5>2, <5>3
        <5>5. Len(K) = 2 /\ K[2] = "context"
          BY <5>1, <5>2
        <5> QED
          BY <5>2, <5>4, <5>5
      <4>3. FileScopeKept(K, vals, scopes)
        BY <1>3 DEF Sound
      <4> QED
        BY <4>1, <4>2, <4>3 DEF FileScopeKept
    <3>8. ~Lossy => (v.own.by = "params" => v.own.file = scopes[1])
      BY <1>10, <3>6, <3>7
    <3>9. Sound(<<"held">>, <<v>>, scopes)
      BY <1>10, <1>12, <3>4, <3>6, <3>8, HeldSound
    <3> QED
      BY <1>14, <3>1, <3>3, <3>9
  <2> QED
    BY <2>1, <2>2
<1>16. Balanced'
  BY <1>3, <1>13, <1>14, <1>15, BalancedBy
<1>17. LiveSnapshots' = LiveSnapshots
  <2>1. Append(us, d) \in Seq(Value)
    BY AppendedValue
  <2> QED
    BY <1>7, <1>8, <1>9, <1>10, <2>1, LiveInAppend DEF LiveSnapshots, IsSnapshot, DeclaratorTag
<1>18. Lossless => PendingParams' = PendingParams
  BY <1>7, <1>8, <1>11 DEF PendingParams
<1> QED
  BY <1>2, <1>13, <1>14, <1>16, <1>17, <1>18, QuietStep DEF ParserInv, Nests

(* Declarations: the table and the innermost scope change alike.                *)
LEMMA DeclareFollows ==
  ASSUME NEW id \in Ids, NEW kind \in {"type", "other"}, vals' = vals,
         context' = DeclaredIn(context, id, kind), scopes' = Declare(scopes, id, kind)
  PROVE  Follows
<1>1. LiveSnapshots' = LiveSnapshots /\ PendingParams' = PendingParams
  BY DEF LiveSnapshots, PendingParams
<1>2. CASE kind = "type"
  <2>1. Protocol!DeclareType(id)
    BY <1>1, <1>2 DEF DeclaredIn, Protocol!DeclareType, Protocol!declare_typedefname,
       declare_typedefname, Protocol!Declare, Declare
  <2> QED
    BY <2>1 DEF Follows, Protocol!Next
<1>3. CASE kind = "other"
  <2>1. Protocol!DeclareVar(id)
    BY <1>1, <1>3 DEF DeclaredIn, Protocol!DeclareVar, Protocol!declare_varname,
       declare_varname, Protocol!Declare, Declare
  <2> QED
    BY <2>1 DEF Follows, Protocol!Next
<1> QED
  BY <1>2, <1>3

LEMMA DeclareSteps ==
  ASSUME ParserInv, NEW a \in Action, ToReduce(a), Reduced, vals' = vals,
         NEW kind \in {"type", "other"}, context' = DeclaredIn(context, Top.identifier, kind),
         NEW c \in Shape, NEW r \in {"varname", "constant", "typename"},
         r = "typename" <=> kind = "type",
         NEW held \in {"string", "declarator"}, held = "string" <=> r = "constant",
         ~HalfRead, Sound(Append(c, held), vals, scopes), Free(Append(c, held)),
         kind = "type" => OutsideList(Append(c, held)),
         FitsBetween(Tail(stack), Append(c, r), <<>>), Tail(stack) \in Seq(Symbol)
  PROVE  ParserInv' /\ Follows
<1>1. held \in Role /\ Goes(Tail(stack)) /\ context \in SUBSET Ids
  BY DEF Role, Reduced, ParserInv, Framed
<1>2. Top \in Value /\ Top.identifier \in Ids
  <2>1. PICK v \in Value : v = vals[Len(vals)] /\ Suits(v, held) /\ ValueSound(v)
    BY <1>1, TopBelow
  <2>2. v.tag \notin {"snapshot", "context"}
    BY <2>1 DEF Suits, DeclaratorTag
  <2>3. v.identifier \in Ids
    BY <2>1, <2>2, ValueFields DEF ValueSound
  <2> QED
    BY <2>1, <2>3 DEF Top
<1>3. scopes' = Declare(scopes, Top.identifier, kind)
      /\ FitsBetween(stack', Append(c, held), <<>>)
  <2>1. /\ scopes' = Declare(scopes, vals'[Len(vals')].identifier,
                             IF r = "typename" THEN "type" ELSE "other")
        /\ FitsBetween(stack', Append(c, IF r = "constant" THEN "string" ELSE "declarator"), <<>>)
    BY <1>1, GoesDeclared
  <2>2. (IF r = "typename" THEN "type" ELSE "other") = kind
        /\ (IF r = "constant" THEN "string" ELSE "declarator") = held
    OBVIOUS
  <2>3. vals'[Len(vals')] = Top
    BY DEF Top
  <2> QED
    BY <2>1, <2>2, <2>3
<1>4. context' \in SUBSET Ids
  BY <1>1, <1>2 DEF DeclaredIn, declare_typedefname, declare_varname
<1>5. Framed' /\ (HalfRead' <=> HalfRead)
  BY <1>4, ReductionFrame DEF ParserInv
<1>6. Append(c, held) \in Shape
  BY <1>1, AppendedShape
<1>7. Sound(Append(c, held), vals', scopes')
  BY <1>2, <1>3, <1>6, DeclareSound
<1>8. Balanced'
  BY <1>3, <1>5, <1>6, <1>7, BalancedBy
<1>9. Follows
  BY <1>2, <1>3, DeclareFollows
<1> QED
  BY <1>5, <1>8, <1>9 DEF ParserInv

(* The declarator of a function definition is declared. *)
LEMMA DefinedSteps ==
  ASSUME ParserInv, ToReduce("@declarator_varname"), Reduced, vals' = vals,
         context' = DeclaredIn(context, Top.identifier, "other"), ~HalfRead,
         Sound(<<"held">>, vals, scopes), FitsBetween(Tail(stack), <<"heldvar">>, <<>>),
         Tail(stack) \in Seq(Symbol)
  PROVE  ParserInv' /\ Follows
<1>1. "@declarator_varname" \in Action /\ Goes(Tail(stack)) /\ context \in SUBSET Ids
  BY DEF Action, Reduced, ParserInv, Framed
<1>2. scopes' = Declare(scopes, Top.identifier, "other")
      /\ FitsBetween(stack', <<"defined">>, <<>>)
  BY <1>1, GoesDefined DEF Top
<1>3. PICK d \in Value : vals = <<d>> /\ Top = d
  <2>1. vals \in Seq(Value) /\ Len(vals) = 1
    BY DEF Sound
  <2>2. vals = <<vals[1]>> /\ vals[1] \in Value
    BY <2>1
  <2> QED
    BY <2>1, <2>2 DEF Top
<1>4. scopes \in Seq(Scope)
  BY DEF Sound
<1>5. /\ d.tag \in DeclaratorTag /\ ValueSound(d) /\ Len(scopes) = 1 /\ Definition
      /\ ~Lossy => (d.own.by = "params" => d.own.file = scopes[1])
  BY <1>3, <1>4, HeldSound
<1>6. d.identifier \in Ids
  <2>1. d.tag \notin {"snapshot", "context"}
    BY <1>5 DEF DeclaratorTag
  <2> QED
    BY <1>5, <2>1, ValueFields DEF ValueSound
<1>7. /\ scopes' \in Seq(Scope) /\ Len(scopes') = 1
      /\ scopes'[1] = [scopes[1] EXCEPT ![d.identifier] = "other"]
      /\ scopes[1] \in Scope
  <2>1. "other" \in Kind
    BY DEF Kind
  <2>2. scopes[1] \in Scope
    BY <1>4, <1>5
  <2>3. Declare(scopes, d.identifier, "other") = scopes'
    BY <1>2, <1>3
  <2>4. /\ Declare(scopes, d.identifier, "other") \in Seq(Scope)
        /\ Len(Declare(scopes, d.identifier, "other")) = Len(scopes)
        /\ Declare(scopes, d.identifier, "other")[Len(scopes)] =
             [scopes[Len(scopes)] EXCEPT ![d.identifier] = "other"]
    BY <1>4, <1>5, <1>6, <2>1, DeclareTop
  <2> QED
    BY <1>5, <2>2, <2>3, <2>4
<1>8. JustDeclared(d, scopes'[1])
  <2>1. scopes'[1][d.identifier] = "other"
        /\ \A id \in Ids \ {d.identifier} : scopes'[1][id] = scopes[1][id]
    BY <1>6, <1>7 DEF Scope
  <2> QED
    BY <1>5, <2>1 DEF JustDeclared
<1>9. Sound(<<"declarator">>, vals', scopes')
  BY <1>3, <1>5, <1>7, HeldSound
<1>10. context' \in SUBSET Ids
  BY <1>1 DEF DeclaredIn, declare_varname
<1>11. Framed' /\ (HalfRead' <=> HalfRead)
  BY <1>1, <1>10, ReductionFrame DEF ParserInv
<1>12. Balanced'
  <2>1. <<"defined">> \in Shape
    BY DEF Shape, Role
  <2>2. vals'[1] = d
    BY <1>3
  <2>3. Matches(<<"defined">>, HalfRead', vals', context', scopes')
    BY <1>5, <1>8, <1>9, <1>11, <2>2 DEF Matches
  <2> QED
    BY <1>2, <2>1, <2>3 DEF Balanced
<1>13. Follows
  BY <1>2, <1>3, <1>6, DeclareFollows
<1> QED
  BY <1>11, <1>12, <1>13 DEF ParserInv

LEMMA DeclarationSteps ==
  ASSUME ParserInv, DeclaratorVarname \/ DeclaratorTypedefname \/ Enumerator
  PROVE  ParserInv' /\ Follows
<1>1. CASE DeclaratorVarname
  <2>1. /\ ToReduce("@declarator_varname") /\ Reduced /\ vals' = vals
        /\ context' = DeclaredIn(context, Top.identifier, "other")
        /\ "@declarator_varname" \in Action
    BY <1>1 DEF DeclaratorVarname, DeclaredIn, Action
  <2>2. PICK K \in Shape, b \in Shape :
         /\ ~HalfRead /\ Sound(K, vals, scopes)
         /\ Effect("@declarator_varname", K, b) /\ FitsBetween(Tail(stack), b, <<>>)
         /\ Tail(stack) \in Seq(Symbol)
    BY <2>1, ReductionSettled
  <2>3. CASE K = <<"held">> /\ b = <<"heldvar">>
    BY <2>1, <2>2, <2>3, DefinedSteps
  <2>4. ASSUME Free(K), NEW c \in Shape, K = Append(c, "declarator"), b = Append(c, "varname")
        PROVE  ParserInv' /\ Follows
    BY <2>1, <2>2, <2>4, DeclareSteps
  <2> QED
    BY <2>2, <2>3, <2>4, DeclareVarEffect DEF Replaces
<1>2. CASE DeclaratorTypedefname
  <2>1. /\ ToReduce("@declarator_typedefname") /\ Reduced /\ vals' = vals
        /\ context' = DeclaredIn(context, Top.identifier, "type")
        /\ "@declarator_typedefname" \in Action
    BY <1>2 DEF DeclaratorTypedefname, DeclaredIn, Action
  <2>2. PICK K \in Shape, b \in Shape :
         /\ ~HalfRead /\ Sound(K, vals, scopes)
         /\ Effect("@declarator_typedefname", K, b) /\ FitsBetween(Tail(stack), b, <<>>)
         /\ Tail(stack) \in Seq(Symbol)
    BY <2>1, ReductionSettled
  <2>3. PICK c \in Shape : /\ K = Append(c, "declarator") /\ b = Append(c, "typename")
                           /\ Free(K) /\ OutsideList(K)
    BY <2>2, DeclareTypeEffect DEF Replaces
  <2> QED
    BY <2>1, <2>2, <2>3, DeclareSteps
<1>3. CASE Enumerator
  <2>1. /\ ToReduce("@enumerator") /\ Reduced /\ vals' = vals
        /\ context' = DeclaredIn(context, Top.identifier, "other")
        /\ "@enumerator" \in Action
    BY <1>3 DEF Enumerator, DeclaredIn, Action
  <2>2. PICK K \in Shape, b \in Shape :
         /\ ~HalfRead /\ Sound(K, vals, scopes)
         /\ Effect("@enumerator", K, b) /\ FitsBetween(Tail(stack), b, <<>>)
         /\ Tail(stack) \in Seq(Symbol)
    BY <2>1, ReductionSettled
  <2>3. PICK c \in Shape : K = Append(c, "string") /\ b = Append(c, "constant") /\ Free(K)
    BY <2>2, EnumeratorEffect DEF Replaces
  <2> QED
    BY <2>1, <2>2, <2>3, DeclareSteps
<1> QED
  BY <1>1, <1>2, <1>3

(* function_definition1: the body reopens the parameters that the declarator     *)
(* recorded.                                                                  *)
LEMMA DefinitionStarts ==
  ASSUME ParserInv, ToReduce("@function_definition1")
  PROVE  /\ ~HalfRead /\ Definition /\ Sound(<<"declarator">>, vals, scopes)
         /\ JustDeclared(vals[1], scopes[1])
         /\ FitsBetween(Tail(stack), <<"body">>, <<>>) /\ Tail(stack) \in Seq(Symbol)
<1>1. "@function_definition1" \in Action
  BY DEF Action
<1>2. PICK K \in Shape, b \in Shape :
         /\ Matches(K, HalfRead, vals, context, scopes)
         /\ Effect("@function_definition1", K, b) /\ FitsBetween(Tail(stack), b, <<>>)
         /\ Tail(stack) \in Seq(Symbol)
  BY <1>1, ReductionStart
<1>3. K = <<"defined">> /\ b = <<"body">>
  BY <1>2, DefineEffect
<1>4. K[Len(K)] = "defined"
  BY <1>3
<1>5. ASSUME Sound(K, vals, scopes) PROVE FALSE
  <2>1. 1 \in 1..Len(vals) /\ K[1] = "defined"
    <3>1. Len(K) = 1
      BY <1>3
    <3> QED
      BY <1>3, <1>5, <3>1 DEF Sound
  <2>2. Suits(vals[1], K[1])
    BY <1>5, <2>1 DEF Sound
  <2> QED
    BY <2>1, <2>2 DEF Suits
<1>6. \A c \in Shape : K # Append(c, "half") /\ K # Append(Append(c, "plist"), "list")
  <2>1. "half" \in Role /\ "list" \in Role /\ "plist" \in Role
    BY DEF Role
  <2> QED
    BY <1>4, <2>1, LastOfAppended
<1>7. /\ ~HalfRead /\ Definition /\ Sound(<<"declarator">>, vals, scopes)
      /\ JustDeclared(vals[1], scopes[1])
  BY <1>2, <1>5, <1>6 DEF Matches
<1> QED
  BY <1>2, <1>3, <1>7

LEMMA DefinitionSteps ==
  ASSUME ParserInv, FunctionDefinition1
  PROVE  ParserInv' /\ Nests /\ (Lossless => Follows)
<1>1. /\ ToReduce("@function_definition1") /\ "@function_definition1" \in Action
      /\ Reduced /\ Goes(Tail(stack)) /\ context \in SUBSET Ids
      /\ Top.own.by \in {"params", "idlist"}
      /\ vals' = Append(Below(1), ContextValue("snapshot", context, Top.own))
      /\ context' = reinstall_function_context(DeclaratorOf(Top), context)
  BY DEF FunctionDefinition1, Replace, save_context, Action, Reduced, ParserInv, Framed
<1>2. /\ ~HalfRead /\ Definition /\ Sound(<<"declarator">>, vals, scopes)
      /\ JustDeclared(vals[1], scopes[1])
      /\ FitsBetween(Tail(stack), <<"body">>, <<>>) /\ Tail(stack) \in Seq(Symbol)
  BY <1>1, DefinitionStarts
<1>3. PICK d \in Value : vals = <<d>> /\ Top = d /\ Below(1) = <<>>
  <2>1. vals \in Seq(Value) /\ Len(vals) = 1
    BY <1>2 DEF Sound
  <2>2. vals = <<vals[1]>> /\ vals[1] \in Value /\ SubSeq(vals, 1, 0) = <<>>
    BY <2>1
  <2> QED
    BY <2>1, <2>2 DEF Top, Below
<1>4. scopes \in Seq(Scope)
  BY <1>2 DEF Sound
<1>5. d.tag \in DeclaratorTag /\ ValueSound(d) /\ Len(scopes) = 1
  BY <1>2, <1>3, <1>4, HeldSound
<1>6. d.identifier \in Ids
  <2>1. d.tag \notin {"snapshot", "context"}
    BY <1>5 DEF DeclaratorTag
  <2> QED
    BY <1>5, <2>1, ValueFields DEF ValueSound
<1> DEFINE v == ContextValue("snapshot", context, d.own)
<1>7. /\ v \in Value /\ ValueSound(v) /\ v.tag = "snapshot" /\ v.ctx = context
      /\ v.own = d.own
  <2>1. d.own \in [by : Derivation, last : Derivation, scope : Scope, file : Scope]
    BY DEF Value
  <2> QED
    BY <1>1, <2>1, ContextIs
<1>8. vals' = <<v>>
  <2>1. vals' = Append(<<>>, v)
    BY <1>1, <1>3
  <2> HIDE DEF v
  <2> QED
    BY <2>1
<1> HIDE DEF v
<1>9. /\ DeclaratorOf(d).tag = d.tag /\ DeclaratorOf(d).identifier = d.identifier
      /\ DeclaratorOf(d).ctx = d.ctx /\ d.ctx \in SUBSET Ids
  BY DeclaratorOfIs, ValueFields
<1>10. context' = IF d.tag = "function" THEN d.ctx \ {d.identifier} ELSE context
  BY <1>1, <1>3, <1>9 DEF reinstall_function_context, declare_varname, restore_context
<1>11. Framed' /\ (HalfRead' <=> HalfRead)
  <2>1. context' \in SUBSET Ids
    BY <1>1, <1>9, <1>10
  <2> QED
    BY <1>1, <2>1, ReductionFrame DEF ParserInv
<1>12. scopes' = Enter(scopes, d.own.scope) /\ FitsBetween(stack', <<"block">>, <<>>)
       /\ Len(scopes') <= MaxDepth
  <2>1. vals'[Len(vals')] = v
    BY <1>8
  <2> QED
    BY <1>1, <1>2, <1>7, <2>1, GoesDefined
<1>13. d.own.scope \in Scope
  BY ValueFields
<1>14. Balanced'
  <2>1. <<"block">> \in Shape /\ <<>> \in Shape
    BY DEF Shape, Role
  <2>2. Sound(<<>>, <<>>, scopes) /\ OutsideList(<<>>) /\ Suits(v, "block")
    BY <1>4, <1>5, <1>7, EmptySound DEF OutsideList, Suits
  <2>3. Sound(Append(<<>>, "block"), Append(<<>>, v), Enter(scopes, d.own.scope))
    BY <1>7, <1>13, <2>1, <2>2, PushScope
  <2>4. Append(<<>>, "block") = <<"block">> /\ Append(<<>>, v) = <<v>>
    OBVIOUS
  <2>5. Sound(<<"block">>, vals', scopes')
    BY <1>8, <1>12, <2>3, <2>4
  <2> QED
    BY <1>2, <1>11, <1>12, <2>1, <2>5, BalancedBy
<1>15. LiveSnapshots = <<>> /\ LiveSnapshots' = <<context>>
  <2>1. <<>> \in Seq(Value) /\ Append(<<>>, d) = <<d>> /\ Append(<<>>, v) = <<v>>
    OBVIOUS
  <2>2. LiveIn(<<d>>) = <<>>
    <3>1. LiveIn(Append(<<>>, d)) = LiveIn(<<>>)
      BY <1>5, <2>1, LiveInAppend DEF IsSnapshot, DeclaratorTag
    <3> QED
      BY <2>1, <3>1, LiveInEmpty
  <2>3. LiveIn(<<v>>) = <<context>>
    <3>1. LiveIn(Append(<<>>, v)) = Append(LiveIn(<<>>), context)
      BY <1>7, <2>1, LiveInAppend DEF IsSnapshot
    <3>2. Append(<<>>, context) = <<context>>
      OBVIOUS
    <3> QED
      BY <2>1, <3>1, <3>2, LiveInEmpty
  <2> QED
    BY <1>3, <1>8, <2>2, <2>3 DEF LiveSnapshots
<1>16. Len(scopes) < MaxDepth
  <2>1. Len(Enter(scopes, d.own.scope)) = Len(scopes) + 1
    BY <1>4, <1>13, EnterTop
  <2> QED
    BY <1>5, <1>12, <2>1, MaxDepthAssumption
<1>17. PendingParams' = NoList
  BY <1>7, <1>8, PendingOne DEF PendingParams, RecordsList
<1>18. ASSUME Lossless PROVE Follows
  <2>1. CASE d.own.by = "params"
    <3>1. "params" \in Features /\ ~Lossy
      BY <1>2, <1>5, <1>18, <2>1 DEF ValueSound, TellsDerivation, Lossless, Definition
    <3>2. d.tag = "function"
      BY <1>5, <2>1, <3>1 DEF ValueSound, TellsDerivation, DeclaratorTag
    <3>3. PendingParams = AsParams(d, d.identifier)
      BY <1>2, <1>3, <2>1, <3>2, PendingOne DEF PendingParams, RecordsList
    <3>4. /\ scopes[1][d.identifier] = "other"
          /\ \A id \in Ids \ {d.identifier} : scopes[1][id] = d.own.file[id]
      <4>1. vals[1] = d
        BY <1>3
      <4> QED
        BY <1>2, <2>1, <3>1, <4>1 DEF JustDeclared
    <3>5. Protocol!EnterBody
      <4>1. PendingParams # Protocol!NoParams
        BY <1>6, <3>3, IdsAssumption DEF AsParams, Protocol!NoParams
      <4>2. Protocol!FitsFileScope
        BY <3>3, <3>4 DEF AsParams, Protocol!FitsFileScope
      <4>3. scopes[1][PendingParams.fn] = "other"
        BY <3>3, <3>4 DEF AsParams
      <4>4. LiveSnapshots' = Append(LiveSnapshots, Protocol!save_context(context))
        BY <1>15 DEF Protocol!save_context
      <4>5. context' = Protocol!Reinstalled(PendingParams)
        BY <1>10, <3>2, <3>3 DEF AsParams, Protocol!Reinstalled, Protocol!declare_varname,
           Protocol!restore_context
      <4>6. scopes' = Protocol!Enter(scopes, PendingParams.scope)
        BY <1>12, <3>3 DEF AsParams, Protocol!Enter, Enter
      <4>7. PendingParams' = Protocol!NoParams
        BY <1>17 DEF NoList, NoDeclarations, Protocol!NoParams, Protocol!NoDeclarations
      <4> QED
        BY <1>5, <1>16, <4>1, <4>2, <4>3, <4>4, <4>5, <4>6, <4>7 DEF Protocol!EnterBody
    <3> QED
      BY <3>5 DEF Follows, Protocol!Next
  <2>2. CASE d.own.by = "idlist"
    <3>1. "idlist" \in Features /\ d.own.scope = NoDeclarations
      BY <1>5, <2>2 DEF ValueSound, TellsDerivation
    <3>2. "params" \notin Features
      BY <1>2, <1>18, <3>1 DEF Lossless, Lossy, Definition
    <3>3. d.tag # "function"
      BY <1>5, <3>2 DEF ValueSound, TellsDerivation
    <3>4. PendingParams = NoList
      BY <1>3, <2>2, PendingOne DEF PendingParams, RecordsList
    <3>5. Protocol!EnterScope
      BY <1>10, <1>12, <1>15, <1>16, <1>17, <3>1, <3>3, <3>4
         DEF Protocol!EnterScope, Protocol!save_context, Protocol!Enter, Enter,
             NoDeclarations, Protocol!NoDeclarations
    <3> QED
      BY <3>5 DEF Follows, Protocol!Next
  <2> QED
    BY <1>1, <1>3, <2>1, <2>2
<1>19. Nests
  <2>1. Append(LiveSnapshots, context) = <<context>>
    BY <1>15
  <2> QED
    BY <1>12, <1>15, <2>1 DEF Nests
<1> QED
  BY <1>11, <1>14, <1>18, <1>19 DEF ParserInv

(* if without else: nothing is done. *)
LEMMA BelowElseSteps ==
  ASSUME ParserInv, IfWithoutElse
  PROVE  ParserInv' /\ Follows
<1>1. /\ ToReduce("@below_ELSE") /\ "@below_ELSE" \in Action /\ "@below_ELSE" \in Plain
      /\ Reduced /\ Goes(Tail(stack)) /\ context \in SUBSET Ids
      /\ context' = context /\ vals' = vals
  BY DEF IfWithoutElse, Action, Plain, Reduced, ParserInv, Framed
<1>2. PICK K \in Shape, b \in Shape :
         /\ ~HalfRead /\ Sound(K, vals, scopes)
         /\ Effect("@below_ELSE", K, b) /\ FitsBetween(Tail(stack), b, <<>>)
         /\ Tail(stack) \in Seq(Symbol)
  BY <1>1, ReductionSettled
<1>3. b = K /\ (K = <<>> \/ K[Len(K)] \notin MarkRole)
  BY <1>1, <1>2, PlainEffect DEF Open, Awaiting, MarkRole
<1>4. stack' = Tail(stack) /\ scopes' = scopes
  BY <1>1, <1>2, <1>3, GoesOn
<1>5. Framed' /\ (HalfRead' <=> HalfRead)
  BY <1>1, ReductionFrame DEF ParserInv
<1>6. Balanced'
  BY <1>1, <1>2, <1>3, <1>4, <1>5, BalancedBy
<1>7. Follows
  BY <1>1, <1>4, QuietStep DEF LiveSnapshots, PendingParams
<1> QED
  BY <1>5, <1>6, <1>7 DEF ParserInv

-----------------------------------------------------------------------------
(* Derivation, lookahead and shift: the rest of the program and the values stay   *)
(* matched, and the protocol's state is left alone.                            *)

LEMMA PlainTokens == Token \ {"NAME", "TYPE", "VARIABLE"} \subseteq Plain
<1>1. Token \subseteq Symbol
  BY VocabularyIsSymbols DEF Vocabulary
<1>2. Token \cap (UNION {FileLevel, Local, Anywhere, ParameterDeclarator, Special}) = {}
      /\ Token \cap Action = {} /\ Token \cap Mark = {}
  BY TokensAre, Nonterminals DEF Silent
<1> QED
  BY <1>1, <1>2 DEF Symbol

LEMMA NoMarkAwaited ==
  ASSUME NEW K \in Shape, NEW half, NEW vs, NEW ctx, NEW ss, Matches(K, half, vs, ctx, ss)
  PROVE  K = <<>> \/ K[Len(K)] \notin MarkRole
<1>1. ASSUME Sound(K, vs, ss), K # <<>> PROVE K[Len(K)] \notin MarkRole
  <2>1. Len(K) \in 1..Len(vs)
    BY <1>1 DEF Sound, Shape
  <2>2. Suits(vs[Len(K)], K[Len(K)])
    BY <1>1, <2>1 DEF Sound
  <2> QED
    BY <2>2 DEF Suits, MarkRole
<1>2. ASSUME NEW c \in Shape, K = Append(c, "half") PROVE K[Len(K)] \notin MarkRole
  <2>1. K[Len(K)] = "half"
    BY <1>2, LastOfAppended DEF Role
  <2> QED
    BY <2>1 DEF MarkRole
<1>3. ASSUME NEW c \in Shape, K = Append(Append(c, "plist"), "list")
      PROVE  K[Len(K)] \notin MarkRole
  <2>1. K[Len(K)] = "list"
    <3>1. "plist" \in Role /\ "list" \in Role
      BY DEF Role
    <3> QED
      BY <1>3, <3>1, LastOfAppended
  <2> QED
    BY <2>1 DEF MarkRole
<1>4. ASSUME K = <<"defined">> PROVE K[Len(K)] \notin MarkRole
  BY <1>4 DEF MarkRole
<1> QED
  BY <1>1, <1>2, <1>3, <1>4 DEF Matches

(* Only one symbol is the first that is read. *)
LEMMA OneLeads ==
  ASSUME NEW S, NEW seq \in Seq(S), NEW i, NEW j, Leads(seq, i), Leads(seq, j)
  PROVE  i = j
<1>1. i \in Nat /\ j \in Nat /\ i >= 1 /\ j >= 1
  BY DEF Leads
<1>2. ~(i < j)
  <2>1. i < j => i \in 1..(j - 1)
    BY <1>1
  <2> QED
    BY <2>1 DEF Leads
<1>3. ~(j < i)
  <2>1. j < i => j \in 1..(i - 1)
    BY <1>1
  <2> QED
    BY <2>1 DEF Leads
<1> QED
  BY <1>1, <1>2, <1>3

LEMMA ProtocolIdle ==
  ASSUME UNCHANGED <<vals, context, scopes>>
  PROVE  Follows
  BY DEF Follows, Protocol!vars, LiveSnapshots, PendingParams

LEMMA ExpandSteps ==
  ASSUME ParserInv, Expand
  PROVE  ParserInv' /\ Follows
<1>1. PICK i \in DOMAIN stack : /\ IsNext(i) /\ stack[i] \in Nonterminal
                                /\ UNCHANGED <<vals, context, la, lexer>>
                                /\ \E rhs \in Derivations[stack[i]] : Goes(Spliced(stack, i, rhs))
  BY DEF Expand
<1>2. PICK rhs \in Derivations[stack[i]] : Goes(Spliced(stack, i, rhs))
  BY <1>1
<1> DEFINE rest == Spliced(stack, i, rhs)
<1>3. stack \in Seq(Vocabulary) /\ stack \in Seq(Symbol) /\ i \in 1..Len(stack)
  BY StackSpelled DEF ParserInv, Framed
<1>4. rhs \in Good(stack[i]) /\ rhs \in Seq(Vocabulary)
  BY <1>1, DerivationsTyped, SpelledDerivations
<1>5. PICK K \in Shape : FitsBetween(stack, K, <<>>) /\ Matches(K, HalfRead, vals, context, scopes)
  BY DEF ParserInv, Balanced
<1>6. rest \in Seq(Symbol) /\ FitsBetween(rest, K, <<>>) /\ rest \in Seq(Vocabulary)
  <2>1. <<>> \in Shape
    BY DEF Shape
  <2> QED
    BY <1>3, <1>4, <1>5, <2>1, SplicedGood, SpelledSplice
<1> HIDE DEF rest
<1>7. K = <<>> \/ K[Len(K)] \notin MarkRole
  BY <1>5, NoMarkAwaited
<1>8. stack' = rest /\ scopes' = scopes /\ Len(scopes') <= MaxDepth
  BY <1>2, <1>6, <1>7, GoesOn DEF rest
<1>9. HalfRead' <=> HalfRead
  BY <1>1 DEF HalfRead, lexer
<1>10. Balanced'
  <2>1. Matches(K, HalfRead', vals', context', scopes')
    BY <1>1, <1>5, <1>8, <1>9 DEF Matches
  <2> QED
    BY <1>6, <1>8, <2>1 DEF Balanced
<1>11. LookaheadFits'
  <2>1. ASSUME NEW k \in Nat, Leads(stack, k), stack[k] = la.kind
        PROVE  la.kind \notin Token
    <3>1. k = i
      BY <1>1, <1>3, <2>1, OneLeads DEF IsNext
    <3> QED
      BY <1>1, <2>1, <3>1, TokensAre
  <2>2. LookaheadFits
    BY DEF ParserInv, Framed
  <2>3. \/ la = NoToken
        \/ la.kind \in {"TYPE", "VARIABLE"} /\ la.value = "none" /\ lexer_state = "SRegular"
    <3>1. ~(/\ la.kind \in Token \ {"TYPE", "VARIABLE"}
            /\ \E k \in Nat : Leads(stack, k) /\ stack[k] = la.kind)
      BY <2>1
    <3> QED
      BY <2>2, <3>1 DEF LookaheadFits
  <2> QED
    BY <1>1, <2>3 DEF LookaheadFits, NoToken, lexer
<1>12. Framed'
  <2>1. HalvesInv'
    BY ExpandFeeds DEF ParserInv, Framed
  <2> QED
    BY <1>1, <1>6, <1>8, <1>11, <2>1 DEF ParserInv, Framed
<1>13. Follows
  BY <1>1, <1>8, ProtocolIdle
<1> QED
  BY <1>10, <1>12, <1>13 DEF ParserInv

(* The rest of the program and the values stay as they are. *)
LEMMA StayBalanced ==
  ASSUME Balanced, UNCHANGED <<stack, vals, context, scopes>>, HalfRead' <=> HalfRead
  PROVE  Balanced'
<1>1. PICK K \in Shape : FitsBetween(stack, K, <<>>) /\ Matches(K, HalfRead, vals, context, scopes)
  BY DEF Balanced
<1>2. Matches(K, HalfRead', vals', context', scopes')
  BY <1>1 DEF Matches
<1> QED
  BY <1>1, <1>2 DEF Balanced

LEMMA NameSteps ==
  ASSUME ParserInv, NEW i \in DOMAIN stack, NEW id \in Ids, YylexName(i, id)
  PROVE  ParserInv' /\ Follows
<1>1. /\ Leads(stack, i) /\ stack[i] = "NAME" /\ lexer_state = "SRegular" /\ la = NoToken
      /\ la'.kind = "NAME" /\ la'.value = id /\ la' = [kind |-> "NAME", value |-> id]
      /\ lexer_state' = "SIdent" /\ UNCHANGED <<stack, vals, context, scopes>>
  BY DEF YylexName, IsNext
<1>2. ~HalfRead /\ ~HalfRead'
  BY <1>1 DEF HalfRead, NoToken
<1>3. Balanced'
  BY <1>1, <1>2, StayBalanced DEF ParserInv
<1>4. LookaheadFits'
  <2>1. i \in Nat /\ "NAME" \in Token \ {"TYPE", "VARIABLE"}
    BY TokensAre DEF ParserInv, Framed
  <2> QED
    BY <1>1, <2>1 DEF LookaheadFits
<1>5. HalvesInv'
  BY NameFeeds DEF ParserInv, Framed
<1>6. la' \in [kind : Token \cup {"none"}, value : Ids \cup {"none"}]
  BY <1>1, TokensAre
<1> QED
  BY <1>1, <1>3, <1>4, <1>5, <1>6, ProtocolIdle DEF ParserInv, Framed

LEMMA SecondHalfSteps ==
  ASSUME ParserInv, YylexSecondHalf
  PROVE  ParserInv' /\ Follows
<1>1. /\ lexer_state = "SIdent" /\ la = NoToken
      /\ la'.kind \in {"TYPE", "VARIABLE"} /\ la'.value = "none"
      /\ la' \in [kind : {"TYPE", "VARIABLE"}, value : {"none"}]
      /\ lexer_state' = "SRegular" /\ UNCHANGED <<stack, vals, context, scopes>>
  BY DEF YylexSecondHalf
<1>2. HalfRead /\ HalfRead'
  BY <1>1 DEF HalfRead
<1>3. Balanced'
  BY <1>1, <1>2, StayBalanced DEF ParserInv
<1>4. LookaheadFits'
  BY <1>1 DEF LookaheadFits
<1>5. HalvesInv'
  BY SecondHalfFeeds DEF ParserInv, Framed
<1>6. la' \in [kind : Token \cup {"none"}, value : Ids \cup {"none"}]
  BY <1>1, TokensAre
<1> QED
  BY <1>1, <1>3, <1>4, <1>5, <1>6, ProtocolIdle DEF ParserInv, Framed

(* The next symbol to come is a token without a value. *)
LEMMA TokenStart ==
  ASSUME ParserInv, stack # <<>>, stack[1] \in Token \ {"NAME", "TYPE", "VARIABLE"},
         Goes(Tail(stack))
  PROVE  \E K \in Shape : /\ ~HalfRead /\ Sound(K, vals, scopes)
                          /\ FitsBetween(stack', K, <<>>)
                          /\ stack' = Tail(stack) /\ scopes' = scopes
                          /\ Len(scopes') <= MaxDepth /\ stack' \in Seq(Vocabulary)
<1>1. stack \in Seq(Symbol) /\ stack \in Seq(Vocabulary)
  BY StackSpelled DEF ParserInv, Framed
<1>2. PICK K \in Shape : FitsBetween(stack, K, <<>>) /\ Matches(K, HalfRead, vals, context, scopes)
  BY DEF ParserInv, Balanced
<1>3. PICK b \in Shape : Effect(stack[1], K, b) /\ FitsBetween(Tail(stack), b, <<>>)
                         /\ stack[1] \in Symbol /\ Tail(stack) \in Seq(Symbol)
  BY <1>1, <1>2, FirstOf
<1>4. stack[1] \in Plain
  BY PlainTokens
<1>5. b = K
  BY <1>3, <1>4, PlainEffect
<1>6. ~HalfRead /\ Sound(K, vals, scopes)
  <2>1. stack[1] \notin {"TYPE", "VARIABLE", "@scoped_parameter_type_list_", "@function_definition1"}
    BY <1>4 DEF Plain
  <2> QED
    BY <1>2, <1>3, <2>1, Settled
<1>7. K = <<>> \/ K[Len(K)] \notin MarkRole
  BY <1>2, NoMarkAwaited
<1>8. stack' = Tail(stack) /\ scopes' = scopes /\ Len(scopes') <= MaxDepth
  BY <1>3, <1>5, <1>7, GoesOn
<1>9. Tail(stack) \in Seq(Vocabulary)
  BY <1>1
<1> QED
  BY <1>3, <1>5, <1>6, <1>8, <1>9

LEMMA OtherTokenSteps ==
  ASSUME ParserInv, NEW i \in DOMAIN stack, YylexOther(i)
  PROVE  ParserInv' /\ Follows
<1>1. /\ Leads(stack, i) /\ stack[i] \notin Nonterminal \cup {"NAME", "TYPE", "VARIABLE"}
      /\ lexer_state = "SRegular" /\ la = NoToken /\ UNCHANGED <<context, lexer>>
  BY DEF YylexOther, IsNext
<1>2. stack \in Seq(Vocabulary) /\ i \in 1..Len(stack) /\ stack # <<>> /\ i \in Nat
  BY DEF ParserInv, Framed
<1>3. stack[i] \in Token \ {"NAME", "TYPE", "VARIABLE"}
  BY <1>1, <1>2 DEF Vocabulary, Leads, Silent
<1>4. ~HalfRead
  BY <1>1 DEF HalfRead, NoToken
<1>5. HalvesInv'
  BY OtherFeeds DEF ParserInv, Framed
<1>6. CASE i = 1 /\ UNCHANGED <<vals, la>> /\ Goes(Tail(stack))
  <2>1. PICK K \in Shape : /\ Sound(K, vals, scopes) /\ FitsBetween(stack', K, <<>>)
                           /\ stack' = Tail(stack) /\ scopes' = scopes
                           /\ Len(scopes') <= MaxDepth /\ stack' \in Seq(Vocabulary)
    BY <1>2, <1>3, <1>6, TokenStart
  <2>2. ~HalfRead'
    BY <1>1, <1>4, <1>6 DEF HalfRead, lexer
  <2>3. Balanced'
    BY <1>6, <2>1, <2>2, BalancedBy
  <2>4. Framed'
    <3>1. LookaheadFits'
      BY <1>1, <1>6 DEF LookaheadFits, NoToken
    <3> QED
      BY <1>1, <1>5, <1>6, <2>1, <3>1 DEF ParserInv, Framed
  <2> QED
    BY <1>1, <1>6, <2>1, <2>3, <2>4, ProtocolIdle DEF ParserInv
<1>7. CASE la' = [kind |-> stack[i], value |-> "none"] /\ UNCHANGED <<stack, vals, scopes>>
  <2>1. la'.kind = stack[i] /\ la'.value = "none"
    BY <1>7
  <2>2. ~HalfRead'
    <3>1. lexer_state' = "SRegular"
      BY <1>1 DEF lexer
    <3> QED
      BY <1>3, <2>1, <3>1 DEF HalfRead
  <2>3. Balanced'
    BY <1>1, <1>4, <1>7, <2>2, StayBalanced DEF ParserInv
  <2>4. LookaheadFits'
    BY <1>1, <1>2, <1>3, <1>7, <2>1 DEF LookaheadFits, lexer
  <2>5. la' \in [kind : Token \cup {"none"}, value : Ids \cup {"none"}]
    BY <1>3, <1>7
  <2> QED
    BY <1>1, <1>5, <1>7, <2>3, <2>4, <2>5, ProtocolIdle DEF ParserInv, Framed
<1> QED
  BY <1>6, <1>7 DEF YylexOther

LEMMA ShiftSteps ==
  ASSUME ParserInv, Shift
  PROVE  ParserInv' /\ Follows
<1>1. /\ stack # <<>> /\ la # NoToken /\ stack[1] = la.kind
      /\ vals' = IF la.kind = "NAME" THEN Append(vals, StringValue(la.value)) ELSE vals
      /\ Goes(Tail(stack)) /\ la' = NoToken /\ UNCHANGED <<context, lexer>>
  BY DEF Shift, Push
<1>2. stack \in Seq(Symbol) /\ stack \in Seq(Vocabulary) /\ Tail(stack) \in Seq(Vocabulary)
  BY <1>1, StackSpelled DEF ParserInv, Framed
<1>3. ASSUME stack' = Tail(stack), Len(scopes') <= MaxDepth PROVE Framed'
  <2>1. HalvesInv'
    BY ShiftFeeds DEF ParserInv, Framed
  <2>2. LookaheadFits' /\ la' \in [kind : Token \cup {"none"}, value : Ids \cup {"none"}]
    BY <1>1 DEF LookaheadFits, NoToken
  <2> QED
    BY <1>1, <1>2, <1>3, <2>1, <2>2 DEF ParserInv, Framed
<1>4. PICK K \in Shape : FitsBetween(stack, K, <<>>) /\ Matches(K, HalfRead, vals, context, scopes)
  BY DEF ParserInv, Balanced
<1>5. PICK b \in Shape : Effect(stack[1], K, b) /\ FitsBetween(Tail(stack), b, <<>>)
                         /\ stack[1] \in Symbol /\ Tail(stack) \in Seq(Symbol)
  BY <1>1, <1>2, <1>4, FirstOf
<1>6. "string" \in Role /\ "half" \in Role
  BY DEF Role
<1>7. CASE la.kind \in {"TYPE", "VARIABLE"} /\ lexer_state = "SRegular"
  <2>1. HalfRead /\ ~HalfRead'
    BY <1>1, <1>7 DEF HalfRead, NoToken, lexer
  <2>2. PICK c \in Shape : K = Append(c, "half") /\ Sound(Append(c, "string"), vals, scopes)
    BY <1>4, <2>1 DEF Matches
  <2>3. b = Append(c, "string")
    <3>1. PICK x \in Shape : K = Append(x, "half") /\ b = Append(x, "string")
      BY <1>1, <1>5, <1>7, SecondHalfEffect DEF Replaces
    <3> QED
      BY <1>6, <2>2, <3>1, SameAppended
  <2>4. b # <<>> /\ b[Len(b)] \notin MarkRole
    BY <1>6, <2>3, LastOfAppended DEF MarkRole
  <2>5. stack' = Tail(stack) /\ scopes' = scopes /\ Len(scopes') <= MaxDepth
    BY <1>1, <1>5, <2>4, GoesOn
  <2>6. vals' = vals /\ context' = context
    BY <1>1, <1>7
  <2>7. Balanced'
    BY <1>5, <2>1, <2>2, <2>3, <2>5, <2>6, BalancedBy
  <2> QED
    BY <1>3, <2>5, <2>6, <2>7, ProtocolIdle DEF ParserInv
<1>8. CASE la.kind = "NAME" /\ la.value \in Ids /\ lexer_state = "SIdent"
  <2> DEFINE v == StringValue(la.value)
  <2>1. ~HalfRead /\ HalfRead'
    BY <1>1, <1>8 DEF HalfRead, NoToken, lexer
  <2>2. Open(K) /\ b = Append(K, "half")
    BY <1>1, <1>5, <1>8, FirstHalfEffect
  <2>3. Sound(K, vals, scopes)
    <3>1. stack[1] \notin {"TYPE", "VARIABLE", "@scoped_parameter_type_list_", "@function_definition1"}
      BY <1>1, <1>8
    <3> QED
      BY <1>4, <1>5, <3>1, Settled
  <2>4. b # <<>> /\ b[Len(b)] \notin MarkRole
    BY <1>6, <2>2, LastOfAppended DEF MarkRole
  <2>5. stack' = Tail(stack) /\ scopes' = scopes /\ Len(scopes') <= MaxDepth
    BY <1>1, <1>5, <2>4, GoesOn
  <2>6. v \in Value /\ v.tag = "string" /\ ValueSound(v) /\ Suits(v, "string")
    BY <1>8, StringIs
  <2>7. vals' = Append(vals, v) /\ context' = context /\ vals \in Seq(Value)
    BY <1>1, <1>8, <2>3 DEF Sound
  <2> HIDE DEF v
  <2>8. Sound(Append(K, "string"), vals', scopes')
    BY <1>6, <2>3, <2>5, <2>6, <2>7, PushSound
  <2>9. Balanced'
    <3>1. Matches(b, HalfRead', vals', context', scopes')
      BY <2>1, <2>2, <2>8 DEF Matches
    <3> QED
      BY <1>5, <2>5, <3>1 DEF Balanced
  <2>10. LiveSnapshots' = LiveSnapshots /\ PendingParams' = PendingParams
    BY <2>6, <2>7, LiveInAppend, PendingPushed DEF LiveSnapshots, PendingParams, IsSnapshot
  <2> QED
    BY <1>3, <2>5, <2>7, <2>9, <2>10, QuietStep DEF ParserInv
<1>9. CASE la.kind \in Token \ {"NAME", "TYPE", "VARIABLE"} /\ lexer_state = "SRegular"
  <2>1. PICK L \in Shape : /\ Sound(L, vals, scopes)
                           /\ FitsBetween(stack', L, <<>>)
                           /\ stack' = Tail(stack) /\ scopes' = scopes
                           /\ Len(scopes') <= MaxDepth
    BY <1>1, <1>9, TokenStart
  <2>2. ~HalfRead'
    BY <1>1, <1>9 DEF HalfRead, NoToken, lexer
  <2>3. vals' = vals /\ context' = context
    BY <1>1, <1>9
  <2>4. Balanced'
    BY <2>1, <2>2, <2>3, BalancedBy
  <2> QED
    BY <1>3, <2>1, <2>3, <2>4, ProtocolIdle DEF ParserInv
<1> QED
  BY <1>1, <1>7, <1>8, <1>9 DEF ParserInv, Framed, LookaheadFits

-----------------------------------------------------------------------------
(* Every step. *)

LEMMA FollowingNests ==
  ASSUME Follows
  PROVE  Nests
<1>1. CASE UNCHANGED Protocol!vars
  BY <1>1 DEF Protocol!vars, Nests
<1>2. CASE Protocol!EnterScope
  BY <1>2 DEF Protocol!EnterScope, Protocol!save_context, Protocol!Enter, Enter, Nests
<1>3. CASE Protocol!LeaveScope
  BY <1>3 DEF Protocol!LeaveScope, Protocol!restore_context, Protocol!Leave, Leave, Nests
<1>4. ASSUME NEW fn \in Ids, Protocol!LeaveParams(fn) PROVE Nests
  <2>1. /\ Len(LiveSnapshots) = 1 /\ context' = LiveSnapshots[1] /\ LiveSnapshots' = <<>>
        /\ scopes' = Leave(scopes)
    BY <1>4 DEF Protocol!LeaveParams, Protocol!restore_context, Protocol!Leave, Leave
  <2>2. SubSeq(LiveSnapshots, 1, Len(LiveSnapshots) - 1) = <<>>
    BY <2>1
  <2> QED
    BY <2>1, <2>2 DEF Nests
<1>5. ASSUME NEW id \in Ids, Protocol!DeclareType(id) PROVE Nests
  <2>1. /\ context' = DeclaredIn(context, id, "type") /\ scopes' = Declare(scopes, id, "type")
        /\ LiveSnapshots' = LiveSnapshots
    BY <1>5 DEF Protocol!DeclareType, Protocol!declare_typedefname, declare_typedefname,
       Protocol!Declare, Declare, DeclaredIn
  <2> QED
    BY <2>1 DEF Nests
<1>6. ASSUME NEW id \in Ids, Protocol!DeclareVar(id) PROVE Nests
  <2>1. /\ context' = DeclaredIn(context, id, "other") /\ scopes' = Declare(scopes, id, "other")
        /\ LiveSnapshots' = LiveSnapshots
    BY <1>6 DEF Protocol!DeclareVar, Protocol!declare_varname, declare_varname,
       Protocol!Declare, Declare, DeclaredIn
  <2> QED
    BY <2>1 DEF Nests
<1>7. CASE Protocol!ForgetParams
  BY <1>7 DEF Protocol!ForgetParams, Nests
<1>8. CASE Protocol!EnterBody
  BY <1>8 DEF Protocol!EnterBody, Protocol!save_context, Protocol!Enter, Enter, Nests
<1> QED
  BY <1>1, <1>2, <1>3, <1>4, <1>5, <1>6, <1>7, <1>8 DEF Follows, Protocol!Next

LEMMA EveryStep ==
  ASSUME ParserInv, [Next]_vars
  PROVE  ParserInv' /\ Nests /\ (Lossless => Follows)
<1>1. ASSUME ParserInv' /\ Follows
      PROVE  ParserInv' /\ Nests /\ (Lossless => Follows)
  BY <1>1, FollowingNests
<1>2. CASE UNCHANGED vars
  <2>1. HalfRead' <=> HalfRead
    BY <1>2 DEF vars, HalfRead
  <2>2. Balanced'
    BY <1>2, <2>1, StayBalanced DEF vars, ParserInv
  <2>3. Framed'
    BY <1>2 DEF vars, ParserInv, Framed, HalvesInv, LookaheadFits
  <2>4. Follows
    BY <1>2, ProtocolIdle DEF vars
  <2> QED
    BY <1>1, <2>2, <2>3, <2>4 DEF ParserInv
<1>3. CASE Expand
  BY <1>1, <1>3, ExpandSteps
<1>4. ASSUME NEW i \in DOMAIN stack, NEW id \in Ids, YylexName(i, id)
      PROVE  ParserInv' /\ Nests /\ (Lossless => Follows)
  BY <1>1, <1>4, NameSteps
<1>5. CASE YylexSecondHalf
  BY <1>1, <1>5, SecondHalfSteps
<1>6. ASSUME NEW i \in DOMAIN stack, YylexOther(i)
      PROVE  ParserInv' /\ Nests /\ (Lossless => Follows)
  BY <1>1, <1>6, OtherTokenSteps
<1>7. CASE Shift
  BY <1>1, <1>7, ShiftSteps
<1>8. CASE SaveContext
  BY <1>1, <1>8, SaveContextSteps
<1>9. CASE ScopedStatement
  BY <1>1, <1>9, RestoreSteps DEF ScopedStatement
<1>10. CASE ParameterTypeList
  BY <1>1, <1>10, ListSteps
<1>11. CASE ScopedParameterTypeList
  BY <1>1, <1>11, ListLeftSteps
<1>12. CASE IdentifierDeclarator
  BY <1>1, <1>12, IdentifierDeclaratorSteps
<1>13. CASE OtherDeclarator("@array", "array") \/ OtherDeclarator("@identifier_list", "idlist")
  BY <1>1, <1>13, OtherDeclaratorSteps
<1>14. CASE FunctionDeclarator
  BY <1>14, FunctionDeclaratorSteps
<1>15. CASE PointerDeclarator
  BY <1>1, <1>15, PointerSteps
<1>16. CASE DeclaratorVarname \/ DeclaratorTypedefname \/ Enumerator
  BY <1>1, <1>16, DeclarationSteps
<1>17. CASE PopValue
  BY <1>1, <1>17, PopSteps
<1>18. CASE FunctionDefinition1
  BY <1>18, DefinitionSteps
<1>19. CASE FunctionDefinition
  BY <1>1, <1>19, RestoreSteps DEF FunctionDefinition
<1>20. CASE IfWithoutElse
  BY <1>1, <1>20, BelowElseSteps
<1> QED
  BY <1>2, <1>3, <1>4, <1>5, <1>6, <1>7, <1>8, <1>9, <1>10, <1>11, <1>12, <1>13, <1>14,
     <1>15, <1>16, <1>17, <1>18, <1>19, <1>20 DEF Next

LEMMA AtFirst == Init => ParserInv /\ LiveSnapshots = <<>> /\ PendingParams = NoList
<1> SUFFICES ASSUME Init PROVE ParserInv /\ LiveSnapshots = <<>> /\ PendingParams = NoList
  OBVIOUS
<1>1. /\ stack = <<"translation_unit_file", "YYEOF">> /\ vals = <<>> /\ context = {}
      /\ la = NoToken /\ lexer_state = "SRegular" /\ scopes = <<NoDeclarations>>
  BY DEF Init, Start
<1>2. scopes \in Seq(Scope) /\ Len(scopes) = 1
  <2>1. <<NoDeclarations>> \in Seq(Scope) /\ Len(<<NoDeclarations>>) = 1
    BY NoDeclarationsIsScope
  <2> QED
    BY <1>1, <2>1
<1>3. Balanced
  <2>1. <<>> \in Shape
    BY DEF Shape
  <2>2. Effect("translation_unit_file", <<>>, <<>>)
    BY FileLevelEffect DEF FileLevel
  <2>3. Effect("YYEOF", <<>>, <<>>)
    BY PlainEffect DEF Plain, Open
  <2>4. FitsBetween(<<"translation_unit_file", "YYEOF">>, <<>>, <<>>)
    BY <2>1, <2>2, <2>3, Fits2
  <2>5. Sound(<<>>, <<>>, scopes)
    BY <1>2, EmptySound
  <2>6. ~HalfRead
    BY <1>1 DEF HalfRead, NoToken
  <2>7. Matches(<<>>, HalfRead, vals, context, scopes)
    BY <1>1, <2>5, <2>6 DEF Matches
  <2> QED
    BY <1>1, <2>1, <2>4, <2>7 DEF Balanced
<1>4. Framed
  <2>1. "translation_unit_file" \in Vocabulary /\ "YYEOF" \in Vocabulary
    BY TokensAre DEF Vocabulary
  <2>2. stack \in Seq(Vocabulary)
    BY <1>1, <2>1
  <2>3. HalvesInv
    BY HalvesStart
  <2>4. LookaheadFits /\ la \in [kind : Token \cup {"none"}, value : Ids \cup {"none"}]
    BY <1>1 DEF LookaheadFits, NoToken
  <2>5. Len(scopes) <= MaxDepth
    BY <1>2, MaxDepthAssumption
  <2> QED
    BY <1>1, <2>2, <2>3, <2>4, <2>5 DEF Framed
<1> QED
  BY <1>1, <1>3, <1>4, LiveInEmpty, PendingOff DEF ParserInv, LiveSnapshots, PendingParams

\* The inductive invariant: whatever the grammar derives, its symbols and the
\* values on bison's stack fit each other.
THEOREM Invariance == Spec => []ParserInv
<1>1. Init => ParserInv
  BY AtFirst
<1>2. ParserInv /\ [Next]_vars => ParserInv'
  BY EveryStep
<1> QED
  BY <1>1, <1>2, PTL DEF Spec

LEMMA SomeSound ==
  ASSUME Balanced
  PROVE  \E K \in Shape : Sound(K, vals, scopes)
<1>1. PICK K \in Shape : Matches(K, HalfRead, vals, context, scopes)
  BY DEF Balanced
<1>2. \A c \in Shape : Append(c, "string") \in Shape
                       /\ Append(Append(c, "plist"), "context") \in Shape
  <2>1. "string" \in Role /\ "plist" \in Role /\ "context" \in Role
    BY DEF Role
  <2> QED
    BY <2>1, AppendedShape
<1>3. <<"declarator">> \in Shape
  BY DEF Shape, Role
<1> QED
  BY <1>1, <1>2, <1>3 DEF Matches

\* Every value on the stack is one that the semantic actions make, with a name
\* if it needs one, and a scope is open (declarator.h, c11parser.bison.y).
THEOREM TypeCorrect == Spec => []TypeOK
<1>1. ParserInv => TypeOK
  <2> SUFFICES ASSUME ParserInv PROVE TypeOK
    OBVIOUS
  <2>1. PICK K \in Shape : Sound(K, vals, scopes)
    BY SomeSound DEF ParserInv
  <2>2. vals \in Seq(Value) /\ scopes \in Seq(Scope) /\ Len(scopes) \in Nat \ {0}
    BY <2>1, OpenScopes DEF Sound
  <2>3. ASSUME NEW k \in DOMAIN vals
        PROVE  vals[k].identifier = "none" <=> vals[k].tag \in {"snapshot", "context"}
    <3>1. k \in 1..Len(vals)
      BY <2>2
    <3> QED
      BY <2>1, <3>1 DEF Sound, ValueSound
  <2>4. Len(scopes) \in 1..MaxDepth
    BY <2>2, MaxDepthAssumption DEF ParserInv, Framed
  <2>5. /\ lexer_state \in {"SRegular", "SIdent"}
        /\ identifierToLookup \in IF lexer_state = "SIdent" THEN Ids ELSE {"none"}
    BY DEF ParserInv, Framed, HalvesInv
  <2> QED
    BY <2>2, <2>3, <2>4, <2>5 DEF ParserInv, Framed, TypeOK, Vocabulary
<1> QED
  BY <1>1, Invariance, PTL

-----------------------------------------------------------------------------
(* Between external declarations. *)

(* The table of the file scope: the current one, or the outermost snapshot.       *)
FileTable(ctx, saved) == IF saved = <<>> THEN ctx ELSE saved[1]

FileTableRight == FileTable(context, LiveSnapshots) = Types(scopes[1])

LEMMA ScopesOfSnapshots ==
  ASSUME ParserInv
  PROVE  /\ LiveSnapshots \in Seq(SUBSET Ids) /\ scopes \in Seq(Scope)
         /\ Len(scopes) = Len(LiveSnapshots) + 1
<1>1. PICK K \in Shape : Sound(K, vals, scopes)
  BY SomeSound DEF ParserInv
<1> QED
  BY <1>1, LiveInIs DEF Sound, Leveled, LiveSnapshots

LEMMA FileTableKept ==
  ASSUME ParserInv, Nests, FileTableRight
  PROVE  FileTableRight'
<1>1. /\ LiveSnapshots \in Seq(SUBSET Ids) /\ scopes \in Seq(Scope)
      /\ Len(scopes) = Len(LiveSnapshots) + 1 /\ Len(LiveSnapshots) \in Nat
      /\ context \in SUBSET Ids
  BY ScopesOfSnapshots DEF ParserInv, Framed
<1>2. CASE UNCHANGED <<context, LiveSnapshots, scopes>>
  BY <1>2 DEF FileTableRight
<1>3. ASSUME LiveSnapshots' = Append(LiveSnapshots, context),
             NEW scope, scopes' = Enter(scopes, scope)
      PROVE  FileTableRight'
  <2>1. scopes'[1] = scopes[1]
    BY <1>1, <1>3 DEF Enter
  <2>2. LiveSnapshots' # <<>>
        /\ LiveSnapshots'[1] = IF LiveSnapshots = <<>> THEN context ELSE LiveSnapshots[1]
    BY <1>1, <1>3
  <2> QED
    BY <2>1, <2>2 DEF FileTableRight, FileTable
<1>4. ASSUME Len(LiveSnapshots) > 0, context' = LiveSnapshots[Len(LiveSnapshots)],
             LiveSnapshots' = SubSeq(LiveSnapshots, 1, Len(LiveSnapshots) - 1),
             scopes' = Leave(scopes)
      PROVE  FileTableRight'
  <2>1. scopes'[1] = scopes[1]
    BY <1>1, <1>4, LeaveKeepsOuter
  <2>2. LiveSnapshots # <<>>
    BY <1>4
  <2>3. CASE Len(LiveSnapshots) = 1
    <3>1. LiveSnapshots' = <<>> /\ context' = LiveSnapshots[1]
      BY <1>1, <1>4, <2>3
    <3> QED
      BY <2>1, <2>2, <3>1 DEF FileTableRight, FileTable
  <2>4. CASE Len(LiveSnapshots) # 1
    <3>1. /\ Len(LiveSnapshots') = Len(LiveSnapshots) - 1
          /\ \A k \in 1..(Len(LiveSnapshots) - 1) : LiveSnapshots'[k] = LiveSnapshots[k]
          /\ LiveSnapshots' \in Seq(SUBSET Ids)
      BY <1>1, <1>4, DropLast
    <3>2. 1 \in 1..(Len(LiveSnapshots) - 1)
      <4>1. Len(LiveSnapshots) \in Nat /\ Len(LiveSnapshots) > 0 /\ Len(LiveSnapshots) # 1
        BY <1>1, <1>4, <2>4
      <4> QED
        BY <4>1
    <3>3. LiveSnapshots' # <<>> /\ LiveSnapshots'[1] = LiveSnapshots[1]
      BY <1>1, <3>1, <3>2
    <3> QED
      BY <2>1, <2>2, <3>3 DEF FileTableRight, FileTable
  <2> QED
    BY <2>3, <2>4
<1>5. ASSUME NEW id \in Ids, NEW kind \in {"type", "other"},
             context' = DeclaredIn(context, id, kind), scopes' = Declare(scopes, id, kind),
             UNCHANGED LiveSnapshots
      PROVE  FileTableRight'
  <2>1. kind \in Kind /\ Len(scopes) > 0
    BY <1>1 DEF Kind
  <2>2. /\ \A j \in 1..(Len(scopes) - 1) : Declare(scopes, id, kind)[j] = scopes[j]
        /\ Declare(scopes, id, kind)[Len(scopes)] = [scopes[Len(scopes)] EXCEPT ![id] = kind]
    BY <1>1, <2>1, DeclareTop
  <2>3. CASE LiveSnapshots = <<>>
    <3>1. Len(LiveSnapshots) = 0
      BY <2>3
    <3>2. Len(scopes) = 1
      BY <1>1, <3>1
    <3>3. scopes'[1] = [scopes[1] EXCEPT ![id] = kind] /\ scopes[1] \in Scope
      BY <1>1, <1>5, <2>2, <3>2
    <3>4. Types(scopes'[1]) = IF kind = "type" THEN Types(scopes[1]) \cup {id}
                              ELSE Types(scopes[1]) \ {id}
      BY <3>3 DEF Types, Scope
    <3>5. context = Types(scopes[1])
      BY <2>3 DEF FileTableRight, FileTable
    <3>6. context' = Types(scopes'[1])
      BY <1>5, <3>4, <3>5 DEF DeclaredIn, declare_typedefname, declare_varname
    <3> QED
      BY <1>5, <2>3, <3>6 DEF FileTableRight, FileTable
  <2>4. CASE LiveSnapshots # <<>>
    <3>1. 1 \in 1..(Len(scopes) - 1)
      BY <1>1, <2>4
    <3>2. scopes'[1] = scopes[1]
      BY <1>5, <2>2, <3>1
    <3> QED
      BY <1>5, <2>4, <3>2 DEF FileTableRight, FileTable
  <2> QED
    BY <2>3, <2>4
<1> QED
  BY <1>2, <1>3, <1>4, <1>5 DEF Nests

LEMMA CleanBetween ==
  ASSUME ParserInv, FileTableRight
  PROVE  FileScopeClean
<1> SUFFICES ASSUME stack # <<>>, stack[1] \in {"translation_unit_file", "more_declarations"}
             PROVE  /\ vals = <<>> /\ la = NoToken /\ lexer_state = "SRegular"
                    /\ Len(scopes) = 1 /\ context = Types(scopes[1])
  BY DEF FileScopeClean
<1>1. stack \in Seq(Symbol) /\ stack \in Seq(Vocabulary)
  BY StackSpelled DEF ParserInv, Framed
<1>2. stack[1] \in FileLevel /\ stack[1] \in Nonterminal
  BY Nonterminals DEF FileLevel
<1>3. PICK K \in Shape : FitsBetween(stack, K, <<>>) /\ Matches(K, HalfRead, vals, context, scopes)
  BY DEF ParserInv, Balanced
<1>4. PICK b \in Shape : Effect(stack[1], K, b) /\ stack[1] \in Symbol
  BY <1>1, <1>3, FirstOf
<1>5. K = <<>>
  BY <1>2, <1>4, FileLevelEffect
<1>6. ~HalfRead /\ Sound(<<>>, vals, scopes)
  <2>1. stack[1] \notin {"TYPE", "VARIABLE", "@scoped_parameter_type_list_", "@function_definition1"}
    OBVIOUS
  <2> QED
    BY <1>3, <1>4, <1>5, <2>1, Settled
<1>7. vals = <<>>
  <2>1. Len(vals) = 0 /\ vals \in Seq(Value)
    BY <1>6 DEF Sound
  <2> QED
    BY <2>1
<1>8. Len(scopes) = 1 /\ LiveSnapshots = <<>>
  <2>1. scopes \in Seq(Scope)
    BY ScopesOfSnapshots
  <2> QED
    BY <1>6, <1>7, <2>1, EmptySound, LiveInEmpty DEF LiveSnapshots
<1>9. la = NoToken
  <2>1. Leads(stack, 1)
    BY <1>1, <1>2, TokensAre DEF Leads
  <2>2. ASSUME NEW k \in Nat, Leads(stack, k), stack[k] = la.kind
        PROVE  la.kind \notin Token
    <3>1. k = 1
      BY <1>1, <2>1, <2>2, OneLeads
    <3> QED
      BY <1>2, <2>2, <3>1, TokensAre
  <2> QED
    BY <1>6, <2>2 DEF ParserInv, Framed, LookaheadFits, HalfRead
<1>10. lexer_state = "SRegular"
  BY <1>6, <1>9 DEF HalfRead, ParserInv, Framed, HalvesInv
<1>11. context = Types(scopes[1])
  BY <1>8 DEF FileTableRight, FileTable
<1> QED
  BY <1>7, <1>8, <1>9, <1>10, <1>11

\* Between external declarations nothing is left of a finished one and Context
\* holds the typedef names of the file scope - also where a body was parsed with
\* a table that is not the visible one (translation_unit_file).
THEOREM CleanAtFileScope == Spec => []FileScopeClean
<1>1. Init => FileTableRight
  <2> SUFFICES ASSUME Init PROVE FileTableRight
    OBVIOUS
  <2>1. LiveSnapshots = <<>> /\ context = {} /\ scopes = <<NoDeclarations>>
    BY AtFirst DEF Init
  <2>2. Types(NoDeclarations) = {}
    BY DEF Types, NoDeclarations
  <2> QED
    BY <2>1, <2>2 DEF FileTableRight, FileTable
<1>2. ParserInv /\ FileTableRight /\ [Next]_vars => FileTableRight'
  BY EveryStep, FileTableKept
<1>3. ParserInv /\ FileTableRight => FileScopeClean
  BY CleanBetween
<1> QED
  BY <1>1, <1>2, <1>3, Invariance, PTL DEF Spec

-----------------------------------------------------------------------------
(* Context as the protocol has it, where no declarator loses its list. *)

ParserProtocol ==
  INSTANCE ContextProtocolProofs WITH
    current <- context, saved <- LiveSnapshots, params <- PendingParams

\* Every use that the semantic actions make of Context, in whatever order the
\* grammar puts them, is one of the protocol: what is saved is restored once, at
\* its own level, and a function body gets the list of its own declarator
\* (c11parser.bison.y, reinstall_function_context).
THEOREM ImplementsProtocol ==
  ASSUME Lossless
  PROVE  Spec => FollowsProtocol
<1>1. Init => Protocol!Init
  BY AtFirst DEF Init, Protocol!Init, Protocol!NoParams, NoList, Protocol!NoDeclarations,
     NoDeclarations
<1>2. ParserInv /\ [Next]_vars => [Protocol!Next]_(Protocol!vars)
  BY EveryStep DEF Follows
<1> QED
  BY <1>1, <1>2, Invariance, PTL DEF Spec, FollowsProtocol, Protocol!Spec

(* The instance of the proofs brings definitions of its own, which say the same. *)
LEMMA SameProtocol == [Protocol!Next]_(Protocol!vars) => [ParserProtocol!Next]_(ParserProtocol!vars)
  BY DEF Protocol!Next, ParserProtocol!Next, Protocol!vars, ParserProtocol!vars,
       Protocol!EnterScope, ParserProtocol!EnterScope, Protocol!LeaveScope,
       ParserProtocol!LeaveScope, Protocol!LeaveParams, ParserProtocol!LeaveParams,
       Protocol!DeclareType, ParserProtocol!DeclareType, Protocol!DeclareVar,
       ParserProtocol!DeclareVar, Protocol!ForgetParams, ParserProtocol!ForgetParams,
       Protocol!EnterBody, ParserProtocol!EnterBody, Protocol!ListOf,
       ParserProtocol!ListOf, Protocol!NoParams, ParserProtocol!NoParams,
       Protocol!Reinstalled, ParserProtocol!Reinstalled, Protocol!FitsFileScope,
       ParserProtocol!FitsFileScope, Protocol!NoDeclarations,
       ParserProtocol!NoDeclarations, Protocol!Types, ParserProtocol!Types,
       Protocol!Enter, ParserProtocol!Enter, Protocol!Leave, ParserProtocol!Leave,
       Protocol!Declare, ParserProtocol!Declare, Protocol!save_context,
       ParserProtocol!save_context, Protocol!restore_context,
       ParserProtocol!restore_context, Protocol!declare_typedefname,
       ParserProtocol!declare_typedefname, Protocol!declare_varname,
       ParserProtocol!declare_varname

LEMMA VisibleNow == ASSUME Lossless PROVE Spec => [](context = Visible(scopes))
<1>1. Init => ParserProtocol!IInv
  <2>1. Init => ParserProtocol!Init
    BY AtFirst DEF Init, ParserProtocol!Init, ParserProtocol!NoParams, NoList,
         ParserProtocol!NoDeclarations, NoDeclarations
  <2> QED
    BY <2>1, ParserProtocol!InitEstablishes, MaxDepthAssumption, IdsAssumption
<1>2. ParserInv /\ ParserProtocol!IInv /\ [Next]_vars => ParserProtocol!IInv'
  <2>1. ParserInv /\ [Next]_vars => [ParserProtocol!Next]_(ParserProtocol!vars)
    BY EveryStep, SameProtocol DEF Follows
  <2> QED
    BY <2>1, ParserProtocol!NextPreserves, MaxDepthAssumption, IdsAssumption
<1>3. ParserProtocol!IInv => context = Visible(scopes)
  BY DEF ParserProtocol!IInv, ParserProtocol!ContextAgrees, ParserProtocol!CurrentIsVisible,
         ParserProtocol!Visible, ParserProtocol!VisibleTypes, ParserProtocol!TypeAt,
         Visible, VisibleTypes, TypeAt
<1> QED
  BY <1>1, <1>2, <1>3, Invariance, PTL DEF Spec

\* The second half of every name is the one C11's scope rules give it where it
\* stands: TYPE exactly if the innermost declaration of the name is a typedef
\* (Lexer::yylex in SIdent, is_typedefname).
THEOREM ClassifiesAsC11 ==
  ASSUME Lossless
  PROVE  Spec => ClassifiedAsC11
<1>1. ASSUME ParserInv, context = Visible(scopes), YylexSecondHalf
      PROVE  la'.kind = "TYPE" <=> identifierToLookup \in Visible(scopes)
  BY <1>1 DEF YylexSecondHalf, is_typedefname
<1>2. ParserInv /\ context = Visible(scopes) /\ [Next]_vars =>
        [YylexSecondHalf =>
           (la'.kind = "TYPE" <=> identifierToLookup \in Visible(scopes))]_vars
  BY <1>1
<1> QED
  BY <1>2, VisibleNow, Invariance, PTL DEF Spec, ClassifiedAsC11
=============================================================================
