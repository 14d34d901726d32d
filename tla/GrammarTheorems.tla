--------------------------- MODULE GrammarTheorems ---------------------------
(***************************************************************************)
(* The grammar is well formed: whatever its rules derive, the actions find  *)
(* on the value stack the values they use, in the order they expect.       *)
(*                                                                         *)
(* Every right-hand side does to the shape of the value stack what its     *)
(* nonterminal says (GrammarTyped), so a derivation can be followed one     *)
(* symbol at a time, without induction over its length.                    *)
(***************************************************************************)
EXTENDS GrammarShapes

-----------------------------------------------------------------------------
(* Rules that do what their nonterminal says. *)

Typed(nt, rhs) == \A a, b \in Shape : Effect(nt, a, b) => FitsBetween(rhs, a, b)

Good(nt) == {rhs \in Seq(Symbol) : Typed(nt, rhs)}

LEMMA SymbolSets ==
  /\ FileLevel \subseteq Symbol /\ Local \subseteq Symbol /\ Anywhere \subseteq Symbol
  /\ ParameterDeclarator \subseteq Symbol /\ Special \subseteq Symbol
  /\ Plain \subseteq Symbol /\ Action \subseteq Symbol /\ Mark \subseteq Symbol
  /\ {"NAME", "TYPE", "VARIABLE"} \subseteq Symbol
  BY DEF Symbol

LEMMA Pushed ==
  ASSUME NEW a \in Shape, NEW r \in {"string", "declarator", "context", "block"}
  PROVE  /\ Append(a, r) \in Shape
         /\ Open(Append(a, r))
         /\ Free(a) => Free(Append(a, r))
         /\ OutsideList(a) => OutsideList(Append(a, r))
<1>1. r \in Role /\ r \notin Awaiting /\ r # "held" /\ r # "plist"
  BY DEF Role, Awaiting
<1> QED
  BY <1>1, AppendedShape, AppendedOpen, AppendedFree, AppendedOutsideList

LEMMA PushedList ==
  ASSUME NEW a \in Shape
  PROVE  Append(a, "plist") \in Shape /\ Free(Append(a, "plist"))
  BY AppendedShape, ListIsFree DEF Role

LEMMA Passed ==
  ASSUME NEW a \in Shape, NEW r \in Awaiting
  PROVE  Append(a, r) \in Shape
<1>1. r \in Role
  BY DEF Role, Awaiting
<1> QED
  BY <1>1, AppendedShape

LEMMA AtBottom ==
  /\ <<>> \in Shape /\ Open(<<>>) /\ Free(<<>>) /\ OutsideList(<<>>)
  /\ <<"held">> \in Shape /\ Open(<<"held">>) /\ OnDeclarator(<<"held">>)
  /\ <<"string">> \in Shape /\ Append(<<>>, "string") = <<"string">>
  /\ <<"heldvar">> \in Shape /\ <<"defined">> \in Shape /\ <<"body">> \in Shape
  /\ <<"block">> \in Shape /\ Free(<<"block">>) /\ OutsideList(<<"block">>) /\ Open(<<"block">>)
  /\ <<"left">> \in Shape
  /\ Append(<<>>, "block") = <<"block">> /\ Append(<<>>, "left") = <<"left">>
<1>1. {"held", "string", "heldvar", "defined", "body", "block", "left"} \subseteq Role
  BY DEF Role
<1>2. /\ Open(<<>>) /\ OutsideList(<<>>) /\ Open(<<"held">>)
      /\ OutsideList(<<"block">>) /\ Open(<<"block">>)
  BY DEF Open, OutsideList, Awaiting
<1>3. Free(<<>>) /\ Free(<<"block">>)
  BY <1>2 DEF Free
<1> QED
  BY <1>1, <1>2, <1>3 DEF Shape, OnDeclarator

Calm == Anywhere \cup Plain

LEMMA CalmKept ==
  ASSUME NEW a \in Shape, Free(a), NEW seq \in Seq(Calm)
  PROVE  seq \in Seq(Symbol) /\ FitsBetween(seq, a, a)
<1>1. seq \in Seq(Symbol)
  BY SymbolSets DEF Calm
<1>2. \A i \in 1..Len(seq) : seq[i] \in Calm
  OBVIOUS
<1>3. \A i \in 1..Len(seq) : Effect(seq[i], a, a)
  BY <1>2, AnywhereEffect, PlainEffect DEF Calm, Free
<1> QED
  BY <1>1, <1>3, FitsKept

LEMMA LocalKept ==
  ASSUME NEW a \in Shape, Free(a), OutsideList(a), NEW seq \in Seq(Calm \cup Local)
  PROVE  seq \in Seq(Symbol) /\ FitsBetween(seq, a, a)
<1>1. seq \in Seq(Symbol)
  BY SymbolSets DEF Calm
<1>2. \A i \in 1..Len(seq) : seq[i] \in Calm \cup Local
  OBVIOUS
<1>3. \A i \in 1..Len(seq) : Effect(seq[i], a, a)
  BY <1>2, AnywhereEffect, PlainEffect, LocalEffect DEF Calm, Free
<1> QED
  BY <1>1, <1>3, FitsKept

LEMMA FileKept ==
  ASSUME NEW seq \in Seq(Calm \cup Local \cup FileLevel)
  PROVE  seq \in Seq(Symbol) /\ FitsBetween(seq, <<>>, <<>>)
<1>1. seq \in Seq(Symbol)
  BY SymbolSets DEF Calm
<1>2. \A i \in 1..Len(seq) : seq[i] \in Calm \cup Local \cup FileLevel
  OBVIOUS
<1>3. \A i \in 1..Len(seq) : Effect(seq[i], <<>>, <<>>)
  BY <1>2, AtBottom, AnywhereEffect, PlainEffect, LocalEffect, FileLevelEffect DEF Calm
<1> QED
  BY <1>1, <1>3, AtBottom, FitsKept

LEMMA CalmSymbols ==
  /\ Seq(Calm) \subseteq Seq(Symbol)
  /\ Seq(Calm \cup Local) \subseteq Seq(Symbol)
  /\ Seq(Calm \cup Local \cup FileLevel) \subseteq Seq(Symbol)
<1>1. /\ Calm \subseteq Symbol /\ Calm \cup Local \subseteq Symbol
      /\ Calm \cup Local \cup FileLevel \subseteq Symbol
  BY SymbolSets DEF Calm
<1> QED
  BY <1>1

\* Right-hand sides without an action, or with none that leaves a trace.
LEMMA CalmGood ==
  ASSUME NEW nt \in Anywhere, NEW rules \in SUBSET Seq(Calm)
  PROVE  rules \subseteq Good(nt)
<1>1. ASSUME NEW rhs \in rules, NEW a \in Shape, NEW b \in Shape, Effect(nt, a, b)
      PROVE  FitsBetween(rhs, a, b)
  BY <1>1, CalmKept, AnywhereEffect
<1> QED
  BY <1>1, CalmSymbols DEF Good, Typed

LEMMA LocalGood ==
  ASSUME NEW nt \in Local, NEW rules \in SUBSET Seq(Calm \cup Local)
  PROVE  rules \subseteq Good(nt)
<1>1. ASSUME NEW rhs \in rules, NEW a \in Shape, NEW b \in Shape, Effect(nt, a, b)
      PROVE  FitsBetween(rhs, a, b)
  BY <1>1, LocalKept, LocalEffect
<1> QED
  BY <1>1, CalmSymbols DEF Good, Typed

LEMMA FileGood ==
  ASSUME NEW nt \in FileLevel, NEW rules \in SUBSET Seq(Calm \cup Local \cup FileLevel)
  PROVE  rules \subseteq Good(nt)
<1>1. ASSUME NEW rhs \in rules, NEW a \in Shape, NEW b \in Shape, Effect(nt, a, b)
      PROVE  FitsBetween(rhs, a, b)
  BY <1>1, FileKept, FileLevelEffect
<1> QED
  BY <1>1, CalmSymbols DEF Good, Typed

\* Right-hand sides with actions.
LEMMA FileTyped ==
  ASSUME NEW nt \in FileLevel, NEW rhs \in Seq(Symbol), FitsBetween(rhs, <<>>, <<>>)
  PROVE  rhs \in Good(nt)
<1>1. ASSUME NEW a \in Shape, NEW b \in Shape, Effect(nt, a, b)
      PROVE  FitsBetween(rhs, a, b)
  BY <1>1, FileLevelEffect
<1> QED
  BY <1>1 DEF Good, Typed

LEMMA AnywhereTyped ==
  ASSUME NEW nt \in Anywhere, NEW rhs \in Seq(Symbol),
         \A a \in Shape : Free(a) => FitsBetween(rhs, a, a)
  PROVE  rhs \in Good(nt)
<1>1. ASSUME NEW a \in Shape, NEW b \in Shape, Effect(nt, a, b)
      PROVE  FitsBetween(rhs, a, b)
  BY <1>1, AnywhereEffect
<1> QED
  BY <1>1 DEF Good, Typed

LEMMA LocalTyped ==
  ASSUME NEW nt \in Local, NEW rhs \in Seq(Symbol),
         \A a \in Shape : Free(a) /\ OutsideList(a) => FitsBetween(rhs, a, a)
  PROVE  rhs \in Good(nt)
<1>1. ASSUME NEW a \in Shape, NEW b \in Shape, Effect(nt, a, b)
      PROVE  FitsBetween(rhs, a, b)
  BY <1>1, LocalEffect
<1> QED
  BY <1>1 DEF Good, Typed

LEMMA ParameterDeclaratorTyped ==
  ASSUME NEW nt \in ParameterDeclarator, NEW rhs \in Seq(Symbol),
         \A a \in Shape : Free(a) => FitsBetween(rhs, a, Append(a, "declarator"))
  PROVE  rhs \in Good(nt)
<1>1. ASSUME NEW a \in Shape, NEW b \in Shape, Effect(nt, a, b)
      PROVE  FitsBetween(rhs, a, b)
  BY <1>1, ParameterDeclaratorEffect
<1> QED
  BY <1>1 DEF Good, Typed

LEMMA NameTyped ==
  ASSUME NEW nt \in {"general_identifier", "var_name"}, NEW rhs \in Seq(Symbol),
         \A a \in Shape : Open(a) => FitsBetween(rhs, a, Append(a, "string"))
  PROVE  rhs \in Good(nt)
<1>1. ASSUME NEW a \in Shape, NEW b \in Shape, Effect(nt, a, b)
      PROVE  FitsBetween(rhs, a, b)
  BY <1>1, NameEffect
<1> QED
  BY <1>1 DEF Good, Typed

LEMMA DeclaratorTyped ==
  ASSUME NEW nt \in {"declarator", "direct_declarator"}, NEW rhs \in Seq(Symbol),
         \A a \in Shape : Free(a) => FitsBetween(rhs, a, Append(a, "declarator")),
         Definition => FitsBetween(rhs, <<>>, <<"held">>)
  PROVE  rhs \in Good(nt)
<1>1. ASSUME NEW a \in Shape, NEW b \in Shape, Effect(nt, a, b)
      PROVE  FitsBetween(rhs, a, b)
  BY <1>1, DeclaratorEffect
<1> QED
  BY <1>1 DEF Good, Typed

LEMMA DeclaratorVarnameTyped ==
  ASSUME NEW rhs \in Seq(Symbol),
         \A a \in Shape : Free(a) => FitsBetween(rhs, a, Append(a, "declarator")),
         Definition => FitsBetween(rhs, <<>>, <<"defined">>)
  PROVE  rhs \in Good("declarator_varname")
<1>1. ASSUME NEW a \in Shape, NEW b \in Shape, Effect("declarator_varname", a, b)
      PROVE  FitsBetween(rhs, a, b)
  BY <1>1, DeclaratorVarnameEffect
<1> QED
  BY <1>1 DEF Good, Typed

LEMMA DeclaratorTypedefnameTyped ==
  ASSUME NEW rhs \in Seq(Symbol),
         \A a \in Shape : Free(a) /\ OutsideList(a)
                            => FitsBetween(rhs, a, Append(a, "declarator"))
  PROVE  rhs \in Good("declarator_typedefname")
<1>1. ASSUME NEW a \in Shape, NEW b \in Shape, Effect("declarator_typedefname", a, b)
      PROVE  FitsBetween(rhs, a, b)
  BY <1>1, DeclaratorTypedefnameEffect
<1> QED
  BY <1>1 DEF Good, Typed

LEMMA SuffixesTyped ==
  ASSUME NEW rhs \in Seq(Symbol),
         \A a \in Shape : OnDeclarator(a) /\ (Free(a) \/ a = <<"held">>)
                            => FitsBetween(rhs, a, a)
  PROVE  rhs \in Good("declarator_suffixes")
<1>1. ASSUME NEW a \in Shape, NEW b \in Shape, Effect("declarator_suffixes", a, b)
      PROVE  FitsBetween(rhs, a, b)
  BY <1>1, SuffixesEffect
<1> QED
  BY <1>1 DEF Good, Typed

LEMMA ScopedListTyped ==
  ASSUME NEW rhs \in Seq(Symbol),
         \A a \in Shape : Open(a) => FitsBetween(rhs, a, Append(a, "context"))
  PROVE  rhs \in Good("scoped_parameter_type_list_")
<1>1. ASSUME NEW a \in Shape, NEW b \in Shape, Effect("scoped_parameter_type_list_", a, b)
      PROVE  FitsBetween(rhs, a, b)
  BY <1>1, ScopedListEffect
<1> QED
  BY <1>1 DEF Good, Typed

LEMMA FunctionTyped ==
  ASSUME NEW rhs \in Seq(Symbol),
         Definition => FitsBetween(rhs, <<>>, <<>>)
  PROVE  rhs \in Good("function_definition")
<1>1. ASSUME NEW a \in Shape, NEW b \in Shape, Effect("function_definition", a, b)
      PROVE  FitsBetween(rhs, a, b)
  BY <1>1, FunctionEffect
<1> QED
  BY <1>1 DEF Good, Typed

LEMMA Function1Typed ==
  ASSUME NEW rhs \in Seq(Symbol),
         Definition => FitsBetween(rhs, <<>>, <<"block">>)
  PROVE  rhs \in Good("function_definition1")
<1>1. ASSUME NEW a \in Shape, NEW b \in Shape, Effect("function_definition1", a, b)
      PROVE  FitsBetween(rhs, a, b)
  BY <1>1, Function1Effect
<1> QED
  BY <1>1 DEF Good, Typed

LEMMA Swapped ==
  ASSUME NEW a \in Shape, NEW r1, NEW r2
  PROVE  Replaces(Append(a, r1), Append(a, r2), r1, r2)
  BY DEF Replaces

LEMMA Declared ==
  ASSUME NEW a \in Shape
  PROVE  OnDeclarator(Append(a, "declarator"))
  BY DEF OnDeclarator

LEMMA SuffixOpen ==
  ASSUME NEW a \in Shape, OnDeclarator(a), Free(a) \/ a = <<"held">>
  PROVE  Open(a)
  BY AtBottom DEF Free

LEMMA SuffixFree ==
  ASSUME NEW a \in Shape, OnDeclarator(a), Free(a) \/ a = <<"held">>,
         "array" \in Features \/ "idlist" \in Features
  PROVE  Free(a)
  BY SuffixOpen DEF Free, Lossy

LEMMA ExpressionsDomain ==
  DOMAIN Expressions =
   {"expression", "selection"}
  BY DEF Expressions

LEMMA ExpressionsGood ==
  \A nt \in DOMAIN Expressions : Expressions[nt] \subseteq Good(nt)
<1>1. <<"var_name", "@pop", "selection">> \in Good("expression")
  <2>1. ASSUME NEW a \in Shape, Free(a)
        PROVE  FitsBetween(<<"var_name", "@pop", "selection">>, a, a)
    <3>1. /\ Effect("var_name", a, Append(a, "string"))
          /\ Effect("@pop", Append(a, "string"), a)
          /\ Effect("selection", a, a)
      BY <2>1, NameEffect, PopEffect, AnywhereEffect, Pushed DEF Anywhere, Free
    <3> QED
      BY <3>1, Pushed, Fits3
  <2>2. <<"var_name", "@pop", "selection">> \in Seq(Symbol)
    BY DEF Symbol, Special, Action, Anywhere
  <2> QED
    BY <2>1, <2>2, AnywhereTyped DEF Anywhere
<1>2. {<<"sizeof", "(", "type_name", ")">>} \subseteq Good("expression")
  <2>1. {<<"sizeof", "(", "type_name", ")">>} \in SUBSET Seq(Calm)
    BY DEF Calm, Plain, Anywhere
  <2> QED
    BY <2>1, CalmGood DEF Anywhere
<1>3. {<<>>} \subseteq Good("selection")
  <2>1. {<<>>} \in SUBSET Seq(Calm)
    BY DEF Calm, Plain
  <2> QED
    BY <2>1, CalmGood DEF Anywhere
<1>4. <<".", "general_identifier", "@pop">> \in Good("selection")
  <2>1. ASSUME NEW a \in Shape, Free(a)
        PROVE  FitsBetween(<<".", "general_identifier", "@pop">>, a, a)
    <3>1. /\ Effect(".", a, a)
          /\ Effect("general_identifier", a, Append(a, "string"))
          /\ Effect("@pop", Append(a, "string"), a)
      BY <2>1, PlainEffect, NameEffect, PopEffect, Pushed DEF Plain, Free
    <3> QED
      BY <3>1, Pushed, Fits3
  <2>2. <<".", "general_identifier", "@pop">> \in Seq(Symbol)
    BY DEF Symbol, Plain, Special, Action
  <2> QED
    BY <2>1, <2>2, AnywhereTyped DEF Anywhere
<1>5. /\ Expressions.expression \subseteq Good("expression")
      /\ Expressions.selection \subseteq Good("selection")
  BY <1>1, <1>2, <1>3, <1>4 DEF Expressions, If
<1> QED
  BY <1>5, ExpressionsDomain

LEMMA IdentifiersDomain ==
  DOMAIN Identifiers =
   {"typedef_name_spec", "general_identifier", "var_name"}
  BY DEF Identifiers

LEMMA IdentifiersGood ==
  \A nt \in DOMAIN Identifiers : Identifiers[nt] \subseteq Good(nt)
<1>1. <<"NAME", "TYPE", "@pop">> \in Good("typedef_name_spec")
  <2>1. ASSUME NEW a \in Shape, Free(a)
        PROVE  FitsBetween(<<"NAME", "TYPE", "@pop">>, a, a)
    <3>1. /\ Effect("NAME", a, Append(a, "half"))
          /\ Effect("TYPE", Append(a, "half"), Append(a, "string"))
          /\ Effect("@pop", Append(a, "string"), a)
      BY <2>1, FirstHalfEffect, SecondHalfEffect, PopEffect, Swapped, Pushed DEF Free
    <3> QED
      BY <3>1, Pushed, Passed, Fits3 DEF Awaiting
  <2>2. <<"NAME", "TYPE", "@pop">> \in Seq(Symbol)
    BY DEF Symbol, Action
  <2> QED
    BY <2>1, <2>2, AnywhereTyped DEF Anywhere
<1>2. <<"NAME", "TYPE">> \in Good("general_identifier")
  <2>1. ASSUME NEW a \in Shape, Open(a)
        PROVE  FitsBetween(<<"NAME", "TYPE">>, a, Append(a, "string"))
    <3>1. /\ Effect("NAME", a, Append(a, "half"))
          /\ Effect("TYPE", Append(a, "half"), Append(a, "string"))
      BY <2>1, FirstHalfEffect, SecondHalfEffect, Swapped, Pushed
    <3> QED
      BY <3>1, Pushed, Passed, Fits2 DEF Awaiting
  <2>2. <<"NAME", "TYPE">> \in Seq(Symbol)
    BY DEF Symbol
  <2> QED
    BY <2>1, <2>2, NameTyped
<1>3. <<"NAME", "VARIABLE">> \in Good("general_identifier")
  <2>1. ASSUME NEW a \in Shape, Open(a)
        PROVE  FitsBetween(<<"NAME", "VARIABLE">>, a, Append(a, "string"))
    <3>1. /\ Effect("NAME", a, Append(a, "half"))
          /\ Effect("VARIABLE", Append(a, "half"), Append(a, "string"))
      BY <2>1, FirstHalfEffect, SecondHalfEffect, Swapped, Pushed
    <3> QED
      BY <3>1, Pushed, Passed, Fits2 DEF Awaiting
  <2>2. <<"NAME", "VARIABLE">> \in Seq(Symbol)
    BY DEF Symbol
  <2> QED
    BY <2>1, <2>2, NameTyped
<1>4. <<"NAME", "VARIABLE">> \in Good("var_name")
  <2>1. ASSUME NEW a \in Shape, Open(a)
        PROVE  FitsBetween(<<"NAME", "VARIABLE">>, a, Append(a, "string"))
    <3>1. /\ Effect("NAME", a, Append(a, "half"))
          /\ Effect("VARIABLE", Append(a, "half"), Append(a, "string"))
      BY <2>1, FirstHalfEffect, SecondHalfEffect, Swapped, Pushed
    <3> QED
      BY <3>1, Pushed, Passed, Fits2 DEF Awaiting
  <2>2. <<"NAME", "VARIABLE">> \in Seq(Symbol)
    BY DEF Symbol
  <2> QED
    BY <2>1, <2>2, NameTyped
<1>5. /\ Identifiers.typedef_name_spec \subseteq Good("typedef_name_spec")
      /\ Identifiers.general_identifier \subseteq Good("general_identifier")
      /\ Identifiers.var_name \subseteq Good("var_name")
  BY <1>1, <1>2, <1>3, <1>4 DEF Identifiers, If
<1> QED
  BY <1>5, IdentifiersDomain

LEMMA DeclarationsDomain ==
  DOMAIN Declarations =
   {"declaration", "declaration_specifiers", "declaration_specifiers_typedef",
    "option_init_declarator_list_varname", "more_varname",
    "option_init_declarator_list_typedefname", "more_typedefname",
    "init_declarator_varname", "init_declarator_typedefname",
    "init_declarator_rest", "declarator_varname", "declarator_typedefname"}
  BY DEF Declarations

LEMMA DeclarationsGood ==
  \A nt \in DOMAIN Declarations : Declarations[nt] \subseteq Good(nt)
<1>1. {<<"declaration_specifiers", "option_init_declarator_list_varname", ";">>,
       <<"declaration_specifiers_typedef", "option_init_declarator_list_typedefname", ";">>}
        \subseteq Good("declaration")
  <2>1. {<<"declaration_specifiers", "option_init_declarator_list_varname", ";">>,
         <<"declaration_specifiers_typedef", "option_init_declarator_list_typedefname", ";">>}
          \in SUBSET Seq(Calm \cup Local)
    BY DEF Calm, Anywhere, Plain, Local
  <2> QED
    BY <2>1, LocalGood DEF Local
<1>2. {<<"type_specifier">>} \subseteq Good("declaration_specifiers")
  <2>1. {<<"type_specifier">>} \in SUBSET Seq(Calm)
    BY DEF Calm, Anywhere, Plain
  <2> QED
    BY <2>1, CalmGood DEF Anywhere
<1>3. {<<"typedef", "type_specifier">>} \subseteq Good("declaration_specifiers_typedef")
  <2>1. {<<"typedef", "type_specifier">>} \in SUBSET Seq(Calm \cup Local)
    BY DEF Calm, Plain, Anywhere
  <2> QED
    BY <2>1, LocalGood DEF Local
<1>4. {<<>>, <<"init_declarator_varname", "more_varname">>}
        \subseteq Good("option_init_declarator_list_varname")
  <2>1. {<<>>, <<"init_declarator_varname", "more_varname">>} \in SUBSET Seq(Calm)
    BY DEF Calm, Anywhere, Plain
  <2> QED
    BY <2>1, CalmGood DEF Anywhere
<1>5. {<<>>, <<",", "init_declarator_varname", "more_varname">>}
        \subseteq Good("more_varname")
  <2>1. {<<>>, <<",", "init_declarator_varname", "more_varname">>} \in SUBSET Seq(Calm)
    BY DEF Calm, Plain, Anywhere
  <2> QED
    BY <2>1, CalmGood DEF Anywhere
<1>6. {<<>>, <<"init_declarator_typedefname", "more_typedefname">>}
        \subseteq Good("option_init_declarator_list_typedefname")
  <2>1. {<<>>, <<"init_declarator_typedefname", "more_typedefname">>}
          \in SUBSET Seq(Calm \cup Local)
    BY DEF Calm, Local, Plain
  <2> QED
    BY <2>1, LocalGood DEF Local
<1>7. {<<>>, <<",", "init_declarator_typedefname", "more_typedefname">>}
        \subseteq Good("more_typedefname")
  <2>1. {<<>>, <<",", "init_declarator_typedefname", "more_typedefname">>}
          \in SUBSET Seq(Calm \cup Local)
    BY DEF Calm, Plain, Local
  <2> QED
    BY <2>1, LocalGood DEF Local
<1>8. <<"declarator_varname", "init_declarator_rest", "@pop">> \in Good("init_declarator_varname")
  <2>1. ASSUME NEW a \in Shape, Free(a)
        PROVE  FitsBetween(<<"declarator_varname", "init_declarator_rest", "@pop">>, a, a)
    <3>1. Effect("declarator_varname", a, Append(a, "declarator"))
      BY <2>1, DeclaratorVarnameEffect
    <3>2. Effect("init_declarator_rest", Append(a, "declarator"), Append(a, "declarator"))
      BY <2>1, AnywhereEffect, Pushed DEF Anywhere
    <3>3. Effect("@pop", Append(a, "declarator"), a)
      BY <2>1, PopEffect, Pushed
    <3> QED
      BY <3>1, <3>2, <3>3, Pushed, Fits3
  <2>2. <<"declarator_varname", "init_declarator_rest", "@pop">> \in Seq(Symbol)
    BY DEF Symbol, Special, Anywhere, Action
  <2> QED
    BY <2>1, <2>2, AnywhereTyped DEF Anywhere
<1>9. <<"declarator_typedefname", "init_declarator_rest", "@pop">> \in Good("init_declarator_typedefname")
  <2>1. ASSUME NEW a \in Shape, Free(a), OutsideList(a)
        PROVE  FitsBetween(<<"declarator_typedefname", "init_declarator_rest", "@pop">>,
                           a, a)
    <3>1. /\ Effect("declarator_typedefname", a, Append(a, "declarator"))
          /\ Effect("init_declarator_rest", Append(a, "declarator"), Append(a, "declarator"))
          /\ Effect("@pop", Append(a, "declarator"), a)
      BY <2>1, DeclaratorTypedefnameEffect, AnywhereEffect, PopEffect, Pushed DEF Anywhere
    <3> QED
      BY <3>1, Pushed, Fits3
  <2>2. <<"declarator_typedefname", "init_declarator_rest", "@pop">> \in Seq(Symbol)
    BY DEF Symbol, Special, Anywhere, Action
  <2> QED
    BY <2>1, <2>2, LocalTyped DEF Local
<1>10. {<<>>, <<"=", "expression">>} \subseteq Good("init_declarator_rest")
  <2>1. {<<>>, <<"=", "expression">>} \in SUBSET Seq(Calm)
    BY DEF Calm, Plain, Anywhere
  <2> QED
    BY <2>1, CalmGood DEF Anywhere
<1>11. <<"declarator", "@declarator_varname", "%ordinary">> \in Good("declarator_varname")
  <2>1. ASSUME NEW a \in Shape, Free(a)
        PROVE  FitsBetween(<<"declarator", "@declarator_varname", "%ordinary">>,
                           a, Append(a, "declarator"))
    <3>1. /\ Effect("declarator", a, Append(a, "declarator"))
          /\ Effect("@declarator_varname", Append(a, "declarator"), Append(a, "varname"))
          /\ Effect("%ordinary", Append(a, "varname"), Append(a, "declarator"))
      BY <2>1, DeclaratorEffect, DeclareVarEffect, OrdinaryEffect, Swapped, Pushed
    <3> QED
      BY <3>1, Pushed, Passed, Fits3 DEF Awaiting
  <2>2. ASSUME Definition
        PROVE  FitsBetween(<<"declarator", "@declarator_varname", "%ordinary">>,
                           <<>>, <<"defined">>)
    <3>1. /\ Effect("declarator", <<>>, <<"held">>)
          /\ Effect("@declarator_varname", <<"held">>, <<"heldvar">>)
          /\ Effect("%ordinary", <<"heldvar">>, <<"defined">>)
      BY <2>2, DeclaratorEffect, DeclareVarEffect, OrdinaryEffect, Swapped, AtBottom
    <3> QED
      BY <3>1, AtBottom, Fits3
  <2>3. <<"declarator", "@declarator_varname", "%ordinary">> \in Seq(Symbol)
    BY DEF Symbol, Special, Action, Mark
  <2> QED
    BY <2>1, <2>2, <2>3, DeclaratorVarnameTyped
<1>12. <<"declarator", "@declarator_typedefname", "%type">> \in Good("declarator_typedefname")
  <2>1. ASSUME NEW a \in Shape, Free(a), OutsideList(a)
        PROVE  FitsBetween(<<"declarator", "@declarator_typedefname", "%type">>,
                           a, Append(a, "declarator"))
    <3>1. /\ Effect("declarator", a, Append(a, "declarator"))
          /\ Effect("@declarator_typedefname", Append(a, "declarator"), Append(a, "typename"))
          /\ Effect("%type", Append(a, "typename"), Append(a, "declarator"))
      BY <2>1, DeclaratorEffect, DeclareTypeEffect, TypeEffect, Swapped, Pushed
    <3> QED
      BY <3>1, Pushed, Passed, Fits3 DEF Awaiting
  <2>2. <<"declarator", "@declarator_typedefname", "%type">> \in Seq(Symbol)
    BY DEF Symbol, Special, Action, Mark
  <2> QED
    BY <2>1, <2>2, DeclaratorTypedefnameTyped
<1>13. /\ Declarations.declaration \subseteq Good("declaration")
       /\ Declarations.declaration_specifiers \subseteq Good("declaration_specifiers")
       /\ Declarations.declaration_specifiers_typedef \subseteq Good("declaration_specifiers_typedef")
       /\ Declarations.option_init_declarator_list_varname \subseteq Good("option_init_declarator_list_varname")
       /\ Declarations.more_varname \subseteq Good("more_varname")
       /\ Declarations.option_init_declarator_list_typedefname \subseteq Good("option_init_declarator_list_typedefname")
       /\ Declarations.more_typedefname \subseteq Good("more_typedefname")
       /\ Declarations.init_declarator_varname \subseteq Good("init_declarator_varname")
       /\ Declarations.init_declarator_typedefname \subseteq Good("init_declarator_typedefname")
       /\ Declarations.init_declarator_rest \subseteq Good("init_declarator_rest")
       /\ Declarations.declarator_varname \subseteq Good("declarator_varname")
       /\ Declarations.declarator_typedefname \subseteq Good("declarator_typedefname")
  BY <1>1, <1>2, <1>3, <1>4, <1>5, <1>6, <1>7, <1>8, <1>9, <1>10, <1>11, <1>12
  DEF Declarations, InitDeclaratorVarname, If
<1> QED
  BY <1>13, DeclarationsDomain

LEMMA TranslationUnitDomain ==
  DOMAIN TranslationUnit =
   {"translation_unit_file", "more_declarations", "external_declaration",
    "function_definition", "function_definition1", "option_declaration_list_"}
  BY DEF TranslationUnit

LEMMA TranslationUnitGood ==
  \A nt \in DOMAIN TranslationUnit : TranslationUnit[nt] \subseteq Good(nt)
<1>1. {<<"external_declaration", "more_declarations">>}
        \subseteq Good("translation_unit_file")
  <2>1. {<<"external_declaration", "more_declarations">>}
          \in SUBSET Seq(Calm \cup Local \cup FileLevel)
    BY DEF Calm, FileLevel, Plain
  <2> QED
    BY <2>1, FileGood DEF FileLevel
<1>2. {<<"translation_unit_file">>, <<"YYEOF">>} \subseteq Good("more_declarations")
  <2>1. {<<"translation_unit_file">>, <<"YYEOF">>}
          \in SUBSET Seq(Calm \cup Local \cup FileLevel)
    BY DEF Calm, FileLevel, Plain
  <2> QED
    BY <2>1, FileGood DEF FileLevel
<1>3. {<<"declaration">>} \subseteq Good("external_declaration")
  <2>1. {<<"declaration">>} \in SUBSET Seq(Calm \cup Local \cup FileLevel)
    BY DEF Calm, Local, Plain
  <2> QED
    BY <2>1, FileGood DEF FileLevel
<1>4. ASSUME "definition" \in Features
      PROVE  <<"function_definition">> \in Good("external_declaration")
  <2>1. Effect("function_definition", <<>>, <<>>)
    BY <1>4, FunctionEffect DEF Definition
  <2>2. FitsBetween(<<"function_definition">>, <<>>, <<>>)
    BY <2>1, AtBottom, Fits1
  <2>3. <<"function_definition">> \in Seq(Symbol)
    BY DEF Symbol, Special
  <2> QED
    BY <2>2, <2>3, FileTyped DEF FileLevel
<1>5. <<"function_definition1", "option_declaration_list_", "compound_statement", "@function_definition", "%end">> \in Good("function_definition")
  <2>1. ASSUME Definition
        PROVE  FitsBetween(<<"function_definition1", "option_declaration_list_", "compound_statement", "@function_definition", "%end">>,
                           <<>>, <<>>)
    <3>1. Effect("function_definition1", <<>>, <<"block">>)
      BY <2>1, Function1Effect, AtBottom
    <3>2. Effect("option_declaration_list_", <<"block">>, <<"block">>)
      BY <2>1, LocalEffect, AtBottom DEF Local
    <3>3. Effect("compound_statement", <<"block">>, <<"block">>)
      BY <2>1, LocalEffect, AtBottom DEF Local
    <3>4. Effect("@function_definition", <<"block">>, <<"left">>)
      BY <2>1, RestoreEffect, Swapped, AtBottom
    <3>5. Effect("%end", <<"left">>, <<>>)
      BY <2>1, EndEffect, Swapped, AtBottom
    <3> QED
      BY <3>1, <3>2, <3>3, <3>4, <3>5, AtBottom, Fits5
  <2>2. <<"function_definition1", "option_declaration_list_", "compound_statement", "@function_definition", "%end">> \in Seq(Symbol)
    BY DEF Symbol, Special, Local, Action, Mark
  <2> QED
    BY <2>1, <2>2, FunctionTyped
<1>6. <<"declaration_specifiers", "declarator_varname", "@function_definition1", "%body">> \in Good("function_definition1")
  <2>1. ASSUME Definition
        PROVE  FitsBetween(<<"declaration_specifiers", "declarator_varname", "@function_definition1", "%body">>,
                           <<>>, <<"block">>)
    <3>1. Effect("declaration_specifiers", <<>>, <<>>)
      BY <2>1, AnywhereEffect, AtBottom DEF Anywhere
    <3>2. Effect("declarator_varname", <<>>, <<"defined">>)
      BY <2>1, DeclaratorVarnameEffect, AtBottom
    <3>3. Effect("@function_definition1", <<"defined">>, <<"body">>)
      BY <2>1, DefineEffect, AtBottom
    <3>4. Effect("%body", <<"body">>, <<"block">>)
      BY <2>1, BodyEffect, AtBottom
    <3> QED
      BY <3>1, <3>2, <3>3, <3>4, AtBottom, Fits4
  <2>2. <<"declaration_specifiers", "declarator_varname", "@function_definition1", "%body">> \in Seq(Symbol)
    BY DEF Symbol, Anywhere, Special, Action, Mark
  <2> QED
    BY <2>1, <2>2, Function1Typed
<1>7. {<<>>, <<"declaration", "option_declaration_list_">>}
        \subseteq Good("option_declaration_list_")
  <2>1. {<<>>, <<"declaration", "option_declaration_list_">>}
          \in SUBSET Seq(Calm \cup Local)
    BY DEF Calm, Local, Plain
  <2> QED
    BY <2>1, LocalGood DEF Local
<1>8. /\ TranslationUnit.translation_unit_file \subseteq Good("translation_unit_file")
      /\ TranslationUnit.more_declarations \subseteq Good("more_declarations")
      /\ TranslationUnit.external_declaration \subseteq Good("external_declaration")
      /\ TranslationUnit.function_definition \subseteq Good("function_definition")
      /\ TranslationUnit.function_definition1 \subseteq Good("function_definition1")
      /\ TranslationUnit.option_declaration_list_ \subseteq Good("option_declaration_list_")
  BY <1>1, <1>2, <1>3, <1>4, <1>5, <1>6, <1>7 DEF TranslationUnit, If
<1> QED
  BY <1>8, TranslationUnitDomain

LEMMA DeclaratorsDomain ==
  DOMAIN Declarators =
   {"declarator", "direct_declarator", "declarator_suffixes", "array_bound",
    "scoped_parameter_type_list_"}
  BY DEF Declarators

LEMMA DeclaratorsGood ==
  \A nt \in DOMAIN Declarators : Declarators[nt] \subseteq Good(nt)
<1>1. <<"direct_declarator">> \in Good("declarator")
  <2>1. ASSUME NEW a \in Shape, Free(a)
        PROVE  FitsBetween(<<"direct_declarator">>, a, Append(a, "declarator"))
    <3>1. Effect("direct_declarator", a, Append(a, "declarator"))
      BY <2>1, DeclaratorEffect
    <3> QED
      BY <3>1, Pushed, Fits1
  <2>2. ASSUME Definition
        PROVE  FitsBetween(<<"direct_declarator">>, <<>>, <<"held">>)
    <3>1. Effect("direct_declarator", <<>>, <<"held">>)
      BY <2>2, DeclaratorEffect, AtBottom
    <3> QED
      BY <3>1, AtBottom, Fits1
  <2>3. <<"direct_declarator">> \in Seq(Symbol)
    BY DEF Symbol, Special
  <2> QED
    BY <2>1, <2>2, <2>3, DeclaratorTyped
<1>2. <<"*", "direct_declarator", "@pointer">> \in Good("declarator")
  <2>1. ASSUME NEW a \in Shape, Free(a)
        PROVE  FitsBetween(<<"*", "direct_declarator", "@pointer">>,
                           a, Append(a, "declarator"))
    <3>1. Effect("*", a, a)
      BY <2>1, PlainEffect DEF Plain, Free
    <3>2. Effect("direct_declarator", a, Append(a, "declarator"))
      BY <2>1, DeclaratorEffect
    <3>3. Effect("@pointer", Append(a, "declarator"), Append(a, "declarator"))
      BY <2>1, PointerEffect, Declared, Pushed
    <3> QED
      BY <3>1, <3>2, <3>3, Pushed, Fits3
  <2>2. ASSUME Definition
        PROVE  FitsBetween(<<"*", "direct_declarator", "@pointer">>, <<>>, <<"held">>)
    <3>1. Effect("*", <<>>, <<>>)
      BY <2>2, PlainEffect, AtBottom DEF Plain, Free
    <3>2. Effect("direct_declarator", <<>>, <<"held">>)
      BY <2>2, DeclaratorEffect, AtBottom
    <3>3. Effect("@pointer", <<"held">>, <<"held">>)
      BY <2>2, PointerEffect, Declared, AtBottom
    <3> QED
      BY <3>1, <3>2, <3>3, AtBottom, Fits3
  <2>3. <<"*", "direct_declarator", "@pointer">> \in Seq(Symbol)
    BY DEF Symbol, Plain, Special, Action
  <2> QED
    BY <2>1, <2>2, <2>3, DeclaratorTyped
<1>3. <<"general_identifier", "@identifier_declarator", "declarator_suffixes">> \in Good("direct_declarator")
  <2>1. ASSUME NEW a \in Shape, Free(a)
        PROVE  FitsBetween(<<"general_identifier", "@identifier_declarator", "declarator_suffixes">>,
                           a, Append(a, "declarator"))
    <3>1. /\ Effect("general_identifier", a, Append(a, "string"))
          /\ Effect("@identifier_declarator", Append(a, "string"), Append(a, "declarator"))
          /\ Effect("declarator_suffixes", Append(a, "declarator"), Append(a, "declarator"))
      BY <2>1, NameEffect, IdentifierEffect, SuffixesEffect, Swapped, Declared, Pushed
      DEF Free
    <3> QED
      BY <3>1, Pushed, Fits3
  <2>2. ASSUME Definition
        PROVE  FitsBetween(<<"general_identifier", "@identifier_declarator", "declarator_suffixes">>,
                           <<>>, <<"held">>)
    <3>1. /\ Effect("general_identifier", <<>>, <<"string">>)
          /\ Effect("@identifier_declarator", <<"string">>, <<"held">>)
          /\ Effect("declarator_suffixes", <<"held">>, <<"held">>)
      BY <2>2, NameEffect, IdentifierEffect, SuffixesEffect, Swapped, Declared, AtBottom
    <3> QED
      BY <3>1, AtBottom, Fits3
  <2>3. <<"general_identifier", "@identifier_declarator", "declarator_suffixes">> \in Seq(Symbol)
    BY DEF Symbol, Special, Action
  <2> QED
    BY <2>1, <2>2, <2>3, DeclaratorTyped
<1>4. <<"(", "declarator", ")", "declarator_suffixes">> \in Good("direct_declarator")
  <2>1. ASSUME NEW a \in Shape, Free(a)
        PROVE  FitsBetween(<<"(", "declarator", ")", "declarator_suffixes">>,
                           a, Append(a, "declarator"))
    <3>1. Effect("(", a, a)
      BY <2>1, PlainEffect DEF Plain, Free
    <3>2. Effect("declarator", a, Append(a, "declarator"))
      BY <2>1, DeclaratorEffect
    <3>3. Effect(")", Append(a, "declarator"), Append(a, "declarator"))
      BY <2>1, PlainEffect, Pushed DEF Plain, Free
    <3>4. Effect("declarator_suffixes", Append(a, "declarator"), Append(a, "declarator"))
      BY <2>1, SuffixesEffect, Declared, Pushed
    <3> QED
      BY <3>1, <3>2, <3>3, <3>4, Pushed, Fits4
  <2>2. ASSUME Definition
        PROVE  FitsBetween(<<"(", "declarator", ")", "declarator_suffixes">>,
                           <<>>, <<"held">>)
    <3>1. Effect("(", <<>>, <<>>)
      BY <2>2, PlainEffect, AtBottom DEF Plain, Free
    <3>2. Effect("declarator", <<>>, <<"held">>)
      BY <2>2, DeclaratorEffect, AtBottom
    <3>3. Effect(")", <<"held">>, <<"held">>)
      BY <2>2, PlainEffect, AtBottom DEF Plain, Free
    <3>4. Effect("declarator_suffixes", <<"held">>, <<"held">>)
      BY <2>2, SuffixesEffect, Declared, AtBottom
    <3> QED
      BY <3>1, <3>2, <3>3, <3>4, AtBottom, Fits4
  <2>3. <<"(", "declarator", ")", "declarator_suffixes">> \in Seq(Symbol)
    BY DEF Symbol, Plain, Special
  <2> QED
    BY <2>1, <2>2, <2>3, DeclaratorTyped
<1>5. <<>> \in Good("declarator_suffixes")
  <2>1. ASSUME NEW a \in Shape, OnDeclarator(a), Free(a) \/ a = <<"held">>
        PROVE  FitsBetween(<<>>, a, a)
    BY FitsEmpty
  <2>2. <<>> \in Seq(Symbol)
    BY DEF Symbol
  <2> QED
    BY <2>1, <2>2, SuffixesTyped
<1>6. ASSUME "array" \in Features
      PROVE  <<"[", "array_bound", "]", "@array", "declarator_suffixes">> \in Good("declarator_suffixes")
  <2>1. ASSUME NEW a \in Shape, OnDeclarator(a), Free(a) \/ a = <<"held">>
        PROVE  FitsBetween(<<"[", "array_bound", "]", "@array", "declarator_suffixes">>,
                           a, a)
    <3>1. Effect("[", a, a)
      BY <1>6, <2>1, PlainEffect, SuffixOpen, SuffixFree DEF Plain, Free
    <3>2. Effect("array_bound", a, a)
      BY <1>6, <2>1, AnywhereEffect, SuffixOpen, SuffixFree DEF Anywhere
    <3>3. Effect("]", a, a)
      BY <1>6, <2>1, PlainEffect, SuffixOpen, SuffixFree DEF Plain, Free
    <3>4. Effect("@array", a, a)
      BY <1>6, <2>1, ArrayEffect, Declared, SuffixOpen, SuffixFree
    <3>5. Effect("declarator_suffixes", a, a)
      BY <1>6, <2>1, SuffixesEffect, Declared, SuffixOpen, SuffixFree
    <3> QED
      BY <3>1, <3>2, <3>3, <3>4, <3>5, Fits5
  <2>2. <<"[", "array_bound", "]", "@array", "declarator_suffixes">> \in Seq(Symbol)
    BY DEF Symbol, Plain, Anywhere, Action, Special
  <2> QED
    BY <2>1, <2>2, SuffixesTyped
<1>7. ASSUME "params" \in Features
      PROVE  <<"(", "scoped_parameter_type_list_", ")", "@function_declarator", "declarator_suffixes">> \in Good("declarator_suffixes")
  <2>1. ASSUME NEW a \in Shape, OnDeclarator(a), Free(a) \/ a = <<"held">>
        PROVE  FitsBetween(<<"(", "scoped_parameter_type_list_", ")", "@function_declarator", "declarator_suffixes">>,
                           a, a)
    <3>1. Effect("(", a, a)
      BY <1>7, <2>1, PlainEffect, SuffixOpen DEF Plain, Free
    <3>2. Effect("scoped_parameter_type_list_", a, Append(a, "context"))
      BY <1>7, <2>1, ScopedListEffect, SuffixOpen DEF Free
    <3>3. Effect(")", Append(a, "context"), Append(a, "context"))
      BY <1>7, <2>1, PlainEffect, Pushed, SuffixOpen DEF Plain, Free
    <3>4. Effect("@function_declarator", Append(a, "context"), a)
      BY <1>7, <2>1, FunctionDeclaratorEffect, Declared, Pushed, SuffixOpen
    <3>5. Effect("declarator_suffixes", a, a)
      BY <1>7, <2>1, SuffixesEffect, Declared, Pushed, SuffixOpen
    <3> QED
      BY <3>1, <3>2, <3>3, <3>4, <3>5, Pushed, Fits5
  <2>2. <<"(", "scoped_parameter_type_list_", ")", "@function_declarator", "declarator_suffixes">> \in Seq(Symbol)
    BY DEF Symbol, Plain, Special, Action
  <2> QED
    BY <2>1, <2>2, SuffixesTyped
<1>8. ASSUME "idlist" \in Features
      PROVE  <<"(", ")", "@identifier_list", "declarator_suffixes">> \in Good("declarator_suffixes")
  <2>1. ASSUME NEW a \in Shape, OnDeclarator(a), Free(a) \/ a = <<"held">>
        PROVE  FitsBetween(<<"(", ")", "@identifier_list", "declarator_suffixes">>, a, a)
    <3>1. Effect("(", a, a)
      BY <1>8, <2>1, PlainEffect, SuffixOpen, SuffixFree DEF Plain, Free
    <3>2. Effect(")", a, a)
      BY <1>8, <2>1, PlainEffect, SuffixOpen, SuffixFree DEF Plain, Free
    <3>3. Effect("@identifier_list", a, a)
      BY <1>8, <2>1, IdentifierListEffect, Declared, SuffixOpen, SuffixFree
    <3>4. Effect("declarator_suffixes", a, a)
      BY <1>8, <2>1, SuffixesEffect, Declared, SuffixOpen, SuffixFree
    <3> QED
      BY <3>1, <3>2, <3>3, <3>4, Fits4
  <2>2. <<"(", ")", "@identifier_list", "declarator_suffixes">> \in Seq(Symbol)
    BY DEF Symbol, Plain, Action, Special
  <2> QED
    BY <2>1, <2>2, SuffixesTyped
<1>9. ASSUME "idlist" \in Features
      PROVE  <<"(", "identifier_list", ")", "@identifier_list", "declarator_suffixes">> \in Good("declarator_suffixes")
  <2>1. ASSUME NEW a \in Shape, OnDeclarator(a), Free(a) \/ a = <<"held">>
        PROVE  FitsBetween(<<"(", "identifier_list", ")", "@identifier_list", "declarator_suffixes">>,
                           a, a)
    <3>1. Effect("(", a, a)
      BY <1>9, <2>1, PlainEffect, SuffixOpen, SuffixFree DEF Plain, Free
    <3>2. Effect("identifier_list", a, a)
      BY <1>9, <2>1, AnywhereEffect, SuffixOpen, SuffixFree DEF Anywhere
    <3>3. Effect(")", a, a)
      BY <1>9, <2>1, PlainEffect, SuffixOpen, SuffixFree DEF Plain, Free
    <3>4. Effect("@identifier_list", a, a)
      BY <1>9, <2>1, IdentifierListEffect, Declared, SuffixOpen, SuffixFree
    <3>5. Effect("declarator_suffixes", a, a)
      BY <1>9, <2>1, SuffixesEffect, Declared, SuffixOpen, SuffixFree
    <3> QED
      BY <3>1, <3>2, <3>3, <3>4, <3>5, Fits5
  <2>2. <<"(", "identifier_list", ")", "@identifier_list", "declarator_suffixes">> \in Seq(Symbol)
    BY DEF Symbol, Plain, Anywhere, Action, Special
  <2> QED
    BY <2>1, <2>2, SuffixesTyped
<1>10. {<<>>, <<"expression">>} \subseteq Good("array_bound")
  <2>1. {<<>>, <<"expression">>} \in SUBSET Seq(Calm)
    BY DEF Calm, Anywhere, Plain
  <2> QED
    BY <2>1, CalmGood DEF Anywhere
<1>11. <<"@save_context", "%scope", "parameter_declaration", "more_parameters", "@parameter_type_list", "@scoped_parameter_type_list_", "%end">> \in Good("scoped_parameter_type_list_")
  <2>1. ASSUME NEW a \in Shape, Open(a)
        PROVE  FitsBetween(<<"@save_context", "%scope", "parameter_declaration", "more_parameters", "@parameter_type_list", "@scoped_parameter_type_list_", "%end">>,
                           a, Append(a, "context"))
    <3>1. Effect("@save_context", a, Append(a, "saved"))
      BY <2>1, SaveEffect DEF Free
    <3>2. Effect("%scope", Append(a, "saved"), Append(a, "plist"))
      BY <2>1, ScopeEffect, Swapped
    <3>3. Effect("parameter_declaration", Append(a, "plist"), Append(a, "plist"))
      BY <2>1, AnywhereEffect, Pushed, PushedList DEF Anywhere
    <3>4. Effect("more_parameters", Append(a, "plist"), Append(a, "plist"))
      BY <2>1, AnywhereEffect, Pushed, PushedList DEF Anywhere
    <3>5. Effect("@parameter_type_list",
                 Append(a, "plist"),
                 Append(Append(a, "plist"), "list"))
      BY <2>1, ListEffect, Pushed, PushedList
    <3>6. Effect("@scoped_parameter_type_list_",
                 Append(Append(a, "plist"), "list"),
                 Append(a, "closing"))
      BY <2>1, LeaveListEffect, Pushed, PushedList
    <3>7. Effect("%end", Append(a, "closing"), Append(a, "context"))
      BY <2>1, EndEffect, Swapped
    <3> QED
      BY <3>1, <3>2, <3>3, <3>4, <3>5, <3>6, <3>7, Pushed, PushedList, Passed, Fits7
      DEF Awaiting
  <2>2. <<"@save_context", "%scope", "parameter_declaration", "more_parameters", "@parameter_type_list", "@scoped_parameter_type_list_", "%end">> \in Seq(Symbol)
    BY DEF Symbol, Action, Mark, Anywhere
  <2> QED
    BY <2>1, <2>2, ScopedListTyped
<1>12. /\ Declarators.declarator \subseteq Good("declarator")
       /\ Declarators.direct_declarator \subseteq Good("direct_declarator")
       /\ Declarators.declarator_suffixes \subseteq Good("declarator_suffixes")
       /\ Declarators.array_bound \subseteq Good("array_bound")
       /\ Declarators.scoped_parameter_type_list_ \subseteq Good("scoped_parameter_type_list_")
  BY <1>1, <1>2, <1>3, <1>4, <1>5, <1>6, <1>7, <1>8, <1>9, <1>10, <1>11
  DEF Declarators, If
<1> QED
  BY <1>12, DeclaratorsDomain

LEMMA ParameterListsDomain ==
  DOMAIN ParameterLists =
   {"more_parameters", "parameter_declaration", "declared_parameter",
    "option_abstract_declarator_", "identifier_list", "type_name"}
  BY DEF ParameterLists

LEMMA ParameterListsGood ==
  \A nt \in DOMAIN ParameterLists : ParameterLists[nt] \subseteq Good(nt)
<1>1. {<<>>, <<",", "parameter_declaration", "more_parameters">>}
        \subseteq Good("more_parameters")
  <2>1. {<<>>, <<",", "parameter_declaration", "more_parameters">>} \in SUBSET Seq(Calm)
    BY DEF Calm, Plain, Anywhere
  <2> QED
    BY <2>1, CalmGood DEF Anywhere
<1>2. {<<"declaration_specifiers", "declared_parameter">>}
        \subseteq Good("parameter_declaration")
  <2>1. {<<"declaration_specifiers", "declared_parameter">>} \in SUBSET Seq(Calm)
    BY DEF Calm, Anywhere, Plain
  <2> QED
    BY <2>1, CalmGood DEF Anywhere
<1>3. <<"parameter_declarator", "@declarator_varname", "%ordinary", "@pop">> \in Good("declared_parameter")
  <2>1. ASSUME NEW a \in Shape, Free(a)
        PROVE  FitsBetween(<<"parameter_declarator", "@declarator_varname", "%ordinary", "@pop">>,
                           a, a)
    <3>1. Effect("parameter_declarator", a, Append(a, "declarator"))
      BY <2>1, ParameterDeclaratorEffect DEF ParameterDeclarator
    <3>2. Effect("@declarator_varname", Append(a, "declarator"), Append(a, "varname"))
      BY <2>1, DeclareVarEffect, Swapped, Pushed
    <3>3. Effect("%ordinary", Append(a, "varname"), Append(a, "declarator"))
      BY <2>1, OrdinaryEffect, Swapped
    <3>4. Effect("@pop", Append(a, "declarator"), a)
      BY <2>1, PopEffect, Pushed
    <3> QED
      BY <3>1, <3>2, <3>3, <3>4, Pushed, Passed, Fits4 DEF Awaiting
  <2>2. <<"parameter_declarator", "@declarator_varname", "%ordinary", "@pop">> \in Seq(Symbol)
    BY DEF Symbol, ParameterDeclarator, Action, Mark
  <2> QED
    BY <2>1, <2>2, AnywhereTyped DEF Anywhere
<1>4. {<<"option_abstract_declarator_">>} \subseteq Good("declared_parameter")
  <2>1. {<<"option_abstract_declarator_">>} \in SUBSET Seq(Calm)
    BY DEF Calm, Anywhere, Plain
  <2> QED
    BY <2>1, CalmGood DEF Anywhere
<1>5. {<<>>, <<"*">>} \subseteq Good("option_abstract_declarator_")
  <2>1. {<<>>, <<"*">>} \in SUBSET Seq(Calm)
    BY DEF Calm, Plain
  <2> QED
    BY <2>1, CalmGood DEF Anywhere
<1>6. <<"(", "scoped_parameter_type_list_", ")", "@pop">> \in Good("option_abstract_declarator_")
  <2>1. ASSUME NEW a \in Shape, Free(a)
        PROVE  FitsBetween(<<"(", "scoped_parameter_type_list_", ")", "@pop">>, a, a)
    <3>1. Effect("(", a, a)
      BY <2>1, PlainEffect DEF Plain, Free
    <3>2. Effect("scoped_parameter_type_list_", a, Append(a, "context"))
      BY <2>1, ScopedListEffect DEF Free
    <3>3. Effect(")", Append(a, "context"), Append(a, "context"))
      BY <2>1, PlainEffect, Pushed DEF Plain, Free
    <3>4. Effect("@pop", Append(a, "context"), a)
      BY <2>1, PopEffect, Pushed
    <3> QED
      BY <3>1, <3>2, <3>3, <3>4, Pushed, Fits4
  <2>2. <<"(", "scoped_parameter_type_list_", ")", "@pop">> \in Seq(Symbol)
    BY DEF Symbol, Plain, Special, Action
  <2> QED
    BY <2>1, <2>2, AnywhereTyped DEF Anywhere
<1>7. <<"var_name", "@pop">> \in Good("identifier_list")
  <2>1. ASSUME NEW a \in Shape, Free(a)
        PROVE  FitsBetween(<<"var_name", "@pop">>, a, a)
    <3>1. /\ Effect("var_name", a, Append(a, "string"))
          /\ Effect("@pop", Append(a, "string"), a)
      BY <2>1, NameEffect, PopEffect, Pushed DEF Free
    <3> QED
      BY <3>1, Pushed, Fits2
  <2>2. <<"var_name", "@pop">> \in Seq(Symbol)
    BY DEF Symbol, Special, Action
  <2> QED
    BY <2>1, <2>2, AnywhereTyped DEF Anywhere
<1>8. <<"var_name", "@pop", ",", "identifier_list">> \in Good("identifier_list")
  <2>1. ASSUME NEW a \in Shape, Free(a)
        PROVE  FitsBetween(<<"var_name", "@pop", ",", "identifier_list">>, a, a)
    <3>1. Effect("var_name", a, Append(a, "string"))
      BY <2>1, NameEffect DEF Free
    <3>2. Effect("@pop", Append(a, "string"), a)
      BY <2>1, PopEffect, Pushed
    <3>3. Effect(",", a, a)
      BY <2>1, PlainEffect DEF Plain, Free
    <3>4. Effect("identifier_list", a, a)
      BY <2>1, AnywhereEffect DEF Anywhere
    <3> QED
      BY <3>1, <3>2, <3>3, <3>4, Pushed, Fits4
  <2>2. <<"var_name", "@pop", ",", "identifier_list">> \in Seq(Symbol)
    BY DEF Symbol, Special, Action, Plain, Anywhere
  <2> QED
    BY <2>1, <2>2, AnywhereTyped DEF Anywhere
<1>9. {<<"type_specifier", "option_abstract_declarator_">>} \subseteq Good("type_name")
  <2>1. {<<"type_specifier", "option_abstract_declarator_">>} \in SUBSET Seq(Calm)
    BY DEF Calm, Anywhere, Plain
  <2> QED
    BY <2>1, CalmGood DEF Anywhere
<1>10. /\ ParameterLists.more_parameters \subseteq Good("more_parameters")
       /\ ParameterLists.parameter_declaration \subseteq Good("parameter_declaration")
       /\ ParameterLists.declared_parameter \subseteq Good("declared_parameter")
       /\ ParameterLists.option_abstract_declarator_ \subseteq Good("option_abstract_declarator_")
       /\ ParameterLists.identifier_list \subseteq Good("identifier_list")
       /\ ParameterLists.type_name \subseteq Good("type_name")
  BY <1>1, <1>2, <1>3, <1>4, <1>5, <1>6, <1>7, <1>8, <1>9 DEF ParameterLists, If
<1> QED
  BY <1>10, ParameterListsDomain

LEMMA ParameterDeclaratorsDomain ==
  DOMAIN ParameterDeclarators =
   {"parameter_declarator", "direct_parameter_declarator", "parenthesized_declarator"}
  BY DEF ParameterDeclarators

LEMMA ParameterDeclaratorsGood ==
  \A nt \in DOMAIN ParameterDeclarators : ParameterDeclarators[nt] \subseteq Good(nt)
<1>1. <<"direct_parameter_declarator">> \in Good("parameter_declarator")
  <2>1. ASSUME NEW a \in Shape, Free(a)
        PROVE  FitsBetween(<<"direct_parameter_declarator">>, a, Append(a, "declarator"))
    <3>1. Effect("direct_parameter_declarator", a, Append(a, "declarator"))
      BY <2>1, ParameterDeclaratorEffect, Pushed DEF ParameterDeclarator
    <3> QED
      BY <3>1, Pushed, Fits1
  <2>2. <<"direct_parameter_declarator">> \in Seq(Symbol)
    BY DEF Symbol, ParameterDeclarator
  <2> QED
    BY <2>1, <2>2, ParameterDeclaratorTyped DEF ParameterDeclarator
<1>2. <<"*", "direct_parameter_declarator", "@pointer">> \in Good("parameter_declarator")
  <2>1. ASSUME NEW a \in Shape, Free(a)
        PROVE  FitsBetween(<<"*", "direct_parameter_declarator", "@pointer">>,
                           a, Append(a, "declarator"))
    <3>1. /\ Effect("*", a, a)
          /\ Effect("direct_parameter_declarator", a, Append(a, "declarator"))
          /\ Effect("@pointer", Append(a, "declarator"), Append(a, "declarator"))
      BY <2>1, PlainEffect, ParameterDeclaratorEffect, PointerEffect, Declared, Pushed
      DEF Plain, ParameterDeclarator, Free
    <3> QED
      BY <3>1, Pushed, Fits3
  <2>2. <<"*", "direct_parameter_declarator", "@pointer">> \in Seq(Symbol)
    BY DEF Symbol, Plain, ParameterDeclarator, Action
  <2> QED
    BY <2>1, <2>2, ParameterDeclaratorTyped DEF ParameterDeclarator
<1>3. <<"general_identifier", "@identifier_declarator", "declarator_suffixes">> \in Good("direct_parameter_declarator")
  <2>1. ASSUME NEW a \in Shape, Free(a)
        PROVE  FitsBetween(<<"general_identifier", "@identifier_declarator", "declarator_suffixes">>,
                           a, Append(a, "declarator"))
    <3>1. /\ Effect("general_identifier", a, Append(a, "string"))
          /\ Effect("@identifier_declarator", Append(a, "string"), Append(a, "declarator"))
          /\ Effect("declarator_suffixes", Append(a, "declarator"), Append(a, "declarator"))
      BY <2>1, NameEffect, IdentifierEffect, SuffixesEffect, Swapped, Declared, Pushed
      DEF Free
    <3> QED
      BY <3>1, Pushed, Fits3
  <2>2. <<"general_identifier", "@identifier_declarator", "declarator_suffixes">> \in Seq(Symbol)
    BY DEF Symbol, Special, Action
  <2> QED
    BY <2>1, <2>2, ParameterDeclaratorTyped DEF ParameterDeclarator
<1>4. <<"(", "parenthesized_declarator", ")", "declarator_suffixes">> \in Good("direct_parameter_declarator")
  <2>1. ASSUME NEW a \in Shape, Free(a)
        PROVE  FitsBetween(<<"(", "parenthesized_declarator", ")", "declarator_suffixes">>,
                           a, Append(a, "declarator"))
    <3>1. Effect("(", a, a)
      BY <2>1, PlainEffect DEF Plain, Free
    <3>2. Effect("parenthesized_declarator", a, Append(a, "declarator"))
      BY <2>1, ParameterDeclaratorEffect DEF ParameterDeclarator
    <3>3. Effect(")", Append(a, "declarator"), Append(a, "declarator"))
      BY <2>1, PlainEffect, Pushed DEF Plain, Free
    <3>4. Effect("declarator_suffixes", Append(a, "declarator"), Append(a, "declarator"))
      BY <2>1, SuffixesEffect, Declared, Pushed
    <3> QED
      BY <3>1, <3>2, <3>3, <3>4, Pushed, Fits4
  <2>2. <<"(", "parenthesized_declarator", ")", "declarator_suffixes">> \in Seq(Symbol)
    BY DEF Symbol, Plain, ParameterDeclarator, Special
  <2> QED
    BY <2>1, <2>2, ParameterDeclaratorTyped DEF ParameterDeclarator
<1>5. <<"var_name", "@identifier_declarator", "declarator_suffixes">> \in Good("parenthesized_declarator")
  <2>1. ASSUME NEW a \in Shape, Free(a)
        PROVE  FitsBetween(<<"var_name", "@identifier_declarator", "declarator_suffixes">>,
                           a, Append(a, "declarator"))
    <3>1. /\ Effect("var_name", a, Append(a, "string"))
          /\ Effect("@identifier_declarator", Append(a, "string"), Append(a, "declarator"))
          /\ Effect("declarator_suffixes", Append(a, "declarator"), Append(a, "declarator"))
      BY <2>1, NameEffect, IdentifierEffect, SuffixesEffect, Swapped, Declared, Pushed
      DEF Free
    <3> QED
      BY <3>1, Pushed, Fits3
  <2>2. <<"var_name", "@identifier_declarator", "declarator_suffixes">> \in Seq(Symbol)
    BY DEF Symbol, Special, Action
  <2> QED
    BY <2>1, <2>2, ParameterDeclaratorTyped DEF ParameterDeclarator
<1>6. <<"(", "parenthesized_declarator", ")", "declarator_suffixes">> \in Good("parenthesized_declarator")
  <2>1. ASSUME NEW a \in Shape, Free(a)
        PROVE  FitsBetween(<<"(", "parenthesized_declarator", ")", "declarator_suffixes">>,
                           a, Append(a, "declarator"))
    <3>1. Effect("(", a, a)
      BY <2>1, PlainEffect DEF Plain, Free
    <3>2. Effect("parenthesized_declarator", a, Append(a, "declarator"))
      BY <2>1, ParameterDeclaratorEffect DEF ParameterDeclarator
    <3>3. Effect(")", Append(a, "declarator"), Append(a, "declarator"))
      BY <2>1, PlainEffect, Pushed DEF Plain, Free
    <3>4. Effect("declarator_suffixes", Append(a, "declarator"), Append(a, "declarator"))
      BY <2>1, SuffixesEffect, Declared, Pushed
    <3> QED
      BY <3>1, <3>2, <3>3, <3>4, Pushed, Fits4
  <2>2. <<"(", "parenthesized_declarator", ")", "declarator_suffixes">> \in Seq(Symbol)
    BY DEF Symbol, Plain, ParameterDeclarator, Special
  <2> QED
    BY <2>1, <2>2, ParameterDeclaratorTyped DEF ParameterDeclarator
<1>7. <<"*", "direct_parameter_declarator", "@pointer">> \in Good("parenthesized_declarator")
  <2>1. ASSUME NEW a \in Shape, Free(a)
        PROVE  FitsBetween(<<"*", "direct_parameter_declarator", "@pointer">>,
                           a, Append(a, "declarator"))
    <3>1. /\ Effect("*", a, a)
          /\ Effect("direct_parameter_declarator", a, Append(a, "declarator"))
          /\ Effect("@pointer", Append(a, "declarator"), Append(a, "declarator"))
      BY <2>1, PlainEffect, ParameterDeclaratorEffect, PointerEffect, Declared, Pushed
      DEF Plain, ParameterDeclarator, Free
    <3> QED
      BY <3>1, Pushed, Fits3
  <2>2. <<"*", "direct_parameter_declarator", "@pointer">> \in Seq(Symbol)
    BY DEF Symbol, Plain, ParameterDeclarator, Action
  <2> QED
    BY <2>1, <2>2, ParameterDeclaratorTyped DEF ParameterDeclarator
<1>8. /\ ParameterDeclarators.parameter_declarator \subseteq Good("parameter_declarator")
      /\ ParameterDeclarators.direct_parameter_declarator \subseteq Good("direct_parameter_declarator")
      /\ ParameterDeclarators.parenthesized_declarator \subseteq Good("parenthesized_declarator")
  BY <1>1, <1>2, <1>3, <1>4, <1>5, <1>6, <1>7 DEF ParameterDeclarators, If
<1> QED
  BY <1>8, ParameterDeclaratorsDomain

LEMMA SpecifiersDomain ==
  DOMAIN Specifiers =
   {"type_specifier", "more_enumerators", "enumerator", "enumerator_value",
    "struct_declaration", "member_rest"}
  BY DEF Specifiers

LEMMA SpecifiersGood ==
  \A nt \in DOMAIN Specifiers : Specifiers[nt] \subseteq Good(nt)
<1>1. {<<"int">>, <<"typedef_name_spec">>,
       <<"enum", "{", "enumerator", "more_enumerators", "}">>,
       <<"struct", "{", "struct_declaration", "}">>} \subseteq Good("type_specifier")
  <2>1. {<<"int">>, <<"typedef_name_spec">>,
         <<"enum", "{", "enumerator", "more_enumerators", "}">>,
         <<"struct", "{", "struct_declaration", "}">>} \in SUBSET Seq(Calm)
    BY DEF Calm, Plain, Anywhere
  <2> QED
    BY <2>1, CalmGood DEF Anywhere
<1>2. <<"struct", "general_identifier", "@pop">> \in Good("type_specifier")
  <2>1. ASSUME NEW a \in Shape, Free(a)
        PROVE  FitsBetween(<<"struct", "general_identifier", "@pop">>, a, a)
    <3>1. /\ Effect("struct", a, a)
          /\ Effect("general_identifier", a, Append(a, "string"))
          /\ Effect("@pop", Append(a, "string"), a)
      BY <2>1, PlainEffect, NameEffect, PopEffect, Pushed DEF Plain, Free
    <3> QED
      BY <3>1, Pushed, Fits3
  <2>2. <<"struct", "general_identifier", "@pop">> \in Seq(Symbol)
    BY DEF Symbol, Plain, Special, Action
  <2> QED
    BY <2>1, <2>2, AnywhereTyped DEF Anywhere
<1>3. {<<>>, <<",", "enumerator", "more_enumerators">>} \subseteq Good("more_enumerators")
  <2>1. {<<>>, <<",", "enumerator", "more_enumerators">>} \in SUBSET Seq(Calm)
    BY DEF Calm, Plain, Anywhere
  <2> QED
    BY <2>1, CalmGood DEF Anywhere
<1>4. <<"general_identifier", "enumerator_value", "@enumerator", "%ordinary", "@pop">> \in Good("enumerator")
  <2>1. ASSUME NEW a \in Shape, Free(a)
        PROVE  FitsBetween(<<"general_identifier", "enumerator_value", "@enumerator", "%ordinary", "@pop">>,
                           a, a)
    <3>1. Effect("general_identifier", a, Append(a, "string"))
      BY <2>1, NameEffect DEF Free
    <3>2. Effect("enumerator_value", Append(a, "string"), Append(a, "string"))
      BY <2>1, AnywhereEffect, Pushed DEF Anywhere
    <3>3. Effect("@enumerator", Append(a, "string"), Append(a, "constant"))
      BY <2>1, EnumeratorEffect, Swapped, Pushed
    <3>4. Effect("%ordinary", Append(a, "constant"), Append(a, "string"))
      BY <2>1, OrdinaryEffect, Swapped
    <3>5. Effect("@pop", Append(a, "string"), a)
      BY <2>1, PopEffect, Pushed
    <3> QED
      BY <3>1, <3>2, <3>3, <3>4, <3>5, Pushed, Passed, Fits5 DEF Awaiting
  <2>2. <<"general_identifier", "enumerator_value", "@enumerator", "%ordinary", "@pop">> \in Seq(Symbol)
    BY DEF Symbol, Special, Anywhere, Action, Mark
  <2> QED
    BY <2>1, <2>2, AnywhereTyped DEF Anywhere
<1>5. {<<>>, <<"=", "expression">>} \subseteq Good("enumerator_value")
  <2>1. {<<>>, <<"=", "expression">>} \in SUBSET Seq(Calm)
    BY DEF Calm, Plain, Anywhere
  <2> QED
    BY <2>1, CalmGood DEF Anywhere
<1>6. <<"type_specifier", "declarator", "member_rest", "@pop", ";">> \in Good("struct_declaration")
  <2>1. ASSUME NEW a \in Shape, Free(a)
        PROVE  FitsBetween(<<"type_specifier", "declarator", "member_rest", "@pop", ";">>,
                           a, a)
    <3>1. Effect("type_specifier", a, a)
      BY <2>1, AnywhereEffect DEF Anywhere
    <3>2. Effect("declarator", a, Append(a, "declarator"))
      BY <2>1, DeclaratorEffect
    <3>3. Effect("member_rest", Append(a, "declarator"), Append(a, "declarator"))
      BY <2>1, AnywhereEffect, Pushed DEF Anywhere
    <3>4. Effect("@pop", Append(a, "declarator"), a)
      BY <2>1, PopEffect, Pushed
    <3>5. Effect(";", a, a)
      BY <2>1, PlainEffect DEF Plain, Free
    <3> QED
      BY <3>1, <3>2, <3>3, <3>4, <3>5, Pushed, Fits5
  <2>2. <<"type_specifier", "declarator", "member_rest", "@pop", ";">> \in Seq(Symbol)
    BY DEF Symbol, Anywhere, Special, Action, Plain
  <2> QED
    BY <2>1, <2>2, AnywhereTyped DEF Anywhere
<1>7. {<<>>} \subseteq Good("member_rest")
  <2>1. {<<>>} \in SUBSET Seq(Calm)
    BY DEF Calm, Plain
  <2> QED
    BY <2>1, CalmGood DEF Anywhere
<1>8. /\ Specifiers.type_specifier \subseteq Good("type_specifier")
      /\ Specifiers.more_enumerators \subseteq Good("more_enumerators")
      /\ Specifiers.enumerator \subseteq Good("enumerator")
      /\ Specifiers.enumerator_value \subseteq Good("enumerator_value")
      /\ Specifiers.struct_declaration \subseteq Good("struct_declaration")
      /\ Specifiers.member_rest \subseteq Good("member_rest")
  BY <1>1, <1>2, <1>3, <1>4, <1>5, <1>6, <1>7
  DEF Specifiers, StructReference, Enumerators, StructDeclaration, If
<1> QED
  BY <1>8, SpecifiersDomain

LEMMA ScopedTyped ==
  ASSUME NEW nt \in Local, NEW x \in Local
  PROVE  Scoped(x) \in Good(nt)
<1> DEFINE seq == <<"@save_context", "%scope", x, "@restore_context", "%end">>
<1>1. ASSUME NEW a \in Shape, Free(a), OutsideList(a)
      PROVE  FitsBetween(seq, a, a)
  <2>1. Effect("@save_context", a, Append(a, "saved"))
    BY <1>1, SaveEffect DEF Free
  <2>2. Effect("%scope", Append(a, "saved"), Append(a, "block"))
    <3>1. OutsideList(Append(a, "saved"))
      BY <1>1, AppendedOutsideList DEF Role
    <3> QED
      BY <3>1, ScopeEffect, Swapped
  <2>3. Effect(x, Append(a, "block"), Append(a, "block"))
    BY <1>1, LocalEffect, Pushed
  <2>4. Effect("@restore_context", Append(a, "block"), Append(a, "left"))
    BY RestoreEffect, Swapped
  <2>5. Effect("%end", Append(a, "left"), a)
    BY EndEffect
  <2> QED
    BY <2>1, <2>2, <2>3, <2>4, <2>5, Pushed, Passed, Fits5 DEF Awaiting
<1>2. seq \in Seq(Symbol)
  BY DEF Symbol, Action, Mark
<1> QED
  BY <1>1, <1>2, LocalTyped DEF Scoped

LEMMA StatementsDomain ==
  DOMAIN Statements =
   {"compound_statement", "block_item_list", "statement", "scoped_statement_",
    "selection_statement", "else_part", "iteration_statement"}
  BY DEF Statements

LEMMA StatementsGood ==
  \A nt \in DOMAIN Statements : Statements[nt] \subseteq Good(nt)
<1>1. {<<"{", "block_item_list", "}">>} \subseteq Good("compound_statement")
  <2>1. {<<"{", "block_item_list", "}">>} \in SUBSET Seq(Calm \cup Local)
    BY DEF Calm, Plain, Local
  <2> QED
    BY <2>1, LocalGood DEF Local
<1>2. {<<>>, <<"declaration", "block_item_list">>, <<"statement", "block_item_list">>}
        \subseteq Good("block_item_list")
  <2>1. {<<>>, <<"declaration", "block_item_list">>, <<"statement", "block_item_list">>}
          \in SUBSET Seq(Calm \cup Local)
    BY DEF Calm, Local, Plain
  <2> QED
    BY <2>1, LocalGood DEF Local
<1>3. {<<"expression", ";">>, <<"return", "expression", ";">>} \subseteq Good("statement")
  <2>1. {<<"expression", ";">>, <<"return", "expression", ";">>}
          \in SUBSET Seq(Calm \cup Local)
    BY DEF Calm, Anywhere, Plain
  <2> QED
    BY <2>1, LocalGood DEF Local
<1>4. Scoped("compound_statement") \in Good("statement")
  BY ScopedTyped DEF Local
<1>5. Scoped("selection_statement") \in Good("statement")
  BY ScopedTyped DEF Local
<1>6. Scoped("iteration_statement") \in Good("statement")
  BY ScopedTyped DEF Local
<1>7. <<"general_identifier", ":", "@pop", "statement">> \in Good("statement")
  <2>1. ASSUME NEW a \in Shape, Free(a), OutsideList(a)
        PROVE  FitsBetween(<<"general_identifier", ":", "@pop", "statement">>, a, a)
    <3>1. Effect("general_identifier", a, Append(a, "string"))
      BY <2>1, NameEffect DEF Free
    <3>2. Effect(":", Append(a, "string"), Append(a, "string"))
      BY <2>1, PlainEffect, Pushed DEF Plain, Free
    <3>3. Effect("@pop", Append(a, "string"), a)
      BY <2>1, PopEffect, Pushed
    <3>4. Effect("statement", a, a)
      BY <2>1, LocalEffect DEF Local
    <3> QED
      BY <3>1, <3>2, <3>3, <3>4, Pushed, Fits4
  <2>2. <<"general_identifier", ":", "@pop", "statement">> \in Seq(Symbol)
    BY DEF Symbol, Special, Plain, Action, Local
  <2> QED
    BY <2>1, <2>2, LocalTyped DEF Local
<1>8. <<"goto", "general_identifier", ";", "@pop">> \in Good("statement")
  <2>1. ASSUME NEW a \in Shape, Free(a), OutsideList(a)
        PROVE  FitsBetween(<<"goto", "general_identifier", ";", "@pop">>, a, a)
    <3>1. Effect("goto", a, a)
      BY <2>1, PlainEffect DEF Plain, Free
    <3>2. Effect("general_identifier", a, Append(a, "string"))
      BY <2>1, NameEffect DEF Free
    <3>3. Effect(";", Append(a, "string"), Append(a, "string"))
      BY <2>1, PlainEffect, Pushed DEF Plain, Free
    <3>4. Effect("@pop", Append(a, "string"), a)
      BY <2>1, PopEffect, Pushed
    <3> QED
      BY <3>1, <3>2, <3>3, <3>4, Pushed, Fits4
  <2>2. <<"goto", "general_identifier", ";", "@pop">> \in Seq(Symbol)
    BY DEF Symbol, Plain, Special, Action
  <2> QED
    BY <2>1, <2>2, LocalTyped DEF Local
<1>9. Scoped("statement") \in Good("scoped_statement_")
  BY ScopedTyped DEF Local
<1>10. {<<"if", "(", "expression", ")", "scoped_statement_", "else_part">>,
        <<"switch", "(", "expression", ")", "scoped_statement_">>}
         \subseteq Good("selection_statement")
  <2>1. {<<"if", "(", "expression", ")", "scoped_statement_", "else_part">>,
          <<"switch", "(", "expression", ")", "scoped_statement_">>}
          \in SUBSET Seq(Calm \cup Local)
    BY DEF Calm, Plain, Anywhere, Local
  <2> QED
    BY <2>1, LocalGood DEF Local
<1>11. {<<"@below_ELSE">>, <<"else", "scoped_statement_">>} \subseteq Good("else_part")
  <2>1. {<<"@below_ELSE">>, <<"else", "scoped_statement_">>}
          \in SUBSET Seq(Calm \cup Local)
    BY DEF Calm, Plain, Local
  <2> QED
    BY <2>1, LocalGood DEF Local
<1>12. {<<"while", "(", "expression", ")", "scoped_statement_">>,
        <<"do", "scoped_statement_", "while", "(", "expression", ")", ";">>,
        <<"for", "(", ";", ";", "expression", ")", "scoped_statement_">>,
        <<"for", "(", "declaration", "expression", ";", ")", "scoped_statement_">>}
         \subseteq Good("iteration_statement")
  <2>1. {<<"while", "(", "expression", ")", "scoped_statement_">>,
          <<"do", "scoped_statement_", "while", "(", "expression", ")", ";">>,
          <<"for", "(", ";", ";", "expression", ")", "scoped_statement_">>,
          <<"for", "(", "declaration", "expression", ";", ")", "scoped_statement_">>}
          \in SUBSET Seq(Calm \cup Local)
    BY DEF Calm, Plain, Anywhere, Local
  <2> QED
    BY <2>1, LocalGood DEF Local
<1>13. /\ Statements.compound_statement \subseteq Good("compound_statement")
       /\ Statements.block_item_list \subseteq Good("block_item_list")
       /\ Statements.statement \subseteq Good("statement")
       /\ Statements.scoped_statement_ \subseteq Good("scoped_statement_")
       /\ Statements.selection_statement \subseteq Good("selection_statement")
       /\ Statements.else_part \subseteq Good("else_part")
       /\ Statements.iteration_statement \subseteq Good("iteration_statement")
  BY <1>1, <1>2, <1>3, <1>4, <1>5, <1>6, <1>7, <1>8, <1>9, <1>10, <1>11, <1>12
  DEF Statements, If
<1> QED
  BY <1>13, StatementsDomain

LEMMA GnuAttributesDomain ==
  DOMAIN GnuAttributes =
   {"gnu_attributes", "gnu_attrib", "gnu_attrib_rest"}
  BY DEF GnuAttributes

LEMMA GnuAttributesGood ==
  \A nt \in DOMAIN GnuAttributes : GnuAttributes[nt] \subseteq Good(nt)
<1>1. {<<"__attribute__((", "gnu_attrib", "))">>} \subseteq Good("gnu_attributes")
  <2>1. {<<"__attribute__((", "gnu_attrib", "))">>} \in SUBSET Seq(Calm)
    BY DEF Calm, Plain, Anywhere
  <2> QED
    BY <2>1, CalmGood DEF Anywhere
<1>2. <<"general_identifier", "gnu_attrib_rest", "@pop">> \in Good("gnu_attrib")
  <2>1. ASSUME NEW a \in Shape, Free(a)
        PROVE  FitsBetween(<<"general_identifier", "gnu_attrib_rest", "@pop">>, a, a)
    <3>1. /\ Effect("general_identifier", a, Append(a, "string"))
          /\ Effect("gnu_attrib_rest", Append(a, "string"), Append(a, "string"))
          /\ Effect("@pop", Append(a, "string"), a)
      BY <2>1, NameEffect, AnywhereEffect, PopEffect, Pushed DEF Anywhere, Free
    <3> QED
      BY <3>1, Pushed, Fits3
  <2>2. <<"general_identifier", "gnu_attrib_rest", "@pop">> \in Seq(Symbol)
    BY DEF Symbol, Special, Anywhere, Action
  <2> QED
    BY <2>1, <2>2, AnywhereTyped DEF Anywhere
<1>3. {<<>>, <<"(", "expression", ")">>} \subseteq Good("gnu_attrib_rest")
  <2>1. {<<>>, <<"(", "expression", ")">>} \in SUBSET Seq(Calm)
    BY DEF Calm, Plain, Anywhere
  <2> QED
    BY <2>1, CalmGood DEF Anywhere
<1>4. /\ GnuAttributes.gnu_attributes \subseteq Good("gnu_attributes")
      /\ GnuAttributes.gnu_attrib \subseteq Good("gnu_attrib")
      /\ GnuAttributes.gnu_attrib_rest \subseteq Good("gnu_attrib_rest")
  BY <1>1, <1>2, <1>3 DEF GnuAttributes, If
<1> QED
  BY <1>4, GnuAttributesDomain

LEMMA GccDeclaratorsDomain ==
  DOMAIN GccDeclarators =
   {"declarator_varname", "declared_parameter", "direct_declarator",
    "parenthesized_declarator", "declarator", "parameter_declarator", "array_bound",
    "option_abstract_declarator_"}
  BY DEF GccDeclarators

LEMMA GccDeclaratorsGood ==
  \A nt \in DOMAIN GccDeclarators : GccDeclarators[nt] \subseteq Good(nt)
<1>1. <<"gnu_attributes", "declarator", "@declarator_varname", "%ordinary">> \in Good("declarator_varname")
  <2>1. ASSUME NEW a \in Shape, Free(a)
        PROVE  FitsBetween(<<"gnu_attributes", "declarator", "@declarator_varname", "%ordinary">>,
                           a, Append(a, "declarator"))
    <3>1. Effect("gnu_attributes", a, a)
      BY <2>1, AnywhereEffect DEF Anywhere
    <3>2. Effect("declarator", a, Append(a, "declarator"))
      BY <2>1, DeclaratorEffect
    <3>3. Effect("@declarator_varname", Append(a, "declarator"), Append(a, "varname"))
      BY <2>1, DeclareVarEffect, Swapped, Pushed
    <3>4. Effect("%ordinary", Append(a, "varname"), Append(a, "declarator"))
      BY <2>1, OrdinaryEffect, Swapped
    <3> QED
      BY <3>1, <3>2, <3>3, <3>4, Pushed, Passed, Fits4 DEF Awaiting
  <2>2. ASSUME Definition
        PROVE  FitsBetween(<<"gnu_attributes", "declarator", "@declarator_varname", "%ordinary">>,
                           <<>>, <<"defined">>)
    <3>1. Effect("gnu_attributes", <<>>, <<>>)
      BY <2>2, AnywhereEffect, AtBottom DEF Anywhere
    <3>2. Effect("declarator", <<>>, <<"held">>)
      BY <2>2, DeclaratorEffect, AtBottom
    <3>3. Effect("@declarator_varname", <<"held">>, <<"heldvar">>)
      BY <2>2, DeclareVarEffect, Swapped, AtBottom
    <3>4. Effect("%ordinary", <<"heldvar">>, <<"defined">>)
      BY <2>2, OrdinaryEffect, Swapped, AtBottom
    <3> QED
      BY <3>1, <3>2, <3>3, <3>4, AtBottom, Fits4
  <2>3. <<"gnu_attributes", "declarator", "@declarator_varname", "%ordinary">> \in Seq(Symbol)
    BY DEF Symbol, Anywhere, Special, Action, Mark
  <2> QED
    BY <2>1, <2>2, <2>3, DeclaratorVarnameTyped
<1>2. <<"gnu_attributes", "declarator", "@declarator_varname", "%ordinary", "@pop">> \in Good("declared_parameter")
  <2>1. ASSUME NEW a \in Shape, Free(a)
        PROVE  FitsBetween(<<"gnu_attributes", "declarator", "@declarator_varname", "%ordinary", "@pop">>,
                           a, a)
    <3>1. Effect("gnu_attributes", a, a)
      BY <2>1, AnywhereEffect DEF Anywhere
    <3>2. Effect("declarator", a, Append(a, "declarator"))
      BY <2>1, DeclaratorEffect
    <3>3. Effect("@declarator_varname", Append(a, "declarator"), Append(a, "varname"))
      BY <2>1, DeclareVarEffect, Swapped, Pushed
    <3>4. Effect("%ordinary", Append(a, "varname"), Append(a, "declarator"))
      BY <2>1, OrdinaryEffect, Swapped
    <3>5. Effect("@pop", Append(a, "declarator"), a)
      BY <2>1, PopEffect, Pushed
    <3> QED
      BY <3>1, <3>2, <3>3, <3>4, <3>5, Pushed, Passed, Fits5 DEF Awaiting
  <2>2. <<"gnu_attributes", "declarator", "@declarator_varname", "%ordinary", "@pop">> \in Seq(Symbol)
    BY DEF Symbol, Anywhere, Special, Action, Mark
  <2> QED
    BY <2>1, <2>2, AnywhereTyped DEF Anywhere
<1>3. <<"(", "gnu_attributes", "declarator", ")", "declarator_suffixes">> \in Good("direct_declarator")
  <2>1. ASSUME NEW a \in Shape, Free(a)
        PROVE  FitsBetween(<<"(", "gnu_attributes", "declarator", ")", "declarator_suffixes">>,
                           a, Append(a, "declarator"))
    <3>1. Effect("(", a, a)
      BY <2>1, PlainEffect DEF Plain, Free
    <3>2. Effect("gnu_attributes", a, a)
      BY <2>1, AnywhereEffect DEF Anywhere
    <3>3. Effect("declarator", a, Append(a, "declarator"))
      BY <2>1, DeclaratorEffect
    <3>4. Effect(")", Append(a, "declarator"), Append(a, "declarator"))
      BY <2>1, PlainEffect, Pushed DEF Plain, Free
    <3>5. Effect("declarator_suffixes", Append(a, "declarator"), Append(a, "declarator"))
      BY <2>1, SuffixesEffect, Declared, Pushed
    <3> QED
      BY <3>1, <3>2, <3>3, <3>4, <3>5, Pushed, Fits5
  <2>2. ASSUME Definition
        PROVE  FitsBetween(<<"(", "gnu_attributes", "declarator", ")", "declarator_suffixes">>,
                           <<>>, <<"held">>)
    <3>1. Effect("(", <<>>, <<>>)
      BY <2>2, PlainEffect, AtBottom DEF Plain, Free
    <3>2. Effect("gnu_attributes", <<>>, <<>>)
      BY <2>2, AnywhereEffect, AtBottom DEF Anywhere
    <3>3. Effect("declarator", <<>>, <<"held">>)
      BY <2>2, DeclaratorEffect, AtBottom
    <3>4. Effect(")", <<"held">>, <<"held">>)
      BY <2>2, PlainEffect, AtBottom DEF Plain, Free
    <3>5. Effect("declarator_suffixes", <<"held">>, <<"held">>)
      BY <2>2, SuffixesEffect, Declared, AtBottom
    <3> QED
      BY <3>1, <3>2, <3>3, <3>4, <3>5, AtBottom, Fits5
  <2>3. <<"(", "gnu_attributes", "declarator", ")", "declarator_suffixes">> \in Seq(Symbol)
    BY DEF Symbol, Plain, Anywhere, Special
  <2> QED
    BY <2>1, <2>2, <2>3, DeclaratorTyped
<1>4. <<"gnu_attributes", "parameter_declarator">> \in Good("parenthesized_declarator")
  <2>1. ASSUME NEW a \in Shape, Free(a)
        PROVE  FitsBetween(<<"gnu_attributes", "parameter_declarator">>,
                           a, Append(a, "declarator"))
    <3>1. /\ Effect("gnu_attributes", a, a)
          /\ Effect("parameter_declarator", a, Append(a, "declarator"))
      BY <2>1, AnywhereEffect, ParameterDeclaratorEffect, Pushed
      DEF Anywhere, ParameterDeclarator
    <3> QED
      BY <3>1, Pushed, Fits2
  <2>2. <<"gnu_attributes", "parameter_declarator">> \in Seq(Symbol)
    BY DEF Symbol, Anywhere, ParameterDeclarator
  <2> QED
    BY <2>1, <2>2, ParameterDeclaratorTyped DEF ParameterDeclarator
<1>5. <<"*", "gnu_attributes", "direct_declarator", "@pointer">> \in Good("declarator")
  <2>1. ASSUME NEW a \in Shape, Free(a)
        PROVE  FitsBetween(<<"*", "gnu_attributes", "direct_declarator", "@pointer">>,
                           a, Append(a, "declarator"))
    <3>1. Effect("*", a, a)
      BY <2>1, PlainEffect DEF Plain, Free
    <3>2. Effect("gnu_attributes", a, a)
      BY <2>1, AnywhereEffect DEF Anywhere
    <3>3. Effect("direct_declarator", a, Append(a, "declarator"))
      BY <2>1, DeclaratorEffect
    <3>4. Effect("@pointer", Append(a, "declarator"), Append(a, "declarator"))
      BY <2>1, PointerEffect, Declared, Pushed
    <3> QED
      BY <3>1, <3>2, <3>3, <3>4, Pushed, Fits4
  <2>2. ASSUME Definition
        PROVE  FitsBetween(<<"*", "gnu_attributes", "direct_declarator", "@pointer">>,
                           <<>>, <<"held">>)
    <3>1. Effect("*", <<>>, <<>>)
      BY <2>2, PlainEffect, AtBottom DEF Plain, Free
    <3>2. Effect("gnu_attributes", <<>>, <<>>)
      BY <2>2, AnywhereEffect, AtBottom DEF Anywhere
    <3>3. Effect("direct_declarator", <<>>, <<"held">>)
      BY <2>2, DeclaratorEffect, AtBottom
    <3>4. Effect("@pointer", <<"held">>, <<"held">>)
      BY <2>2, PointerEffect, Declared, AtBottom
    <3> QED
      BY <3>1, <3>2, <3>3, <3>4, AtBottom, Fits4
  <2>3. <<"*", "gnu_attributes", "direct_declarator", "@pointer">> \in Seq(Symbol)
    BY DEF Symbol, Plain, Anywhere, Special, Action
  <2> QED
    BY <2>1, <2>2, <2>3, DeclaratorTyped
<1>6. <<"*", "gnu_attributes", "direct_parameter_declarator", "@pointer">> \in Good("parameter_declarator")
  <2>1. ASSUME NEW a \in Shape, Free(a)
        PROVE  FitsBetween(<<"*", "gnu_attributes", "direct_parameter_declarator", "@pointer">>,
                           a, Append(a, "declarator"))
    <3>1. Effect("*", a, a)
      BY <2>1, PlainEffect DEF Plain, Free
    <3>2. Effect("gnu_attributes", a, a)
      BY <2>1, AnywhereEffect DEF Anywhere
    <3>3. Effect("direct_parameter_declarator", a, Append(a, "declarator"))
      BY <2>1, ParameterDeclaratorEffect DEF ParameterDeclarator
    <3>4. Effect("@pointer", Append(a, "declarator"), Append(a, "declarator"))
      BY <2>1, PointerEffect, Declared, Pushed
    <3> QED
      BY <3>1, <3>2, <3>3, <3>4, Pushed, Fits4
  <2>2. <<"*", "gnu_attributes", "direct_parameter_declarator", "@pointer">> \in Seq(Symbol)
    BY DEF Symbol, Plain, Anywhere, ParameterDeclarator, Action
  <2> QED
    BY <2>1, <2>2, ParameterDeclaratorTyped DEF ParameterDeclarator
<1>7. {<<"gnu_attributes">>} \subseteq Good("array_bound")
  <2>1. {<<"gnu_attributes">>} \in SUBSET Seq(Calm)
    BY DEF Calm, Anywhere, Plain
  <2> QED
    BY <2>1, CalmGood DEF Anywhere
<1>8. {<<"(", "gnu_attributes", "*", ")">>} \subseteq Good("option_abstract_declarator_")
  <2>1. {<<"(", "gnu_attributes", "*", ")">>} \in SUBSET Seq(Calm)
    BY DEF Calm, Plain, Anywhere
  <2> QED
    BY <2>1, CalmGood DEF Anywhere
<1>9. /\ GccDeclarators.declarator_varname \subseteq Good("declarator_varname")
      /\ GccDeclarators.declared_parameter \subseteq Good("declared_parameter")
      /\ GccDeclarators.direct_declarator \subseteq Good("direct_declarator")
      /\ GccDeclarators.parenthesized_declarator \subseteq Good("parenthesized_declarator")
      /\ GccDeclarators.declarator \subseteq Good("declarator")
      /\ GccDeclarators.parameter_declarator \subseteq Good("parameter_declarator")
      /\ GccDeclarators.array_bound \subseteq Good("array_bound")
      /\ GccDeclarators.option_abstract_declarator_ \subseteq Good("option_abstract_declarator_")
  BY <1>1, <1>2, <1>3, <1>4, <1>5, <1>6, <1>7, <1>8 DEF GccDeclarators, If
<1> QED
  BY <1>9, GccDeclaratorsDomain

LEMMA GccInitDeclaratorsDomain ==
  DOMAIN GccInitDeclarators =
   {"init_declarator_rest", "initialized"}
  BY DEF GccInitDeclarators

LEMMA GccInitDeclaratorsGood ==
  \A nt \in DOMAIN GccInitDeclarators : GccInitDeclarators[nt] \subseteq Good(nt)
<1>1. {<<"gnu_attributes", "initialized">>, <<"__asm__", "(", ")", "initialized">>}
        \subseteq Good("init_declarator_rest")
  <2>1. {<<"gnu_attributes", "initialized">>, <<"__asm__", "(", ")", "initialized">>}
          \in SUBSET Seq(Calm)
    BY DEF Calm, Anywhere, Plain
  <2> QED
    BY <2>1, CalmGood DEF Anywhere
<1>2. {<<>>, <<"=", "expression">>} \subseteq Good("initialized")
  <2>1. {<<>>, <<"=", "expression">>} \in SUBSET Seq(Calm)
    BY DEF Calm, Plain, Anywhere
  <2> QED
    BY <2>1, CalmGood DEF Anywhere
<1>3. /\ GccInitDeclarators.init_declarator_rest \subseteq Good("init_declarator_rest")
      /\ GccInitDeclarators.initialized \subseteq Good("initialized")
  BY <1>1, <1>2 DEF GccInitDeclarators, If
<1> QED
  BY <1>3, GccInitDeclaratorsDomain

LEMMA GccStructsDomain ==
  DOMAIN GccStructs =
   {"struct_declaration", "member_rest", "type_specifier", "attributed_struct"}
  BY DEF GccStructs

LEMMA GccStructsGood ==
  \A nt \in DOMAIN GccStructs : GccStructs[nt] \subseteq Good(nt)
<1>1. {<<"__extension__", "struct_declaration">>} \subseteq Good("struct_declaration")
  <2>1. {<<"__extension__", "struct_declaration">>} \in SUBSET Seq(Calm)
    BY DEF Calm, Plain, Anywhere
  <2> QED
    BY <2>1, CalmGood DEF Anywhere
<1>2. {<<"gnu_attributes">>} \subseteq Good("member_rest")
  <2>1. {<<"gnu_attributes">>} \in SUBSET Seq(Calm)
    BY DEF Calm, Anywhere, Plain
  <2> QED
    BY <2>1, CalmGood DEF Anywhere
<1>3. {<<"struct", "gnu_attributes", "attributed_struct">>}
        \subseteq Good("type_specifier")
  <2>1. {<<"struct", "gnu_attributes", "attributed_struct">>} \in SUBSET Seq(Calm)
    BY DEF Calm, Plain, Anywhere
  <2> QED
    BY <2>1, CalmGood DEF Anywhere
<1>4. {<<"{", "struct_declaration", "}">>} \subseteq Good("attributed_struct")
  <2>1. {<<"{", "struct_declaration", "}">>} \in SUBSET Seq(Calm)
    BY DEF Calm, Plain, Anywhere
  <2> QED
    BY <2>1, CalmGood DEF Anywhere
<1>5. <<"var_name", "{", "struct_declaration", "}", "@pop">> \in Good("attributed_struct")
  <2>1. ASSUME NEW a \in Shape, Free(a)
        PROVE  FitsBetween(<<"var_name", "{", "struct_declaration", "}", "@pop">>, a, a)
    <3>1. Effect("var_name", a, Append(a, "string"))
      BY <2>1, NameEffect DEF Free
    <3>2. Effect("{", Append(a, "string"), Append(a, "string"))
      BY <2>1, PlainEffect, Pushed DEF Plain, Free
    <3>3. Effect("struct_declaration", Append(a, "string"), Append(a, "string"))
      BY <2>1, AnywhereEffect, Pushed DEF Anywhere
    <3>4. Effect("}", Append(a, "string"), Append(a, "string"))
      BY <2>1, PlainEffect, Pushed DEF Plain, Free
    <3>5. Effect("@pop", Append(a, "string"), a)
      BY <2>1, PopEffect, Pushed
    <3> QED
      BY <3>1, <3>2, <3>3, <3>4, <3>5, Pushed, Fits5
  <2>2. <<"var_name", "{", "struct_declaration", "}", "@pop">> \in Seq(Symbol)
    BY DEF Symbol, Special, Plain, Anywhere, Action
  <2> QED
    BY <2>1, <2>2, AnywhereTyped DEF Anywhere
<1>6. /\ GccStructs.struct_declaration \subseteq Good("struct_declaration")
      /\ GccStructs.member_rest \subseteq Good("member_rest")
      /\ GccStructs.type_specifier \subseteq Good("type_specifier")
      /\ GccStructs.attributed_struct \subseteq Good("attributed_struct")
  BY <1>1, <1>2, <1>3, <1>4, <1>5 DEF GccStructs, If
<1> QED
  BY <1>6, GccStructsDomain

LEMMA GccStatementsDomain ==
  DOMAIN GccStatements =
   {"statement", "asm_operand"}
  BY DEF GccStatements

LEMMA GccStatementsGood ==
  \A nt \in DOMAIN GccStatements : GccStatements[nt] \subseteq Good(nt)
<1>1. {<<"__asm__", "(", "asm_operand", ")", ";">>, <<"gnu_attributes", ";">>}
        \subseteq Good("statement")
  <2>1. {<<"__asm__", "(", "asm_operand", ")", ";">>, <<"gnu_attributes", ";">>}
          \in SUBSET Seq(Calm \cup Local)
    BY DEF Calm, Plain, Anywhere
  <2> QED
    BY <2>1, LocalGood DEF Local
<1>2. <<"__asm__", "(", "var_name", "@pop", ")", ";">> \in Good("statement")
  <2>1. ASSUME NEW a \in Shape, Free(a), OutsideList(a)
        PROVE  FitsBetween(<<"__asm__", "(", "var_name", "@pop", ")", ";">>, a, a)
    <3>1. Effect("__asm__", a, a)
      BY <2>1, PlainEffect DEF Plain, Free
    <3>2. Effect("(", a, a)
      BY <2>1, PlainEffect DEF Plain, Free
    <3>3. Effect("var_name", a, Append(a, "string"))
      BY <2>1, NameEffect DEF Free
    <3>4. Effect("@pop", Append(a, "string"), a)
      BY <2>1, PopEffect, Pushed
    <3>5. Effect(")", a, a)
      BY <2>1, PlainEffect DEF Plain, Free
    <3>6. Effect(";", a, a)
      BY <2>1, PlainEffect DEF Plain, Free
    <3> QED
      BY <3>1, <3>2, <3>3, <3>4, <3>5, <3>6, Pushed, Fits6
  <2>2. <<"__asm__", "(", "var_name", "@pop", ")", ";">> \in Seq(Symbol)
    BY DEF Symbol, Plain, Special, Action
  <2> QED
    BY <2>1, <2>2, LocalTyped DEF Local
<1>3. {<<"expression">>} \subseteq Good("asm_operand")
  <2>1. {<<"expression">>} \in SUBSET Seq(Calm)
    BY DEF Calm, Anywhere, Plain
  <2> QED
    BY <2>1, CalmGood DEF Anywhere
<1>4. <<"[", "var_name", "]", "(", "expression", ")", "@pop">> \in Good("asm_operand")
  <2>1. ASSUME NEW a \in Shape, Free(a)
        PROVE  FitsBetween(<<"[", "var_name", "]", "(", "expression", ")", "@pop">>, a, a)
    <3>1. Effect("[", a, a)
      BY <2>1, PlainEffect DEF Plain, Free
    <3>2. Effect("var_name", a, Append(a, "string"))
      BY <2>1, NameEffect DEF Free
    <3>3. Effect("]", Append(a, "string"), Append(a, "string"))
      BY <2>1, PlainEffect, Pushed DEF Plain, Free
    <3>4. Effect("(", Append(a, "string"), Append(a, "string"))
      BY <2>1, PlainEffect, Pushed DEF Plain, Free
    <3>5. Effect("expression", Append(a, "string"), Append(a, "string"))
      BY <2>1, AnywhereEffect, Pushed DEF Anywhere
    <3>6. Effect(")", Append(a, "string"), Append(a, "string"))
      BY <2>1, PlainEffect, Pushed DEF Plain, Free
    <3>7. Effect("@pop", Append(a, "string"), a)
      BY <2>1, PopEffect, Pushed
    <3> QED
      BY <3>1, <3>2, <3>3, <3>4, <3>5, <3>6, <3>7, Pushed, Fits7
  <2>2. <<"[", "var_name", "]", "(", "expression", ")", "@pop">> \in Seq(Symbol)
    BY DEF Symbol, Plain, Special, Anywhere, Action
  <2> QED
    BY <2>1, <2>2, AnywhereTyped DEF Anywhere
<1>5. /\ GccStatements.statement \subseteq Good("statement")
      /\ GccStatements.asm_operand \subseteq Good("asm_operand")
  BY <1>1, <1>2, <1>3, <1>4 DEF GccStatements, If
<1> QED
  BY <1>5, GccStatementsDomain

LEMMA GccExpressionsDomain ==
  DOMAIN GccExpressions =
   {"expression"}
  BY DEF GccExpressions

LEMMA GccExpressionsGood ==
  \A nt \in DOMAIN GccExpressions : GccExpressions[nt] \subseteq Good(nt)
<1>1. {<<"(", "gnu_attributes", "type_name", ")", "{", "expression", "}">>}
        \subseteq Good("expression")
  <2>1. {<<"(", "gnu_attributes", "type_name", ")", "{", "expression", "}">>}
          \in SUBSET Seq(Calm)
    BY DEF Calm, Plain, Anywhere
  <2> QED
    BY <2>1, CalmGood DEF Anywhere
<1>2. <<"__builtin_offsetof", "(", "type_name", "var_name", "@pop", ")">> \in Good("expression")
  <2>1. ASSUME NEW a \in Shape, Free(a)
        PROVE  FitsBetween(<<"__builtin_offsetof", "(", "type_name", "var_name", "@pop", ")">>,
                           a, a)
    <3>1. Effect("__builtin_offsetof", a, a)
      BY <2>1, PlainEffect DEF Plain, Free
    <3>2. Effect("(", a, a)
      BY <2>1, PlainEffect DEF Plain, Free
    <3>3. Effect("type_name", a, a)
      BY <2>1, AnywhereEffect DEF Anywhere
    <3>4. Effect("var_name", a, Append(a, "string"))
      BY <2>1, NameEffect DEF Free
    <3>5. Effect("@pop", Append(a, "string"), a)
      BY <2>1, PopEffect, Pushed
    <3>6. Effect(")", a, a)
      BY <2>1, PlainEffect DEF Plain, Free
    <3> QED
      BY <3>1, <3>2, <3>3, <3>4, <3>5, <3>6, Pushed, Fits6
  <2>2. <<"__builtin_offsetof", "(", "type_name", "var_name", "@pop", ")">> \in Seq(Symbol)
    BY DEF Symbol, Plain, Anywhere, Special, Action
  <2> QED
    BY <2>1, <2>2, AnywhereTyped DEF Anywhere
<1>3. /\ GccExpressions.expression \subseteq Good("expression")
  BY <1>1, <1>2 DEF GccExpressions, If
<1> QED
  BY <1>3, GccExpressionsDomain

LEMMA GccDeclarationsDomain ==
  DOMAIN GccDeclarations =
   {"external_declaration"}
  BY DEF GccDeclarations

LEMMA GccDeclarationsGood ==
  \A nt \in DOMAIN GccDeclarations : GccDeclarations[nt] \subseteq Good(nt)
<1>1. {<<"__extension__", "external_declaration">>} \subseteq Good("external_declaration")
  <2>1. {<<"__extension__", "external_declaration">>}
          \in SUBSET Seq(Calm \cup Local \cup FileLevel)
    BY DEF Calm, Plain, FileLevel
  <2> QED
    BY <2>1, FileGood DEF FileLevel
<1>2. /\ GccDeclarations.external_declaration \subseteq Good("external_declaration")
  BY <1>1 DEF GccDeclarations, If
<1> QED
  BY <1>2, GccDeclarationsDomain

-----------------------------------------------------------------------------
(* All rules, and all that they derive. *)

LEMMA PartsOfProductions ==
  ASSUME NEW nt \in Nonterminal, NEW rhs \in Productions[nt]
  PROVE  \/ nt \in DOMAIN Expressions /\ rhs \in Expressions[nt]
         \/ nt \in DOMAIN Identifiers /\ rhs \in Identifiers[nt]
         \/ nt \in DOMAIN Declarations /\ rhs \in Declarations[nt]
         \/ nt \in DOMAIN TranslationUnit /\ rhs \in TranslationUnit[nt]
         \/ nt \in DOMAIN Declarators /\ rhs \in Declarators[nt]
         \/ nt \in DOMAIN ParameterLists /\ rhs \in ParameterLists[nt]
         \/ nt \in DOMAIN ParameterDeclarators /\ rhs \in ParameterDeclarators[nt]
         \/ nt \in DOMAIN Specifiers /\ rhs \in Specifiers[nt]
         \/ nt \in DOMAIN Statements /\ rhs \in Statements[nt]
         \/ nt \in DOMAIN GnuAttributes /\ rhs \in GnuAttributes[nt]
         \/ nt \in DOMAIN GccDeclarators /\ rhs \in GccDeclarators[nt]
         \/ nt \in DOMAIN GccInitDeclarators /\ rhs \in GccInitDeclarators[nt]
         \/ nt \in DOMAIN GccStructs /\ rhs \in GccStructs[nt]
         \/ nt \in DOMAIN GccStatements /\ rhs \in GccStatements[nt]
         \/ nt \in DOMAIN GccExpressions /\ rhs \in GccExpressions[nt]
         \/ nt \in DOMAIN GccDeclarations /\ rhs \in GccDeclarations[nt]
  BY DEF Productions, Nonterminal

(* Each rule does to the value stack what its nonterminal says.             *)
THEOREM GrammarTyped == \A nt \in Nonterminal : Productions[nt] \subseteq Good(nt)
  BY PartsOfProductions, ExpressionsGood, IdentifiersGood, DeclarationsGood,
     TranslationUnitGood, DeclaratorsGood, ParameterListsGood, ParameterDeclaratorsGood,
     SpecifiersGood, StatementsGood, GnuAttributesGood, GccDeclaratorsGood,
     GccInitDeclaratorsGood, GccStructsGood, GccStatementsGood, GccExpressionsGood,
     GccDeclarationsGood

LEMMA Nonterminals ==
  Nonterminal = UNION {FileLevel, Local, Anywhere, ParameterDeclarator, Special}
<1>1. Nonterminal = UNION {DOMAIN Expressions, DOMAIN Identifiers, DOMAIN Declarations, DOMAIN TranslationUnit,
                           DOMAIN Declarators, DOMAIN ParameterLists,
                           DOMAIN ParameterDeclarators, DOMAIN Specifiers,
                           DOMAIN Statements, DOMAIN GnuAttributes,
                           DOMAIN GccDeclarators, DOMAIN GccInitDeclarators,
                           DOMAIN GccStructs, DOMAIN GccStatements,
                           DOMAIN GccExpressions, DOMAIN GccDeclarations}
  BY DEF Nonterminal, Productions
<1> QED
  BY <1>1, ExpressionsDomain, IdentifiersDomain, DeclarationsDomain,
     TranslationUnitDomain, DeclaratorsDomain, ParameterListsDomain,
     ParameterDeclaratorsDomain, SpecifiersDomain, StatementsDomain,
     GnuAttributesDomain, GccDeclaratorsDomain, GccInitDeclaratorsDomain,
     GccStructsDomain, GccStatementsDomain, GccExpressionsDomain, GccDeclarationsDomain
  DEF FileLevel, Local, Anywhere, ParameterDeclarator, Special

LEMMA SplicedGood ==
  ASSUME NEW seq \in Seq(Symbol), NEW i \in 1..Len(seq), NEW x \in Good(seq[i]),
         NEW a \in Shape, NEW b \in Shape, FitsBetween(seq, a, b)
  PROVE  Spliced(seq, i, x) \in Seq(Symbol) /\ FitsBetween(Spliced(seq, i, x), a, b)
<1> DEFINE before == SubSeq(seq, 1, i - 1)
           after == SubSeq(seq, i + 1, Len(seq))
           both == before \o x
<1>1. before \in Seq(Symbol) /\ after \in Seq(Symbol) /\ x \in Seq(Symbol)
  BY DEF Good
<1>2. PICK c, d \in Shape : /\ FitsBetween(before, a, c)
                           /\ Effect(seq[i], c, d)
                           /\ FitsBetween(after, d, b)
  BY FitsSplit
<1>3. FitsBetween(x, c, d)
  BY <1>2 DEF Good, Typed
<1> HIDE DEF before, after
<1>4. both \in Seq(Symbol) /\ FitsBetween(both, a, d)
  BY <1>1, <1>2, <1>3, FitsConcat
<1> HIDE DEF both
<1>5. both \o after \in Seq(Symbol) /\ FitsBetween(both \o after, a, b)
  BY <1>1, <1>2, <1>4, FitsConcat
<1> QED
  BY <1>5 DEF Spliced, both, before, after

LEMMA UnfoldGood ==
  ASSUME NEW rules, \A nt \in Nonterminal : rules[nt] \subseteq Good(nt)
  PROVE  \A nt \in Nonterminal : Unfold(rules)[nt] \subseteq Good(nt)
<1>1. ASSUME NEW nt \in Nonterminal, NEW rhs \in rules[nt], NEW i \in DOMAIN rhs,
             rhs[i] \in Nonterminal, NEW x \in Productions[rhs[i]]
      PROVE  Spliced(rhs, i, x) \in Good(nt)
  <2>1. rhs \in Seq(Symbol) /\ i \in 1..Len(rhs) /\ Typed(nt, rhs)
    BY <1>1 DEF Good
  <2>2. x \in Good(rhs[i])
    BY <1>1, GrammarTyped
  <2>3. ASSUME NEW a \in Shape, NEW b \in Shape, Effect(nt, a, b)
        PROVE  FitsBetween(Spliced(rhs, i, x), a, b)
    BY <2>1, <2>2, <2>3, SplicedGood DEF Typed
  <2>4. Spliced(rhs, i, x) \in Seq(Symbol)
    BY <2>1, <2>2 DEF Spliced, Good
  <2> QED
    BY <2>3, <2>4 DEF Good, Typed
<1>2. ASSUME NEW nt \in Nonterminal, NEW y \in Unfold(rules)[nt]
      PROVE  y \in Good(nt)
  <2>1. \/ y \in rules[nt]
        \/ \E rhs \in rules[nt] : \E i \in DOMAIN rhs :
             rhs[i] \in Nonterminal /\ \E x \in Productions[rhs[i]] : y = Spliced(rhs, i, x)
    BY <1>2 DEF Unfold
  <2> QED
    BY <1>1, <2>1
<1> QED
  BY <1>2

(* And so does everything that Expand may put in a nonterminal's place.      *)
THEOREM DerivationsTyped == \A nt \in Nonterminal : Derivations[nt] \subseteq Good(nt)
<1> DEFINE Ok(rules) == \A nt \in Nonterminal : rules[nt] \subseteq Good(nt)
<1>1. Ok(Productions)
  BY GrammarTyped
<1>2. \A rules : Ok(rules) => Ok(Unfold(rules))
  BY UnfoldGood
<1> HIDE DEF Ok
<1>3. Ok(Derivations)
  BY <1>1, <1>2 DEF Derivations
<1> QED
  BY <1>3 DEF Ok

=============================================================================
