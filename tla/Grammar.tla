------------------------------- MODULE Grammar -------------------------------
(***************************************************************************)
(* The context-sensitive part of the rules of c11parser.bison.y, as data.  *)
(*                                                                         *)
(* Productions maps a nonterminal to the set of its right-hand sides, each *)
(* a sequence of nonterminals, tokens, semantic actions (@) and marks (%). *)
(* An action stands where bison reduces the rule that has it, so reading   *)
(* the symbols of a derivation from left to right gives the tokens and the *)
(* actions in the order in which the parser shifts and runs them.          *)
(* Left-recursive lists are written with a nonterminal for the rest of the *)
(* list, which has the same tokens and actions in the same order;          *)
(* alternatives that begin alike, with one for what follows where they     *)
(* part.                                                                   *)
(*                                                                         *)
(* Marks are not in the code.  They say where, by C11 6.2.1, 6.8 and       *)
(* 6.9.1, a scope begins and ends and where a declared identifier's scope  *)
(* begins, so that what the actions do can be compared with it.            *)
(*                                                                         *)
(* Rules that neither touch Context nor read an identifier (qualifiers,     *)
(* storage classes, operators, constants, labels of a switch) are left     *)
(* out or stand for each other: one arithmetic type, one constant, one     *)
(* expression that names an object.                                        *)
(***************************************************************************)
EXTENDS SequencesExt

CONSTANT Features    \* the kinds of construct that programs use

AllFeatures ==
  {"definition",  \* function definitions
   "params",      \* parameter type lists
   "idlist",      \* identifier lists, as in definitions without a prototype
   "declist",     \* the declaration list of such a definition
   "array",       \* array declarators
   "pointer",     \* pointers, and parenthesized declarators
   "abstract",    \* abstract declarators and type names
   "enum", "struct",
   "block",       \* blocks, and expression statements
   "select", "iterate", "jump",
   "list",        \* several declarators, parameters or enumerators
   "init",        \* initializers, array bounds
   "attribute",   \* GCC: __attribute__
   "asm",         \* GCC: assembler names and statements
   "extension"}   \* GCC: __extension__, __builtin_offsetof

ASSUME FeaturesAssumption == Features \subseteq AllFeatures

\* The right-hand sides that a program without the feature does not use.
If(feature, alternatives) == IF feature \in Features THEN alternatives ELSE {}

-----------------------------------------------------------------------------
(* translation_unit_file ... function_definition1; its right recursion is   *)
(* here tail recursion, the postprocess action (timing) being left out.     *)
TranslationUnit ==
  [translation_unit_file |->
     {<<"external_declaration", "more_declarations">>},
   more_declarations |-> {<<"translation_unit_file">>, <<"YYEOF">>},
   external_declaration |->
     {<<"declaration">>} \cup If("definition", {<<"function_definition">>}),
   function_definition |->
     {<<"function_definition1", "option_declaration_list_", "compound_statement",
        "@function_definition", "%end">>},
   function_definition1 |->
     {<<"declaration_specifiers", "declarator_varname", "@function_definition1", "%body">>},
   option_declaration_list_ |->
     {<<>>} \cup If("declist", {<<"declaration", "option_declaration_list_">>})]

\* Mutant of InitDeclaratorVarname: the name is declared after its initializer.
DeclaredAfterInitializer ==
  {<<"declarator", "%ordinary", "init_declarator_rest", "@declarator_varname", "@pop">>}

(* declaration ... declarator_typedefname.  The scope of a name begins after  *)
(* its declarator, before its initializer.                                  *)
InitDeclaratorVarname == {<<"declarator_varname", "init_declarator_rest", "@pop">>}

Declarations ==
  [declaration |->
     {<<"declaration_specifiers", "option_init_declarator_list_varname", ";">>,
      <<"declaration_specifiers_typedef", "option_init_declarator_list_typedefname", ";">>},
   declaration_specifiers |-> {<<"type_specifier">>},
   declaration_specifiers_typedef |-> {<<"typedef", "type_specifier">>},
   option_init_declarator_list_varname |->
     {<<>>, <<"init_declarator_varname", "more_varname">>},
   more_varname |->
     {<<>>} \cup If("list", {<<",", "init_declarator_varname", "more_varname">>}),
   option_init_declarator_list_typedefname |->
     {<<>>, <<"init_declarator_typedefname", "more_typedefname">>},
   more_typedefname |->
     {<<>>} \cup If("list", {<<",", "init_declarator_typedefname", "more_typedefname">>}),
   init_declarator_varname |-> InitDeclaratorVarname,
   init_declarator_typedefname |->
     {<<"declarator_typedefname", "init_declarator_rest", "@pop">>},
   init_declarator_rest |-> {<<>>} \cup If("init", {<<"=", "expression">>}),
   declarator_varname |-> {<<"declarator", "@declarator_varname", "%ordinary">>},
   declarator_typedefname |-> {<<"declarator", "@declarator_typedefname", "%type">>}]

(* declarator, direct_declarator, scoped_parameter_type_list_.  The snapshots *)
(* that "(" declarator ")" and "(" identifier_list ")" take are never read.   *)
Declarators ==
  [declarator |->
     {<<"direct_declarator">>} \cup If("pointer", {<<"*", "direct_declarator", "@pointer">>}),
   direct_declarator |->
     {<<"general_identifier", "@identifier_declarator", "declarator_suffixes">>}
     \cup If("pointer", {<<"(", "declarator", ")", "declarator_suffixes">>}),
   declarator_suffixes |->
     {<<>>}
     \cup If("array", {<<"[", "array_bound", "]", "@array", "declarator_suffixes">>})
     \cup If("params", {<<"(", "scoped_parameter_type_list_", ")", "@function_declarator",
                          "declarator_suffixes">>})
     \cup If("idlist", {<<"(", ")", "@identifier_list", "declarator_suffixes">>,
                        <<"(", "identifier_list", ")", "@identifier_list",
                          "declarator_suffixes">>}),
   array_bound |-> {<<>>} \cup If("init", {<<"expression">>}),
   scoped_parameter_type_list_ |->
     {<<"@save_context", "%scope", "parameter_declaration", "more_parameters",
        "@parameter_type_list", "@scoped_parameter_type_list_", "%end">>}]

(* parameter_list ... direct_abstract_declarator *)
ParameterLists ==
  [more_parameters |->
     {<<>>} \cup If("list", {<<",", "parameter_declaration", "more_parameters">>}),
   parameter_declaration |-> {<<"declaration_specifiers", "declared_parameter">>},
   declared_parameter |->
     {<<"parameter_declarator", "@declarator_varname", "%ordinary", "@pop">>,
      <<"option_abstract_declarator_">>},
   option_abstract_declarator_ |->
     {<<>>}
     \cup If("abstract", {<<"*">>, <<"(", "scoped_parameter_type_list_", ")", "@pop">>}),
   identifier_list |->
     {<<"var_name", "@pop">>}
     \cup If("list", {<<"var_name", "@pop", ",", "identifier_list">>}),
   type_name |-> {<<"type_specifier", "option_abstract_declarator_">>}]

(* A declarator in a parameter declaration, where the rule typedef_name_spec *)
(* stands above general_identifier: directly after "(" a typedef name is the *)
(* type of an abstract function declarator's parameter, never the declared   *)
(* name.                                                                     *)
ParameterDeclarators ==
  [parameter_declarator |->
     {<<"direct_parameter_declarator">>}
     \cup If("pointer", {<<"*", "direct_parameter_declarator", "@pointer">>}),
   direct_parameter_declarator |->
     {<<"general_identifier", "@identifier_declarator", "declarator_suffixes">>}
     \cup If("pointer", {<<"(", "parenthesized_declarator", ")", "declarator_suffixes">>}),
   parenthesized_declarator |->
     {<<"var_name", "@identifier_declarator", "declarator_suffixes">>,
      <<"(", "parenthesized_declarator", ")", "declarator_suffixes">>,
      <<"*", "direct_parameter_declarator", "@pointer">>}]

\* Mutant of StructDeclaration: members are declared as variables.
MembersDeclared ==
  {<<"type_specifier", "declarator", "@declarator_varname", "member_rest", "@pop", ";">>}

\* Mutant of StructReference: a tag is declared as an ordinary identifier.
TagDeclared == {<<"struct", "general_identifier", "@enumerator", "@pop">>}

\* Mutant of Enumerators: enumeration constants are not declared.
ConstantsNotDeclared == {<<"general_identifier", "enumerator_value", "%ordinary", "@pop">>}

(* type_specifier_unique, type_specifier_nonunique, struct and enum bodies. *)
(* Members and tags are in name spaces of their own.                        *)
StructDeclaration == {<<"type_specifier", "declarator", "member_rest", "@pop", ";">>}

StructReference == {<<"struct", "general_identifier", "@pop">>}

Enumerators ==
  {<<"general_identifier", "enumerator_value", "@enumerator", "%ordinary", "@pop">>}

Specifiers ==
  [type_specifier |->
     {<<"int">>, <<"typedef_name_spec">>}
     \cup If("enum", {<<"enum", "{", "enumerator", "more_enumerators", "}">>})
     \cup If("struct", {<<"struct", "{", "struct_declaration", "}">>} \cup StructReference),
   more_enumerators |-> {<<>>} \cup If("list", {<<",", "enumerator", "more_enumerators">>}),
   enumerator |-> Enumerators,
   enumerator_value |-> {<<>>} \cup If("init", {<<"=", "expression">>}),
   struct_declaration |-> StructDeclaration,
   member_rest |-> {<<>>}]

(* The split token: an identifier is NAME TYPE or NAME VARIABLE. *)
Identifiers ==
  [typedef_name_spec |-> {<<"NAME", "TYPE", "@pop">>},
   general_identifier |-> {<<"NAME", "TYPE">>, <<"NAME", "VARIABLE">>},
   var_name |-> {<<"NAME", "VARIABLE">>}]

\* Mutant of Scoped: the rule neither saves nor restores.
Unscoped(statement) == <<"%scope", statement, "%end">>

(* Statements: each scoped_ rule saves before and restores after.  Without  *)
(* "else" bison reduces the if rule only on another token (below_ELSE).      *)
Scoped(statement) == <<"@save_context", "%scope", statement, "@restore_context", "%end">>

Statements ==
  [compound_statement |-> {<<"{", "block_item_list", "}">>},
   block_item_list |->
     {<<>>, <<"declaration", "block_item_list">>} \cup
     If("block", {<<"statement", "block_item_list">>}),
   statement |->
     {<<"expression", ";">>,
      Scoped("compound_statement")}
     \cup If("select", {Scoped("selection_statement")})
     \cup If("iterate", {Scoped("iteration_statement")})
     \cup If("jump", {<<"general_identifier", ":", "@pop", "statement">>,
                      <<"goto", "general_identifier", ";", "@pop">>,
                      <<"return", "expression", ";">>}),
   scoped_statement_ |-> {Scoped("statement")},
   selection_statement |->
     {<<"if", "(", "expression", ")", "scoped_statement_", "else_part">>,
      <<"switch", "(", "expression", ")", "scoped_statement_">>},
   else_part |-> {<<"@below_ELSE">>, <<"else", "scoped_statement_">>},
   iteration_statement |->
     {<<"while", "(", "expression", ")", "scoped_statement_">>,
      <<"do", "scoped_statement_", "while", "(", "expression", ")", ";">>,
      <<"for", "(", ";", ";", "expression", ")", "scoped_statement_">>,
      <<"for", "(", "declaration", "expression", ";", ")", "scoped_statement_">>}]

(* An expression that names an object, one that names a type, and one that    *)
(* names a member.                                                          *)
Expressions ==
  [expression |->
     {<<"var_name", "@pop", "selection">>}
     \cup If("abstract", {<<"sizeof", "(", "type_name", ")">>}),
   selection |-> {<<>>} \cup If("struct", {<<".", "general_identifier", "@pop">>})]

-----------------------------------------------------------------------------
(* The alternatives that GCC's extensions add to the rules above.          *)
(*                                                                         *)
(* "__attribute__((" and "))" stand for three and two tokens, which come    *)
(* together; one attribute stands for several.                             *)

\* Mutant of GnuAttributes: the word is declared like an enumeration constant.
WordsDeclared ==
  [gnu_attributes |-> If("attribute", {<<"__attribute__((", "gnu_attrib", "))">>}),
   gnu_attrib |-> {<<"general_identifier", "@enumerator", "gnu_attrib_rest", "@pop">>},
   gnu_attrib_rest |-> {<<>>} \cup If("init", {<<"(", "expression", ")">>})]

\* The word of an attribute may be spelled like a typedef name.
GnuAttributes ==
  [gnu_attributes |-> If("attribute", {<<"__attribute__((", "gnu_attrib", "))">>}),
   gnu_attrib |-> {<<"general_identifier", "gnu_attrib_rest", "@pop">>},
   gnu_attrib_rest |-> {<<>>} \cup If("init", {<<"(", "expression", ")">>})]

\* Mutant of GccDeclarators: the alternative of declarator_varname that begins
\* with attributes has no action.
GccDeclaratorsUndeclared ==
  [declarator_varname |-> If("attribute", {<<"gnu_attributes", "declarator", "%ordinary">>})]

\* Attributes before a declarator, in its parentheses and after its "*".  In a
\* parameter they settle that a declared name follows, so what comes after
\* them may be spelled like a typedef name.
GccDeclarators ==
  [declarator_varname |->
     If("attribute", {<<"gnu_attributes", "declarator", "@declarator_varname", "%ordinary">>}),
   declared_parameter |->
     If("attribute", {<<"gnu_attributes", "declarator", "@declarator_varname", "%ordinary",
                        "@pop">>}),
   direct_declarator |->
     If("attribute", If("pointer",
        {<<"(", "gnu_attributes", "declarator", ")", "declarator_suffixes">>})),
   parenthesized_declarator |->
     If("attribute", {<<"gnu_attributes", "parameter_declarator">>}),
   declarator |-> If("attribute", {<<"*", "gnu_attributes", "direct_declarator", "@pointer">>}),
   parameter_declarator |->
     If("attribute", {<<"*", "gnu_attributes", "direct_parameter_declarator", "@pointer">>}),
   array_bound |-> If("attribute", {<<"gnu_attributes">>}),
   option_abstract_declarator_ |-> If("attribute", {<<"(", "gnu_attributes", "*", ")">>})]

\* An assembler name or attributes follow a declarator, then perhaps an
\* initializer; the two in sequence are the second alone, the first having no
\* identifier.
GccInitDeclarators ==
  [init_declarator_rest |->
     If("attribute", {<<"gnu_attributes", "initialized">>})
     \cup If("asm", {<<"__asm__", "(", ")", "initialized">>}),
   initialized |-> {<<>>} \cup If("init", {<<"=", "expression">>})]

\* Members with attributes; a structure whose attributes come before its tag,
\* which the rule lets be no typedef name.
GccStructs ==
  [struct_declaration |-> If("extension", {<<"__extension__", "struct_declaration">>}),
   member_rest |-> If("attribute", {<<"gnu_attributes">>}),
   type_specifier |->
     If("struct", If("attribute", {<<"struct", "gnu_attributes", "attributed_struct">>})),
   attributed_struct |->
     {<<"{", "struct_declaration", "}">>,
      <<"var_name", "{", "struct_declaration", "}", "@pop">>}]

\* asm statements: operands with and without a symbolic name, and labels to go
\* to; the rules let neither be spelled like a typedef name.
GccStatements ==
  [statement |->
     If("asm", {<<"__asm__", "(", "asm_operand", ")", ";">>,
                <<"__asm__", "(", "var_name", "@pop", ")", ";">>})
     \cup If("attribute", {<<"gnu_attributes", ";">>}),
   asm_operand |->
     {<<"expression">>, <<"[", "var_name", "]", "(", "expression", ")", "@pop">>}]

GccExpressions ==
  [expression |->
     If("attribute", {<<"(", "gnu_attributes", "type_name", ")", "{", "expression", "}">>})
     \cup If("extension", {<<"__builtin_offsetof", "(", "type_name", "var_name", "@pop", ")">>})]

GccDeclarations ==
  [external_declaration |-> If("extension", {<<"__extension__", "external_declaration">>})]

-----------------------------------------------------------------------------
(* A rule's right-hand sides are those of all parts that have the rule.     *)
Productions ==
  LET parts == {TranslationUnit, Declarations, Declarators, ParameterLists,
                ParameterDeclarators, Specifiers, Identifiers, Statements, Expressions,
                GnuAttributes, GccDeclarators, GccInitDeclarators, GccStructs,
                GccStatements, GccExpressions, GccDeclarations}
  IN  [nt \in UNION {DOMAIN part : part \in parts} |->
         UNION {part[nt] : part \in {q \in parts : nt \in DOMAIN q}}]

Nonterminal == DOMAIN Productions

Action ==
  {"@save_context", "@restore_context", "@parameter_type_list", "@scoped_parameter_type_list_",
   "@identifier_declarator", "@array", "@identifier_list", "@function_declarator", "@pointer",
   "@declarator_varname", "@declarator_typedefname", "@enumerator", "@pop",
   "@function_definition1", "@function_definition", "@below_ELSE"}

Mark == {"%scope", "%end", "%body", "%ordinary", "%type"}

\* The symbols that are not read.
Silent == Action \cup Mark

\* The i-th symbol is the first that is read.
Leads(symbols, i) ==
  /\ i \in DOMAIN symbols
  /\ symbols[i] \notin Silent
  /\ \A j \in 1..(i - 1) : symbols[j] \in Silent

\* The symbols before the first that is read.
Pending(symbols) == {j \in DOMAIN symbols : \A k \in 1..j : symbols[k] \in Silent}

FirstToken(rhs) ==
  IF \A i \in DOMAIN rhs : rhs[i] \in Silent THEN "none"
  ELSE rhs[CHOOSE i \in DOMAIN rhs : Leads(rhs, i)]

\* The symbols x in place of the i-th.
Spliced(symbols, i, x) ==
  SubSeq(symbols, 1, i - 1) \o x \o SubSeq(symbols, i + 1, Len(symbols))

\* Right-hand sides with the nonterminal read first, if there is one, expanded.
Unfold(rules) ==
  LET leading(rhs) == {i \in DOMAIN rhs : Leads(rhs, i) /\ rhs[i] \in Nonterminal}
  IN  [nt \in Nonterminal |->
         {rhs \in rules[nt] : leading(rhs) = {}} \cup
         UNION {UNION {{Spliced(rhs, i, x) : x \in Productions[rhs[i]]}
                       : i \in leading(rhs)}
                : rhs \in rules[nt]}]

\* What a nonterminal may become, expanded until a token comes first or only
\* actions are left: no nonterminal stands further than this from a token.
Derivations ==
  Unfold(Unfold(Unfold(Unfold(Unfold(Unfold(Unfold(Productions)))))))

Token ==
  (UNION {ToSet(rhs) : rhs \in UNION {Productions[nt] : nt \in Nonterminal}})
    \ (Nonterminal \cup Action \cup Mark)

Closing == {")", "]", "}"}

Start == <<"translation_unit_file", "YYEOF">>
=============================================================================
