---------------------------- MODULE GrammarShapes ----------------------------
(***************************************************************************)
(* What the symbols of the grammar do to the shape of the value stack.     *)
(*                                                                         *)
(* The shape lists the role of each value, the one at the bottom first.    *)
(* Effect says what each symbol does to it: an action by what its code     *)
(* takes from $1, $2, ... and makes of $$, a mark by the place C11 gives    *)
(* it, a nonterminal by what all that it derives does together.            *)
(***************************************************************************)
EXTENDS Grammar, Naturals, TLAPS

(* The roles of a value.  "held" is the declarator of a function definition,  *)
(* which stays at the bottom of the stack until the body begins.  "string",   *)
(* "declarator", "plist" and "block" (the snapshots of parameter lists and of *)
(* everything else), "context" are what they are called in the rules; the     *)
(* others last for one step, between an action and the action, mark or token  *)
(* that must follow it.                                                       *)
Role ==
  {"string", "half", "constant", "declarator", "varname", "typename", "held", "heldvar",
   "defined", "saved", "plist", "block", "left", "list", "closing", "context", "body"}

Awaiting ==
  {"half", "constant", "varname", "typename", "heldvar", "defined", "saved", "left", "list",
   "closing", "body"}

Shape == Seq(Role)

Open(a) == a # <<>> => a[Len(a)] \notin Awaiting

OutsideList(a) == \A i \in 1..Len(a) : a[i] # "plist"

Lossy == {"array", "idlist"} \cap Features # {}

Free(a) == Open(a) /\ (a # <<>> /\ a[1] = "held" /\ OutsideList(a) => Lossy)

OnDeclarator(a) == a = <<"held">> \/ \E c \in Shape : a = Append(c, "declarator")

Replaces(a, b, r1, r2) == \E c \in Shape : a = Append(c, r1) /\ b = Append(c, r2)

FileLevel == {"translation_unit_file", "more_declarations", "external_declaration"}

Local ==
  {"option_declaration_list_", "declaration", "declaration_specifiers_typedef",
   "option_init_declarator_list_typedefname", "more_typedefname",
   "init_declarator_typedefname", "compound_statement", "block_item_list", "statement",
   "scoped_statement_", "selection_statement", "else_part", "iteration_statement"}

Anywhere ==
  {"declaration_specifiers", "option_init_declarator_list_varname", "more_varname",
   "init_declarator_varname", "init_declarator_rest", "array_bound", "more_parameters",
   "parameter_declaration", "declared_parameter", "option_abstract_declarator_",
   "identifier_list", "type_name", "type_specifier", "more_enumerators", "enumerator",
   "enumerator_value", "struct_declaration", "member_rest", "typedef_name_spec",
   "expression", "selection", "gnu_attributes", "gnu_attrib", "gnu_attrib_rest",
   "initialized", "attributed_struct", "asm_operand"}

ParameterDeclarator ==
  {"parameter_declarator", "direct_parameter_declarator", "parenthesized_declarator"}

Definition == "definition" \in Features

(* The tokens but those an identifier is split into, and the action that does *)
(* nothing.                                                                   *)
Plain ==
  {"YYEOF", ";", "=", ",", ".", ":", "*", "(", ")", "[", "]", "{", "}", "typedef", "int",
   "enum", "struct", "sizeof", "goto", "return", "if", "switch", "else", "while", "do",
   "for", "__attribute__((", "))", "__asm__", "__extension__", "__builtin_offsetof",
   "@below_ELSE"}

Special ==
  {"general_identifier", "var_name", "declarator", "direct_declarator", "declarator_varname",
   "declarator_typedefname", "declarator_suffixes", "scoped_parameter_type_list_",
   "function_definition", "function_definition1"}

Symbol ==
  UNION {FileLevel, Local, Anywhere, ParameterDeclarator, Special, Plain,
         {"NAME", "TYPE", "VARIABLE"}, Action, Mark}

Effect(s, a, b) ==
  CASE s \in FileLevel -> a = <<>> /\ b = a
    [] s \in Local     -> Free(a) /\ OutsideList(a) /\ b = a
    [] s \in Anywhere  -> Free(a) /\ b = a
    [] s \in {"general_identifier", "var_name"} -> Open(a) /\ b = Append(a, "string")
    [] s \in ParameterDeclarator -> Free(a) /\ b = Append(a, "declarator")
    [] s \in {"declarator", "direct_declarator"} ->
         \/ Free(a) /\ b = Append(a, "declarator")
         \/ Definition /\ a = <<>> /\ b = <<"held">>
    [] s = "declarator_varname" ->
         \/ Free(a) /\ b = Append(a, "declarator")
         \/ Definition /\ a = <<>> /\ b = <<"defined">>
    [] s = "declarator_typedefname" -> Free(a) /\ OutsideList(a) /\ b = Append(a, "declarator")
    [] s = "declarator_suffixes" -> OnDeclarator(a) /\ (Free(a) \/ a = <<"held">>) /\ b = a
    [] s = "scoped_parameter_type_list_" -> Open(a) /\ b = Append(a, "context")
    [] s = "function_definition" -> Definition /\ a = <<>> /\ b = a
    [] s = "function_definition1" -> Definition /\ a = <<>> /\ b = <<"block">>
    [] s = "NAME" -> Open(a) /\ b = Append(a, "half")
    [] s \in {"TYPE", "VARIABLE"} -> Replaces(a, b, "half", "string")
    [] s = "@save_context" -> Open(a) /\ b = Append(a, "saved")
    [] s = "%scope" ->
         \/ Replaces(a, b, "saved", "plist")
         \/ OutsideList(a) /\ Replaces(a, b, "saved", "block")
    [] s \in {"@restore_context", "@function_definition"} -> Replaces(a, b, "block", "left")
    [] s = "@parameter_type_list" ->
         \E c \in Shape : a = Append(c, "plist") /\ b = Append(a, "list")
    [] s = "@scoped_parameter_type_list_" ->
         \E c \in Shape : a = Append(Append(c, "plist"), "list") /\ b = Append(c, "closing")
    [] s = "%end" -> a = Append(b, "left") \/ Replaces(a, b, "closing", "context")
    [] s = "@identifier_declarator" ->
         \/ Replaces(a, b, "string", "declarator")
         \/ Definition /\ a = <<"string">> /\ b = <<"held">>
    [] s = "@array" -> "array" \in Features /\ OnDeclarator(a) /\ b = a
    [] s = "@identifier_list" -> "idlist" \in Features /\ OnDeclarator(a) /\ b = a
    [] s = "@function_declarator" ->
         "params" \in Features /\ OnDeclarator(b) /\ a = Append(b, "context")
    [] s = "@pointer" -> OnDeclarator(a) /\ b = a
    [] s = "@declarator_varname" ->
         \/ Free(a) /\ Replaces(a, b, "declarator", "varname")
         \/ a = <<"held">> /\ b = <<"heldvar">>
    [] s = "@declarator_typedefname" ->
         Free(a) /\ OutsideList(a) /\ Replaces(a, b, "declarator", "typename")
    [] s = "@enumerator" -> Free(a) /\ Replaces(a, b, "string", "constant")
    [] s = "%ordinary" ->
         \/ Replaces(a, b, "varname", "declarator")
         \/ Replaces(a, b, "constant", "string")
         \/ a = <<"heldvar">> /\ b = <<"defined">>
    [] s = "%type" -> Replaces(a, b, "typename", "declarator")
    [] s = "@pop" -> \E r \in {"string", "declarator", "context"} : a = Append(b, r)
    [] s = "@function_definition1" -> a = <<"defined">> /\ b = <<"body">>
    [] s = "%body" -> a = <<"body">> /\ b = <<"block">>
    [] OTHER -> Open(a) /\ b = a

FitsBetween(seq, a, b) ==
  \E g \in [1..(Len(seq) + 1) -> Shape] :
    /\ g[1] = a
    /\ g[Len(seq) + 1] = b
    /\ \A i \in 1..Len(seq) : Effect(seq[i], g[i], g[i + 1])
-----------------------------------------------------------------------------
(* Shapes. *)

LEMMA AppendedShape ==
  ASSUME NEW a \in Shape, NEW r \in Role
  PROVE  /\ Append(a, r) \in Shape
         /\ Append(a, r) # <<>>
         /\ Len(Append(a, r)) = Len(a) + 1
         /\ Append(a, r)[Len(a) + 1] = r
         /\ \A i \in 1..Len(a) : Append(a, r)[i] = a[i]
  BY DEF Shape

LEMMA AppendedOpen ==
  ASSUME NEW a \in Shape, NEW r \in Role
  PROVE  Open(Append(a, r)) <=> r \notin Awaiting
  BY AppendedShape DEF Open, Shape

LEMMA AppendedOutsideList ==
  ASSUME NEW a \in Shape, NEW r \in Role
  PROVE  OutsideList(Append(a, r)) <=> OutsideList(a) /\ r # "plist"
<1>1. Len(a) \in Nat
  BY DEF Shape
<1> QED
  BY <1>1, AppendedShape DEF OutsideList

LEMMA AppendedFree ==
  ASSUME NEW a \in Shape, NEW r \in Role, Free(a), r \notin Awaiting, r # "held"
  PROVE  Free(Append(a, r))
<1>1. Open(Append(a, r))
  BY AppendedOpen
<1>2. ASSUME Append(a, r)[1] = "held", OutsideList(Append(a, r)) PROVE Lossy
  <2>1. a # <<>>
    BY <1>2
  <2>2. a[1] = "held" /\ OutsideList(a)
    BY <1>2, <2>1, AppendedShape, AppendedOutsideList DEF Shape
  <2> QED
    BY <2>1, <2>2 DEF Free
<1> QED
  BY <1>1, <1>2 DEF Free

LEMMA ListIsFree ==
  ASSUME NEW a \in Shape
  PROVE  Free(Append(a, "plist"))
<1>1. "plist" \in Role /\ "plist" \notin Awaiting
  BY DEF Role, Awaiting
<1> QED
  BY <1>1, AppendedOpen, AppendedOutsideList DEF Free

LEMMA FitsEmpty ==
  ASSUME NEW a \in Shape
  PROVE  FitsBetween(<<>>, a, a)
<1> DEFINE g == [i \in 1..1 |-> a]
<1>1. g \in [1..(Len(<<>>) + 1) -> Shape]
  OBVIOUS
<1>2. g[1] = a /\ g[Len(<<>>) + 1] = a
  OBVIOUS
<1> HIDE DEF g
<1> QED
  BY <1>1, <1>2 DEF FitsBetween

LEMMA FitsEnds ==
  ASSUME NEW seq \in Seq(Symbol), NEW a, NEW b, FitsBetween(seq, a, b)
  PROVE  a \in Shape /\ b \in Shape /\ (seq = <<>> => a = b)
<1>1. Len(seq) \in Nat
  OBVIOUS
<1> QED
  BY <1>1 DEF FitsBetween

LEMMA FitsConcat ==
  ASSUME NEW x \in Seq(Symbol), NEW y \in Seq(Symbol), NEW a, NEW b, NEW c,
         FitsBetween(x, a, c), FitsBetween(y, c, b)
  PROVE  FitsBetween(x \o y, a, b)
<1>1. PICK g \in [1..(Len(x) + 1) -> Shape] :
        /\ g[1] = a /\ g[Len(x) + 1] = c
        /\ \A i \in 1..Len(x) : Effect(x[i], g[i], g[i + 1])
  BY DEF FitsBetween
<1>2. PICK h \in [1..(Len(y) + 1) -> Shape] :
        /\ h[1] = c /\ h[Len(y) + 1] = b
        /\ \A i \in 1..Len(y) : Effect(y[i], h[i], h[i + 1])
  BY DEF FitsBetween
<1> DEFINE n == Len(x)
           k == [i \in 1..(n + Len(y) + 1) |-> IF i <= n THEN g[i] ELSE h[i - n]]
<1>3. n \in Nat /\ Len(y) \in Nat /\ Len(x \o y) = n + Len(y)
  OBVIOUS
<1>4. k \in [1..(Len(x \o y) + 1) -> Shape]
  BY <1>3
<1>5. k[1] = a
  BY <1>1, <1>2, <1>3
<1>6. k[Len(x \o y) + 1] = b
  BY <1>1, <1>2, <1>3
<1>7. ASSUME NEW i \in 1..Len(x \o y) PROVE Effect((x \o y)[i], k[i], k[i + 1])
  <2>1. CASE i < n
    <3>1. (x \o y)[i] = x[i] /\ k[i] = g[i] /\ k[i + 1] = g[i + 1] /\ i \in 1..n
      BY <1>3, <2>1
    <3> QED
      BY <1>1, <3>1
  <2>2. CASE i = n
    <3>1. (x \o y)[i] = x[i] /\ k[i] = g[i] /\ k[i + 1] = h[1] /\ i \in 1..n
      BY <1>3, <2>2
    <3> QED
      BY <1>1, <1>2, <2>2, <3>1
  <2>3. CASE i > n
    <3>1. (x \o y)[i] = y[i - n] /\ k[i] = h[i - n] /\ k[i + 1] = h[(i - n) + 1]
          /\ i - n \in 1..Len(y)
      BY <1>3, <2>3
    <3> QED
      BY <1>2, <3>1
  <2> QED
    BY <1>3, <2>1, <2>2, <2>3
<1> HIDE DEF k, n
<1> QED
  BY <1>4, <1>5, <1>6, <1>7 DEF FitsBetween

LEMMA FitsSplit ==
  ASSUME NEW seq \in Seq(Symbol), NEW i \in 1..Len(seq), NEW a, NEW b, FitsBetween(seq, a, b)
  PROVE  \E c, d \in Shape :
           /\ FitsBetween(SubSeq(seq, 1, i - 1), a, c)
           /\ Effect(seq[i], c, d)
           /\ FitsBetween(SubSeq(seq, i + 1, Len(seq)), d, b)
<1>1. PICK g \in [1..(Len(seq) + 1) -> Shape] :
        /\ g[1] = a /\ g[Len(seq) + 1] = b
        /\ \A j \in 1..Len(seq) : Effect(seq[j], g[j], g[j + 1])
  BY DEF FitsBetween
<1> DEFINE n == Len(seq)
           x == SubSeq(seq, 1, i - 1)
           y == SubSeq(seq, i + 1, n)
           gx == [j \in 1..i |-> g[j]]
           gy == [j \in 1..(n - i + 1) |-> g[i + j]]
<1>2. /\ n \in Nat /\ i \in 1..n
      /\ x \in Seq(Symbol) /\ Len(x) = i - 1 /\ \A j \in 1..(i - 1) : x[j] = seq[j]
      /\ y \in Seq(Symbol) /\ Len(y) = n - i /\ \A j \in 1..(n - i) : y[j] = seq[i + j]
  OBVIOUS
<1>3. g[i] \in Shape /\ g[i + 1] \in Shape /\ Effect(seq[i], g[i], g[i + 1])
  BY <1>1, <1>2
<1>4. FitsBetween(x, a, g[i])
  <2>1. gx \in [1..(Len(x) + 1) -> Shape]
    BY <1>2
  <2>2. gx[1] = a /\ gx[Len(x) + 1] = g[i]
    BY <1>1, <1>2
  <2>3. \A j \in 1..Len(x) : Effect(x[j], gx[j], gx[j + 1])
    BY <1>1, <1>2
  <2> HIDE DEF gx, x
  <2> QED
    BY <2>1, <2>2, <2>3 DEF FitsBetween
<1>5. FitsBetween(y, g[i + 1], b)
  <2>1. gy \in [1..(Len(y) + 1) -> Shape]
    BY <1>2
  <2>2. gy[1] = g[i + 1] /\ gy[Len(y) + 1] = b
    BY <1>1, <1>2
  <2>3. ASSUME NEW j \in 1..Len(y) PROVE Effect(y[j], gy[j], gy[j + 1])
    <3>1. y[j] = seq[i + j] /\ gy[j] = g[i + j] /\ gy[j + 1] = g[(i + j) + 1]
          /\ i + j \in 1..n
      BY <1>2
    <3> QED
      BY <1>1, <3>1
  <2> HIDE DEF gy, y
  <2> QED
    BY <2>1, <2>2, <2>3 DEF FitsBetween
<1> QED
  BY <1>3, <1>4, <1>5
-----------------------------------------------------------------------------
(* What a right-hand side does, from what its symbols do. *)

LEMMA FitsKept ==
  ASSUME NEW a \in Shape, NEW seq \in Seq(Symbol), \A i \in 1..Len(seq) : Effect(seq[i], a, a)
  PROVE  FitsBetween(seq, a, a)
<1> DEFINE g == [i \in 1..(Len(seq) + 1) |-> a]
<1>1. g \in [1..(Len(seq) + 1) -> Shape]
  OBVIOUS
<1>2. g[1] = a /\ g[Len(seq) + 1] = a
  OBVIOUS
<1>3. \A i \in 1..Len(seq) : Effect(seq[i], g[i], g[i + 1])
  OBVIOUS
<1> HIDE DEF g
<1> QED
  BY <1>1, <1>2, <1>3 DEF FitsBetween

LEMMA Fits1 ==
  ASSUME NEW c0 \in Shape, NEW c1 \in Shape, NEW s1, Effect(s1, c0, c1)
  PROVE  FitsBetween(<<s1>>, c0, c1)
<1> DEFINE q == <<s1>>
           g == <<c0, c1>>
<1>1. g \in [1..2 -> Shape] /\ Len(q) = 1 /\ g[1] = c0 /\ g[2] = c1
  OBVIOUS
<1>2. /\ Effect(q[1], g[1], g[2])
  OBVIOUS
<1> HIDE DEF g, q
<1>3. \A i \in 1..1 : Effect(q[i], g[i], g[i + 1])
  BY <1>2
<1>4. FitsBetween(q, c0, c1)
  BY <1>1, <1>3 DEF FitsBetween
<1> QED
  BY <1>4 DEF q

LEMMA Fits2 ==
  ASSUME NEW c0 \in Shape, NEW c1 \in Shape, NEW c2 \in Shape, NEW s1, NEW s2,
         Effect(s1, c0, c1), Effect(s2, c1, c2)
  PROVE  FitsBetween(<<s1, s2>>, c0, c2)
<1> DEFINE q == <<s1, s2>>
           g == <<c0, c1, c2>>
<1>1. g \in [1..3 -> Shape] /\ Len(q) = 2 /\ g[1] = c0 /\ g[3] = c2
  OBVIOUS
<1>2. /\ Effect(q[1], g[1], g[2])
      /\ Effect(q[2], g[2], g[3])
  OBVIOUS
<1> HIDE DEF g, q
<1>3. \A i \in 1..2 : Effect(q[i], g[i], g[i + 1])
  BY <1>2
<1>4. FitsBetween(q, c0, c2)
  BY <1>1, <1>3 DEF FitsBetween
<1> QED
  BY <1>4 DEF q

LEMMA Fits3 ==
  ASSUME NEW c0 \in Shape, NEW c1 \in Shape, NEW c2 \in Shape, NEW c3 \in Shape,
         NEW s1, NEW s2, NEW s3, Effect(s1, c0, c1), Effect(s2, c1, c2),
         Effect(s3, c2, c3)
  PROVE  FitsBetween(<<s1, s2, s3>>, c0, c3)
<1> DEFINE q == <<s1, s2, s3>>
           g == <<c0, c1, c2, c3>>
<1>1. g \in [1..4 -> Shape] /\ Len(q) = 3 /\ g[1] = c0 /\ g[4] = c3
  OBVIOUS
<1>2. /\ Effect(q[1], g[1], g[2])
      /\ Effect(q[2], g[2], g[3])
      /\ Effect(q[3], g[3], g[4])
  OBVIOUS
<1> HIDE DEF g, q
<1>3. \A i \in 1..3 : Effect(q[i], g[i], g[i + 1])
  BY <1>2
<1>4. FitsBetween(q, c0, c3)
  BY <1>1, <1>3 DEF FitsBetween
<1> QED
  BY <1>4 DEF q

LEMMA Fits4 ==
  ASSUME NEW c0 \in Shape, NEW c1 \in Shape, NEW c2 \in Shape, NEW c3 \in Shape,
         NEW c4 \in Shape, NEW s1, NEW s2, NEW s3, NEW s4, Effect(s1, c0, c1),
         Effect(s2, c1, c2), Effect(s3, c2, c3), Effect(s4, c3, c4)
  PROVE  FitsBetween(<<s1, s2, s3, s4>>, c0, c4)
<1> DEFINE q == <<s1, s2, s3, s4>>
           g == <<c0, c1, c2, c3, c4>>
<1>1. g \in [1..5 -> Shape] /\ Len(q) = 4 /\ g[1] = c0 /\ g[5] = c4
  OBVIOUS
<1>2. /\ Effect(q[1], g[1], g[2])
      /\ Effect(q[2], g[2], g[3])
      /\ Effect(q[3], g[3], g[4])
      /\ Effect(q[4], g[4], g[5])
  OBVIOUS
<1> HIDE DEF g, q
<1>3. \A i \in 1..4 : Effect(q[i], g[i], g[i + 1])
  BY <1>2
<1>4. FitsBetween(q, c0, c4)
  BY <1>1, <1>3 DEF FitsBetween
<1> QED
  BY <1>4 DEF q

LEMMA Fits5 ==
  ASSUME NEW c0 \in Shape, NEW c1 \in Shape, NEW c2 \in Shape, NEW c3 \in Shape,
         NEW c4 \in Shape, NEW c5 \in Shape, NEW s1, NEW s2, NEW s3, NEW s4,
         NEW s5, Effect(s1, c0, c1), Effect(s2, c1, c2), Effect(s3, c2, c3),
         Effect(s4, c3, c4), Effect(s5, c4, c5)
  PROVE  FitsBetween(<<s1, s2, s3, s4, s5>>, c0, c5)
<1> DEFINE q == <<s1, s2, s3, s4, s5>>
           g == <<c0, c1, c2, c3, c4, c5>>
<1>1. g \in [1..6 -> Shape] /\ Len(q) = 5 /\ g[1] = c0 /\ g[6] = c5
  OBVIOUS
<1>2. /\ Effect(q[1], g[1], g[2])
      /\ Effect(q[2], g[2], g[3])
      /\ Effect(q[3], g[3], g[4])
      /\ Effect(q[4], g[4], g[5])
      /\ Effect(q[5], g[5], g[6])
  OBVIOUS
<1> HIDE DEF g, q
<1>3. \A i \in 1..5 : Effect(q[i], g[i], g[i + 1])
  BY <1>2
<1>4. FitsBetween(q, c0, c5)
  BY <1>1, <1>3 DEF FitsBetween
<1> QED
  BY <1>4 DEF q

LEMMA Fits6 ==
  ASSUME NEW c0 \in Shape, NEW c1 \in Shape, NEW c2 \in Shape, NEW c3 \in Shape,
         NEW c4 \in Shape, NEW c5 \in Shape, NEW c6 \in Shape, NEW s1, NEW s2,
         NEW s3, NEW s4, NEW s5, NEW s6, Effect(s1, c0, c1), Effect(s2, c1, c2),
         Effect(s3, c2, c3), Effect(s4, c3, c4), Effect(s5, c4, c5),
         Effect(s6, c5, c6)
  PROVE  FitsBetween(<<s1, s2, s3, s4, s5, s6>>, c0, c6)
<1> DEFINE q == <<s1, s2, s3, s4, s5, s6>>
           g == <<c0, c1, c2, c3, c4, c5, c6>>
<1>1. g \in [1..7 -> Shape] /\ Len(q) = 6 /\ g[1] = c0 /\ g[7] = c6
  OBVIOUS
<1>2. /\ Effect(q[1], g[1], g[2])
      /\ Effect(q[2], g[2], g[3])
      /\ Effect(q[3], g[3], g[4])
      /\ Effect(q[4], g[4], g[5])
      /\ Effect(q[5], g[5], g[6])
      /\ Effect(q[6], g[6], g[7])
  OBVIOUS
<1> HIDE DEF g, q
<1>3. \A i \in 1..6 : Effect(q[i], g[i], g[i + 1])
  BY <1>2
<1>4. FitsBetween(q, c0, c6)
  BY <1>1, <1>3 DEF FitsBetween
<1> QED
  BY <1>4 DEF q

LEMMA Fits7 ==
  ASSUME NEW c0 \in Shape, NEW c1 \in Shape, NEW c2 \in Shape, NEW c3 \in Shape,
         NEW c4 \in Shape, NEW c5 \in Shape, NEW c6 \in Shape, NEW c7 \in Shape,
         NEW s1, NEW s2, NEW s3, NEW s4, NEW s5, NEW s6, NEW s7,
         Effect(s1, c0, c1), Effect(s2, c1, c2), Effect(s3, c2, c3),
         Effect(s4, c3, c4), Effect(s5, c4, c5), Effect(s6, c5, c6),
         Effect(s7, c6, c7)
  PROVE  FitsBetween(<<s1, s2, s3, s4, s5, s6, s7>>, c0, c7)
<1> DEFINE q == <<s1, s2, s3, s4, s5, s6, s7>>
           g == <<c0, c1, c2, c3, c4, c5, c6, c7>>
<1>1. g \in [1..8 -> Shape] /\ Len(q) = 7 /\ g[1] = c0 /\ g[8] = c7
  OBVIOUS
<1>2. /\ Effect(q[1], g[1], g[2])
      /\ Effect(q[2], g[2], g[3])
      /\ Effect(q[3], g[3], g[4])
      /\ Effect(q[4], g[4], g[5])
      /\ Effect(q[5], g[5], g[6])
      /\ Effect(q[6], g[6], g[7])
      /\ Effect(q[7], g[7], g[8])
  OBVIOUS
<1> HIDE DEF g, q
<1>3. \A i \in 1..7 : Effect(q[i], g[i], g[i + 1])
  BY <1>2
<1>4. FitsBetween(q, c0, c7)
  BY <1>1, <1>3 DEF FitsBetween
<1> QED
  BY <1>4 DEF q

-----------------------------------------------------------------------------
(* Effect, symbol by symbol. *)

LEMMA FileLevelEffect ==
  ASSUME NEW s \in FileLevel, NEW a, NEW b
  PROVE  Effect(s, a, b) <=> a = <<>> /\ b = a
  BY DEF Effect, FileLevel, Local, Anywhere, ParameterDeclarator, Plain

LEMMA LocalEffect ==
  ASSUME NEW s \in Local, NEW a, NEW b
  PROVE  Effect(s, a, b) <=> Free(a) /\ OutsideList(a) /\ b = a
  BY DEF Effect, FileLevel, Local, Anywhere, ParameterDeclarator, Plain

LEMMA AnywhereEffect ==
  ASSUME NEW s \in Anywhere, NEW a, NEW b
  PROVE  Effect(s, a, b) <=> Free(a) /\ b = a
  BY DEF Effect, FileLevel, Local, Anywhere, ParameterDeclarator, Plain

LEMMA PlainEffect ==
  ASSUME NEW s \in Plain, NEW a, NEW b
  PROVE  Effect(s, a, b) <=> Open(a) /\ b = a
  BY DEF Effect, FileLevel, Local, Anywhere, ParameterDeclarator, Plain

LEMMA NameEffect ==
  ASSUME NEW s \in {"general_identifier", "var_name"}, NEW a, NEW b
  PROVE  Effect(s, a, b) <=> Open(a) /\ b = Append(a, "string")
  BY DEF Effect, FileLevel, Local, Anywhere, ParameterDeclarator, Plain

LEMMA ParameterDeclaratorEffect ==
  ASSUME NEW s \in ParameterDeclarator, NEW a, NEW b
  PROVE  Effect(s, a, b) <=> Free(a) /\ b = Append(a, "declarator")
  BY DEF Effect, FileLevel, Local, Anywhere, ParameterDeclarator, Plain

LEMMA DeclaratorEffect ==
  ASSUME NEW s \in {"declarator", "direct_declarator"}, NEW a, NEW b
  PROVE  Effect(s, a, b) <=> \/ Free(a) /\ b = Append(a, "declarator")
                             \/ Definition /\ a = <<>> /\ b = <<"held">>
  BY DEF Effect, FileLevel, Local, Anywhere, ParameterDeclarator, Plain

LEMMA DeclaratorVarnameEffect ==
  ASSUME NEW a, NEW b
  PROVE  Effect("declarator_varname", a, b) <=>
           \/ Free(a) /\ b = Append(a, "declarator")
           \/ Definition /\ a = <<>> /\ b = <<"defined">>
  BY DEF Effect, FileLevel, Local, Anywhere, ParameterDeclarator, Plain

LEMMA DeclaratorTypedefnameEffect ==
  ASSUME NEW a, NEW b
  PROVE  Effect("declarator_typedefname", a, b) <=> Free(a) /\ OutsideList(a) /\ b = Append(a, "declarator")
  BY DEF Effect, FileLevel, Local, Anywhere, ParameterDeclarator, Plain

LEMMA SuffixesEffect ==
  ASSUME NEW a, NEW b
  PROVE  Effect("declarator_suffixes", a, b) <=> OnDeclarator(a) /\ (Free(a) \/ a = <<"held">>) /\ b = a
  BY DEF Effect, FileLevel, Local, Anywhere, ParameterDeclarator, Plain

LEMMA ScopedListEffect ==
  ASSUME NEW a, NEW b
  PROVE  Effect("scoped_parameter_type_list_", a, b) <=> Open(a) /\ b = Append(a, "context")
  BY DEF Effect, FileLevel, Local, Anywhere, ParameterDeclarator, Plain

LEMMA FunctionEffect ==
  ASSUME NEW a, NEW b
  PROVE  Effect("function_definition", a, b) <=> Definition /\ a = <<>> /\ b = a
  BY DEF Effect, FileLevel, Local, Anywhere, ParameterDeclarator, Plain

LEMMA Function1Effect ==
  ASSUME NEW a, NEW b
  PROVE  Effect("function_definition1", a, b) <=> Definition /\ a = <<>> /\ b = <<"block">>
  BY DEF Effect, FileLevel, Local, Anywhere, ParameterDeclarator, Plain

LEMMA FirstHalfEffect ==
  ASSUME NEW a, NEW b
  PROVE  Effect("NAME", a, b) <=> Open(a) /\ b = Append(a, "half")
  BY DEF Effect, FileLevel, Local, Anywhere, ParameterDeclarator, Plain

LEMMA SecondHalfEffect ==
  ASSUME NEW s \in {"TYPE", "VARIABLE"}, NEW a, NEW b
  PROVE  Effect(s, a, b) <=> Replaces(a, b, "half", "string")
  BY DEF Effect, FileLevel, Local, Anywhere, ParameterDeclarator, Plain

LEMMA SaveEffect ==
  ASSUME NEW a, NEW b
  PROVE  Effect("@save_context", a, b) <=> Open(a) /\ b = Append(a, "saved")
  BY DEF Effect, FileLevel, Local, Anywhere, ParameterDeclarator, Plain

LEMMA ScopeEffect ==
  ASSUME NEW a, NEW b
  PROVE  Effect("%scope", a, b) <=> (Replaces(a, b, "saved", "plist") \/ (OutsideList(a) /\ Replaces(a, b, "saved", "block")))
  BY DEF Effect, FileLevel, Local, Anywhere, ParameterDeclarator, Plain

LEMMA RestoreEffect ==
  ASSUME NEW s \in {"@restore_context", "@function_definition"}, NEW a, NEW b
  PROVE  Effect(s, a, b) <=> Replaces(a, b, "block", "left")
  BY DEF Effect, FileLevel, Local, Anywhere, ParameterDeclarator, Plain

LEMMA ListEffect ==
  ASSUME NEW a, NEW b
  PROVE  Effect("@parameter_type_list", a, b) <=> \E c \in Shape : a = Append(c, "plist") /\ b = Append(a, "list")
  BY DEF Effect, FileLevel, Local, Anywhere, ParameterDeclarator, Plain

LEMMA LeaveListEffect ==
  ASSUME NEW a, NEW b
  PROVE  Effect("@scoped_parameter_type_list_", a, b) <=> 
           \E c \in Shape : a = Append(Append(c, "plist"), "list") /\ b = Append(c, "closing")
  BY DEF Effect, FileLevel, Local, Anywhere, ParameterDeclarator, Plain

LEMMA EndEffect ==
  ASSUME NEW a, NEW b
  PROVE  Effect("%end", a, b) <=> (a = Append(b, "left") \/ Replaces(a, b, "closing", "context"))
  BY DEF Effect, FileLevel, Local, Anywhere, ParameterDeclarator, Plain

LEMMA IdentifierEffect ==
  ASSUME NEW a, NEW b
  PROVE  Effect("@identifier_declarator", a, b) <=>
           \/ Replaces(a, b, "string", "declarator")
           \/ Definition /\ a = <<"string">> /\ b = <<"held">>
  BY DEF Effect, FileLevel, Local, Anywhere, ParameterDeclarator, Plain

LEMMA ArrayEffect ==
  ASSUME NEW a, NEW b
  PROVE  Effect("@array", a, b) <=> "array" \in Features /\ OnDeclarator(a) /\ b = a
  BY DEF Effect, FileLevel, Local, Anywhere, ParameterDeclarator, Plain

LEMMA IdentifierListEffect ==
  ASSUME NEW a, NEW b
  PROVE  Effect("@identifier_list", a, b) <=> "idlist" \in Features /\ OnDeclarator(a) /\ b = a
  BY DEF Effect, FileLevel, Local, Anywhere, ParameterDeclarator, Plain

LEMMA FunctionDeclaratorEffect ==
  ASSUME NEW a, NEW b
  PROVE  Effect("@function_declarator", a, b) <=> 
           "params" \in Features /\ OnDeclarator(b) /\ a = Append(b, "context")
  BY DEF Effect, FileLevel, Local, Anywhere, ParameterDeclarator, Plain

LEMMA PointerEffect ==
  ASSUME NEW a, NEW b
  PROVE  Effect("@pointer", a, b) <=> OnDeclarator(a) /\ b = a
  BY DEF Effect, FileLevel, Local, Anywhere, ParameterDeclarator, Plain

LEMMA DeclareVarEffect ==
  ASSUME NEW a, NEW b
  PROVE  Effect("@declarator_varname", a, b) <=>
           \/ Free(a) /\ Replaces(a, b, "declarator", "varname")
           \/ a = <<"held">> /\ b = <<"heldvar">>
  BY DEF Effect, FileLevel, Local, Anywhere, ParameterDeclarator, Plain

LEMMA OrdinaryEffect ==
  ASSUME NEW a, NEW b
  PROVE  Effect("%ordinary", a, b) <=>
           \/ Replaces(a, b, "varname", "declarator")
           \/ Replaces(a, b, "constant", "string")
           \/ a = <<"heldvar">> /\ b = <<"defined">>
  BY DEF Effect, FileLevel, Local, Anywhere, ParameterDeclarator, Plain

LEMMA DeclareTypeEffect ==
  ASSUME NEW a, NEW b
  PROVE  Effect("@declarator_typedefname", a, b) <=> 
           Free(a) /\ OutsideList(a) /\ Replaces(a, b, "declarator", "typename")
  BY DEF Effect, FileLevel, Local, Anywhere, ParameterDeclarator, Plain

LEMMA TypeEffect ==
  ASSUME NEW a, NEW b
  PROVE  Effect("%type", a, b) <=> Replaces(a, b, "typename", "declarator")
  BY DEF Effect, FileLevel, Local, Anywhere, ParameterDeclarator, Plain

LEMMA EnumeratorEffect ==
  ASSUME NEW a, NEW b
  PROVE  Effect("@enumerator", a, b) <=> Free(a) /\ Replaces(a, b, "string", "constant")
  BY DEF Effect, FileLevel, Local, Anywhere, ParameterDeclarator, Plain

LEMMA PopEffect ==
  ASSUME NEW a, NEW b
  PROVE  Effect("@pop", a, b) <=> \E r \in {"string", "declarator", "context"} : a = Append(b, r)
  BY DEF Effect, FileLevel, Local, Anywhere, ParameterDeclarator, Plain

LEMMA DefineEffect ==
  ASSUME NEW a, NEW b
  PROVE  Effect("@function_definition1", a, b) <=> a = <<"defined">> /\ b = <<"body">>
  BY DEF Effect, FileLevel, Local, Anywhere, ParameterDeclarator, Plain

LEMMA BodyEffect ==
  ASSUME NEW a, NEW b
  PROVE  Effect("%body", a, b) <=> a = <<"body">> /\ b = <<"block">>
  BY DEF Effect, FileLevel, Local, Anywhere, ParameterDeclarator, Plain
=============================================================================
