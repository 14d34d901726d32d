----------------------------- MODULE LexerProofs -----------------------------
(***************************************************************************)
(* Proofs about Lexer for every set of spellings and every size of the     *)
(* input.                                                                  *)
(*                                                                         *)
(* A rule does three independent things: it moves the cursor and the       *)
(* location, it changes the start condition, and it goes on, returns or    *)
(* throws.  One lemma for each says what the rules may do; the invariants  *)
(* follow from these lemmas and not from the rules one by one.             *)
(***************************************************************************)
EXTENDS Lexer, SequenceTheorems, TLAPS

(* What a rule does to the location. *)
Moves ==
  \/ \E n \in 1..2 : Text(n) /\ columns(n)
  \/ \E n \in 1..2 : LineEnd(n) /\ lines(n)
  \/ UNCHANGED <<loc, pos>>

(* How a rule ends. *)
Ends ==
  \/ GoesOn
  \/ \E t \in Token \ {"NAME", "TYPE", "VARIABLE", "ATOMIC_LPAREN"} : Returns(t, "none")
  \/ \E id \in Ids : Returns("NAME", id)
  \/ \E lexeme \in Lexeme : Throws(lexeme)

Literal == {"CHAR", "CHAR_LITERAL_END", "STRING_LITERAL"}

(* What a rule does to the start conditions. *)
Switches ==
  \/ UNCHANGED <<cond, condStack>>
  \/ \E c \in Condition \ Literal : cond \notin Literal /\ BEGIN(c)
  \/ cond = "INITIAL" /\ \/ yy_push_states(<<"CHAR_LITERAL_END", "CHAR">>)
                         \/ yy_push_states(<<"STRING_LITERAL">>)
  \/ cond \in {"CHAR_LITERAL_END", "STRING_LITERAL"} /\ yy_push_states(<<"CHAR">>)
  \/ cond \in {"CHAR_LITERAL_END", "STRING_LITERAL"} /\ PopAndBegin0
  \/ cond = "CHAR" /\ yy_pop_state

(* Every rule moves the end of the location with the cursor. *)
LEMMA RuleMoves == Rule => inCall /\ Moves
PROOF
  <1> SUFFICES ASSUME Rule PROVE inCall /\ Moves
    OBVIOUS
  <1>1. CASE \E n \in 1..2 :
               \/ LineBeginNewlines(n) \/ LineBeginWhitespace(n) \/ LineBeginHash(n)
               \/ OpenChar(n) \/ OpenString(n) \/ Whitespace(n)
               \/ LineCommentText(n) \/ CharMatched(n) \/ HashText(n)
    BY <1>1 DEF Moves, Matching, LineBeginNewlines, LineBeginWhitespace, LineBeginHash,
       OpenChar, OpenString, InInitial, Whitespace, LineCommentText, CharMatched, HashText
  <1>2. CASE \E n \in 1..2, id \in Ids : Identifier(id, n)
    BY <1>2 DEF Moves, Matching, Identifier, ReturnsToken, InInitial
  <1>3. CASE OpenComment \/ OpenLineComment \/ Constant \/ BadNumber \/ Punctuator
             \/ Keyword \/ GccKeyword \/ \E lexeme \in {"form feed", "#", "other"} : Catchall(lexeme)
    <2>1. InInitial(1) \/ InInitial(2)
      BY <1>3 DEF OpenComment, OpenLineComment, Constant, BadNumber, Punctuator,
         Keyword, GccKeyword, Catchall, ReturnsToken
    <2> QED  BY <2>1 DEF InInitial, Moves, Matching
  <1>4. CASE \/ CommentEnd \/ CommentText \/ CharBadEscape
             \/ LiteralEnd("CHAR_LITERAL_END", "CONSTANT")
             \/ LiteralEnd("STRING_LITERAL", "STRING_LITERAL")
    BY <1>4 DEF Moves, Matching, CommentEnd, CommentText, CharBadEscape, LiteralEnd
  <1>5. CASE \/ Newline \/ CommentNewline \/ LineCommentEnd \/ CharNewline
             \/ \E c \in {"CHAR_LITERAL_END", "STRING_LITERAL"} : LiteralNewline(c)
             \/ HashLine \/ HashNewline
    BY <1>5 DEF Moves, Matching, Newline, CommentNewline, LineCommentEnd, CharNewline,
       LiteralNewline, HashLine, HashNewline
  <1>6. CASE \/ LineBeginOther \/ EndOfFile
             \/ \E c \in {"CHAR_LITERAL_END", "STRING_LITERAL"} : LiteralMore(c)
    BY <1>6 DEF Moves, Matching, LineBeginOther, EndOfFile, LiteralMore
  <1> QED
    BY <1>1, <1>2, <1>3, <1>4, <1>5, <1>6 DEF Rule

(* Every rule goes on, returns a token that can come from a rule, or throws. *)
LEMMA RuleEnds == Rule => Ends
PROOF
  <1> SUFFICES ASSUME Rule PROVE Ends
    OBVIOUS
  <1>1. CASE \/ \E n \in 1..2 :
                  \/ LineBeginNewlines(n) \/ LineBeginWhitespace(n) \/ LineBeginHash(n)
                  \/ OpenChar(n) \/ OpenString(n) \/ Whitespace(n)
                  \/ LineCommentText(n) \/ CharMatched(n) \/ HashText(n)
             \/ LineBeginOther \/ OpenComment \/ OpenLineComment \/ Newline
             \/ CommentEnd \/ CommentNewline \/ CommentText \/ LineCommentEnd
             \/ \E c \in {"CHAR_LITERAL_END", "STRING_LITERAL"} : LiteralMore(c)
             \/ HashLine
    <2>1. GoesOn
      BY <1>1 DEF LineBeginNewlines, LineBeginWhitespace, LineBeginHash, OpenChar,
         OpenString, Whitespace, LineCommentText, CharMatched, HashText, LineBeginOther,
         OpenComment, OpenLineComment, Newline, CommentEnd, CommentNewline, CommentText,
         LineCommentEnd, LiteralMore, HashLine
    <2> QED  BY <2>1 DEF Ends
  <1>2. CASE \E n \in 1..2, id \in Ids : Identifier(id, n)
    BY <1>2 DEF Ends, Identifier, ReturnsToken
  <1>3. CASE \/ Constant \/ Punctuator \/ Keyword
             \/ LiteralEnd("CHAR_LITERAL_END", "CONSTANT")
             \/ LiteralEnd("STRING_LITERAL", "STRING_LITERAL")
             \/ EndOfFile
    <2>1. \E t \in {"CONSTANT", "LPAREN", "OTHER", "ATOMIC", "STRING_LITERAL", "YYEOF"} :
             Returns(t, "none")
      BY <1>3 DEF Constant, Punctuator, Keyword, LiteralEnd, EndOfFile, ReturnsToken
    <2> QED  BY <2>1 DEF Ends, Token
  <1>4. CASE \/ BadNumber
             \/ \E lexeme \in {"form feed", "#", "other"} : Catchall(lexeme)
             \/ CharBadEscape \/ CharNewline
             \/ \E c \in {"CHAR_LITERAL_END", "STRING_LITERAL"} : LiteralNewline(c)
             \/ HashNewline
    <2>1. \E lexeme \in Lexeme \ {"gcc keyword"} : Throws(lexeme)
      BY <1>4 DEF BadNumber, Catchall, CharBadEscape, CharNewline, LiteralNewline,
         HashNewline, Lexeme
    <2> QED  BY <2>1 DEF Ends
  <1>5. CASE GccKeyword
    <2>1. Returns("OTHER", "none") \/ Throws("gcc keyword")
      BY <1>5 DEF GccKeyword, ReturnsToken
    <2> QED  BY <2>1 DEF Ends, Token, Lexeme
  <1> QED
    BY <1>1, <1>2, <1>3, <1>4, <1>5 DEF Rule

(* Only literals push and pop, each in the conditions it belongs to. *)
LEMMA RuleSwitches == Rule => Switches
PROOF
  <1> SUFFICES ASSUME Rule PROVE Switches
    OBVIOUS
  <1>1. CASE \/ \E n \in 1..2 :
                  \/ LineBeginNewlines(n) \/ LineBeginWhitespace(n) \/ Whitespace(n)
                  \/ LineCommentText(n) \/ HashText(n)
                  \/ \E id \in Ids : Identifier(id, n)
             \/ Constant \/ BadNumber \/ Punctuator \/ Keyword \/ GccKeyword
             \/ \E lexeme \in {"form feed", "#", "other"} : Catchall(lexeme)
             \/ CommentNewline \/ CommentText \/ CharBadEscape \/ CharNewline
             \/ \E c \in {"CHAR_LITERAL_END", "STRING_LITERAL"} : LiteralNewline(c)
             \/ HashNewline \/ EndOfFile
    <2>1. UNCHANGED <<cond, condStack>>
      BY <1>1 DEF LineBeginNewlines, LineBeginWhitespace, Whitespace, LineCommentText,
         HashText, Identifier, Constant, BadNumber, Punctuator, Keyword, GccKeyword,
         Catchall, CommentNewline, CommentText, CharBadEscape, CharNewline, LiteralNewline,
         HashNewline, EndOfFile, ReturnsToken, Throws, scanner
    <2> QED  BY <2>1 DEF Switches
  <1>2. CASE \/ \E n \in 1..2 : LineBeginHash(n)
             \/ LineBeginOther \/ OpenComment \/ OpenLineComment \/ Newline
             \/ CommentEnd \/ LineCommentEnd \/ HashLine
    <2>1. /\ cond \notin Literal
          /\ \E c \in {"HASH", "INITIAL", "MULTILINE_COMMENT", "SINGLELINE_COMMENT",
                       "INITIAL_LINEBEGIN"} : BEGIN(c)
      BY <1>2 DEF LineBeginHash, LineBeginOther, OpenComment, OpenLineComment, InInitial,
         Newline, CommentEnd, LineCommentEnd, HashLine, Matching, Literal
    <2> QED  BY <2>1 DEF Switches, Condition, Literal
  <1>3. CASE \E n \in 1..2 : OpenChar(n) \/ OpenString(n)
    BY <1>3 DEF OpenChar, OpenString, InInitial, Matching, Switches
  <1>4. CASE \E n \in 1..2 : CharMatched(n)
    BY <1>4 DEF CharMatched, Matching, Switches
  <1>5. CASE \/ LiteralEnd("CHAR_LITERAL_END", "CONSTANT")
             \/ LiteralEnd("STRING_LITERAL", "STRING_LITERAL")
    BY <1>5 DEF LiteralEnd, Matching, Switches
  <1>6. CASE \E c \in {"CHAR_LITERAL_END", "STRING_LITERAL"} : LiteralMore(c)
    BY <1>6 DEF LiteralMore, Matching, Switches
  <1> QED
    BY <1>1, <1>2, <1>3, <1>4, <1>5, <1>6 DEF Rule

-----------------------------------------------------------------------------
(* The invariant of the start conditions, and what follows from it. *)

(* What the sequence operators of yy_push_states do to the short stacks met. *)
LEMMA ShortStacks ==
  ASSUME NEW S, NEW a \in S, NEW b \in S
  PROVE  /\ SubSeq(<<a>>, 1, Len(<<a>>) - 1) = <<>> /\ <<a>>[Len(<<a>>)] = a
         /\ SubSeq(<<a, b>>, 1, Len(<<a, b>>) - 1) = <<a>> /\ <<a, b>>[Len(<<a, b>>)] = b
         /\ <<>> \o <<a>> = <<a>> /\ <<a>> \o <<>> = <<a>>
         /\ <<a>> \o <<b>> = <<a, b>> /\ <<a, b>> \o <<>> = <<a, b>>
PROOF
  <1>1. <<>> \in Seq(S) /\ <<a>> \in Seq(S) /\ <<b>> \in Seq(S) /\ <<a, b>> \in Seq(S)
    OBVIOUS
  <1>2. Len(<<a>>) = 1 /\ Len(<<a, b>>) = 2 /\ Len(<<b>>) = 1
    OBVIOUS
  <1>3. SubSeq(<<a>>, 1, 0) = <<>>
    BY SubSeqEmpty
  <1>4. SubSeq(<<a, b>>, 1, 1) = <<a>>
    <2>1. \A i \in 1..1 : <<a, b>>[i] \in S
      OBVIOUS
    <2>2. /\ SubSeq(<<a, b>>, 1, 1) \in Seq(S)
          /\ Len(SubSeq(<<a, b>>, 1, 1)) = 1
          /\ \A i \in 1..1 : SubSeq(<<a, b>>, 1, 1)[i] = <<a, b>>[i]
      BY <2>1, SubSeqProperties
    <2>3. \A i \in 1..1 : SubSeq(<<a, b>>, 1, 1)[i] = <<a>>[i]
      BY <2>2
    <2> QED  BY <1>1, <1>2, <2>2, <2>3, SeqEqual
  <1>5. <<a>> \o <<b>> = <<a, b>>
    <2>1. /\ <<a>> \o <<b>> \in Seq(S)
          /\ Len(<<a>> \o <<b>>) = 2
          /\ \A i \in 1..2 : (<<a>> \o <<b>>)[i] = IF i <= 1 THEN <<a>>[i] ELSE <<b>>[i - 1]
      BY <1>1, <1>2, ConcatProperties
    <2>2. \A i \in 1..2 : (<<a>> \o <<b>>)[i] = <<a, b>>[i]
      BY <2>1
    <2> QED  BY <1>1, <1>2, <2>1, <2>2, SeqEqual
  <1>6. /\ <<>> \o <<a>> = <<a>> /\ <<a>> \o <<>> = <<a>>
        /\ <<a, b>> \o <<>> = <<a, b>>
    BY <1>1, ConcatEmptySeq
  <1> QED  BY <1>2, <1>3, <1>4, <1>5, <1>6

CondInv == cond \in Condition /\ StartConditions

LEMMA SwitchesKeep == CondInv /\ Switches => CondInv'
PROOF
  <1> SUFFICES ASSUME CondInv, Switches PROVE CondInv'
    OBVIOUS
  <1> USE DEF CondInv
  <1>1. CASE UNCHANGED <<cond, condStack>>
    BY <1>1 DEF StartConditions
  <1>2. CASE \E c \in Condition \ Literal : cond \notin Literal /\ BEGIN(c)
    BY <1>2 DEF StartConditions, BEGIN, Literal
  <1>3. CASE cond = "INITIAL" /\ \/ yy_push_states(<<"CHAR_LITERAL_END", "CHAR">>)
                                 \/ yy_push_states(<<"STRING_LITERAL">>)
    <2>1. condStack = <<>>
      BY <1>3 DEF StartConditions
    <2>2. CASE yy_push_states(<<"CHAR_LITERAL_END", "CHAR">>)
      <3>1. "INITIAL" \in Condition /\ "CHAR_LITERAL_END" \in Condition /\ "CHAR" \in Condition
        BY DEF Condition
      <3>2. /\ SubSeq(<<"CHAR_LITERAL_END", "CHAR">>, 1, Len(<<"CHAR_LITERAL_END", "CHAR">>) - 1)
                 = <<"CHAR_LITERAL_END">>
            /\ <<"CHAR_LITERAL_END", "CHAR">>[Len(<<"CHAR_LITERAL_END", "CHAR">>)] = "CHAR"
        BY <3>1, ShortStacks
      <3>3. /\ <<>> \o <<"INITIAL">> = <<"INITIAL">>
            /\ <<"INITIAL">> \o <<"CHAR_LITERAL_END">> = <<"INITIAL", "CHAR_LITERAL_END">>
        BY <3>1, ShortStacks
      <3>4. cond' = "CHAR" /\ condStack' = <<"INITIAL", "CHAR_LITERAL_END">>
        BY <1>3, <2>1, <2>2, <3>2, <3>3 DEF yy_push_states
      <3> QED  BY <3>4 DEF StartConditions, Condition
    <2>3. CASE yy_push_states(<<"STRING_LITERAL">>)
      <3>1. cond' = "STRING_LITERAL" /\ condStack' = <<"INITIAL">>
        BY <1>3, <2>1, <2>3, ShortStacks DEF yy_push_states
      <3> QED  BY <3>1 DEF StartConditions, Condition
    <2> QED  BY <1>3, <2>2, <2>3
  <1>4. CASE cond \in {"CHAR_LITERAL_END", "STRING_LITERAL"} /\ yy_push_states(<<"CHAR">>)
    <2>1. condStack = <<"INITIAL">>
      BY <1>4 DEF StartConditions
    <2>2. "INITIAL" \in Condition /\ "CHAR" \in Condition
      BY DEF Condition
    <2>3. /\ SubSeq(<<"CHAR">>, 1, Len(<<"CHAR">>) - 1) = <<>>
          /\ <<"CHAR">>[Len(<<"CHAR">>)] = "CHAR"
      BY <2>2, ShortStacks
    <2>4. /\ <<"INITIAL">> \o <<cond>> = <<"INITIAL", cond>>
          /\ <<"INITIAL", cond>> \o <<>> = <<"INITIAL", cond>>
      BY <2>2, ShortStacks
    <2>5. cond' = "CHAR" /\ condStack' = <<"INITIAL", cond>>
      BY <1>4, <2>1, <2>3, <2>4 DEF yy_push_states
    <2> QED  BY <1>4, <2>5 DEF StartConditions, Condition
  <1>5. CASE cond \in {"CHAR_LITERAL_END", "STRING_LITERAL"} /\ PopAndBegin0
    <2>1. condStack = <<"INITIAL">>
      BY <1>5 DEF StartConditions
    <2>2. cond' = "INITIAL" /\ condStack' = <<>>
      BY <1>5, <2>1, ShortStacks DEF PopAndBegin0
    <2> QED  BY <2>2 DEF StartConditions, Condition
  <1>6. CASE cond = "CHAR" /\ yy_pop_state
    <2>1. PICK c \in {"CHAR_LITERAL_END", "STRING_LITERAL"} : condStack = <<"INITIAL", c>>
      BY <1>6 DEF StartConditions
    <2>2. "INITIAL" \in Condition /\ c \in Condition
      BY DEF Condition
    <2>3. /\ SubSeq(<<"INITIAL", c>>, 1, Len(<<"INITIAL", c>>) - 1) = <<"INITIAL">>
          /\ <<"INITIAL", c>>[Len(<<"INITIAL", c>>)] = c
      BY <2>2, ShortStacks
    <2>4. cond' = c /\ condStack' = <<"INITIAL">>
      BY <1>6, <2>1, <2>3 DEF yy_pop_state
    <2> QED  BY <2>4 DEF StartConditions, Condition
  <1> QED
    BY <1>1, <1>2, <1>3, <1>4, <1>5, <1>6 DEF Switches

LEMMA CondInvariant == Spec => []CondInv
PROOF
  <1>1. Init => CondInv
    BY DEF Init, CondInv, StartConditions, Condition
  <1>2. CondInv /\ [Next]_vars => CondInv'
    <2> SUFFICES ASSUME CondInv, [Next]_vars PROVE CondInv'
      OBVIOUS
    <2>1. CASE Rule
      BY <2>1, RuleSwitches, SwitchesKeep
    <2>2. CASE Call \/ (\E id \in Ids : Declares(id)) \/ UNCHANGED vars
      <3>1. UNCHANGED <<cond, condStack>>
        BY <2>2 DEF Call, Declares, vars, scanner
      <3> QED  BY <3>1 DEF CondInv, StartConditions
    <2> QED  BY <2>1, <2>2 DEF Next
  <1> QED  BY <1>1, <1>2, PTL DEF Spec

(* flex's stack of start conditions never underflows and no literal leaves an *)
(* entry on it (the yy_push_state and yy_pop_state calls of c11parser.flex.l). *)
THEOREM StartConditionsHold == Spec => []StartConditions
PROOF
  <1>1. CondInv => StartConditions
    BY DEF CondInv
  <1> QED  BY <1>1, CondInvariant, PTL

-----------------------------------------------------------------------------
(* The location. *)

Located == pos \in Position /\ LocationExact /\ loc \in [begin : Position, end : Position]

LEMMA MovesKeep == Located /\ Moves => Located'
PROOF
  <1> SUFFICES ASSUME Located, Moves PROVE Located'
    OBVIOUS
  <1> USE DEF Located, LocationExact
  <1>1. CASE \E n \in 1..2 : Text(n) /\ columns(n)
    <2>1. PICK n \in 1..2 : Text(n) /\ columns(n)
      BY <1>1
    <2>2. pos' = [pos EXCEPT !.column = @ + n] /\ pos.column + n <= MaxColumn
      BY <2>1 DEF Text
    <2>3. loc' = [loc EXCEPT !.end = [loc.end EXCEPT !.column = @ + n]]
      BY <2>1 DEF columns
    <2>4. pos' \in Position
      BY <2>2, LexerBounds DEF Position
    <2> QED  BY <2>2, <2>3, <2>4
  <1>2. CASE \E n \in 1..2 : LineEnd(n) /\ lines(n)
    <2>1. PICK n \in 1..2 : LineEnd(n) /\ lines(n)
      BY <1>2
    <2>2. pos' = [line |-> pos.line + n, column |-> 1] /\ pos.line + n <= MaxLine
      BY <2>1 DEF LineEnd
    <2>3. loc' = [loc EXCEPT !.end = [line |-> loc.end.line + n, column |-> 1]]
      BY <2>1 DEF lines
    <2>4. pos' \in Position
      BY <2>2, LexerBounds DEF Position
    <2> QED  BY <2>2, <2>3, <2>4
  <1>3. CASE UNCHANGED <<loc, pos>>
    BY <1>3
  <1> QED
    BY <1>1, <1>2, <1>3 DEF Moves

LEMMA LocatedInvariant == Spec => []Located
PROOF
  <1>1. Init => Located
    BY LexerBounds DEF Init, Located, LocationExact, Position, FirstPosition
  <1>2. Located /\ [Next]_vars => Located'
    <2> SUFFICES ASSUME Located, [Next]_vars PROVE Located'
      OBVIOUS
    <2>1. CASE Rule
      BY <2>1, RuleMoves, MovesKeep
    <2>2. CASE Call
      <3>1. pos' = pos /\ loc' = [loc EXCEPT !.begin = loc.end]
        BY <2>2 DEF Call, step
      <3> QED  BY <3>1 DEF Located, LocationExact
    <2>3. CASE (\E id \in Ids : Declares(id)) \/ UNCHANGED vars
      <3>1. UNCHANGED <<loc, pos>>
        BY <2>3 DEF Declares, vars
      <3> QED  BY <3>1 DEF Located, LocationExact
    <2> QED  BY <2>1, <2>2, <2>3 DEF Next
  <1> QED  BY <1>1, <1>2, PTL DEF Spec

(* The location ends where the cursor is on every path through the rules      *)
(* (step, lines and columns of location, called by each rule).                *)
THEOREM LocationExactHolds == Spec => []LocationExact
PROOF
  <1>1. Located => LocationExact
    BY DEF Located
  <1> QED  BY <1>1, LocatedInvariant, PTL

-----------------------------------------------------------------------------
(* checkToken and the split token.  The state of the filter is a function of   *)
(* the token returned last: SIdent after NAME, SAtomic after a strict _Atomic. *)

FilterTypes ==
  /\ options \in [atomic_strict_syntax : BOOLEAN, enableGccExtensions : BOOLEAN]
  /\ lexer_state \in {"SRegular", "SAtomic", "SIdent"}
  /\ identifierToLookup \in IF lexer_state = "SIdent" THEN Ids ELSE {"none"}
  /\ typedefs \in SUBSET Ids
  /\ inCall \in BOOLEAN
  /\ token \in Token \cup {"none"}
  /\ thrown \in Lexeme \cup {"none"}
  /\ previous \in Token \cup {"none"}

FilterInv ==
  /\ FilterTypes
  /\ lexer_state = "SIdent" <=> token = "NAME"
  /\ lexer_state = "SAtomic" <=> token = "ATOMIC" /\ options.atomic_strict_syntax
  /\ inCall => lexer_state # "SIdent" /\ thrown = "none"

(* How yylex answers when a rule returns a token other than NAME. *)
LEMMA ReturnsOther ==
  ASSUME FilterInv, inCall,
         NEW t \in Token \ {"NAME", "TYPE", "VARIABLE", "ATOMIC_LPAREN"}, Returns(t, "none")
  PROVE  /\ FilterInv'
         /\ token' \notin {"NAME", "TYPE", "VARIABLE"}
         /\ token' \in {"LPAREN", "ATOMIC_LPAREN"} =>
              (token' = "ATOMIC_LPAREN" <=> token = "ATOMIC" /\ options.atomic_strict_syntax)
PROOF
  <1>1. /\ inCall' = FALSE /\ previous' = token /\ UNCHANGED <<options, typedefs, thrown, identifierToLookup>>
        /\ token' = IF lexer_state = "SAtomic" /\ t = "LPAREN" THEN "ATOMIC_LPAREN" ELSE t
        /\ lexer_state' = IF t = "ATOMIC" /\ options.atomic_strict_syntax
                          THEN "SAtomic" ELSE "SRegular"
    BY DEF Returns, checkToken, outside
  <1>2. lexer_state # "SIdent" /\ identifierToLookup = "none"
    BY DEF FilterInv, FilterTypes
  <1>3. options.atomic_strict_syntax \in BOOLEAN
    BY DEF FilterInv, FilterTypes
  <1>4. FilterTypes'
    BY <1>1, <1>2, <1>3 DEF FilterInv, FilterTypes, Token
  <1>5. lexer_state' # "SIdent" /\ token' \notin {"NAME", "TYPE", "VARIABLE"}
    BY <1>1
  <1>6. lexer_state' = "SAtomic" <=> token' = "ATOMIC" /\ options'.atomic_strict_syntax
    BY <1>1, <1>3
  <1>7. lexer_state = "SAtomic" <=> token = "ATOMIC" /\ options.atomic_strict_syntax
    BY DEF FilterInv
  <1>8. FilterInv'
    BY <1>1, <1>4, <1>5, <1>6 DEF FilterInv
  <1>9. ASSUME token' \in {"LPAREN", "ATOMIC_LPAREN"}
        PROVE  token' = "ATOMIC_LPAREN" <=> lexer_state = "SAtomic"
    BY <1>1, <1>9
  <1> QED
    BY <1>5, <1>7, <1>8, <1>9

(* How yylex answers when a rule returns NAME. *)
LEMMA ReturnsName ==
  ASSUME FilterInv, inCall, NEW id \in Ids, Returns("NAME", id)
  PROVE  FilterInv' /\ token' = "NAME"
PROOF
  <1>1. /\ inCall' = FALSE /\ previous' = token /\ UNCHANGED <<options, typedefs, thrown>>
        /\ token' = "NAME" /\ lexer_state' = "SIdent" /\ identifierToLookup' = id
    BY DEF Returns, checkToken, outside
  <1>2. FilterTypes'
    BY <1>1 DEF FilterInv, FilterTypes, Token
  <1> QED  BY <1>1, <1>2 DEF FilterInv

(* A step in which a rule matches. *)
LEMMA RuleFilter ==
  ASSUME FilterInv, Rule
  PROVE  /\ FilterInv'
         /\ ~inCall' /\ thrown' = "none" =>
              /\ token' \notin {"TYPE", "VARIABLE"}
              /\ token' \in {"LPAREN", "ATOMIC_LPAREN"} =>
                   (token' = "ATOMIC_LPAREN" <=> token = "ATOMIC" /\ options.atomic_strict_syntax)
PROOF
  <1>1. inCall
    BY RuleMoves
  <1>2. CASE GoesOn
    <2>1. UNCHANGED <<options, typedefs, lexer_state, identifierToLookup, inCall, token, thrown, previous>>
      BY <1>2 DEF GoesOn, filter, outside
    <2> QED  BY <1>1, <2>1 DEF FilterInv, FilterTypes
  <1>3. CASE \E t \in Token \ {"NAME", "TYPE", "VARIABLE", "ATOMIC_LPAREN"} : Returns(t, "none")
    BY <1>1, <1>3, ReturnsOther
  <1>4. CASE \E id \in Ids : Returns("NAME", id)
    <2>1. FilterInv' /\ token' = "NAME"
      BY <1>1, <1>4, ReturnsName
    <2> QED  BY <2>1
  <1>5. CASE \E lexeme \in Lexeme : Throws(lexeme)
    <2>1. PICK lexeme \in Lexeme : Throws(lexeme)
      BY <1>5
    <2>2. /\ UNCHANGED <<options, typedefs, lexer_state, identifierToLookup, token, previous>>
          /\ thrown' = lexeme /\ inCall' = FALSE
      BY <2>1 DEF Throws, filter, outside
    <2> QED  BY <2>2 DEF FilterInv, FilterTypes, Lexeme
  <1> QED
    BY <1>2, <1>3, <1>4, <1>5, RuleEnds DEF Ends

(* The entry of yylex. *)
LEMMA CallFilter ==
  ASSUME FilterInv, Call
  PROVE  /\ FilterInv'
         /\ lexer_state = "SIdent" =>
              /\ token' \in {"TYPE", "VARIABLE"} /\ token = "NAME"
              /\ identifierToLookup \in Ids /\ pos' = pos
PROOF
  <1>1. UNCHANGED <<options, typedefs, thrown, pos>> /\ ~inCall /\ thrown = "none"
    BY DEF Call, outside
  <1>2. CASE lexer_state = "SIdent"
    <2>1. /\ lexer_state' = "SRegular" /\ identifierToLookup' = "none"
          /\ token' \in {"TYPE", "VARIABLE"} /\ previous' = token /\ inCall' = inCall
      BY <1>2 DEF Call
    <2>2. FilterTypes'
      BY <1>1, <2>1 DEF FilterInv, FilterTypes, Token
    <2>3. FilterInv'
      BY <1>1, <2>1, <2>2 DEF FilterInv
    <2>4. token = "NAME" /\ identifierToLookup \in Ids
      BY <1>2 DEF FilterInv, FilterTypes
    <2> QED  BY <1>1, <2>1, <2>3, <2>4
  <1>3. CASE lexer_state # "SIdent"
    <2>1. inCall' = TRUE /\ UNCHANGED <<lexer_state, identifierToLookup, token, previous>>
      BY <1>3 DEF Call, filter
    <2> QED  BY <1>1, <1>3, <2>1 DEF FilterInv, FilterTypes
  <1> QED  BY <1>2, <1>3

LEMMA OthersFilter ==
  ASSUME FilterInv, (\E id \in Ids : Declares(id)) \/ UNCHANGED vars
  PROVE  FilterInv' /\ UNCHANGED <<token, inCall, lexer_state, thrown>>
PROOF
  <1>1. CASE \E id \in Ids : Declares(id)
    <2>1. /\ UNCHANGED <<options, lexer_state, identifierToLookup, inCall, token, thrown, previous>>
          /\ \E id \in Ids : typedefs' \in {typedefs \cup {id}, typedefs \ {id}}
      BY <1>1 DEF Declares, filter
    <2>2. typedefs' \in SUBSET Ids
      BY <2>1 DEF FilterInv, FilterTypes
    <2> QED  BY <2>1, <2>2 DEF FilterInv, FilterTypes
  <1>2. CASE UNCHANGED vars
    BY <1>2 DEF vars, filter, outside, FilterInv, FilterTypes
  <1> QED  BY <1>1, <1>2

LEMMA FilterInvariant == Spec => []FilterInv
PROOF
  <1>1. Init => FilterInv
    BY LexerIds DEF Init, FilterInv, FilterTypes
  <1>2. FilterInv /\ [Next]_vars => FilterInv'
    BY RuleFilter, CallFilter, OthersFilter DEF Next
  <1> QED  BY <1>1, <1>2, PTL DEF Spec

(* No rule of flex matches between the halves of a split token: SIdent never  *)
(* reaches checkToken, as its comment says.                                   *)
THEOREM NeverMatchesInSIdentHolds == Spec => []NeverMatchesInSIdent
PROOF
  <1>1. FilterInv => NeverMatchesInSIdent
    BY DEF FilterInv, NeverMatchesInSIdent
  <1> QED  BY <1>1, FilterInvariant, PTL

(* TYPE or VARIABLE comes right after NAME and only there, at the place where *)
(* the name ended (yylex's entry and checkToken).                             *)
THEOREM SplitTokensHold == Spec => SplitTokens
PROOF
  <1> DEFINE Second == TokenReturned =>
                         /\ token' \in {"TYPE", "VARIABLE"} <=> token = "NAME"
                         /\ token = "NAME" => identifierToLookup \in Ids /\ pos' = pos
  <1>1. FilterInv /\ [Next]_vars => [Second]_vars
    <2> SUFFICES ASSUME FilterInv, Next, TokenReturned
                 PROVE  /\ token' \in {"TYPE", "VARIABLE"} <=> token = "NAME"
                        /\ token = "NAME" => identifierToLookup \in Ids /\ pos' = pos
      OBVIOUS
    <2>1. CASE Rule
      <3>1. inCall /\ lexer_state # "SIdent"
        BY <2>1, RuleMoves DEF FilterInv
      <3>2. token # "NAME" /\ ~inCall' /\ thrown' = "none"
        BY <3>1 DEF FilterInv, TokenReturned
      <3>3. token' \notin {"TYPE", "VARIABLE"}
        BY <2>1, <3>2, RuleFilter
      <3> QED  BY <3>2, <3>3
    <2>2. CASE Call
      <3>1. ~inCall
        BY <2>2 DEF Call
      <3>2. lexer_state = "SIdent"
        BY <3>1 DEF TokenReturned
      <3> QED  BY <2>2, <3>2, CallFilter
    <2>3. CASE \E id \in Ids : Declares(id)
      BY <2>3, OthersFilter DEF TokenReturned
    <2> QED  BY <2>1, <2>2, <2>3 DEF Next
  <1> QED  BY <1>1, FilterInvariant, PTL DEF Spec, SplitTokens

(* In strict syntax "(" is ATOMIC_LPAREN exactly after _Atomic, whatever is   *)
(* skipped between them (checkToken's SAtomic).                               *)
THEOREM AtomicParenthesisHolds == Spec => AtomicParenthesis
PROOF
  <1> DEFINE Paren == TokenReturned /\ token' \in {"LPAREN", "ATOMIC_LPAREN"} =>
                        (token' = "ATOMIC_LPAREN" <=> token = "ATOMIC" /\ options.atomic_strict_syntax)
  <1>1. FilterInv /\ [Next]_vars => [Paren]_vars
    <2> SUFFICES ASSUME FilterInv, Next, TokenReturned, token' \in {"LPAREN", "ATOMIC_LPAREN"}
                 PROVE  token' = "ATOMIC_LPAREN" <=> token = "ATOMIC" /\ options.atomic_strict_syntax
      OBVIOUS
    <2>1. CASE Rule
      <3>1. inCall
        BY <2>1, RuleMoves
      <3>2. ~inCall' /\ thrown' = "none"
        BY <3>1 DEF TokenReturned
      <3> QED  BY <2>1, <3>2, RuleFilter
    <2>2. CASE Call
      <3>1. lexer_state = "SIdent"
        BY <2>2 DEF TokenReturned, Call
      <3>2. token' \in {"TYPE", "VARIABLE"}
        BY <2>2, <3>1, CallFilter
      <3> QED  BY <3>2
    <2>3. CASE \E id \in Ids : Declares(id)
      BY <2>3, OthersFilter DEF TokenReturned
    <2> QED  BY <2>1, <2>2, <2>3 DEF Next
  <1> QED  BY <1>1, FilterInvariant, PTL DEF Spec, AtomicParenthesis

-----------------------------------------------------------------------------
(* Lines and directives. *)

LineInv ==
  /\ ahead \in {"any", "nonspace", "literal", "eol"}
  /\ lineStart \in BOOLEAN
  /\ ahead = "nonspace" => cond = "INITIAL"
  /\ cond = "INITIAL_LINEBEGIN" => lineStart
  /\ lineStart /\ thrown = "none" =>
       cond = "INITIAL_LINEBEGIN" \/ (cond = "INITIAL" /\ ahead = "nonspace")

ScanInv == CondInv /\ FilterInv /\ LineInv

(* What a step does to a directive: the body of DirectivesAtLineStart. *)
Directives ==
  /\ cond # "HASH" /\ cond' = "HASH" => lineStart
  /\ thrown' = "#" /\ thrown = "none" => ~lineStart

(* Rules that leave INITIAL's text behind: the line is no longer blank. *)
LEMMA InitialLine ==
  ASSUME LineInv, NEW n, InInitial(n),
         \/ /\ ahead' = "any"
            /\ cond' \in {"INITIAL", "MULTILINE_COMMENT", "SINGLELINE_COMMENT", "CHAR", "STRING_LITERAL"}
            /\ thrown' = thrown
         \/ UNCHANGED scanner /\ thrown' # "#"
         \/ UNCHANGED scanner /\ ahead = "any"
  PROVE  LineInv' /\ Directives
PROOF
  <1>1. cond = "INITIAL" /\ lineStart' = FALSE
    BY DEF InInitial, Matching
  <1>2. ahead' = "any" \/ UNCHANGED <<cond, ahead>>
    BY DEF scanner
  <1>3. cond' \notin {"HASH", "INITIAL_LINEBEGIN"}
    BY <1>1 DEF scanner
  <1>4. LineInv'
    BY <1>1, <1>2, <1>3 DEF LineInv
  <1>5. thrown' = "#" /\ thrown = "none" => ahead = "any"
    OBVIOUS
  <1> QED  BY <1>1, <1>3, <1>4, <1>5 DEF LineInv, Directives

(* Rules in the middle of a line that is not blank, or of a literal or comment. *)
LEMMA InsideLine ==
  ASSUME LineInv, thrown = "none", UNCHANGED lineStart,
         cond \notin {"INITIAL_LINEBEGIN"}, cond = "INITIAL" => ahead = "any",
         cond' # "INITIAL_LINEBEGIN", cond' = "HASH" => cond = "HASH",
         ahead' \in {"any", "literal", "eol"} \/ ahead' = ahead, thrown' # "#"
  PROVE  LineInv' /\ Directives
PROOF
  <1>1. ~lineStart /\ lineStart' = FALSE
    BY DEF LineInv
  <1>2. ahead' # "nonspace" /\ ahead' \in {"any", "literal", "eol"}
    BY DEF LineInv
  <1> QED  BY <1>1, <1>2 DEF LineInv, Directives

LEMMA RuleLine == ScanInv /\ Rule => LineInv' /\ Directives
PROOF
  <1> SUFFICES ASSUME ScanInv, Rule PROVE LineInv' /\ Directives
    OBVIOUS
  <1>1. inCall /\ thrown = "none" /\ LineInv
    BY RuleMoves DEF ScanInv, FilterInv
  <1>2. CASE \E n \in 1..2 :
               LineBeginNewlines(n) \/ LineBeginWhitespace(n) \/ LineBeginHash(n)
    <2>1. /\ cond = "INITIAL_LINEBEGIN" /\ ahead' = "any" /\ thrown' = "none"
          /\ \/ cond' = cond /\ (lineStart' = TRUE \/ UNCHANGED lineStart)
             \/ cond' = "HASH" /\ lineStart' = FALSE
      BY <1>1, <1>2 DEF LineBeginNewlines, LineBeginWhitespace, LineBeginHash, Matching,
         Fresh, GoesOn, BEGIN
    <2> QED  BY <1>1, <2>1 DEF LineInv, Directives
  <1>3. CASE LineBeginOther
    <2>1. /\ cond = "INITIAL_LINEBEGIN" /\ ahead' = "nonspace" /\ thrown' = "none"
          /\ cond' = "INITIAL" /\ UNCHANGED lineStart
      BY <1>1, <1>3 DEF LineBeginOther, Matching, GoesOn, BEGIN
    <2> QED  BY <1>1, <2>1 DEF LineInv, Directives
  <1>4. CASE \/ OpenComment \/ OpenLineComment
             \/ \E n \in 1..2 : OpenChar(n) \/ OpenString(n)
    <2>1. /\ \E n : InInitial(n)
          /\ ahead' = "any" /\ thrown' = thrown
          /\ cond' \in {"MULTILINE_COMMENT", "SINGLELINE_COMMENT", "CHAR", "STRING_LITERAL"}
      BY <1>4 DEF OpenComment, OpenLineComment, OpenChar, OpenString, Consumed, BEGIN,
         yy_push_states, GoesOn
    <2> QED  BY <1>1, <2>1, InitialLine
  <1>5. CASE \/ Constant \/ Punctuator \/ Keyword
             \/ \E n \in 1..2, id \in Ids : Identifier(id, n)
    <2>1. \E t, id, n : ReturnsToken(t, id, n)
      BY <1>5 DEF Constant, Punctuator, Keyword, Identifier
    <2>2. /\ \E n : InInitial(n)
          /\ ahead' = "any" /\ thrown' = thrown /\ cond' = cond
      BY <2>1 DEF ReturnsToken, Consumed, Returns
    <2>3. cond' = "INITIAL"
      BY <2>2 DEF InInitial, Matching
    <2> QED  BY <1>1, <2>2, <2>3, InitialLine
  <1>6. CASE BadNumber \/ GccKeyword
    <2>1. \/ ReturnsToken("OTHER", "none", 1)
          \/ InInitial(1) /\ (Throws("number") \/ Throws("gcc keyword"))
      BY <1>6 DEF BadNumber, GccKeyword
    <2>2. CASE ReturnsToken("OTHER", "none", 1)
      <3>1. InInitial(1) /\ ahead' = "any" /\ thrown' = thrown /\ cond' = "INITIAL"
        BY <2>2 DEF ReturnsToken, Consumed, Returns, InInitial, Matching
      <3> QED  BY <1>1, <3>1, InitialLine
    <2>3. CASE InInitial(1) /\ (Throws("number") \/ Throws("gcc keyword"))
      <3>1. UNCHANGED scanner /\ thrown' # "#"
        BY <2>3 DEF Throws
      <3> QED  BY <1>1, <2>3, <3>1, InitialLine
    <2> QED  BY <2>1, <2>2, <2>3
  <1>7. CASE \E lexeme \in {"form feed", "#", "other"} : Catchall(lexeme)
    <2>1. InInitial(1) /\ UNCHANGED scanner /\ (thrown' = "#" => ahead = "any")
      BY <1>7 DEF Catchall, Throws
    <2> QED  BY <1>1, <2>1, InitialLine
  <1>8. CASE Newline \/ LineCommentEnd \/ HashLine
    <2>1. /\ lineStart' = TRUE /\ cond' = "INITIAL_LINEBEGIN" /\ ahead' = "any"
          /\ thrown' = "none"
      BY <1>1, <1>8 DEF Newline, LineCommentEnd, HashLine, Fresh, Consumed, BEGIN, GoesOn
    <2> QED  BY <2>1 DEF LineInv, Directives
  <1>9. CASE \/ \E n \in 1..2 : Whitespace(n) \/ LineCommentText(n) \/ HashText(n)
             \/ CommentEnd \/ CommentNewline \/ CommentText
             \/ \E c \in {"CHAR_LITERAL_END", "STRING_LITERAL"} : LiteralMore(c)
    <2>1. /\ cond # "INITIAL_LINEBEGIN" /\ UNCHANGED lineStart /\ thrown' = "none"
          /\ cond = "INITIAL" => ahead = "any"
          /\ cond' = cond \/ cond' \in {"INITIAL", "CHAR"}
          /\ ahead' \in {"any", "literal", "eol"}
      BY <1>1, <1>9 DEF Whitespace, LineCommentText, HashText, CommentEnd, CommentNewline,
         CommentText, LiteralMore, Matching, Fresh, BEGIN, yy_push_states, GoesOn
    <2> QED  BY <1>1, <2>1, InsideLine
  <1>10. CASE \E n \in 1..2 : CharMatched(n)
    <2>1. /\ cond = "CHAR" /\ UNCHANGED lineStart /\ thrown' = "none" /\ ahead' = "any"
      BY <1>1, <1>10 DEF CharMatched, Matching, Consumed, GoesOn
    <2>2. PICK c \in {"CHAR_LITERAL_END", "STRING_LITERAL"} : condStack = <<"INITIAL", c>>
      BY <2>1 DEF ScanInv, CondInv, StartConditions
    <2>3. cond' = c
      BY <1>10, <2>2 DEF CharMatched, yy_pop_state
    <2> QED  BY <1>1, <2>1, <2>3, InsideLine
  <1>11. CASE \/ LiteralEnd("CHAR_LITERAL_END", "CONSTANT")
              \/ LiteralEnd("STRING_LITERAL", "STRING_LITERAL")
    <2>1. /\ cond \in {"CHAR_LITERAL_END", "STRING_LITERAL"} /\ UNCHANGED lineStart
          /\ thrown' = "none" /\ ahead' = "any" /\ cond' = "INITIAL"
      BY <1>1, <1>11 DEF LiteralEnd, Matching, Fresh, PopAndBegin0, Returns
    <2> QED  BY <1>1, <2>1, InsideLine
  <1>12. CASE \/ CharBadEscape \/ CharNewline \/ HashNewline
              \/ \E c \in {"CHAR_LITERAL_END", "STRING_LITERAL"} : LiteralNewline(c)
    <2>1. /\ UNCHANGED scanner /\ thrown' \in {"escape", "newline", "directive"}
          /\ lineStart' = TRUE \/ UNCHANGED lineStart
          /\ cond # "INITIAL_LINEBEGIN"
      BY <1>12 DEF CharBadEscape, CharNewline, HashNewline, LiteralNewline, Throws, Matching
    <2> QED  BY <1>1, <2>1 DEF LineInv, Directives, scanner
  <1>13. CASE EndOfFile
    <2>1. UNCHANGED <<scanner, lineStart, thrown>>
      BY <1>13 DEF EndOfFile, Returns
    <2> QED  BY <1>1, <2>1 DEF LineInv, Directives, scanner
  <1> QED
    BY <1>2, <1>3, <1>4, <1>5, <1>6, <1>7, <1>8, <1>9, <1>10, <1>11, <1>12, <1>13 DEF Rule

LEMMA OutsideLine ==
  ASSUME LineInv, Call \/ (\E id \in Ids : Declares(id)) \/ UNCHANGED vars
  PROVE  LineInv' /\ Directives /\ UNCHANGED scanner
PROOF
  <1>1. UNCHANGED <<scanner, lineStart, thrown>>
    BY DEF Call, Declares, vars
  <1> QED  BY <1>1 DEF LineInv, Directives, scanner

LEMMA ScanInvariant == Spec => []ScanInv
PROOF
  <1>1. Init => LineInv
    BY DEF Init, LineInv
  <1>2. CondInv /\ FilterInv /\ LineInv /\ [Next]_vars => LineInv'
    BY RuleLine, OutsideLine DEF ScanInv, Next
  <1> QED
    BY <1>1, <1>2, CondInvariant, FilterInvariant, PTL DEF Spec, ScanInv

(* A "#" starts a directive exactly where only blanks precede it on its line  *)
(* (INITIAL_LINEBEGIN and its yyless(0), c11parser.flex.l:183-207).           *)
THEOREM DirectivesAtLineStartHold == Spec => DirectivesAtLineStart
PROOF
  <1>1. ScanInv /\ [Next]_vars => [Directives]_vars
    BY RuleLine, OutsideLine DEF Next, ScanInv
  <1> QED  BY <1>1, ScanInvariant, PTL DEF Spec, DirectivesAtLineStart, Directives

-----------------------------------------------------------------------------
(* Between two calls, and the type invariant. *)

(* A rule that returns a token leaves flex in INITIAL with nothing pending. *)
LEMMA RuleCleans ==
  ASSUME FilterInv, Rule, ~inCall', thrown' = "none", token' # "YYEOF"
  PROVE  cond' = "INITIAL" /\ ahead' = "any"
PROOF
  <1>1. inCall
    BY RuleMoves
  <1>2. ~GoesOn
    BY <1>1 DEF GoesOn
  <1>3. \A lexeme \in Lexeme : ~Throws(lexeme)
    BY DEF Throws, Lexeme
  <1>4. CASE \/ Constant \/ Punctuator \/ Keyword
             \/ \E n \in 1..2, id \in Ids : Identifier(id, n)
             \/ GccKeyword
    <2>1. ~Throws("gcc keyword")
      BY <1>3 DEF Lexeme
    <2>2. \E t, id, n : ReturnsToken(t, id, n)
      BY <1>4, <2>1 DEF Constant, Punctuator, Keyword, Identifier, GccKeyword
    <2> QED  BY <2>2 DEF ReturnsToken, InInitial, Matching, Consumed
  <1>5. CASE \/ LiteralEnd("CHAR_LITERAL_END", "CONSTANT")
             \/ LiteralEnd("STRING_LITERAL", "STRING_LITERAL")
    BY <1>5 DEF LiteralEnd, Fresh, PopAndBegin0
  <1>6. CASE EndOfFile
    <2>1. token' = "YYEOF"
      BY <1>6 DEF EndOfFile, Returns, checkToken
    <2> QED  BY <2>1
  <1>7. CASE \/ BadNumber \/ \E lexeme \in {"form feed", "#", "other"} : Catchall(lexeme)
             \/ CharBadEscape \/ CharNewline \/ HashNewline
             \/ \E c \in {"CHAR_LITERAL_END", "STRING_LITERAL"} : LiteralNewline(c)
    <2>1. \E lexeme \in Lexeme : Throws(lexeme)
      BY <1>7 DEF BadNumber, Catchall, CharBadEscape, CharNewline, HashNewline,
         LiteralNewline, Lexeme
    <2> QED  BY <2>1, <1>3
  <1>8. CASE \/ \E n \in 1..2 :
                  \/ LineBeginNewlines(n) \/ LineBeginWhitespace(n) \/ LineBeginHash(n)
                  \/ OpenChar(n) \/ OpenString(n) \/ Whitespace(n)
                  \/ LineCommentText(n) \/ CharMatched(n) \/ HashText(n)
             \/ LineBeginOther \/ OpenComment \/ OpenLineComment \/ Newline
             \/ CommentEnd \/ CommentNewline \/ CommentText \/ LineCommentEnd
             \/ \E c \in {"CHAR_LITERAL_END", "STRING_LITERAL"} : LiteralMore(c)
             \/ HashLine
    <2>1. GoesOn
      BY <1>8 DEF LineBeginNewlines, LineBeginWhitespace, LineBeginHash, OpenChar,
         OpenString, Whitespace, LineCommentText, CharMatched, HashText, LineBeginOther,
         OpenComment, OpenLineComment, Newline, CommentEnd, CommentNewline, CommentText,
         LineCommentEnd, LiteralMore, HashLine
    <2> QED  BY <1>2, <2>1
  <1> QED
    BY <1>4, <1>5, <1>6, <1>7, <1>8 DEF Rule

(* Every token leaves the scanner ready for any other (yy_pop_state then       *)
(* BEGIN(0) at the end of a literal, no yyless(0) pending).                    *)
THEOREM CleanBetweenCallsHolds == Spec => []CleanBetweenCalls
PROOF
  <1> DEFINE Clean == (~inCall /\ thrown = "none" /\ token \notin {"none", "YYEOF"}) =>
                         cond = "INITIAL" /\ ahead = "any"
  <1>1. Init => Clean
    BY DEF Init
  <1>2. FilterInv /\ Clean /\ [Next]_vars => Clean'
    <2> SUFFICES ASSUME FilterInv, Clean, [Next]_vars,
                        ~inCall', thrown' = "none", token' \notin {"none", "YYEOF"}
                 PROVE  cond' = "INITIAL" /\ ahead' = "any"
      OBVIOUS
    <2>1. CASE Rule
      BY <2>1, RuleCleans
    <2>2. CASE Call
      <3>1. UNCHANGED <<cond, ahead>> /\ ~inCall /\ thrown = "none"
        BY <2>2 DEF Call, scanner
      <3>2. lexer_state = "SIdent"
        BY <2>2 DEF Call
      <3>3. token = "NAME"
        BY <3>2 DEF FilterInv
      <3> QED  BY <3>1, <3>3
    <2>3. CASE (\E id \in Ids : Declares(id)) \/ UNCHANGED vars
      <3>1. UNCHANGED <<cond, ahead, inCall, thrown, token>>
        BY <2>3 DEF Declares, vars, scanner
      <3> QED  BY <3>1
    <2> QED  BY <2>1, <2>2, <2>3 DEF Next
  <1>3. CondInv /\ Clean => CleanBetweenCalls
    BY DEF CondInv, StartConditions, CleanBetweenCalls
  <1> QED
    BY <1>1, <1>2, <1>3, CondInvariant, FilterInvariant, PTL DEF Spec

(* The type invariant of class Lexer, flex's state and LexParam::loc. *)
THEOREM LexerTypeOK == Spec => []TypeOK
PROOF
  <1>1. CondInv => condStack \in Seq(Condition)
    <2> SUFFICES ASSUME CondInv PROVE condStack \in Seq(Condition)
      OBVIOUS
    <2>1. \/ condStack = <<>> \/ condStack = <<"INITIAL">>
          \/ condStack = <<"INITIAL", "CHAR_LITERAL_END">>
          \/ condStack = <<"INITIAL", "STRING_LITERAL">>
      BY DEF CondInv, StartConditions
    <2>2. /\ "INITIAL" \in Condition /\ "CHAR_LITERAL_END" \in Condition
          /\ "STRING_LITERAL" \in Condition
      BY DEF Condition
    <2>3. /\ <<>> \in Seq(Condition) /\ <<"INITIAL">> \in Seq(Condition)
          /\ <<"INITIAL", "CHAR_LITERAL_END">> \in Seq(Condition)
          /\ <<"INITIAL", "STRING_LITERAL">> \in Seq(Condition)
      BY <2>2
    <2> QED  BY <2>1, <2>3
  <1>2. ScanInv /\ Located => TypeOK
    BY <1>1 DEF ScanInv, CondInv, FilterInv, FilterTypes, LineInv, Located, TypeOK
  <1> QED  BY <1>2, ScanInvariant, LocatedInvariant, PTL

-----------------------------------------------------------------------------
(* The abstract split token. *)

(* A rule that returns a token hands over the first half of an identifier or   *)
(* a token that is no half; any other rule leaves the interface alone.         *)
LEMMA RuleFeeds ==
  ASSUME FilterInv, Rule
  PROVE  Feedback!Next \/ UNCHANGED Feedback!vars
PROOF
  <1>1. inCall
    BY RuleMoves
  <1>2. lexer_state # "SIdent" /\ identifierToLookup = "none"
    BY <1>1 DEF FilterInv, FilterTypes
  <1>3. CASE GoesOn \/ \E lexeme \in Lexeme : Throws(lexeme)
    <2>1. UNCHANGED <<token, identifierToLookup, typedefs>>
      BY <1>3 DEF GoesOn, Throws, filter, outside
    <2> QED  BY <2>1 DEF Feedback!vars, Kind
  <1>4. CASE \E id \in Ids : Returns("NAME", id)
    <2>1. PICK id \in Ids : Returns("NAME", id)
      BY <1>4
    <2>2. token' = "NAME" /\ identifierToLookup' = id /\ UNCHANGED typedefs
      BY <2>1 DEF Returns, checkToken, outside
    <2>3. Feedback!FirstHalf(id)
      BY <1>2, <2>2 DEF Feedback!FirstHalf, Kind
    <2> QED  BY <2>3 DEF Feedback!Next
  <1>5. CASE \E t \in Token \ {"NAME", "TYPE", "VARIABLE", "ATOMIC_LPAREN"} : Returns(t, "none")
    <2>1. PICK t \in Token \ {"NAME", "TYPE", "VARIABLE", "ATOMIC_LPAREN"} : Returns(t, "none")
      BY <1>5
    <2>2. token' \notin {"none", "NAME", "TYPE", "VARIABLE"}
      BY <2>1 DEF Returns, checkToken, Token
    <2>3. UNCHANGED <<identifierToLookup, typedefs>>
      BY <2>1 DEF Returns, checkToken, outside
    <2>4. Feedback!OtherToken
      BY <1>2, <2>2, <2>3 DEF Feedback!OtherToken, Kind
    <2> QED  BY <2>4 DEF Feedback!Next
  <1> QED  BY <1>3, <1>4, <1>5, RuleEnds DEF Ends

(* yylex's entry hands over the second half, or nothing yet. *)
LEMMA CallFeeds ==
  ASSUME FilterInv, Call
  PROVE  Feedback!Next \/ UNCHANGED Feedback!vars
PROOF
  <1>1. UNCHANGED typedefs
    BY DEF Call, outside
  <1>2. CASE lexer_state = "SIdent"
    <2>1. /\ token' = IF identifierToLookup \in typedefs THEN "TYPE" ELSE "VARIABLE"
          /\ identifierToLookup' = "none"
      BY <1>2 DEF Call
    <2>2. token = "NAME" /\ identifierToLookup \in Ids
      BY <1>2 DEF FilterInv, FilterTypes
    <2>3. identifierToLookup # "none"
      BY <2>2, LexerIds
    <2>4. Feedback!SecondHalf
      BY <1>1, <2>1, <2>2, <2>3 DEF Feedback!SecondHalf, Kind
    <2> QED  BY <2>4 DEF Feedback!Next
  <1>3. CASE lexer_state # "SIdent"
    <2>1. UNCHANGED <<token, identifierToLookup>>
      BY <1>3 DEF Call, filter
    <2> QED  BY <1>1, <2>1 DEF Feedback!vars, Kind
  <1> QED  BY <1>2, <1>3

(* checkToken and the lookup at yylex's entry implement the split token of     *)
(* LexicalFeedback (c11parser_lexer.h:79-123, c11parser.flex.l:169-176).        *)
THEOREM ImplementsFeedbackHolds == Spec => ImplementsFeedback
PROOF
  <1>1. Init => Feedback!Init
    BY DEF Init, Feedback!Init, Kind
  <1>2. FilterInv /\ [Next]_vars => [Feedback!Next]_(Feedback!vars)
    <2> SUFFICES ASSUME FilterInv, [Next]_vars
                 PROVE  Feedback!Next \/ UNCHANGED Feedback!vars
      OBVIOUS
    <2>1. CASE Rule
      BY <2>1, RuleFeeds
    <2>2. CASE Call
      BY <2>2, CallFeeds
    <2>3. CASE \E id \in Ids : Declares(id)
      <3>1. UNCHANGED <<token, identifierToLookup>>
        BY <2>3 DEF Declares, filter
      <3>2. typedefs' \in SUBSET Ids
        BY <2>3, OthersFilter DEF FilterInv, FilterTypes
      <3>3. Feedback!Declares
        BY <3>1, <3>2 DEF Feedback!Declares, Kind
      <3> QED  BY <3>3 DEF Feedback!Next
    <2>4. CASE UNCHANGED vars
      BY <2>4 DEF vars, filter, outside, Feedback!vars, Kind
    <2> QED  BY <2>1, <2>2, <2>3, <2>4 DEF Next
  <1> QED
    BY <1>1, <1>2, FilterInvariant, PTL DEF Spec, ImplementsFeedback, Feedback!Spec
=============================================================================
