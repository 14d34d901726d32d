-------------------------------- MODULE Lexer --------------------------------
(***************************************************************************)
(* class Lexer: yylex generated by flex from c11parser.flex.l, and the     *)
(* checkToken filter of c11parser_lexer.h.                                 *)
(*                                                                         *)
(* One call of yylex matches rules until one of them returns a token.      *)
(* What is matched depends on flex's start condition; literals push and    *)
(* pop conditions on flex's stack, everything else switches with BEGIN.    *)
(* The input is any text: each step chooses the lexeme at the cursor from  *)
(* those the rules of the current start condition tell apart.              *)
(*                                                                         *)
(* pos, lineStart and previous are not in the code.  They say where the    *)
(* cursor really is, whether only white space precedes it on its line, and *)
(* which token came before the last one.                                   *)
(***************************************************************************)
EXTENDS Naturals, Sequences

CONSTANTS
  Ids,       \* spellings of identifiers
  MaxLine,   \* bound: lines of the input
  MaxColumn  \* bound: columns of a line

ASSUME LexerBounds == MaxLine \in Nat \ {0} /\ MaxColumn \in Nat \ {0}
ASSUME LexerIds == "none" \notin Ids

VARIABLES
  options,             \* LexerOptions
  cond,                \* flex's start condition, YY_START
  condStack,           \* flex's stack of start conditions
  ahead,               \* what yyless(0) or a greedy rule tells of the next character
  lexer_state,         \* checkToken's state
  identifierToLookup,
  loc,                 \* LexParam::loc
  typedefs,            \* the names for which LexParam::is_typedefname answers true
  inCall,              \* yylex is running
  token,               \* the token returned last
  thrown,              \* the lexeme a syntax_error was thrown for
  pos, lineStart, previous

scanner == <<cond, condStack, ahead>>
filter  == <<lexer_state, identifierToLookup>>
outside == <<options, typedefs>>
vars == <<scanner, filter, outside, loc, inCall, token, thrown, pos, lineStart, previous>>

Condition ==
  {"INITIAL", "INITIAL_LINEBEGIN", "MULTILINE_COMMENT", "SINGLELINE_COMMENT",
   "CHAR", "CHAR_LITERAL_END", "STRING_LITERAL", "HASH"}

\* Tokens that nothing below tells apart are one: OTHER stands for every
\* keyword and punctuator that has no name here.
Token == {"NAME", "TYPE", "VARIABLE", "ATOMIC", "LPAREN", "ATOMIC_LPAREN",
          "CONSTANT", "STRING_LITERAL", "OTHER", "YYEOF"}

\* What a syntax_error is thrown for
Lexeme == {"number", "gcc keyword", "form feed", "#", "other", "escape",
           "newline", "directive"}

Position == [line : 1..MaxLine, column : 1..MaxColumn]
FirstPosition == [line |-> 1, column |-> 1]

TypeOK ==
  /\ options \in [atomic_strict_syntax : BOOLEAN, enableGccExtensions : BOOLEAN]
  /\ cond \in Condition
  /\ condStack \in Seq(Condition)
  /\ ahead \in {"any", "nonspace", "literal", "eol"}
  /\ lexer_state \in {"SRegular", "SAtomic", "SIdent"}
  /\ identifierToLookup \in IF lexer_state = "SIdent" THEN Ids ELSE {"none"}
  /\ loc \in [begin : Position, end : Position]
  /\ typedefs \in SUBSET Ids
  /\ inCall \in BOOLEAN
  /\ token \in Token \cup {"none"}
  /\ thrown \in Lexeme \cup {"none"}
  /\ pos \in Position
  /\ lineStart \in BOOLEAN
  /\ previous \in Token \cup {"none"}

Init ==
  /\ options \in [atomic_strict_syntax : BOOLEAN, enableGccExtensions : BOOLEAN]
  /\ cond = "INITIAL_LINEBEGIN"         \* YY_USER_INIT
  /\ condStack = <<>>
  /\ ahead = "any"
  /\ lexer_state = "SRegular"
  /\ identifierToLookup = "none"
  /\ loc = [begin |-> FirstPosition, end |-> FirstPosition]
  /\ typedefs = {}
  /\ inCall = FALSE
  /\ token = "none"
  /\ thrown = "none"
  /\ pos = FirstPosition
  /\ lineStart = TRUE
  /\ previous = "none"

-----------------------------------------------------------------------------
(* location of bison's locations.bison.h *)

step == loc' = [loc EXCEPT !.begin = loc.end]
columns(n) == loc' = [loc EXCEPT !.end.column = @ + n]
lines(n) == loc' = [loc EXCEPT !.end = [line |-> @.line + n, column |-> 1]]

\* What the matched text really is: n characters of the current line, or
\* text that ends n lines further down.
Text(n) ==
  /\ pos.column + n <= MaxColumn
  /\ pos' = [pos EXCEPT !.column = @ + n]
LineEnd(n) ==
  /\ pos.line + n <= MaxLine
  /\ pos' = [line |-> pos.line + n, column |-> 1]

-----------------------------------------------------------------------------
(* Start conditions *)

BEGIN(c) == cond' = c /\ condStack' = condStack
yy_pop_state ==
  /\ cond' = condStack[Len(condStack)]
  /\ condStack' = SubSeq(condStack, 1, Len(condStack) - 1)
\* the last of several pushes in one rule is current
yy_push_states(cs) ==
  /\ cond' = cs[Len(cs)]
  /\ condStack' = condStack \o <<cond>> \o SubSeq(cs, 1, Len(cs) - 1)
\* yy_pop_state(); BEGIN(0): the popped condition is overwritten
PopAndBegin0 ==
  /\ cond' = "INITIAL"
  /\ condStack' = SubSeq(condStack, 1, Len(condStack) - 1)

\* The matching loop of a call is in start condition c, before any character
\* or before one that is already known not to end what c reads.
Matching(c) == inCall /\ cond = c /\ token # "YYEOF"
Fresh == ahead = "any" /\ ahead' = "any"
Consumed == ahead' = "any"

\* A rule without return: flex goes on matching.
GoesOn == UNCHANGED <<filter, outside, inCall, token, thrown, previous>>

-----------------------------------------------------------------------------
(* Returning and throwing *)

\* Mutant of checkToken: a NAME directly after _Atomic is not split.
checkTokenAtomicFirst(t, id) ==
  /\ lexer_state \in {"SAtomic", "SRegular"}
  /\ IF t = "NAME" /\ lexer_state = "SRegular"
     THEN identifierToLookup' = id /\ lexer_state' = "SIdent" /\ token' = t
     ELSE /\ UNCHANGED identifierToLookup
          /\ IF lexer_state = "SAtomic" /\ t = "LPAREN"
             THEN lexer_state' = "SRegular" /\ token' = "ATOMIC_LPAREN"
             ELSE /\ lexer_state' = IF t = "ATOMIC" /\ options.atomic_strict_syntax
                                    THEN "SAtomic" ELSE "SRegular"
                  /\ token' = t

\* Mutant of checkToken: another token does not reset SAtomic.
checkTokenKeepsAtomic(t, id) ==
  /\ lexer_state \in {"SAtomic", "SRegular"}
  /\ IF t = "NAME"
     THEN identifierToLookup' = id /\ lexer_state' = "SIdent" /\ token' = t
     ELSE /\ UNCHANGED identifierToLookup
          /\ IF lexer_state = "SAtomic" /\ t = "LPAREN"
             THEN lexer_state' = "SRegular" /\ token' = "ATOMIC_LPAREN"
             ELSE /\ lexer_state' = IF t = "ATOMIC" /\ options.atomic_strict_syntax
                                    THEN "SAtomic" ELSE lexer_state
                  /\ token' = t

\* checkToken of c11parser_lexer.h, called with a token t that carries id
checkToken(t, id) ==
  /\ lexer_state \in {"SAtomic", "SRegular"}
  /\ IF t = "NAME"
     THEN /\ identifierToLookup' = id
          /\ lexer_state' = "SIdent"
          /\ token' = t
     ELSE /\ UNCHANGED identifierToLookup
          /\ IF lexer_state = "SAtomic" /\ t = "LPAREN"
             THEN /\ lexer_state' = "SRegular"
                  /\ token' = "ATOMIC_LPAREN"
             ELSE /\ lexer_state' = IF t = "ATOMIC" /\ options.atomic_strict_syntax
                                    THEN "SAtomic" ELSE "SRegular"
                  /\ token' = t

Returns(t, id) ==
  /\ checkToken(t, id)
  /\ inCall' = FALSE
  /\ previous' = token
  /\ UNCHANGED <<outside, thrown>>

\* throw C11Parser::syntax_error: the parser reports it and gives up
Throws(lexeme) ==
  /\ thrown' = lexeme
  /\ inCall' = FALSE
  /\ UNCHANGED <<scanner, filter, outside, token, previous>>

-----------------------------------------------------------------------------
(* The parser's side *)

\* Mutant of Call: identifierToLookup is not cleared.
CallKeepsName ==
  /\ ~inCall
  /\ thrown = "none"
  /\ ~(token = "YYEOF" /\ previous = "YYEOF")
  /\ step
  /\ IF lexer_state = "SIdent"
     THEN /\ lexer_state' = "SRegular"
          /\ token' = IF identifierToLookup \in typedefs THEN "TYPE" ELSE "VARIABLE"
          /\ previous' = token
          /\ UNCHANGED <<inCall, identifierToLookup>>
     ELSE /\ inCall' = TRUE
          /\ UNCHANGED <<filter, token, previous>>
  /\ UNCHANGED <<scanner, outside, thrown, pos, lineStart>>

\* Mutant of Call: the lexer state is not looked at on entry.
CallMatches ==
  /\ ~inCall
  /\ thrown = "none"
  /\ ~(token = "YYEOF" /\ previous = "YYEOF")
  /\ step
  /\ inCall' = TRUE
  /\ UNCHANGED <<filter, token, previous, scanner, outside, thrown, pos, lineStart>>

\* C11Parser calls yylex after all input but YYEOF; the end is read twice.
Call ==
  /\ ~inCall
  /\ thrown = "none"
  /\ ~(token = "YYEOF" /\ previous = "YYEOF")
  /\ step
  /\ IF lexer_state = "SIdent"
     THEN /\ lexer_state' = "SRegular"
          /\ token' = IF identifierToLookup \in typedefs THEN "TYPE" ELSE "VARIABLE"
          /\ identifierToLookup' = "none"
          /\ previous' = token
          /\ UNCHANGED inCall
     ELSE /\ inCall' = TRUE
          /\ UNCHANGED <<filter, token, previous>>
  /\ UNCHANGED <<scanner, outside, thrown, pos, lineStart>>

\* Semantic actions declare names between two calls.
Declares(id) ==
  /\ ~inCall
  /\ typedefs' \in {typedefs \cup {id}, typedefs \ {id}}
  /\ UNCHANGED <<options, scanner, filter, loc, inCall, token, thrown, pos, lineStart, previous>>

-----------------------------------------------------------------------------
(* <INITIAL_LINEBEGIN> *)

\* Mutant of LineBeginNewlines: several newlines count as one line.
LineBeginOneLine(n) ==
  /\ Matching("INITIAL_LINEBEGIN") /\ Fresh
  /\ LineEnd(n) /\ lines(1)
  /\ lineStart' = TRUE
  /\ GoesOn /\ UNCHANGED <<cond, condStack>>

LineBeginNewlines(n) ==
  /\ Matching("INITIAL_LINEBEGIN") /\ Fresh
  /\ LineEnd(n) /\ lines(n)
  /\ lineStart' = TRUE
  /\ GoesOn /\ UNCHANGED <<cond, condStack>>

LineBeginWhitespace(n) ==
  /\ Matching("INITIAL_LINEBEGIN") /\ Fresh
  /\ Text(n) /\ columns(n)
  /\ GoesOn /\ UNCHANGED <<cond, condStack, lineStart>>

\* "#" or the digraph "%:"
LineBeginHash(n) ==
  /\ Matching("INITIAL_LINEBEGIN") /\ Fresh
  /\ Text(n) /\ columns(n)
  /\ BEGIN("HASH")
  /\ lineStart' = FALSE
  /\ GoesOn

\* any other character: BEGIN(0) and yyless(0) give it to the INITIAL rules
LineBeginOther ==
  /\ Matching("INITIAL_LINEBEGIN")
  /\ pos.column < MaxColumn
  /\ ahead = "any" /\ ahead' = "nonspace"
  /\ BEGIN("INITIAL")
  /\ GoesOn /\ UNCHANGED <<loc, pos, lineStart>>

-----------------------------------------------------------------------------
(* The rules of INITIAL *)

InInitial(n) ==
  /\ Matching("INITIAL")
  /\ Text(n) /\ columns(n)
  /\ lineStart' = FALSE

OpenComment ==
  /\ InInitial(2) /\ Consumed
  /\ BEGIN("MULTILINE_COMMENT")
  /\ GoesOn

OpenLineComment ==
  /\ InInitial(2) /\ Consumed
  /\ BEGIN("SINGLELINE_COMMENT")
  /\ GoesOn

\* Mutant of OpenChar: the conditions are pushed in the other order.
OpenCharSwapped(n) ==
  /\ InInitial(n) /\ Consumed
  /\ yy_push_states(<<"CHAR", "CHAR_LITERAL_END">>)
  /\ GoesOn

\* an optional prefix L, u or U and the single quote
OpenChar(n) ==
  /\ InInitial(n) /\ Consumed
  /\ yy_push_states(<<"CHAR_LITERAL_END", "CHAR">>)
  /\ GoesOn

OpenString(n) ==
  /\ InInitial(n) /\ Consumed
  /\ yy_push_states(<<"STRING_LITERAL">>)
  /\ GoesOn

\* A rule that returns a token of n characters
ReturnsToken(t, id, n) ==
  /\ InInitial(n) /\ Consumed
  /\ Returns(t, id)
  /\ UNCHANGED <<cond, condStack>>

\* integer_constant, decimal_floating_constant, hexadecimal_floating_constant
Constant == ReturnsToken("CONSTANT", "none", 1)

\* preprocessing_number that is not a constant
BadNumber == InInitial(1) /\ Throws("number")

Punctuator == \E t \in {"LPAREN", "OTHER"} : ReturnsToken(t, "none", 1)

Keyword == \E t \in {"ATOMIC", "OTHER"} : ReturnsToken(t, "none", 1)

\* Keywords of GCC are errors unless the extensions are on.
GccKeyword ==
  IF options.enableGccExtensions
  THEN ReturnsToken("OTHER", "none", 1)
  ELSE InInitial(1) /\ Throws("gcc keyword")

Identifier(id, n) == ReturnsToken("NAME", id, n)

\* A character no rule of INITIAL begins with.  White space and "#" are not
\* left by INITIAL_LINEBEGIN for INITIAL.
Catchall(lexeme) ==
  /\ InInitial(1)
  /\ lexeme = "#" => ahead = "any"
  /\ Throws(lexeme)

\* Mutant of Newline: INITIAL goes on.
NewlineStays ==
  /\ Matching("INITIAL") /\ Fresh
  /\ LineEnd(1) /\ lines(1)
  /\ lineStart' = TRUE
  /\ GoesOn /\ UNCHANGED <<cond, condStack>>

Newline ==
  /\ Matching("INITIAL") /\ Fresh
  /\ LineEnd(1) /\ lines(1)
  /\ BEGIN("INITIAL_LINEBEGIN")
  /\ lineStart' = TRUE
  /\ GoesOn

Whitespace(n) ==
  /\ Matching("INITIAL") /\ Fresh
  /\ Text(n) /\ columns(n)
  /\ GoesOn /\ UNCHANGED <<cond, condStack, lineStart>>

-----------------------------------------------------------------------------
(* Comments *)

CommentEnd ==
  /\ Matching("MULTILINE_COMMENT") /\ Fresh
  /\ Text(2) /\ columns(2)
  /\ BEGIN("INITIAL")
  /\ GoesOn /\ UNCHANGED lineStart

CommentNewline ==
  /\ Matching("MULTILINE_COMMENT") /\ Fresh
  /\ LineEnd(1) /\ lines(1)
  /\ GoesOn /\ UNCHANGED <<cond, condStack, lineStart>>

CommentText ==
  /\ Matching("MULTILINE_COMMENT") /\ Fresh
  /\ Text(1) /\ columns(1)
  /\ GoesOn /\ UNCHANGED <<cond, condStack, lineStart>>

LineCommentEnd ==
  /\ Matching("SINGLELINE_COMMENT") /\ ahead \in {"any", "eol"} /\ Consumed
  /\ LineEnd(1) /\ lines(1)
  /\ BEGIN("INITIAL_LINEBEGIN")
  /\ lineStart' = TRUE
  /\ GoesOn

\* .+ takes all of the line
LineCommentText(n) ==
  /\ Matching("SINGLELINE_COMMENT") /\ ahead = "any" /\ ahead' = "eol"
  /\ Text(n) /\ columns(n)
  /\ GoesOn /\ UNCHANGED <<cond, condStack, lineStart>>

-----------------------------------------------------------------------------
(* Character and string literals *)

\* one character, or a valid escape sequence
CharMatched(n) ==
  /\ Matching("CHAR") /\ ahead \in {"any", "literal"} /\ Consumed
  /\ Text(n) /\ columns(n)
  /\ yy_pop_state
  /\ GoesOn /\ UNCHANGED lineStart

CharBadEscape ==
  /\ Matching("CHAR") /\ ahead \in {"any", "literal"}
  /\ Text(2) /\ columns(2)
  /\ Throws("escape") /\ UNCHANGED lineStart

\* the catchall rule: only directly after the opening single quote
CharNewline ==
  /\ Matching("CHAR") /\ Fresh
  /\ LineEnd(1) /\ lines(1)
  /\ Throws("newline") /\ lineStart' = TRUE

\* Mutant of LiteralEnd: BEGIN(0) without yy_pop_state.
LiteralEndBegins(c, t) ==
  /\ Matching(c) /\ Fresh
  /\ Text(1) /\ columns(1)
  /\ BEGIN("INITIAL")
  /\ Returns(t, "none") /\ UNCHANGED lineStart

\* the closing quote of a character constant or a string
LiteralEnd(c, t) ==
  /\ Matching(c) /\ Fresh
  /\ Text(1) /\ columns(1)
  /\ PopAndBegin0
  /\ Returns(t, "none") /\ UNCHANGED lineStart

LiteralNewline(c) ==
  /\ Matching(c) /\ Fresh
  /\ LineEnd(1) /\ lines(1)
  /\ Throws("newline") /\ lineStart' = TRUE

\* Mutant of LiteralMore: yyless(0) without the push.
LiteralMoreAgain(c) ==
  /\ Matching(c)
  /\ pos.column < MaxColumn
  /\ ahead \in {"any", "literal"} /\ ahead' = "literal"
  /\ GoesOn /\ UNCHANGED <<cond, condStack, loc, pos, lineStart>>

\* any other character: yyless(0) leaves it to the CHAR rules
LiteralMore(c) ==
  /\ Matching(c)
  /\ pos.column < MaxColumn
  /\ ahead = "any" /\ ahead' = "literal"
  /\ yy_push_states(<<"CHAR">>)
  /\ GoesOn /\ UNCHANGED <<loc, pos, lineStart>>

-----------------------------------------------------------------------------
(* <HASH>: line markers and pragmas are skipped with their newline *)

HashLine ==
  /\ Matching("HASH") /\ Fresh
  /\ LineEnd(1) /\ lines(1)
  /\ BEGIN("INITIAL_LINEBEGIN")
  /\ lineStart' = TRUE
  /\ GoesOn

\* .* takes all of a line that is neither
HashText(n) ==
  /\ Matching("HASH") /\ ahead = "any" /\ ahead' = "eol"
  /\ Text(n) /\ columns(n)
  /\ GoesOn /\ UNCHANGED <<cond, condStack, lineStart>>

\* the catchall rule meets the newline that .* left
HashNewline ==
  /\ Matching("HASH") /\ ahead \in {"any", "eol"}
  /\ LineEnd(1) /\ lines(1)
  /\ Throws("directive") /\ lineStart' = TRUE

-----------------------------------------------------------------------------
\* End of input, in any start condition: yyterminate
EndOfFile ==
  /\ inCall
  /\ ahead \in {"any", "eol"}
  /\ Returns("YYEOF", "none")
  /\ UNCHANGED <<scanner, loc, pos, lineStart>>

\* A flex rule of the running call matches.
Rule ==
  \/ \E n \in 1..2 :
       \/ LineBeginNewlines(n) \/ LineBeginWhitespace(n) \/ LineBeginHash(n)
       \/ OpenChar(n) \/ OpenString(n) \/ Whitespace(n)
       \/ LineCommentText(n) \/ CharMatched(n) \/ HashText(n)
       \/ \E id \in Ids : Identifier(id, n)
  \/ LineBeginOther
  \/ OpenComment \/ OpenLineComment
  \/ Constant \/ BadNumber \/ Punctuator \/ Keyword \/ GccKeyword
  \/ \E lexeme \in {"form feed", "#", "other"} : Catchall(lexeme)
  \/ Newline
  \/ CommentEnd \/ CommentNewline \/ CommentText \/ LineCommentEnd
  \/ CharBadEscape \/ CharNewline
  \/ LiteralEnd("CHAR_LITERAL_END", "CONSTANT") \/ LiteralEnd("STRING_LITERAL", "STRING_LITERAL")
  \/ \E c \in {"CHAR_LITERAL_END", "STRING_LITERAL"} : LiteralNewline(c) \/ LiteralMore(c)
  \/ HashLine \/ HashNewline
  \/ EndOfFile

Next == Call \/ (\E id \in Ids : Declares(id)) \/ Rule

\* A call that was made runs on: yylex has no wait in it.
Spec == Init /\ [][Next]_vars /\ WF_vars(Rule)

-----------------------------------------------------------------------------
(* What the lexer promises. *)

\* flex's stack holds what the current condition was entered from and nothing
\* older: no literal leaves an entry behind, and no pop finds the stack empty.
StartConditions ==
  /\ cond \notin {"CHAR", "CHAR_LITERAL_END", "STRING_LITERAL"} => condStack = <<>>
  /\ cond \in {"CHAR_LITERAL_END", "STRING_LITERAL"} => condStack = <<"INITIAL">>
  /\ cond = "CHAR" =>
       condStack \in {<<"INITIAL", "CHAR_LITERAL_END">>, <<"INITIAL", "STRING_LITERAL">>}

\* Every token leaves the scanner ready for any other: a literal returns to
\* INITIAL although it ends under two pushes, and no yyless(0) is pending.
CleanBetweenCalls ==
  (~inCall /\ thrown = "none" /\ token \notin {"none", "YYEOF"}) =>
    cond = "INITIAL" /\ condStack = <<>> /\ ahead = "any"

\* The end of the location is the place of the cursor, on every path through
\* the rules, those that give characters back or swallow a newline included.
LocationExact == loc.end = pos

\* "SIdent ... should never occur here since it is checked at yylex entry"
\* (checkToken): no rule of flex runs between the halves of a split token.
NeverMatchesInSIdent == inCall => lexer_state # "SIdent"

\* yylex returns a token in this step.
TokenReturned ==
  \/ inCall /\ ~inCall' /\ thrown' = "none"
  \/ ~inCall /\ lexer_state = "SIdent" /\ lexer_state' # "SIdent"

\* TYPE or VARIABLE comes right after NAME and only there, without consuming
\* any input, whatever white space, comment or directive follows the name.
SplitTokens ==
  [][TokenReturned =>
       /\ token' \in {"TYPE", "VARIABLE"} <=> token = "NAME"
       /\ token = "NAME" => identifierToLookup \in Ids /\ pos' = pos]_vars

\* In strict syntax a parenthesis is ATOMIC_LPAREN exactly when the token
\* before it is _Atomic; the state survives what is skipped between the two
\* and does not survive any other token.
AtomicParenthesis ==
  [][TokenReturned /\ token' \in {"LPAREN", "ATOMIC_LPAREN"} =>
       (token' = "ATOMIC_LPAREN" <=> token = "ATOMIC" /\ options.atomic_strict_syntax)]_vars

\* A "#" starts a directive exactly where only blanks precede it on its line:
\* elsewhere it is an error, never a silently skipped line, and there it is
\* never an error.
DirectivesAtLineStart ==
  [][/\ cond # "HASH" /\ cond' = "HASH" => lineStart
     /\ thrown' = "#" /\ thrown = "none" => ~lineStart]_vars

Kind(t) == IF t \in {"none", "NAME", "TYPE", "VARIABLE"} THEN t ELSE "OTHER"

Feedback ==
  INSTANCE LexicalFeedback WITH token <- Kind(token), name <- identifierToLookup

\* checkToken and the lookup at yylex's entry implement the split token, under
\* any text, white space, comments and directives between and around the halves.
ImplementsFeedback == Feedback!Spec

\* Every call of yylex ends: rules that consume nothing (yyless(0)) never
\* alternate for ever.
CallReturns == inCall ~> ~inCall

(* What the sources say and the rules do not do. *)

\* "whitespace except newline, same as [ \t\v\f\r]" (c11parser.flex.l:875):
\* no form feed is bad input.
FormFeedIsWhitespace == thrown # "form feed"

\* "prints nothing if input is valid, otherwise it prints an error message"
\* (c11parser.bison.y:1460): the end of the input is not reached, as if all
\* were well, inside a literal or a comment.
EndsOutsideLiterals ==
  token = "YYEOF" =>
    cond \notin {"CHAR", "CHAR_LITERAL_END", "STRING_LITERAL", "MULTILINE_COMMENT"}
=============================================================================
