------------------------------ MODULE Session ------------------------------
(***************************************************************************)
(* The objects a client hands to C11Parser, over any number of parses.     *)
(*                                                                         *)
(* A parse borrows a BisonParam, a LexParam and, through the lambda the    *)
(* client wraps yylex in, a Lexer.  All three outlive it, keep what it      *)
(* left in them, and may be used again, in other combinations, by the next *)
(* parse or by the client itself, as the lexer's unit tests do.  Nothing    *)
(* but the initial action of c11parser.bison.y prepares them.               *)
(*                                                                         *)
(* The grammar is reduced to what it does to the objects; Parser has the   *)
(* rest.  fileScope, failed, users, lexed and left are not in the code:     *)
(* they tell how the objects came to be as they are.                        *)
(***************************************************************************)
EXTENDS Naturals, Sequences, Context

CONSTANTS
  Ids,          \* spellings of identifiers
  BisonParams, LexParams, Lexers,
  MaxDepth,     \* bound: snapshots live at once
  MaxLine       \* bound: lines read

ASSUME SessionBounds == MaxDepth \in Nat /\ MaxLine \in Nat \ {0}
ASSUME SessionNames == "none" \notin Ids /\ {"none", "client"} \cap BisonParams = {}

VARIABLES
  contexts,             \* BisonParam::context
  alive,                \* the BisonParams not yet destroyed
  callback,             \* LexParam::is_typedefname, by whose answers it gives
  named,                \* the LexParams whose loc has a file name
  line,                 \* LexParam::loc.end.line
  at,                   \* the line a Lexer's input has been read to
  ended,                \* the Lexers whose input has been read to its end
  lexer_state,          \* Lexer::lexer_state
  identifierToLookup,   \* Lexer::identifierToLookup
  parse,                \* the parse running, with its last token and snapshots
  fileScope,            \* the typedef names a BisonParam's parses left at file scope
  failed,               \* the BisonParams a parse of which was given up
  users,                \* who used or set up a LexParam
  lexed,                \* which LexParam was used with which Lexer
  left                  \* the Lexers whose last caller went away after a NAME

bisonParam == <<contexts, fileScope, alive>>
lexParam == <<callback, named, line>>
lexer == <<at, ended, lexer_state, identifierToLookup>>
history == <<failed, users, lexed, left>>
vars == <<bisonParam, lexParam, lexer, parse, history>>

Token == {"NAME", "TYPE", "VARIABLE", "ATOMIC", "OTHER", "YYEOF"}
NoParse == [bp |-> "none", lp |-> "none", lx |-> "none", last |-> "none", snapshots |-> <<>>]

\* last: no token so far, or the last one, or one no program starts with
Parses ==
  [bp : BisonParams, lp : LexParams, lx : Lexers,
   last : Token \cup {"none", "rejected"}, snapshots : Seq(SUBSET Ids)]

TypeOK ==
  /\ contexts \in [BisonParams -> SUBSET Ids]
  /\ fileScope \in [BisonParams -> SUBSET Ids]
  /\ alive \in SUBSET BisonParams
  /\ callback \in [LexParams -> BisonParams \cup {"none", "client"}]
  /\ named \in SUBSET LexParams
  /\ line \in [LexParams -> 1..MaxLine]
  /\ at \in [Lexers -> 1..MaxLine]
  /\ ended \in SUBSET Lexers
  /\ lexer_state \in [Lexers -> {"SRegular", "SAtomic", "SIdent"}]
  /\ identifierToLookup \in [Lexers -> Ids \cup {"none"}]
  /\ \A lx \in Lexers : lexer_state[lx] = "SIdent" => identifierToLookup[lx] \in Ids
  /\ parse \in Parses \cup {NoParse}
  /\ parse # NoParse => parse.bp \in alive /\ callback[parse.lp] # "none"
  /\ failed \in SUBSET BisonParams
  /\ users \in [LexParams -> SUBSET (BisonParams \cup {"client"})]
  /\ lexed \in SUBSET (LexParams \X Lexers)
  /\ left \in SUBSET Lexers

Init ==
  /\ contexts = [bp \in BisonParams |-> {}]
  /\ fileScope = contexts
  /\ alive = BisonParams
  /\ callback = [lp \in LexParams |-> "none"]
  /\ named \in SUBSET LexParams              \* LexParam{.loc = location(&name)}
  /\ line = [lp \in LexParams |-> 1]
  /\ at = [lx \in Lexers |-> 1]
  /\ ended = {}
  /\ lexer_state = [lx \in Lexers |-> "SRegular"]
  /\ identifierToLookup = [lx \in Lexers |-> "none"]
  /\ parse = NoParse
  /\ failed = {}
  /\ users = [lp \in LexParams |-> {}]
  /\ lexed = {}
  /\ left = {}

-----------------------------------------------------------------------------
(* The initial action *)

Starts(bp, lp, lx) ==
  /\ parse = NoParse
  /\ bp \in alive
  /\ parse' = [bp |-> bp, lp |-> lp, lx |-> lx, last |-> "none", snapshots |-> <<>>]
  /\ users' = [users EXCEPT ![lp] = @ \cup {bp}]
  /\ lexed' = lexed \cup {<<lp, lx>>}
  /\ UNCHANGED <<bisonParam, lexer, failed, left>>

\* Mutant of Parse: the callback is installed together with the file name.
ParseInstallsOnce(bp, lp, lx) ==
  /\ Starts(bp, lp, lx)
  /\ named' = named \cup {lp}
  /\ line' = IF lp \in named THEN line ELSE [line EXCEPT ![lp] = 1]
  /\ callback' = IF lp \in named THEN callback ELSE [callback EXCEPT ![lp] = bp]

\* Mutant of Parse: the location starts over in every parse.
ParseStartsOver(bp, lp, lx) ==
  /\ Starts(bp, lp, lx)
  /\ named' = named \cup {lp}
  /\ line' = [line EXCEPT ![lp] = 1]
  /\ callback' = IF callback[lp] = "none" THEN [callback EXCEPT ![lp] = bp] ELSE callback

Parse(bp, lp, lx) ==
  /\ Starts(bp, lp, lx)
  /\ named' = named \cup {lp}
  /\ line' = IF lp \in named THEN line ELSE [line EXCEPT ![lp] = 1]
  /\ callback' = IF callback[lp] = "none" THEN [callback EXCEPT ![lp] = bp] ELSE callback

-----------------------------------------------------------------------------
(* Lexer::yylex *)

\* n ends of lines are read on the way to the token.
Reads(lp, lx, n) ==
  /\ line[lp] + n <= MaxLine /\ at[lx] + n <= MaxLine
  /\ line' = [line EXCEPT ![lp] = @ + n]
  /\ at' = [at EXCEPT ![lx] = @ + n]

\* Mutant of Answers: the callback holds a copy of a Context still empty.
AnswersByCopy(lp, id) ==
  IF callback[lp] = "none" THEN {"bad_function_call"}
  ELSE IF callback[lp] \in alive THEN {"VARIABLE"}
  ELSE {"TYPE", "VARIABLE"}

\* What calling is_typedefname gives: a client's own callback answers as it
\* likes, and so may a reference to a Context that is gone; an empty function
\* throws.
Answers(lp, id) ==
  IF callback[lp] = "none" THEN {"bad_function_call"}
  ELSE IF callback[lp] \in alive
  THEN {IF is_typedefname(contexts[callback[lp]], id) THEN "TYPE" ELSE "VARIABLE"}
  ELSE {"TYPE", "VARIABLE"}

\* Mutant of SecondHalf: the state is left only when the answer is there.
SecondHalfResetsLate(lp, lx, t) ==
  /\ lexer_state[lx] = "SIdent"
  /\ t \in Answers(lp, identifierToLookup[lx])
  /\ lexer_state' =
       IF t = "bad_function_call" THEN lexer_state ELSE [lexer_state EXCEPT ![lx] = "SRegular"]
  /\ identifierToLookup' =
       IF t = "bad_function_call" THEN identifierToLookup
       ELSE [identifierToLookup EXCEPT ![lx] = "none"]
  /\ UNCHANGED <<line, at, ended>>

\* The state is left before the callback is called, the name cleared after.
SecondHalf(lp, lx, t) ==
  /\ lexer_state[lx] = "SIdent"
  /\ t \in Answers(lp, identifierToLookup[lx])
  /\ lexer_state' = [lexer_state EXCEPT ![lx] = "SRegular"]
  /\ identifierToLookup' =
       IF t = "bad_function_call" THEN identifierToLookup
       ELSE [identifierToLookup EXCEPT ![lx] = "none"]
  /\ UNCHANGED <<line, at, ended>>

FirstHalf(lp, lx, t) ==
  /\ t = "NAME"
  /\ lexer_state[lx] # "SIdent" /\ lx \notin ended
  /\ lexer_state' = [lexer_state EXCEPT ![lx] = "SIdent"]
  /\ \E id \in Ids : identifierToLookup' = [identifierToLookup EXCEPT ![lx] = id]
  /\ \E n \in 0..1 : Reads(lp, lx, n)
  /\ UNCHANGED ended

\* Once at the end of its input a Lexer stays there.
OtherToken(lp, lx, t) ==
  /\ t \in IF lx \in ended THEN {"YYEOF"} ELSE {"ATOMIC", "OTHER", "YYEOF"}
  /\ lexer_state[lx] # "SIdent"
  /\ lexer_state' = [lexer_state EXCEPT ![lx] = IF t = "ATOMIC" THEN "SAtomic" ELSE "SRegular"]
  /\ IF lx \in ended THEN UNCHANGED <<line, at>> ELSE \E n \in 0..1 : Reads(lp, lx, n)
  /\ ended' = IF t = "YYEOF" THEN ended \cup {lx} ELSE ended
  /\ UNCHANGED identifierToLookup

yylex(lp, lx, t) ==
  /\ \/ SecondHalf(lp, lx, t)
     \/ FirstHalf(lp, lx, t)
     \/ OtherToken(lp, lx, t)
  /\ UNCHANGED <<callback, named>>

Outcome == Token \cup {"bad_function_call"}

-----------------------------------------------------------------------------
(* The client, between parses *)

\* yylex called by the client
ClientYylex(lp, lx) ==
  /\ parse = NoParse
  /\ \E t \in Outcome :
       /\ yylex(lp, lx, t)
       /\ left' = IF t = "NAME" THEN left \cup {lx} ELSE left \ {lx}
  /\ users' = [users EXCEPT ![lp] = @ \cup {"client"}]
  /\ lexed' = lexed \cup {<<lp, lx>>}
  /\ UNCHANGED <<bisonParam, parse, failed>>

\* lexParam.is_typedefname = ...
SetCallback(lp) ==
  /\ parse = NoParse
  /\ callback' = [callback EXCEPT ![lp] = "client"]
  /\ users' = [users EXCEPT ![lp] = @ \cup {"client"}]
  /\ UNCHANGED <<bisonParam, named, line, lexer, parse, failed, lexed, left>>

\* A BisonParam goes out of scope; a LexParam may still refer to it.
DestroyBisonParam(bp) ==
  /\ parse = NoParse
  /\ alive' = alive \ {bp}
  /\ UNCHANGED <<contexts, fileScope, lexParam, lexer, parse, history>>

-----------------------------------------------------------------------------
(* The running parse *)

Running == parse # NoParse /\ parse.last # "rejected"
Goes(last, snapshots) == parse' = [parse EXCEPT !.last = last, !.snapshots = snapshots]

\* The parse ends; what it did to the objects stays done.
Ends ==
  /\ parse' = NoParse
  /\ left' = IF parse.last = "NAME" THEN left \cup {parse.lx} ELSE left \ {parse.lx}

\* No program starts with the second half of an identifier, or is empty.
ParserYylex ==
  /\ Running
  /\ \E t \in Outcome :
       /\ yylex(parse.lp, parse.lx, t)
       /\ IF t = "bad_function_call" THEN Ends /\ failed' = failed \cup {parse.bp}
          ELSE /\ Goes(IF parse.last = "none" /\ t \in {"TYPE", "VARIABLE", "YYEOF"}
                       THEN "rejected" ELSE t, parse.snapshots)
               /\ UNCHANGED <<failed, left>>
  /\ UNCHANGED <<bisonParam, users, lexed>>

\* A semantic action that works on the BisonParam's Context.
Acts(current, snapshots) ==
  /\ contexts' = [contexts EXCEPT ![parse.bp] = current]
  /\ Goes(parse.last, snapshots)
  /\ UNCHANGED <<alive, lexParam, lexer, history>>

\* save_context at the start of a scope; before a function body another set is
\* put in its place.
Save ==
  /\ Running
  /\ Len(parse.snapshots) < MaxDepth
  /\ \E current \in SUBSET Ids :
       Acts(current, Append(parse.snapshots, save_context(contexts[parse.bp])))
  /\ UNCHANGED fileScope

\* Mutant of Restore: nothing is restored.
RestoreKeepsContext ==
  /\ Running
  /\ parse.snapshots # <<>>
  /\ LET last == Len(parse.snapshots)
     IN  Acts(contexts[parse.bp], SubSeq(parse.snapshots, 1, last - 1))
  /\ UNCHANGED fileScope

Restore ==
  /\ Running
  /\ parse.snapshots # <<>>
  /\ LET last == Len(parse.snapshots)
     IN  Acts(restore_context(parse.snapshots[last]), SubSeq(parse.snapshots, 1, last - 1))
  /\ UNCHANGED fileScope

\* declarator_typedefname; declarator_varname, enumerator
Declares ==
  /\ Running
  /\ \E id \in Ids :
       LET current == contexts[parse.bp]
       IN  \E declared \in {declare_typedefname(current, id), declare_varname(current, id)} :
             /\ Acts(declared, parse.snapshots)
             /\ fileScope' =
                  IF parse.snapshots = <<>> THEN [fileScope EXCEPT ![parse.bp] = declared]
                  ELSE fileScope

\* parse() returns 0: the end of the file, every scope left.
Accepts ==
  /\ Running
  /\ parse.last = "YYEOF"
  /\ parse.snapshots = <<>>
  /\ Ends
  /\ UNCHANGED <<bisonParam, lexParam, lexer, failed, users, lexed>>

\* parse() returns 1, for a token that does not fit or a syntax_error thrown by
\* a rule of the scanner.  There is no error recovery, and no action runs.
SyntaxError ==
  /\ parse # NoParse
  /\ \/ parse.last # "none" /\ UNCHANGED <<line, at>>
     \/ /\ Running
        /\ lexer_state[parse.lx] # "SIdent" /\ parse.lx \notin ended
        /\ \E n \in 0..1 : Reads(parse.lp, parse.lx, n)
  /\ Ends
  /\ failed' = failed \cup {parse.bp}
  /\ UNCHANGED <<bisonParam, callback, named, ended, lexer_state, identifierToLookup, users, lexed>>

Next ==
  \/ \E bp \in BisonParams, lp \in LexParams, lx \in Lexers : Parse(bp, lp, lx)
  \/ \E lp \in LexParams, lx \in Lexers : ClientYylex(lp, lx)
  \/ \E lp \in LexParams : SetCallback(lp)
  \/ \E bp \in BisonParams : DestroyBisonParam(bp)
  \/ ParserYylex
  \/ Save
  \/ Restore
  \/ Declares
  \/ Accepts
  \/ SyntaxError

Spec == Init /\ [][Next]_vars

-----------------------------------------------------------------------------
(* What the objects keep from one parse to the next. *)

\* A parse classifies names by its own Context if its LexParam has served no
\* other: the callback of the initial action is installed once and refers to
\* the BisonParam of that parse for good (%initial-action).
OwnContext ==
  [][(ParserYylex /\ parse.last = "NAME" /\ users[parse.lp] = {parse.bp}) =>
       (parse'.last = "TYPE" <=> identifierToLookup[parse.lx] \in contexts[parse.bp])]_vars

\* A parse always gives a result: the lookup of a name never finds an empty
\* callback, whatever the client did with the objects before (yylex at entry).
NeverThrows == [][ParserYylex => parse' # NoParse]_vars

\* Unless one was given up, the parses on a BisonParam leave in its Context the
\* typedef names of the file scope and no others, and keep them safe in the
\* outermost snapshot meanwhile (restore_context in the scoped_ rules).
FileScopeKept ==
  \A bp \in BisonParams \ failed :
    IF parse.bp # bp \/ parse.snapshots = <<>>
    THEN contexts[bp] = fileScope[bp]
    ELSE parse.snapshots[1] = fileScope[bp]

\* A LexParam and a Lexer that parses used only with each other agree on the
\* line, however many parses were given up on the way: a retry goes on counting
\* where the input goes on (loc.initialize in %initial-action).
Mates(lp, lx) ==
  /\ <<lp, lx>> \in lexed
  /\ \A pair \in lexed : pair[1] = lp <=> pair[2] = lx
LinesAgree ==
  \A lp \in LexParams, lx \in Lexers :
    Mates(lp, lx) /\ "client" \notin users[lp] => line[lp] = at[lx]

\* The first token of a parse is a second half only if the Lexer's last caller
\* went away between the halves: a lookup that throws leaves no half behind
\* (lexer_state is reset before is_typedefname is called).
NoStrayHalf ==
  \A lx \in Lexers \ left :
    lexer_state[lx] = "SIdent" => parse.lx = lx /\ parse.last = "NAME"
=============================================================================
