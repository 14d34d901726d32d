---------------------------- MODULE SessionProofs ----------------------------
(***************************************************************************)
(* Proofs about Session for any number of objects, names, lines and scopes. *)
(*                                                                         *)
(* IInv ties the objects to how they came to be as they are: a callback     *)
(* belongs to somebody who used its LexParam, a LexParam that served a      *)
(* parse has a file name, what was never used stands at line 1, and the    *)
(* state of the Lexer in use follows from the last token of the parse.      *)
(***************************************************************************)
EXTENDS Session, SequenceTheorems, TLAPS

CallbackOfUser == \A lp \in LexParams : callback[lp] \in users[lp] \cup {"none"}

ParseRegistered ==
  parse # NoParse =>
    /\ parse.bp \in users[parse.lp]
    /\ <<parse.lp, parse.lx>> \in lexed

\* Everything that was used has a user; what a parse used has a file name.
UseRecorded ==
  \A lp \in LexParams :
    /\ (\E lx \in Lexers : <<lp, lx>> \in lexed) => users[lp] # {}
    /\ lp \notin named => users[lp] \subseteq {"client"}

UnusedAtFirstLine ==
  /\ \A lp \in LexParams : (\A lx \in Lexers : <<lp, lx>> \notin lexed) => line[lp] = 1
  /\ \A lx \in Lexers : (\A lp \in LexParams : <<lp, lx>> \notin lexed) => at[lx] = 1

\* The token a parse has just read tells its Lexer's state.
StateFollowsToken ==
  parse # NoParse =>
    /\ parse.last = "NAME" => lexer_state[parse.lx] = "SIdent"
    /\ parse.last \notin {"NAME", "none"} => lexer_state[parse.lx] # "SIdent"

IInv ==
  /\ TypeOK
  /\ CallbackOfUser
  /\ ParseRegistered
  /\ UseRecorded
  /\ UnusedAtFirstLine
  /\ StateFollowsToken
  /\ FileScopeKept
  /\ LinesAgree
  /\ NoStrayHalf

-----------------------------------------------------------------------------
(* Initial states *)

LEMMA Start == Init => IInv
<1> SUFFICES ASSUME Init PROVE IInv
  OBVIOUS
<1>1. TypeOK
  BY SessionBounds DEF Init, TypeOK
<1>2. CallbackOfUser /\ ParseRegistered /\ StateFollowsToken
  BY DEF Init, CallbackOfUser, ParseRegistered, StateFollowsToken
<1>3. UseRecorded /\ UnusedAtFirstLine
  BY DEF Init, UseRecorded, UnusedAtFirstLine
<1>4. FileScopeKept
  BY SessionNames DEF Init, FileScopeKept, NoParse
<1>5. LinesAgree /\ NoStrayHalf
  BY DEF Init, LinesAgree, Mates, NoStrayHalf
<1> QED
  BY <1>1, <1>2, <1>3, <1>4, <1>5 DEF IInv
-----------------------------------------------------------------------------
(* What a call of yylex does, whoever calls it *)

LEMMA ReadsShape ==
  ASSUME TypeOK, NEW lp \in LexParams, NEW lx \in Lexers, NEW n \in 0..1, Reads(lp, lx, n)
  PROVE  /\ line' \in [LexParams -> 1..MaxLine] /\ at' \in [Lexers -> 1..MaxLine]
         /\ \A p \in LexParams : p # lp => line'[p] = line[p]
         /\ \A x \in Lexers : x # lx => at'[x] = at[x]
         /\ line[lp] = at[lx] => line'[lp] = at'[lx]
<1>1. line[lp] + n \in 1..MaxLine /\ at[lx] + n \in 1..MaxLine
  BY SessionBounds DEF TypeOK, Reads
<1>2. line' = [line EXCEPT ![lp] = line[lp] + n] /\ at' = [at EXCEPT ![lx] = at[lx] + n]
  BY DEF Reads
<1> QED
  BY <1>1, <1>2 DEF TypeOK

LEMMA YylexReads ==
  ASSUME TypeOK, NEW lp \in LexParams, NEW lx \in Lexers, NEW t, yylex(lp, lx, t)
  PROVE  /\ line' \in [LexParams -> 1..MaxLine] /\ at' \in [Lexers -> 1..MaxLine]
         /\ \A p \in LexParams : p # lp => line'[p] = line[p]
         /\ \A x \in Lexers : x # lx => at'[x] = at[x]
         /\ line[lp] = at[lx] => line'[lp] = at'[lx]
<1>1. CASE UNCHANGED <<line, at>>
  BY <1>1 DEF TypeOK
<1>2. CASE \E n \in 0..1 : Reads(lp, lx, n)
  <2>1. PICK n \in 0..1 : Reads(lp, lx, n)
    BY <1>2
  <2> QED
    BY <2>1, ReadsShape
<1> QED
  BY <1>1, <1>2 DEF yylex, SecondHalf, FirstHalf, OtherToken

LEMMA YylexStates ==
  ASSUME TypeOK, NEW lp \in LexParams, NEW lx \in Lexers, NEW t, yylex(lp, lx, t)
  PROVE  /\ lexer_state' \in [Lexers -> {"SRegular", "SAtomic", "SIdent"}]
         /\ identifierToLookup' \in [Lexers -> Ids \cup {"none"}]
         /\ \A x \in Lexers : lexer_state'[x] = "SIdent" => identifierToLookup'[x] \in Ids
         /\ \A x \in Lexers : x # lx => lexer_state'[x] = lexer_state[x]
         /\ lexer_state'[lx] = "SIdent" <=> t = "NAME"
         /\ ended' \in SUBSET Lexers
<1>1. CASE SecondHalf(lp, lx, t)
  <2>1. t # "NAME"
    BY <1>1 DEF SecondHalf, Answers
  <2> QED
    BY <1>1, <2>1 DEF SecondHalf, TypeOK
<1>2. CASE FirstHalf(lp, lx, t)
  <2>1. PICK id \in Ids : identifierToLookup' = [identifierToLookup EXCEPT ![lx] = id]
    BY <1>2 DEF FirstHalf
  <2> QED
    BY <1>2, <2>1 DEF FirstHalf, TypeOK
<1>3. CASE OtherToken(lp, lx, t)
  <2>1. t \in {"ATOMIC", "OTHER", "YYEOF"} /\ identifierToLookup' = identifierToLookup
    BY <1>3 DEF OtherToken
  <2>2. lexer_state' =
          [lexer_state EXCEPT ![lx] = IF t = "ATOMIC" THEN "SAtomic" ELSE "SRegular"]
    BY <1>3 DEF OtherToken
  <2>3. ended' \in SUBSET Lexers
    BY <1>3 DEF OtherToken, TypeOK
  <2> QED
    BY <2>1, <2>2, <2>3 DEF TypeOK
<1> QED
  BY <1>1, <1>2, <1>3 DEF yylex

\* The lookup of a parse always has a callback to call.
LEMMA ParserNeverThrows ==
  ASSUME TypeOK, NEW t, parse # NoParse, yylex(parse.lp, parse.lx, t)
  PROVE  t \in Token
<1>1. callback[parse.lp] # "none"
  BY DEF TypeOK
<1>2. CASE SecondHalf(parse.lp, parse.lx, t)
  BY <1>1, <1>2 DEF SecondHalf, Answers, Token
<1>3. CASE FirstHalf(parse.lp, parse.lx, t)
  BY <1>3 DEF FirstHalf, Token
<1>4. CASE OtherToken(parse.lp, parse.lx, t)
  BY <1>4 DEF OtherToken, Token
<1> QED
  BY <1>2, <1>3, <1>4 DEF yylex

\* What the running parse is made of; there is none between parses.
LEMMA ParseShape ==
  ASSUME TypeOK, parse # NoParse
  PROVE  /\ parse.bp \in BisonParams /\ parse.bp \in alive
         /\ parse.lp \in LexParams /\ parse.lx \in Lexers
         /\ parse.last \in Token \cup {"none", "rejected"}
         /\ parse.snapshots \in Seq(SUBSET Ids)
         /\ callback[parse.lp] # "none"
         /\ parse \in Parses
  BY DEF TypeOK, Parses

LEMMA GoesShape ==
  ASSUME TypeOK, parse # NoParse, NEW last \in Token \cup {"none", "rejected"},
         NEW snapshots \in Seq(SUBSET Ids), Goes(last, snapshots)
  PROVE  /\ parse' \in Parses /\ parse' # NoParse
         /\ parse'.bp = parse.bp /\ parse'.lp = parse.lp /\ parse'.lx = parse.lx
         /\ parse'.last = last /\ parse'.snapshots = snapshots
<1>1. parse \in Parses
  BY ParseShape
<1>2. parse' \in Parses
  BY <1>1 DEF Goes, Parses
<1>3. /\ parse'.bp = parse.bp /\ parse'.lp = parse.lp /\ parse'.lx = parse.lx
      /\ parse'.last = last /\ parse'.snapshots = snapshots
  BY <1>1 DEF Goes, Parses
<1>4. parse'.bp # NoParse.bp
  BY <1>1, <1>3, SessionNames DEF Parses, NoParse
<1> QED
  BY <1>2, <1>3, <1>4
-----------------------------------------------------------------------------
(* Snapshots are appended and cut off at the end of the sequence. *)

Scoping == INSTANCE ScopesTheorems     \* for its lemma DropLast

LEMMA AppendFirst ==
  ASSUME NEW S, NEW s \in Seq(S), NEW e \in S
  PROVE  /\ Append(s, e) \in Seq(S) /\ Append(s, e) # <<>>
         /\ Append(s, e)[1] = IF s = <<>> THEN e ELSE s[1]
<1>1. CASE s = <<>>
  BY <1>1, AppendProperties, Len(s) = 0
<1>2. CASE s # <<>>
  <2>1. Len(s) \in Nat \ {0}
    BY <1>2, EmptySeq
  <2>2. 1 \in 1..Len(s)
    BY <2>1
  <2> QED
    BY <1>2, <2>2, AppendProperties
<1> QED
  BY <1>1, <1>2

LEMMA FrontFirst ==
  ASSUME NEW S, NEW s \in Seq(S), s # <<>>
  PROVE  /\ Len(s) \in Nat \ {0}
         /\ SubSeq(s, 1, Len(s) - 1) \in Seq(S)
         /\ SubSeq(s, 1, Len(s) - 1) = <<>> => Len(s) = 1
         /\ SubSeq(s, 1, Len(s) - 1) # <<>> => SubSeq(s, 1, Len(s) - 1)[1] = s[1]
<1> DEFINE front == SubSeq(s, 1, Len(s) - 1)
<1>1. Len(s) \in Nat \ {0}
  BY EmptySeq
<1>3. front \in Seq(S)
  BY <1>1, Scoping!DropLast
<1>4. Len(front) = Len(s) - 1 /\ \A i \in 1..(Len(s) - 1) : front[i] = s[i]
  BY <1>1, Scoping!DropLast
<1> HIDE DEF front
<1>5. front = <<>> => Len(s) = 1
  BY <1>1, <1>4, EmptySeq
<1>6. front # <<>> => 1 \in 1..(Len(s) - 1)
  BY <1>1, <1>3, <1>4, EmptySeq
<1> QED
  BY <1>1, <1>3, <1>4, <1>5, <1>6 DEF front

-----------------------------------------------------------------------------
(* The invariant is preserved: one lemma for each action. *)

\* Pairs that were exclusive still are when a pair is added elsewhere.
LEMMA MatesWere ==
  ASSUME NEW lp \in LexParams, NEW lx \in Lexers, NEW p \in LexParams, NEW x \in Lexers,
         lexed' = lexed \cup {<<p, x>>}, Mates(lp, lx)'
  PROVE  /\ <<lp, lx>> # <<p, x>> => Mates(lp, lx) /\ lp # p /\ lx # x
         /\ <<lp, lx>> = <<p, x>> =>
              \/ Mates(lp, lx)
              \/ \A q \in LexParams, y \in Lexers : q = lp \/ y = lx => <<q, y>> \notin lexed
<1>1. \A q \in LexParams, y \in Lexers : <<q, y>> \in lexed' => (q = lp <=> y = lx)
  <2> TAKE q \in LexParams, y \in Lexers
  <2> HAVE <<q, y>> \in lexed'
  <2>1. <<q, y>>[1] = lp <=> <<q, y>>[2] = lx
    BY DEF Mates
  <2> QED
    BY <2>1
<1>2. CASE <<lp, lx>> # <<p, x>>
  <2>1. Mates(lp, lx)
    BY <1>2 DEF Mates
  <2>2. <<p, x>> \in lexed'
    OBVIOUS
  <2> QED
    BY <1>1, <1>2, <2>1, <2>2
<1>3. CASE <<lp, lx>> \in lexed
  <2>1. Mates(lp, lx)
    BY <1>3 DEF Mates
  <2> QED
    BY <1>2, <2>1
<1>4. CASE <<lp, lx>> = <<p, x>> /\ <<lp, lx>> \notin lexed
  BY <1>1, <1>4
<1> QED
  BY <1>2, <1>3, <1>4

\* A pair with one of two mates is that of the mates.
LEMMA MatesOf ==
  ASSUME NEW lp, NEW lx, NEW p, NEW x, Mates(lp, lx), <<p, x>> \in lexed
  PROVE  p = lp <=> x = lx
<1>1. <<p, x>>[1] = lp <=> <<p, x>>[2] = lx
  BY DEF Mates
<1> QED
  BY <1>1

LEMMA ParseKeeps ==
  ASSUME IInv, NEW bp \in BisonParams, NEW lp \in LexParams, NEW lx \in Lexers, Parse(bp, lp, lx)
  PROVE  IInv'
<1> USE DEF bisonParam, lexer
<1>1. /\ parse = NoParse /\ bp \in alive
      /\ parse' = [bp |-> bp, lp |-> lp, lx |-> lx, last |-> "none", snapshots |-> <<>>]
      /\ users' = [users EXCEPT ![lp] = @ \cup {bp}] /\ lexed' = lexed \cup {<<lp, lx>>}
      /\ UNCHANGED <<bisonParam, lexer, failed, left>>
      /\ named' = named \cup {lp}
      /\ line' = IF lp \in named THEN line ELSE [line EXCEPT ![lp] = 1]
      /\ callback' = IF callback[lp] = "none" THEN [callback EXCEPT ![lp] = bp] ELSE callback
  BY DEF Parse, Starts
<1>2. TypeOK'
  <2>1. parse' \in Parses /\ parse'.bp = bp /\ parse'.lp = lp
    BY <1>1 DEF Parses
  <2>2. callback' \in [LexParams -> BisonParams \cup {"none", "client"}] /\ callback'[lp] # "none"
    BY <1>1, SessionNames DEF IInv, TypeOK
  <2>3. line' \in [LexParams -> 1..MaxLine]
    BY <1>1, SessionBounds DEF IInv, TypeOK
  <2>4. users' \in [LexParams -> SUBSET (BisonParams \cup {"client"})]
    BY <1>1 DEF IInv, TypeOK
  <2>5. lexed' \in SUBSET (LexParams \X Lexers) /\ named' \in SUBSET LexParams
    BY <1>1 DEF IInv, TypeOK
  <2> QED
    BY <1>1, <2>1, <2>2, <2>3, <2>4, <2>5 DEF IInv, TypeOK
<1>3. CallbackOfUser' /\ ParseRegistered' /\ UseRecorded'
  <2>1. users'[lp] = users[lp] \cup {bp} /\ \A q \in LexParams : q # lp => users'[q] = users[q]
    BY <1>1 DEF IInv, TypeOK
  <2>2. CallbackOfUser'
    BY <1>1, <2>1 DEF IInv, TypeOK, CallbackOfUser
  <2>3. ParseRegistered'
    BY <1>1, <2>1 DEF ParseRegistered
  <2>4. UseRecorded'
    <3> SUFFICES ASSUME NEW q \in LexParams
                 PROVE  /\ (\E y \in Lexers : <<q, y>> \in lexed') => users'[q] # {}
                        /\ q \notin named' => users'[q] \subseteq {"client"}
      BY DEF UseRecorded
    <3>1. CASE q = lp
      BY <1>1, <2>1, <3>1
    <3>2. CASE q # lp
      <4>1. \A y \in Lexers : <<q, y>> \in lexed' => <<q, y>> \in lexed
        BY <1>1, <3>2
      <4> QED
        BY <1>1, <2>1, <3>2, <4>1 DEF IInv, UseRecorded
    <3> QED
      BY <3>1, <3>2
  <2> QED
    BY <2>2, <2>3, <2>4
<1>4. UnusedAtFirstLine'
  <2>1. ASSUME NEW p \in LexParams, \A x \in Lexers : <<p, x>> \notin lexed'
        PROVE  line'[p] = 1
    BY <1>1, <2>1 DEF IInv, TypeOK, UnusedAtFirstLine
  <2>2. ASSUME NEW x \in Lexers, \A p \in LexParams : <<p, x>> \notin lexed'
        PROVE  at'[x] = 1
    BY <1>1, <2>2 DEF IInv, UnusedAtFirstLine
  <2> QED
    BY <2>1, <2>2 DEF UnusedAtFirstLine
<1>5. StateFollowsToken'
  BY <1>1 DEF StateFollowsToken
<1>6. FileScopeKept'
  BY <1>1, SessionNames DEF IInv, FileScopeKept, NoParse
<1>7. LinesAgree'
  <2> SUFFICES ASSUME NEW p \in LexParams, NEW x \in Lexers,
                      Mates(p, x)', "client" \notin users'[p]
               PROVE  line'[p] = at'[x]
    BY DEF LinesAgree
  <2>1. "client" \notin users[p] /\ at' = at
    BY <1>1 DEF IInv, TypeOK
  <2>2. CASE <<p, x>> # <<lp, lx>>
    <3>1. Mates(p, x) /\ p # lp
      BY <1>1, <2>2, MatesWere
    <3> QED
      BY <1>1, <2>1, <3>1 DEF IInv, TypeOK, LinesAgree
  <2>3. CASE <<p, x>> = <<lp, lx>> /\ Mates(p, x)
    <3>1. users[p] # {}
      BY <2>3 DEF IInv, UseRecorded, Mates
    <3>2. ~(users[p] \subseteq {"client"})
      BY <2>1, <3>1
    <3>3. p \in named
      BY <3>2 DEF IInv, UseRecorded
    <3>4. line' = line
      BY <1>1, <2>3, <3>3
    <3> QED
      BY <2>1, <2>3, <3>4 DEF IInv, LinesAgree
  <2>4. CASE /\ <<p, x>> = <<lp, lx>>
             /\ \A q \in LexParams, y \in Lexers : q = p \/ y = x => <<q, y>> \notin lexed
    <3>1. line[p] = 1 /\ at[x] = 1
      BY <2>4 DEF IInv, UnusedAtFirstLine
    <3> QED
      BY <1>1, <2>1, <2>4, <3>1 DEF IInv, TypeOK
  <2> QED
    BY <1>1, <2>2, <2>3, <2>4, MatesWere
<1>8. NoStrayHalf'
  <2>1. \A x \in Lexers \ left : lexer_state[x] # "SIdent"
    BY <1>1 DEF IInv, NoStrayHalf, NoParse
  <2> QED
    BY <1>1, <2>1 DEF NoStrayHalf
<1> QED
  BY <1>2, <1>3, <1>4, <1>5, <1>6, <1>7, <1>8 DEF IInv

LEMMA SetCallbackKeeps ==
  ASSUME IInv, NEW lp \in LexParams, SetCallback(lp)
  PROVE  IInv'
<1> USE DEF bisonParam, lexer
<1>1. /\ parse = NoParse /\ parse' = NoParse
      /\ callback' = [callback EXCEPT ![lp] = "client"]
      /\ users' = [users EXCEPT ![lp] = @ \cup {"client"}]
      /\ UNCHANGED <<bisonParam, named, line, lexer, failed, lexed, left>>
  BY DEF SetCallback
<1>2. TypeOK'
  BY <1>1 DEF IInv, TypeOK
<1>3. CallbackOfUser' /\ ParseRegistered' /\ UseRecorded'
  BY <1>1 DEF IInv, TypeOK, CallbackOfUser, ParseRegistered, UseRecorded
<1>4. UnusedAtFirstLine' /\ StateFollowsToken'
  BY <1>1 DEF IInv, UnusedAtFirstLine, StateFollowsToken
<1>5. FileScopeKept' /\ NoStrayHalf'
  BY <1>1 DEF IInv, FileScopeKept, NoStrayHalf
<1>6. LinesAgree'
  BY <1>1 DEF IInv, TypeOK, LinesAgree, Mates
<1> QED
  BY <1>2, <1>3, <1>4, <1>5, <1>6 DEF IInv

LEMMA DestroyKeeps ==
  ASSUME IInv, NEW bp \in BisonParams, DestroyBisonParam(bp)
  PROVE  IInv'
<1> USE DEF lexer, lexParam, history
<1>1. /\ parse = NoParse /\ parse' = NoParse /\ alive' = alive \ {bp}
      /\ UNCHANGED <<contexts, fileScope, lexParam, lexer, history>>
  BY DEF DestroyBisonParam
<1>2. TypeOK'
  BY <1>1 DEF IInv, TypeOK
<1>3. CallbackOfUser' /\ ParseRegistered' /\ UseRecorded' /\ UnusedAtFirstLine' /\ StateFollowsToken'
  BY <1>1 DEF IInv, CallbackOfUser, ParseRegistered, UseRecorded, UnusedAtFirstLine, StateFollowsToken
<1>4. FileScopeKept' /\ NoStrayHalf' /\ LinesAgree'
  BY <1>1 DEF IInv, FileScopeKept, NoStrayHalf, LinesAgree, Mates
<1> QED
  BY <1>2, <1>3, <1>4 DEF IInv

LEMMA ClientYylexKeeps ==
  ASSUME IInv, NEW lp \in LexParams, NEW lx \in Lexers, ClientYylex(lp, lx)
  PROVE  IInv'
<1> USE DEF bisonParam
<1>1. /\ parse = NoParse /\ parse' = NoParse
      /\ users' = [users EXCEPT ![lp] = @ \cup {"client"}] /\ lexed' = lexed \cup {<<lp, lx>>}
      /\ UNCHANGED <<bisonParam, failed>>
  BY DEF ClientYylex
<1>2. PICK t \in Outcome :
        /\ yylex(lp, lx, t)
        /\ left' = IF t = "NAME" THEN left \cup {lx} ELSE left \ {lx}
  BY DEF ClientYylex
<1>3. UNCHANGED <<callback, named>> /\ TypeOK
  BY <1>2 DEF yylex, IInv
<1>4. /\ line' \in [LexParams -> 1..MaxLine] /\ at' \in [Lexers -> 1..MaxLine]
      /\ \A p \in LexParams : p # lp => line'[p] = line[p]
      /\ \A x \in Lexers : x # lx => at'[x] = at[x]
  BY <1>2, <1>3, YylexReads
<1>5. /\ lexer_state' \in [Lexers -> {"SRegular", "SAtomic", "SIdent"}]
      /\ identifierToLookup' \in [Lexers -> Ids \cup {"none"}]
      /\ \A x \in Lexers : lexer_state'[x] = "SIdent" => identifierToLookup'[x] \in Ids
      /\ \A x \in Lexers : x # lx => lexer_state'[x] = lexer_state[x]
      /\ lexer_state'[lx] = "SIdent" <=> t = "NAME"
      /\ ended' \in SUBSET Lexers
  BY <1>2, <1>3, YylexStates
<1>6. users'[lp] = users[lp] \cup {"client"} /\ \A q \in LexParams : q # lp => users'[q] = users[q]
  BY <1>1 DEF IInv, TypeOK
<1>7. TypeOK'
  <2>1. users' \in [LexParams -> SUBSET (BisonParams \cup {"client"})]
    BY <1>1 DEF IInv, TypeOK
  <2>2. lexed' \in SUBSET (LexParams \X Lexers) /\ left' \in SUBSET Lexers
    BY <1>1, <1>2 DEF IInv, TypeOK
  <2> QED
    BY <1>1, <1>3, <1>4, <1>5, <2>1, <2>2 DEF TypeOK
<1>8. CallbackOfUser' /\ ParseRegistered' /\ StateFollowsToken'
  BY <1>1, <1>3, <1>6 DEF IInv, CallbackOfUser, ParseRegistered, StateFollowsToken
<1>9. UseRecorded'
  <2> SUFFICES ASSUME NEW q \in LexParams
               PROVE  /\ (\E y \in Lexers : <<q, y>> \in lexed') => users'[q] # {}
                      /\ q \notin named' => users'[q] \subseteq {"client"}
    BY DEF UseRecorded
  <2>1. CASE q = lp
    BY <1>3, <1>6, <2>1 DEF IInv, UseRecorded
  <2>2. CASE q # lp
    <3>1. \A y \in Lexers : <<q, y>> \in lexed' => <<q, y>> \in lexed
      BY <1>1, <2>2
    <3> QED
      BY <1>3, <1>6, <2>2, <3>1 DEF IInv, UseRecorded
  <2> QED
    BY <2>1, <2>2
<1>10. UnusedAtFirstLine'
  <2>1. ASSUME NEW p \in LexParams, \A x \in Lexers : <<p, x>> \notin lexed'
        PROVE  line'[p] = 1
    BY <1>1, <1>4, <2>1 DEF IInv, UnusedAtFirstLine
  <2>2. ASSUME NEW x \in Lexers, \A p \in LexParams : <<p, x>> \notin lexed'
        PROVE  at'[x] = 1
    BY <1>1, <1>4, <2>2 DEF IInv, UnusedAtFirstLine
  <2> QED
    BY <2>1, <2>2 DEF UnusedAtFirstLine
<1>11. FileScopeKept'
  BY <1>1 DEF IInv, FileScopeKept
<1>12. LinesAgree'
  <2> SUFFICES ASSUME NEW p \in LexParams, NEW x \in Lexers,
                      Mates(p, x)', "client" \notin users'[p]
               PROVE  line'[p] = at'[x]
    BY DEF LinesAgree
  <2>1. p # lp /\ "client" \notin users[p]
    BY <1>6
  <2>2. Mates(p, x) /\ x # lx
    BY <1>1, <2>1, MatesWere
  <2> QED
    BY <1>4, <2>1, <2>2 DEF IInv, LinesAgree
<1>13. NoStrayHalf'
  <2>1. \A x \in Lexers \ left : lexer_state[x] # "SIdent"
    BY <1>1 DEF IInv, NoStrayHalf, NoParse
  <2> QED
    BY <1>2, <1>5, <2>1 DEF NoStrayHalf
<1> QED
  BY <1>7, <1>8, <1>9, <1>10, <1>11, <1>12, <1>13 DEF IInv

LEMMA ParserYylexKeeps ==
  ASSUME IInv, ParserYylex
  PROVE  IInv' /\ parse' # NoParse
<1> USE DEF bisonParam
<1> DEFINE lp == parse.lp
           lx == parse.lx
<1>1. parse # NoParse /\ TypeOK /\ UNCHANGED <<bisonParam, users, lexed>>
  BY DEF ParserYylex, Running, IInv
<1>2. PICK t \in Outcome :
        /\ yylex(lp, lx, t)
        /\ IF t = "bad_function_call" THEN Ends /\ failed' = failed \cup {parse.bp}
           ELSE /\ Goes(IF parse.last = "none" /\ t \in {"TYPE", "VARIABLE", "YYEOF"}
                        THEN "rejected" ELSE t, parse.snapshots)
                /\ UNCHANGED <<failed, left>>
  BY DEF ParserYylex
<1>3. t \in Token /\ t # "bad_function_call"
  <2>1. t \in Token
    BY <1>1, <1>2, ParserNeverThrows
  <2> QED
    BY <2>1 DEF Token
<1>4. lp \in LexParams /\ lx \in Lexers
  BY <1>1, ParseShape
<1>5. PICK last \in Token \cup {"rejected"} :
        /\ Goes(last, parse.snapshots)
        /\ last = "NAME" <=> t = "NAME"
  BY <1>2, <1>3
<1>6. /\ parse' \in Parses /\ parse' # NoParse
      /\ parse'.bp = parse.bp /\ parse'.lp = lp /\ parse'.lx = lx
      /\ parse'.last = last /\ parse'.snapshots = parse.snapshots
  BY <1>1, <1>5, ParseShape, GoesShape
<1>7. UNCHANGED <<failed, left>>
  BY <1>2, <1>3
<1>8. /\ line' \in [LexParams -> 1..MaxLine] /\ at' \in [Lexers -> 1..MaxLine]
      /\ \A p \in LexParams : p # lp => line'[p] = line[p]
      /\ \A x \in Lexers : x # lx => at'[x] = at[x]
      /\ line[lp] = at[lx] => line'[lp] = at'[lx]
  BY <1>1, <1>2, <1>4, YylexReads
<1>9. /\ lexer_state' \in [Lexers -> {"SRegular", "SAtomic", "SIdent"}]
      /\ identifierToLookup' \in [Lexers -> Ids \cup {"none"}]
      /\ \A x \in Lexers : lexer_state'[x] = "SIdent" => identifierToLookup'[x] \in Ids
      /\ \A x \in Lexers : x # lx => lexer_state'[x] = lexer_state[x]
      /\ lexer_state'[lx] = "SIdent" <=> t = "NAME"
      /\ ended' \in SUBSET Lexers
  BY <1>1, <1>2, <1>4, YylexStates
<1>10. UNCHANGED <<callback, named>>
  BY <1>2 DEF yylex
<1>11. TypeOK'
  <2>1. parse'.bp \in alive' /\ callback'[parse'.lp] # "none"
    BY <1>1, <1>6, <1>10, ParseShape
  <2> QED
    BY <1>1, <1>6, <1>7, <1>8, <1>9, <1>10, <2>1 DEF TypeOK
<1>12. CallbackOfUser' /\ UseRecorded'
  BY <1>1, <1>10 DEF IInv, CallbackOfUser, UseRecorded
<1>13. ParseRegistered' /\ StateFollowsToken'
  BY <1>1, <1>5, <1>6, <1>9 DEF IInv, ParseRegistered, StateFollowsToken
<1>14. <<lp, lx>> \in lexed
  BY <1>1 DEF IInv, ParseRegistered
<1>15. UnusedAtFirstLine'
  <2>1. ASSUME NEW p \in LexParams, \A x \in Lexers : <<p, x>> \notin lexed'
        PROVE  line'[p] = 1
    BY <1>1, <1>4, <1>8, <1>14, <2>1 DEF IInv, UnusedAtFirstLine
  <2>2. ASSUME NEW x \in Lexers, \A p \in LexParams : <<p, x>> \notin lexed'
        PROVE  at'[x] = 1
    BY <1>1, <1>4, <1>8, <1>14, <2>2 DEF IInv, UnusedAtFirstLine
  <2> QED
    BY <2>1, <2>2 DEF UnusedAtFirstLine
<1>16. FileScopeKept'
  BY <1>1, <1>6, <1>7 DEF IInv, FileScopeKept
<1>17. LinesAgree'
  <2> SUFFICES ASSUME NEW p \in LexParams, NEW x \in Lexers,
                      Mates(p, x)', "client" \notin users'[p]
               PROVE  line'[p] = at'[x]
    BY DEF LinesAgree
  <2>1. Mates(p, x) /\ line[p] = at[x]
    BY <1>1 DEF IInv, LinesAgree, Mates
  <2>2. p = lp <=> x = lx
    BY <1>14, <2>1, MatesOf
  <2> QED
    BY <1>8, <2>1, <2>2
<1>18. NoStrayHalf'
  <2> SUFFICES ASSUME NEW x \in Lexers \ left', lexer_state'[x] = "SIdent"
               PROVE  parse'.lx = x /\ parse'.last = "NAME"
    BY DEF NoStrayHalf
  <2>1. CASE x = lx
    BY <1>5, <1>6, <1>9, <2>1
  <2>2. CASE x # lx
    BY <1>7, <1>9, <2>2 DEF IInv, NoStrayHalf
  <2> QED
    BY <2>1, <2>2
<1> QED
  BY <1>6, <1>11, <1>12, <1>13, <1>15, <1>16, <1>17, <1>18 DEF IInv

\* A semantic action leaves everything but Context to the invariant as it was.
LEMMA ActsKeeps ==
  ASSUME IInv, Running, NEW current \in SUBSET Ids, NEW snapshots \in Seq(SUBSET Ids),
         Acts(current, snapshots), fileScope' \in [BisonParams -> SUBSET Ids], FileScopeKept'
  PROVE  IInv'
<1> USE DEF lexParam, lexer, history
<1>1. /\ parse # NoParse /\ TypeOK
      /\ contexts' = [contexts EXCEPT ![parse.bp] = current]
      /\ Goes(parse.last, snapshots) /\ UNCHANGED <<alive, lexParam, lexer, history>>
  BY DEF Acts, Running, IInv
<1>2. /\ parse' \in Parses /\ parse' # NoParse
      /\ parse'.bp = parse.bp /\ parse'.lp = parse.lp /\ parse'.lx = parse.lx
      /\ parse'.last = parse.last /\ parse'.snapshots = snapshots
  BY <1>1, ParseShape, GoesShape
<1>3. TypeOK'
  <2>1. contexts' \in [BisonParams -> SUBSET Ids]
    BY <1>1 DEF TypeOK
  <2>2. parse'.bp \in alive' /\ callback'[parse'.lp] # "none"
    BY <1>1, <1>2, ParseShape
  <2> QED
    BY <1>1, <1>2, <2>1, <2>2 DEF TypeOK
<1>4. CallbackOfUser' /\ UseRecorded' /\ UnusedAtFirstLine'
  BY <1>1 DEF IInv, CallbackOfUser, UseRecorded, UnusedAtFirstLine
<1>5. ParseRegistered' /\ StateFollowsToken'
  BY <1>1, <1>2 DEF IInv, ParseRegistered, StateFollowsToken
<1>6. LinesAgree' /\ NoStrayHalf'
  BY <1>1, <1>2 DEF IInv, LinesAgree, Mates, NoStrayHalf
<1> QED
  BY <1>3, <1>4, <1>5, <1>6 DEF IInv

\* What such an action does to the Context and the snapshots of its parse.
LEMMA ActsShape ==
  ASSUME TypeOK, Running, NEW current, NEW snapshots \in Seq(SUBSET Ids), Acts(current, snapshots)
  PROVE  /\ parse.bp \in BisonParams /\ parse'.bp = parse.bp /\ parse'.snapshots = snapshots
         /\ contexts'[parse.bp] = current
         /\ \A bp \in BisonParams : bp # parse.bp => contexts'[bp] = contexts[bp]
         /\ UNCHANGED failed
<1>1. parse # NoParse /\ Goes(parse.last, snapshots)
  BY DEF Running, Acts
<1>2. parse.bp \in BisonParams /\ parse'.bp = parse.bp /\ parse'.snapshots = snapshots
  BY <1>1, ParseShape, GoesShape
<1> QED
  BY <1>2 DEF Acts, TypeOK, history

LEMMA SaveKeeps ==
  ASSUME IInv, Save
  PROVE  IInv'
<1> DEFINE taken == Append(parse.snapshots, save_context(contexts[parse.bp]))
<1>1. PICK current \in SUBSET Ids : Acts(current, taken)
  BY DEF Save
<1>2. Running /\ TypeOK /\ fileScope' = fileScope
  BY DEF Save, IInv
<1>3. parse.snapshots \in Seq(SUBSET Ids) /\ parse.bp \in BisonParams
  BY <1>2, ParseShape DEF Running
<1>4. contexts[parse.bp] \in SUBSET Ids
  BY <1>2, <1>3 DEF TypeOK
<1>5. /\ taken \in Seq(SUBSET Ids) /\ taken # <<>>
      /\ taken[1] = IF parse.snapshots = <<>> THEN contexts[parse.bp] ELSE parse.snapshots[1]
  BY <1>3, <1>4, AppendFirst DEF save_context
<1>6. FileScopeKept'
  <2> SUFFICES ASSUME NEW bp \in BisonParams \ failed'
               PROVE  IF parse'.bp # bp \/ parse'.snapshots = <<>>
                      THEN contexts'[bp] = fileScope'[bp]
                      ELSE parse'.snapshots[1] = fileScope'[bp]
    BY DEF FileScopeKept
  <2>1. bp \in BisonParams \ failed
    BY <1>1, <1>2, <1>5, ActsShape
  <2> QED
    BY <1>1, <1>2, <1>5, <2>1, ActsShape DEF IInv, FileScopeKept
<1>7. fileScope' \in [BisonParams -> SUBSET Ids]
  BY <1>2 DEF TypeOK
<1> QED
  BY <1>1, <1>2, <1>5, <1>6, <1>7, ActsKeeps

LEMMA RestoreKeeps ==
  ASSUME IInv, Restore
  PROVE  IInv'
<1> DEFINE last == Len(parse.snapshots)
           kept == SubSeq(parse.snapshots, 1, last - 1)
<1>1. Running /\ TypeOK /\ fileScope' = fileScope /\ parse.snapshots # <<>>
  BY DEF Restore, IInv
<1>2. parse.snapshots \in Seq(SUBSET Ids) /\ parse.bp \in BisonParams
  BY <1>1, ParseShape DEF Running
<1>3. last \in Nat \ {0} /\ parse.snapshots[last] \in SUBSET Ids
  BY <1>1, <1>2
<1>4. Acts(parse.snapshots[last], kept)
  BY DEF Restore, restore_context
<1>5. /\ kept \in Seq(SUBSET Ids)
      /\ kept = <<>> => last = 1
      /\ kept # <<>> => kept[1] = parse.snapshots[1]
  BY <1>1, <1>2, FrontFirst
<1>6. FileScopeKept'
  <2> SUFFICES ASSUME NEW bp \in BisonParams \ failed'
               PROVE  IF parse'.bp # bp \/ parse'.snapshots = <<>>
                      THEN contexts'[bp] = fileScope'[bp]
                      ELSE parse'.snapshots[1] = fileScope'[bp]
    BY DEF FileScopeKept
  <2>1. bp \in BisonParams \ failed
    BY <1>1, <1>4, <1>5, ActsShape
  <2> QED
    BY <1>1, <1>4, <1>5, <2>1, ActsShape DEF IInv, FileScopeKept
<1>7. fileScope' \in [BisonParams -> SUBSET Ids]
  BY <1>1 DEF TypeOK
<1> QED
  BY <1>1, <1>3, <1>4, <1>5, <1>6, <1>7, ActsKeeps

LEMMA DeclaresKeeps ==
  ASSUME IInv, Declares
  PROVE  IInv'
<1>1. Running /\ TypeOK
  BY DEF Declares, IInv
<1>2. parse.snapshots \in Seq(SUBSET Ids) /\ parse.bp \in BisonParams
  BY <1>1, ParseShape DEF Running
<1>3. PICK declared \in SUBSET Ids :
        /\ Acts(declared, parse.snapshots)
        /\ fileScope' = IF parse.snapshots = <<>> THEN [fileScope EXCEPT ![parse.bp] = declared]
                        ELSE fileScope
  BY <1>1, <1>2 DEF Declares, declare_typedefname, declare_varname, TypeOK
<1>4. FileScopeKept'
  <2> SUFFICES ASSUME NEW bp \in BisonParams \ failed'
               PROVE  IF parse'.bp # bp \/ parse'.snapshots = <<>>
                      THEN contexts'[bp] = fileScope'[bp]
                      ELSE parse'.snapshots[1] = fileScope'[bp]
    BY DEF FileScopeKept
  <2>1. bp \in BisonParams \ failed /\ parse'.bp = parse.bp /\ parse'.snapshots = parse.snapshots
    BY <1>1, <1>2, <1>3, ActsShape
  <2>2. CASE parse.snapshots = <<>>
    BY <1>1, <1>2, <1>3, <2>1, <2>2, ActsShape DEF IInv, TypeOK, FileScopeKept
  <2>3. CASE parse.snapshots # <<>>
    BY <1>1, <1>2, <1>3, <2>1, <2>3, ActsShape DEF IInv, FileScopeKept
  <2> QED
    BY <2>2, <2>3
<1>5. fileScope' \in [BisonParams -> SUBSET Ids]
  BY <1>1, <1>2, <1>3 DEF TypeOK
<1> QED
  BY <1>1, <1>2, <1>3, <1>4, <1>5, ActsKeeps

\* When a parse ends its Lexer stands between the halves iff it is left there.
LEMMA EndLeavesNoStray ==
  ASSUME IInv, parse # NoParse, Ends, UNCHANGED lexer_state,
         parse.last = "none" => lexer_state[parse.lx] # "SIdent"
  PROVE  NoStrayHalf'
<1>1. /\ parse' = NoParse
      /\ left' = IF parse.last = "NAME" THEN left \cup {parse.lx} ELSE left \ {parse.lx}
  BY DEF Ends
<1> SUFFICES ASSUME NEW x \in Lexers \ left', lexer_state[x] = "SIdent"
             PROVE  FALSE
  BY DEF NoStrayHalf
<1>2. CASE x = parse.lx
  <2>1. parse.last = "NAME"
    BY <1>2 DEF IInv, StateFollowsToken
  <2> QED
    BY <1>1, <1>2, <2>1
<1>3. CASE x # parse.lx
  <2>1. x \notin left
    BY <1>1, <1>3
  <2> QED
    BY <1>3, <2>1 DEF IInv, NoStrayHalf
<1> QED
  BY <1>2, <1>3

LEMMA AcceptsKeeps ==
  ASSUME IInv, Accepts
  PROVE  IInv'
<1> USE DEF bisonParam, lexParam, lexer
<1>1. /\ parse # NoParse /\ parse.last = "YYEOF" /\ parse.snapshots = <<>> /\ Ends
      /\ UNCHANGED <<bisonParam, lexParam, lexer, failed, users, lexed>>
  BY DEF Accepts, Running
<1>2. parse' = NoParse /\ left' \in SUBSET Lexers
  BY <1>1, ParseShape DEF Ends, IInv, TypeOK
<1>3. TypeOK'
  BY <1>1, <1>2 DEF IInv, TypeOK
<1>4. /\ CallbackOfUser' /\ ParseRegistered' /\ UseRecorded' /\ UnusedAtFirstLine'
      /\ StateFollowsToken' /\ LinesAgree'
  BY <1>1, <1>2 DEF IInv, CallbackOfUser, ParseRegistered, UseRecorded, UnusedAtFirstLine,
    StateFollowsToken, LinesAgree, Mates
<1>5. FileScopeKept'
  BY <1>1, <1>2, SessionNames DEF IInv, FileScopeKept, NoParse
<1>6. NoStrayHalf'
  BY <1>1, EndLeavesNoStray
<1> QED
  BY <1>3, <1>4, <1>5, <1>6 DEF IInv

LEMMA SyntaxErrorKeeps ==
  ASSUME IInv, SyntaxError
  PROVE  IInv'
<1> USE DEF bisonParam
<1> DEFINE lp == parse.lp
           lx == parse.lx
<1>1. /\ parse # NoParse /\ Ends /\ failed' = failed \cup {parse.bp} /\ TypeOK
      /\ UNCHANGED <<bisonParam, callback, named, ended, lexer_state, identifierToLookup, users, lexed>>
  BY DEF SyntaxError, IInv
<1>2. parse' = NoParse /\ left' \in SUBSET Lexers /\ failed' \in SUBSET BisonParams
  BY <1>1, ParseShape DEF Ends, TypeOK
<1>3. lp \in LexParams /\ lx \in Lexers
  BY <1>1, ParseShape
<1>4. /\ line' \in [LexParams -> 1..MaxLine] /\ at' \in [Lexers -> 1..MaxLine]
      /\ \A p \in LexParams : p # lp => line'[p] = line[p]
      /\ \A x \in Lexers : x # lx => at'[x] = at[x]
      /\ line[lp] = at[lx] => line'[lp] = at'[lx]
  <2>1. CASE UNCHANGED <<line, at>>
    BY <1>1, <2>1 DEF TypeOK
  <2>2. CASE \E n \in 0..1 : Reads(lp, lx, n)
    <3>1. PICK n \in 0..1 : Reads(lp, lx, n)
      BY <2>2
    <3> QED
      BY <1>1, <1>3, <3>1, ReadsShape
  <2> QED
    BY <2>1, <2>2 DEF SyntaxError
<1>5. TypeOK'
  BY <1>1, <1>2, <1>4 DEF TypeOK
<1>6. CallbackOfUser' /\ ParseRegistered' /\ UseRecorded' /\ StateFollowsToken'
  BY <1>1, <1>2 DEF IInv, CallbackOfUser, ParseRegistered, UseRecorded, StateFollowsToken
<1>7. <<lp, lx>> \in lexed
  BY <1>1 DEF IInv, ParseRegistered
<1>8. UnusedAtFirstLine'
  <2>1. ASSUME NEW p \in LexParams, \A x \in Lexers : <<p, x>> \notin lexed'
        PROVE  line'[p] = 1
    BY <1>1, <1>3, <1>4, <1>7, <2>1 DEF IInv, UnusedAtFirstLine
  <2>2. ASSUME NEW x \in Lexers, \A p \in LexParams : <<p, x>> \notin lexed'
        PROVE  at'[x] = 1
    BY <1>1, <1>3, <1>4, <1>7, <2>2 DEF IInv, UnusedAtFirstLine
  <2> QED
    BY <2>1, <2>2 DEF UnusedAtFirstLine
<1>9. FileScopeKept'
  BY <1>1, <1>2, SessionNames DEF IInv, FileScopeKept, NoParse
<1>10. LinesAgree'
  <2> SUFFICES ASSUME NEW p \in LexParams, NEW x \in Lexers,
                      Mates(p, x)', "client" \notin users'[p]
               PROVE  line'[p] = at'[x]
    BY DEF LinesAgree
  <2>1. Mates(p, x) /\ line[p] = at[x]
    BY <1>1 DEF IInv, LinesAgree, Mates
  <2>2. p = lp <=> x = lx
    BY <1>7, <2>1, MatesOf
  <2> QED
    BY <1>4, <2>1, <2>2
<1>11. NoStrayHalf'
  <2>1. parse.last = "none" => lexer_state[lx] # "SIdent"
    BY DEF SyntaxError
  <2> QED
    BY <1>1, <2>1, EndLeavesNoStray
<1> QED
  BY <1>5, <1>6, <1>8, <1>9, <1>10, <1>11 DEF IInv

-----------------------------------------------------------------------------
(* The theorems *)

LEMMA NextKeeps ==
  ASSUME IInv, [Next]_vars
  PROVE  IInv'
<1>1. ASSUME NEW bp \in BisonParams, NEW lp \in LexParams, NEW lx \in Lexers, Parse(bp, lp, lx)
      PROVE  IInv'
  BY <1>1, ParseKeeps
<1>2. ASSUME NEW lp \in LexParams, NEW lx \in Lexers, ClientYylex(lp, lx)
      PROVE  IInv'
  BY <1>2, ClientYylexKeeps
<1>3. ASSUME NEW lp \in LexParams, SetCallback(lp)
      PROVE  IInv'
  BY <1>3, SetCallbackKeeps
<1>4. ASSUME NEW bp \in BisonParams, DestroyBisonParam(bp)
      PROVE  IInv'
  BY <1>4, DestroyKeeps
<1>5. CASE ParserYylex
  BY <1>5, ParserYylexKeeps
<1>6. CASE Save \/ Restore \/ Declares
  BY <1>6, SaveKeeps, RestoreKeeps, DeclaresKeeps
<1>7. CASE Accepts \/ SyntaxError
  BY <1>7, AcceptsKeeps, SyntaxErrorKeeps
<1>8. CASE UNCHANGED vars
  <2> USE DEF vars, bisonParam, lexParam, lexer, history
  <2>1. TypeOK'
    BY <1>8 DEF IInv, TypeOK
  <2>2. CallbackOfUser' /\ ParseRegistered' /\ UseRecorded'
    BY <1>8 DEF IInv, CallbackOfUser, ParseRegistered, UseRecorded
  <2>3. UnusedAtFirstLine' /\ StateFollowsToken'
    BY <1>8 DEF IInv, UnusedAtFirstLine, StateFollowsToken
  <2>4. FileScopeKept' /\ LinesAgree' /\ NoStrayHalf'
    BY <1>8 DEF IInv, FileScopeKept, LinesAgree, Mates, NoStrayHalf
  <2> QED
    BY <2>1, <2>2, <2>3, <2>4 DEF IInv
<1> QED
  BY <1>1, <1>2, <1>3, <1>4, <1>5, <1>6, <1>7, <1>8 DEF Next

(* The inductive invariant holds in every reachable state. *)
THEOREM SessionInvariance == Spec => []IInv
<1>1. Init => IInv
  BY Start
<1>2. IInv /\ [Next]_vars => IInv'
  BY NextKeeps
<1> QED
  BY <1>1, <1>2, PTL DEF Spec

(* The state keeps its shape; a running parse has a live BisonParam and a      *)
(* callback to ask (%initial-action).                                         *)
THEOREM SessionTypeCorrect == Spec => []TypeOK
<1>1. IInv => TypeOK
  BY DEF IInv
<1> QED
  BY <1>1, SessionInvariance, PTL

(* Parses that were not given up leave the typedef names of the file scope and *)
(* no others (restore_context in every scoped_ rule).                         *)
THEOREM FileScopeAlwaysKept == Spec => []FileScopeKept
<1>1. IInv => FileScopeKept
  BY DEF IInv
<1> QED
  BY <1>1, SessionInvariance, PTL

(* A LexParam and a Lexer used only with each other agree on the line through  *)
(* any number of parses and syntax errors (loc in %initial-action).            *)
THEOREM LinesAlwaysAgree == Spec => []LinesAgree
<1>1. IInv => LinesAgree
  BY DEF IInv
<1> QED
  BY <1>1, SessionInvariance, PTL

(* Only a caller that went away after a NAME leaves a second half behind        *)
(* (lexer_state is reset before is_typedefname is called).                    *)
THEOREM NeverStrayHalf == Spec => []NoStrayHalf
<1>1. IInv => NoStrayHalf
  BY DEF IInv
<1> QED
  BY <1>1, SessionInvariance, PTL

(* No lookup of a parse finds an empty callback (yylex at entry).              *)
THEOREM ParsesNeverThrow == Spec => NeverThrows
<1>1. IInv /\ [Next]_vars => [ParserYylex => parse' # NoParse]_vars
  BY ParserYylexKeeps
<1> QED
  BY <1>1, SessionInvariance, PTL DEF Spec, NeverThrows

LEMMA LooksInOwnContext ==
  ASSUME IInv, ParserYylex, parse.last = "NAME", users[parse.lp] = {parse.bp}
  PROVE  parse'.last = "TYPE" <=> identifierToLookup[parse.lx] \in contexts[parse.bp]
<1>1. parse # NoParse /\ TypeOK
  BY DEF ParserYylex, Running, IInv
<1>2. callback[parse.lp] = parse.bp /\ parse.bp \in alive
  BY <1>1, ParseShape DEF IInv, CallbackOfUser
<1>3. lexer_state[parse.lx] = "SIdent"
  BY <1>1 DEF IInv, StateFollowsToken
<1>4. PICK t \in Outcome :
        /\ yylex(parse.lp, parse.lx, t)
        /\ t # "bad_function_call" =>
             Goes(IF parse.last = "none" /\ t \in {"TYPE", "VARIABLE", "YYEOF"}
                  THEN "rejected" ELSE t, parse.snapshots)
  BY DEF ParserYylex
<1>5. t = IF identifierToLookup[parse.lx] \in contexts[parse.bp] THEN "TYPE" ELSE "VARIABLE"
  <2>1. SecondHalf(parse.lp, parse.lx, t)
    BY <1>3, <1>4 DEF yylex, FirstHalf, OtherToken
  <2>2. callback[parse.lp] # "none"
    BY <1>1, ParseShape
  <2> QED
    BY <1>2, <2>1, <2>2 DEF SecondHalf, Answers, is_typedefname
<1>6. t \in Token /\ Goes(t, parse.snapshots)
  BY <1>4, <1>5 DEF Token
<1>7. parse'.last = t
  BY <1>1, <1>6, ParseShape, GoesShape
<1> QED
  BY <1>5, <1>7

(* A parse whose LexParam served no other classifies names by its own Context *)
(* as it is at that moment (the callback of %initial-action).                 *)
THEOREM OwnContextAlways == Spec => OwnContext
<1>1. IInv /\ [Next]_vars =>
        [(ParserYylex /\ parse.last = "NAME" /\ users[parse.lp] = {parse.bp}) =>
           (parse'.last = "TYPE" <=> identifierToLookup[parse.lx] \in contexts[parse.bp])]_vars
  BY LooksInOwnContext
<1> QED
  BY <1>1, SessionInvariance, PTL DEF Spec, OwnContext
=============================================================================
