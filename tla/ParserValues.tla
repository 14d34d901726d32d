---------------------------- MODULE ParserValues ----------------------------
(***************************************************************************)
(* The values on bison's stack, for every set of spellings and features.   *)
(*                                                                         *)
(* Sound(K, vals, scopes): the values are those a Shape K names, one per   *)
(* role; there is a snapshot for every open scope but the file scope; and  *)
(* while the declarator of a definition is read, the file scope stays as   *)
(* it was when the declarator's parameter list was read.                   *)
(* The lemmas say what is live (LiveIn) and pending (PendingIn) after a    *)
(* value was pushed, popped or replaced, as the semantic actions do.       *)
(***************************************************************************)
EXTENDS Parser, GrammarTheorems, ScopesTheorems, FiniteSetTheorems, WellFoundedInduction

-----------------------------------------------------------------------------
(* The snapshots on a value stack. *)

Rank(vs, k) == Cardinality(Snapshots(vs, k))

LEMMA RankStart == \A vs : Rank(vs, 0) = 0
<1>1. \A vs : Snapshots(vs, 0) = {}
  BY DEF Snapshots
<1> QED
  BY <1>1, FS_EmptySet DEF Rank

LEMMA SnapshotsFinite ==
  ASSUME NEW vs, NEW k \in Nat
  PROVE  IsFiniteSet(Snapshots(vs, k)) /\ Rank(vs, k) \in Nat
<1>1. IsFiniteSet(1..k)
  BY FS_Interval
<1>2. Snapshots(vs, k) \in SUBSET (1..k)
  BY DEF Snapshots
<1> QED
  BY <1>1, <1>2, FS_Subset, FS_CardinalityType DEF Rank

LEMMA RankStep ==
  ASSUME NEW vs, NEW k \in Nat
  PROVE  Rank(vs, k + 1) = IF IsSnapshot(vs[k + 1]) THEN Rank(vs, k) + 1 ELSE Rank(vs, k)
<1>1. CASE IsSnapshot(vs[k + 1])
  <2>1. Snapshots(vs, k + 1) = Snapshots(vs, k) \cup {k + 1} /\ k + 1 \notin Snapshots(vs, k)
    BY <1>1 DEF Snapshots
  <2> QED
    BY <1>1, <2>1, SnapshotsFinite, FS_AddElement DEF Rank
<1>2. CASE ~IsSnapshot(vs[k + 1])
  <2>1. Snapshots(vs, k + 1) = Snapshots(vs, k)
    BY <1>2 DEF Snapshots
  <2> QED
    BY <1>2, <2>1 DEF Rank
<1> QED
  BY <1>1, <1>2

LEMMA RankMonotone ==
  ASSUME NEW vs, NEW k \in Nat, NEW i \in 0..k
  PROVE  Rank(vs, i) <= Rank(vs, k)
<1>1. Snapshots(vs, i) \in SUBSET Snapshots(vs, k)
  BY DEF Snapshots
<1> QED
  BY <1>1, SnapshotsFinite, FS_Subset DEF Rank

\* No two snapshots have the same rank.
LEMMA RankInjective ==
  ASSUME NEW vs, NEW i \in Nat \ {0}, NEW k \in Nat \ {0},
         IsSnapshot(vs[i]), IsSnapshot(vs[k]), Rank(vs, i) = Rank(vs, k)
  PROVE  i = k
<1>1. ASSUME NEW m \in Nat \ {0}, NEW n \in Nat \ {0}, m < n, IsSnapshot(vs[n])
      PROVE  Rank(vs, m) < Rank(vs, n)
  <2>1. n - 1 \in Nat /\ m \in 0..(n - 1) /\ (n - 1) + 1 = n
    BY <1>1
  <2>2. Rank(vs, m) <= Rank(vs, n - 1) /\ Rank(vs, n) = Rank(vs, n - 1) + 1
    BY <1>1, <2>1, RankMonotone, RankStep
  <2>3. Rank(vs, m) \in Nat /\ Rank(vs, n - 1) \in Nat
    BY <2>1, SnapshotsFinite
  <2> QED
    BY <2>2, <2>3
<1>2. Rank(vs, i) \in Nat
  BY SnapshotsFinite
<1>3. CASE i < k
  BY <1>1, <1>2, <1>3
<1>4. CASE k < i
  BY <1>1, <1>2, <1>4
<1> QED
  BY <1>3, <1>4

\* Every rank up to the number of snapshots is that of one.
LEMMA RankOnto ==
  ASSUME NEW vs, NEW n \in Nat, NEW j \in 1..Rank(vs, n)
  PROVE  \E i \in 1..n : IsSnapshot(vs[i]) /\ Rank(vs, i) = j
<1> DEFINE T == {k \in Nat : j <= Rank(vs, k)}
<1>1. \A k \in Nat : Rank(vs, k) \in Nat
  BY SnapshotsFinite
<1>2. n \in T /\ T \subseteq Nat
  BY <1>1
<1>3. \E m \in T : \A y \in T : ~(<<y, m>> \in OpToRel(<, Nat))
  BY <1>2, WFMin, NatLessThanWellFounded
<1>4. PICK m \in T : \A y \in T : ~(y < m)
  BY <1>2, <1>3 DEF OpToRel
<1>5. m \in Nat /\ m # 0 /\ m <= n
  BY <1>1, <1>2, <1>4, RankStart
<1>6. m - 1 \in Nat /\ (m - 1) + 1 = m /\ m - 1 < m
  BY <1>5
<1>7. Rank(vs, m - 1) < j /\ j <= Rank(vs, m)
  BY <1>1, <1>4, <1>6
<1>8. Rank(vs, m) = IF IsSnapshot(vs[m]) THEN Rank(vs, m - 1) + 1 ELSE Rank(vs, m - 1)
  BY <1>6, RankStep
<1> QED
  BY <1>1, <1>5, <1>6, <1>7, <1>8

LEMMA AppendIs ==
  ASSUME NEW S, NEW s \in Seq(S), NEW t \in Seq(S), NEW r \in Nat, NEW x \in S,
         Len(s) = r, Len(t) = r + 1, t[r + 1] = x, \A j \in 1..r : t[j] = s[j]
  PROVE  t = Append(s, x)
<1>1. /\ Append(s, x) \in Seq(S) /\ Len(Append(s, x)) = r + 1
      /\ Append(s, x)[r + 1] = x /\ \A j \in 1..r : Append(s, x)[j] = s[j]
  OBVIOUS
<1>2. \A j \in 1..(r + 1) : j = r + 1 \/ j \in 1..r
  OBVIOUS
<1> QED
  BY <1>1, <1>2, SeqEqual

Nth(vs, j) == CHOOSE i \in DOMAIN vs : IsSnapshot(vs[i]) /\ Cardinality(Snapshots(vs, i)) = j

LEMMA NthRanked ==
  ASSUME NEW vs \in Seq(Value), NEW j \in 1..Rank(vs, Len(vs))
  PROVE  /\ Nth(vs, j) \in 1..Len(vs)
         /\ IsSnapshot(vs[Nth(vs, j)])
         /\ Rank(vs, Nth(vs, j)) = j
<1>1. Len(vs) \in Nat /\ DOMAIN vs = 1..Len(vs)
  OBVIOUS
<1>2. \E i \in DOMAIN vs : IsSnapshot(vs[i]) /\ Cardinality(Snapshots(vs, i)) = j
  BY <1>1, RankOnto DEF Rank
<1> QED
  BY <1>1, <1>2 DEF Nth, Rank

LEMMA ValueFields ==
  ASSUME NEW v \in Value
  PROVE  /\ v.tag \in {"string", "snapshot", "context"} \cup DeclaratorTag
         /\ v.identifier \in Ids \cup {"none"}
         /\ v.ctx \in SUBSET Ids
         /\ v.own.by \in Derivation /\ v.own.last \in Derivation
         /\ v.own.scope \in Scope /\ v.own.file \in Scope
  BY DEF Value

LEMMA LiveInIs ==
  ASSUME NEW vs \in Seq(Value)
  PROVE  /\ LiveIn(vs) = [j \in 1..Rank(vs, Len(vs)) |-> vs[Nth(vs, j)].ctx]
         /\ LiveIn(vs) \in Seq(SUBSET Ids)
         /\ Len(LiveIn(vs)) = Rank(vs, Len(vs))
<1>1. LiveIn(vs) = [j \in 1..Rank(vs, Len(vs)) |-> vs[Nth(vs, j)].ctx]
  BY DEF LiveIn, Rank, Nth
<1>2. Len(vs) \in Nat /\ Rank(vs, Len(vs)) \in Nat
  BY SnapshotsFinite
<1>3. \A i \in 1..Len(vs) : vs[i].ctx \in SUBSET Ids
  <2>1. \A i \in 1..Len(vs) : vs[i] \in Value
    OBVIOUS
  <2> QED
    BY <2>1, ValueFields
<1>4. ASSUME NEW j \in 1..Rank(vs, Len(vs)) PROVE vs[Nth(vs, j)].ctx \in SUBSET Ids
  <2>1. Nth(vs, j) \in 1..Len(vs)
    BY NthRanked
  <2> HIDE DEF Nth
  <2> QED
    BY <1>3, <2>1
<1> DEFINE r == Rank(vs, Len(vs))
<1>5. LiveIn(vs) \in [1..r -> SUBSET Ids]
  BY <1>1, <1>4
<1> HIDE DEF r
<1>6. LiveIn(vs) \in Seq(SUBSET Ids) /\ Len(LiveIn(vs)) = r
  <2>1. r \in Nat
    BY <1>2 DEF r
  <2> QED
    BY <1>5, <2>1
<1> QED
  BY <1>1, <1>6 DEF r

LEMMA LiveInEmpty == LiveIn(<<>>) = <<>>
<1>1. <<>> \in Seq(Value) /\ Len(<<>>) = 0
  OBVIOUS
<1>2. Len(LiveIn(<<>>)) = 0 /\ LiveIn(<<>>) \in Seq(SUBSET Ids)
  BY <1>1, LiveInIs, RankStart
<1> QED
  BY <1>2

(* Pushing a snapshot adds it, pushing anything else adds nothing.          *)
LEMMA LiveInAppend ==
  ASSUME NEW vs \in Seq(Value), NEW v \in Value
  PROVE  LiveIn(Append(vs, v)) = IF IsSnapshot(v) THEN Append(LiveIn(vs), v.ctx) ELSE LiveIn(vs)
<1> DEFINE n == Len(vs)
           ws == Append(vs, v)
           r == Rank(vs, n)
<1>1. /\ n \in Nat /\ ws \in Seq(Value) /\ Len(ws) = n + 1 /\ ws[n + 1] = v
      /\ \A i \in 1..n : ws[i] = vs[i]
  OBVIOUS
<1> HIDE DEF ws
<1>2. \A k \in 0..n : Snapshots(ws, k) = Snapshots(vs, k)
  BY <1>1 DEF Snapshots
<1>3. r \in Nat /\ \A k \in 0..n : Rank(ws, k) = Rank(vs, k)
  BY <1>1, <1>2, SnapshotsFinite DEF Rank
<1>4. Rank(ws, n + 1) = IF IsSnapshot(v) THEN r + 1 ELSE r
  BY <1>1, <1>3, RankStep
<1>5. ASSUME NEW j \in 1..r
      PROVE  ws[Nth(ws, j)] = vs[Nth(vs, j)]
  <2>1. Nth(vs, j) \in 1..n /\ IsSnapshot(vs[Nth(vs, j)]) /\ Rank(vs, Nth(vs, j)) = j
    BY NthRanked
  <2>2. j \in 1..Rank(ws, n + 1)
    BY <1>3, <1>4
  <2>3. /\ Nth(ws, j) \in 1..(n + 1) /\ IsSnapshot(ws[Nth(ws, j)])
        /\ Rank(ws, Nth(ws, j)) = j
    BY <1>1, <2>2, NthRanked
  <2>4. IsSnapshot(ws[Nth(vs, j)]) /\ Rank(ws, Nth(vs, j)) = j
    BY <1>1, <1>3, <2>1
  <2>5. Nth(ws, j) = Nth(vs, j)
    BY <1>1, <2>1, <2>3, <2>4, RankInjective
  <2> QED
    BY <1>1, <2>1, <2>5
<1>6. CASE IsSnapshot(v)
  <2>1. r + 1 \in 1..Rank(ws, n + 1)
    BY <1>3, <1>4, <1>6
  <2>2. /\ Nth(ws, r + 1) \in 1..(n + 1) /\ IsSnapshot(ws[Nth(ws, r + 1)])
        /\ Rank(ws, Nth(ws, r + 1)) = r + 1
    BY <1>1, <2>1, NthRanked
  <2>3. Nth(ws, r + 1) = n + 1
    BY <1>1, <1>4, <1>6, <2>2, RankInjective
  <2>4. LiveIn(ws) = [j \in 1..(r + 1) |-> ws[Nth(ws, j)].ctx]
    BY <1>1, <1>4, <1>6, LiveInIs
  <2>5. /\ LiveIn(vs) = [j \in 1..r |-> vs[Nth(vs, j)].ctx]
        /\ LiveIn(vs) \in Seq(SUBSET Ids) /\ Len(LiveIn(vs)) = r
    BY LiveInIs
  <2>6. v.ctx \in SUBSET Ids
    BY DEF Value
  <2>7. LiveIn(ws) \in Seq(SUBSET Ids) /\ Len(LiveIn(ws)) = r + 1
    BY <1>1, <1>4, <1>6, LiveInIs
  <2>8. LiveIn(ws)[r + 1] = v.ctx
    BY <1>1, <1>3, <2>3, <2>4
  <2>9. ASSUME NEW j \in 1..r PROVE LiveIn(ws)[j] = LiveIn(vs)[j]
    <3>1. LiveIn(ws)[j] = ws[Nth(ws, j)].ctx
      BY <1>3, <2>4
    <3>2. LiveIn(vs)[j] = vs[Nth(vs, j)].ctx
      BY <2>5
    <3> QED
      BY <1>5, <3>1, <3>2
  <2> HIDE DEF r
  <2>10. LiveIn(ws) = Append(LiveIn(vs), v.ctx)
    BY <1>3, <2>5, <2>6, <2>7, <2>8, <2>9, AppendIs
  <2> QED
    BY <1>6, <2>10 DEF ws
<1>7. CASE ~IsSnapshot(v)
  <2>1. LiveIn(ws) = [j \in 1..r |-> ws[Nth(ws, j)].ctx]
    BY <1>1, <1>4, <1>7, LiveInIs
  <2>2. LiveIn(vs) = [j \in 1..r |-> vs[Nth(vs, j)].ctx]
    BY LiveInIs
  <2>3. \A j \in 1..r : ws[Nth(ws, j)].ctx = vs[Nth(vs, j)].ctx
    BY <1>5
  <2> HIDE DEF r
  <2>4. LiveIn(ws) = LiveIn(vs)
    BY <2>1, <2>2, <2>3
  <2> QED
    BY <1>7, <2>4 DEF ws
<1> QED
  BY <1>6, <1>7

-----------------------------------------------------------------------------
(* Values that suit a shape. *)

Suits(v, role) ==
  \/ role = "string" /\ v.tag = "string"
  \/ role \in {"declarator", "held"} /\ v.tag \in DeclaratorTag
  \/ role \in {"plist", "block"} /\ v.tag = "snapshot"
  \/ role = "context" /\ v.tag = "context"

(* What a declarator's alternative says of the declarator it was made from. *)
TellsDerivation(v) ==
  /\ v.own.by = "none" => v.tag = "identifier"
  /\ v.own.by = "params" => v.tag # "identifier" /\ "params" \in Features
  /\ v.own.by = "idlist" => "idlist" \in Features /\ v.own.scope = NoDeclarations
  /\ v.tag = "function" => "params" \in Features
  /\ v.tag = "other" => Lossy

ValueSound(v) ==
  /\ v.identifier = "none" <=> v.tag \in {"snapshot", "context"}
  /\ v.tag \in DeclaratorTag => TellsDerivation(v)

OutsideBlock(K) == \A i \in 1..Len(K) : K[i] # "block"

(* No block is open in a parameter list. *)
BlocksBelowLists(K) == \A i, j \in 1..Len(K) : i < j /\ K[j] = "block" => K[i] # "plist"

(* A snapshot for every open scope but the file scope.  The scope of a          *)
(* parameter list declares no typedef name.                                   *)
Leveled(K, vs, ss) ==
  /\ Len(ss) = Len(LiveIn(vs)) + 1
  /\ OutsideBlock(K) => \A j \in 2..Len(ss) : Types(ss[j]) = {}

(* While the declarator of a function definition is read, the file scope stays  *)
(* as it was when its parameters were.                                        *)
FileScopeKept(K, vs, ss) ==
  K # <<>> /\ K[1] = "held" =>
    /\ Definition
    /\ ~Lossy => /\ vs[1].own.by = "params" => vs[1].own.file = ss[1]
                 /\ Len(K) > 1 /\ K[2] = "context" => vs[2].own.file = ss[1]

Sound(K, vs, ss) ==
  /\ K \in Shape /\ vs \in Seq(Value) /\ ss \in Seq(Scope)
  /\ Len(K) = Len(vs)
  /\ \A k \in 1..Len(vs) : Suits(vs[k], K[k]) /\ ValueSound(vs[k])
  /\ BlocksBelowLists(K)
  /\ Leveled(K, vs, ss)
  /\ FileScopeKept(K, vs, ss)

LEMMA SplitLast ==
  ASSUME NEW S, NEW s \in Seq(S), s # <<>>
  PROVE  /\ SubSeq(s, 1, Len(s) - 1) \in Seq(S)
         /\ s[Len(s)] \in S
         /\ s = Append(SubSeq(s, 1, Len(s) - 1), s[Len(s)])
<1> DEFINE r == Len(s) - 1
           f == SubSeq(s, 1, r)
<1>1. Len(s) \in Nat \ {0} /\ r \in Nat /\ Len(s) = r + 1 /\ s[r + 1] \in S
  OBVIOUS
<1>2. f \in Seq(S) /\ Len(f) = r /\ \A j \in 1..r : s[j] = f[j]
  BY <1>1, DropLast
<1> HIDE DEF f, r
<1>3. s = Append(f, s[r + 1])
  BY <1>1, <1>2, AppendIs
<1> QED
  BY <1>1, <1>2, <1>3 DEF f, r

LEMMA FrontOfAppend ==
  ASSUME NEW S, NEW s \in Seq(S), NEW x \in S
  PROVE  /\ SubSeq(Append(s, x), 1, Len(Append(s, x)) - 1) = s
         /\ Append(s, x)[Len(Append(s, x))] = x
<1> DEFINE t == Append(s, x)
           f == SubSeq(t, 1, Len(t) - 1)
<1>1. t \in Seq(S) /\ Len(t) = Len(s) + 1 /\ Len(s) \in Nat /\ t[Len(t)] = x
      /\ \A j \in 1..Len(s) : t[j] = s[j]
  OBVIOUS
<1>2. f \in Seq(S) /\ Len(f) = Len(s) /\ \A j \in 1..Len(s) : f[j] = t[j]
  BY <1>1, DropLast
<1> HIDE DEF f, t
<1>3. f = s
  BY <1>1, <1>2, SeqEqual
<1> QED
  BY <1>1, <1>3 DEF f, t

LEMMA AppendEqual ==
  ASSUME NEW S, NEW s \in Seq(S), NEW t \in Seq(S), NEW x \in S, NEW y \in S,
         Append(s, x) = Append(t, y)
  PROVE  s = t /\ x = y
<1>1. s = SubSeq(Append(s, x), 1, Len(Append(s, x)) - 1)
      /\ t = SubSeq(Append(t, y), 1, Len(Append(t, y)) - 1)
      /\ x = Append(s, x)[Len(Append(s, x))] /\ y = Append(t, y)[Len(Append(t, y))]
  BY FrontOfAppend
<1> QED
  BY <1>1

(* The value on top, and what is below it. *)
LEMMA TopBelow ==
  ASSUME NEW c \in Shape, NEW r \in Role, NEW vs, NEW ss, Sound(Append(c, r), vs, ss)
  PROVE  \E us \in Seq(Value), v \in Value :
           /\ vs = Append(us, v) /\ Len(us) = Len(c)
           /\ us = SubSeq(vs, 1, Len(vs) - 1) /\ v = vs[Len(vs)]
           /\ Suits(v, r) /\ ValueSound(v)
<1>1. /\ vs \in Seq(Value) /\ Len(vs) = Len(c) + 1 /\ Len(c) \in Nat
      /\ Suits(vs[Len(c) + 1], Append(c, r)[Len(c) + 1]) /\ ValueSound(vs[Len(c) + 1])
  <2>1. vs \in Seq(Value) /\ Len(vs) = Len(c) + 1 /\ Len(c) \in Nat
    BY AppendedShape DEF Sound, Shape
  <2>2. Len(c) + 1 \in 1..Len(vs)
    BY <2>1
  <2> QED
    BY <2>1, <2>2 DEF Sound
<1>2. Append(c, r)[Len(c) + 1] = r
  BY AppendedShape
<1>3. vs # <<>> /\ Len(vs) = Len(c) + 1
  BY <1>1
<1>4. /\ SubSeq(vs, 1, Len(vs) - 1) \in Seq(Value) /\ vs[Len(vs)] \in Value
      /\ vs = Append(SubSeq(vs, 1, Len(vs) - 1), vs[Len(vs)])
  BY <1>1, <1>3, SplitLast
<1>5. Len(SubSeq(vs, 1, Len(vs) - 1)) = Len(c)
  BY <1>1
<1> QED
  BY <1>1, <1>2, <1>3, <1>4, <1>5

(* How many scopes are open, from the shape. *)
LEMMA OpenScopes ==
  ASSUME NEW K, NEW vs, NEW ss, Sound(K, vs, ss)
  PROVE  /\ Len(LiveIn(vs)) \in Nat /\ Len(ss) \in Nat \ {0} /\ LiveIn(vs) \in Seq(SUBSET Ids)
         /\ OutsideList(K) /\ OutsideBlock(K) => Len(ss) = 1 /\ LiveIn(vs) = <<>>
         /\ ~OutsideList(K) \/ ~OutsideBlock(K) => Len(ss) > 1
<1>1. /\ vs \in Seq(Value) /\ Len(ss) = Len(LiveIn(vs)) + 1 /\ Len(K) = Len(vs)
      /\ Len(vs) \in Nat
      /\ \A k \in 1..Len(vs) : Suits(vs[k], K[k])
  BY DEF Sound, Leveled
<1>2. /\ LiveIn(vs) \in Seq(SUBSET Ids) /\ Len(LiveIn(vs)) \in Nat
      /\ Len(LiveIn(vs)) = Cardinality(Snapshots(vs, Len(vs)))
      /\ IsFiniteSet(Snapshots(vs, Len(vs)))
  BY <1>1, LiveInIs, SnapshotsFinite DEF Rank
<1>3. \A k \in 1..Len(vs) : IsSnapshot(vs[k]) <=> K[k] \in {"plist", "block"}
  BY <1>1 DEF IsSnapshot, Suits, DeclaratorTag
<1>4. ASSUME OutsideList(K), OutsideBlock(K)
      PROVE  Len(ss) = 1 /\ LiveIn(vs) = <<>>
  <2>1. Snapshots(vs, Len(vs)) = {}
    BY <1>1, <1>3, <1>4 DEF Snapshots, OutsideList, OutsideBlock
  <2>2. Len(LiveIn(vs)) = 0
    BY <1>2, <2>1, FS_EmptySet
  <2> QED
    BY <1>1, <1>2, <2>2
<1>5. ASSUME ~OutsideList(K) \/ ~OutsideBlock(K)
      PROVE  Len(ss) > 1
  <2>1. PICK k \in 1..Len(vs) : IsSnapshot(vs[k])
    BY <1>1, <1>3, <1>5 DEF OutsideList, OutsideBlock
  <2>2. Snapshots(vs, Len(vs)) # {}
    BY <2>1 DEF Snapshots
  <2>3. Cardinality(Snapshots(vs, Len(vs))) # 0
    BY <1>2, <2>2, FS_EmptySet
  <2> QED
    BY <1>1, <1>2, <2>3
<1> QED
  BY <1>1, <1>2, <1>4, <1>5

LEMMA AppendedBlocks ==
  ASSUME NEW K \in Shape, NEW r \in Role
  PROVE  /\ OutsideBlock(Append(K, r)) <=> OutsideBlock(K) /\ r # "block"
         /\ BlocksBelowLists(Append(K, r)) <=>
              BlocksBelowLists(K) /\ (r = "block" => OutsideList(K))
<1> DEFINE L == Append(K, r)
           n == Len(K)
<1>1. n \in Nat /\ Len(L) = n + 1 /\ L[n + 1] = r /\ \A i \in 1..n : L[i] = K[i]
  BY AppendedShape DEF Shape
<1> HIDE DEF L
<1>2. OutsideBlock(L) <=> OutsideBlock(K) /\ r # "block"
  BY <1>1 DEF OutsideBlock
<1>3. BlocksBelowLists(L) => BlocksBelowLists(K) /\ (r = "block" => OutsideList(K))
  BY <1>1 DEF BlocksBelowLists, OutsideList
<1>4. ASSUME BlocksBelowLists(K), r = "block" => OutsideList(K), NEW i \in 1..Len(L),
             NEW j \in 1..Len(L), i < j, L[j] = "block"
      PROVE  L[i] # "plist"
  <2>1. CASE j = n + 1
    BY <1>1, <1>4, <2>1 DEF OutsideList
  <2>2. CASE j \in 1..n
    BY <1>1, <1>4, <2>2 DEF BlocksBelowLists
  <2> QED
    BY <1>1, <2>1, <2>2
<1>5. BlocksBelowLists(K) /\ (r = "block" => OutsideList(K)) => BlocksBelowLists(L)
  BY <1>4 DEF BlocksBelowLists
<1> QED
  BY <1>2, <1>3, <1>5 DEF L

(* What pushing a value needs, whatever it is. *)
LEMMA AppendedSound ==
  ASSUME NEW K \in Shape, NEW r \in Role, NEW vs \in Seq(Value), NEW v \in Value,
         NEW ss \in Seq(Scope)
  PROVE  Sound(Append(K, r), Append(vs, v), ss) <=>
           /\ Len(K) = Len(vs)
           /\ \A k \in 1..Len(vs) : Suits(vs[k], K[k]) /\ ValueSound(vs[k])
           /\ Suits(v, r) /\ ValueSound(v)
           /\ BlocksBelowLists(K) /\ (r = "block" => OutsideList(K))
           /\ Leveled(Append(K, r), Append(vs, v), ss)
           /\ FileScopeKept(Append(K, r), Append(vs, v), ss)
<1> DEFINE L == Append(K, r)
           ws == Append(vs, v)
<1>1. /\ Len(K) \in Nat /\ Len(vs) \in Nat /\ L \in Shape /\ Len(L) = Len(K) + 1
      /\ L[Len(K) + 1] = r /\ \A i \in 1..Len(K) : L[i] = K[i]
      /\ ws \in Seq(Value) /\ Len(ws) = Len(vs) + 1
      /\ ws[Len(vs) + 1] = v /\ \A i \in 1..Len(vs) : ws[i] = vs[i]
  BY AppendedShape DEF Shape
<1>2. BlocksBelowLists(L) <=> BlocksBelowLists(K) /\ (r = "block" => OutsideList(K))
  BY AppendedBlocks
<1> HIDE DEF L, ws
<1>3. Len(L) = Len(ws) <=> Len(K) = Len(vs)
  BY <1>1
<1>4. ASSUME Len(K) = Len(vs)
      PROVE  (\A k \in 1..Len(ws) : Suits(ws[k], L[k]) /\ ValueSound(ws[k])) <=>
               /\ \A k \in 1..Len(vs) : Suits(vs[k], K[k]) /\ ValueSound(vs[k])
               /\ Suits(v, r) /\ ValueSound(v)
  <2>1. \A k : k \in 1..Len(ws) <=> k \in 1..Len(vs) \/ k = Len(vs) + 1
    BY <1>1
  <2> QED
    BY <1>1, <1>4, <2>1
<1> QED
  BY <1>1, <1>2, <1>3, <1>4 DEF Sound, L, ws

(* What stays at the bottom keeps the file scope's promise. *)
LEMMA AppendedKept ==
  ASSUME NEW K \in Shape, NEW r \in Role, NEW vs \in Seq(Value), NEW v \in Value,
         NEW ss, Len(K) = Len(vs), r # "held"
  PROVE  /\ FileScopeKept(Append(K, r), Append(vs, v), ss) => FileScopeKept(K, vs, ss)
         /\ FileScopeKept(K, vs, ss) /\ (r = "context" => v.own.file = ss[1]) =>
              FileScopeKept(Append(K, r), Append(vs, v), ss)
<1> DEFINE L == Append(K, r)
           ws == Append(vs, v)
<1>1. /\ Len(K) \in Nat /\ L # <<>> /\ Len(L) = Len(K) + 1
      /\ L[Len(K) + 1] = r /\ \A i \in 1..Len(K) : L[i] = K[i]
      /\ ws[Len(vs) + 1] = v /\ \A i \in 1..Len(vs) : ws[i] = vs[i]
      /\ K # <<>> => Len(K) > 0
  BY AppendedShape DEF Shape
<1> HIDE DEF L, ws
<1>2. ASSUME FileScopeKept(L, ws, ss) PROVE FileScopeKept(K, vs, ss)
  <2>1. SUFFICES ASSUME K # <<>>, K[1] = "held"
                 PROVE  /\ Definition
                        /\ ~Lossy => /\ vs[1].own.by = "params" => vs[1].own.file = ss[1]
                                     /\ Len(K) > 1 /\ K[2] = "context" => vs[2].own.file = ss[1]
    BY DEF FileScopeKept
  <2>2. L[1] = "held" /\ ws[1] = vs[1] /\ (Len(K) > 1 => L[2] = K[2] /\ ws[2] = vs[2])
    BY <1>1, <2>1
  <2> QED
    BY <1>1, <1>2, <2>2 DEF FileScopeKept
<1>3. ASSUME FileScopeKept(K, vs, ss), r = "context" => v.own.file = ss[1]
      PROVE  FileScopeKept(L, ws, ss)
  <2>1. SUFFICES ASSUME L[1] = "held"
                 PROVE  /\ Definition
                        /\ ~Lossy => /\ ws[1].own.by = "params" => ws[1].own.file = ss[1]
                                     /\ Len(L) > 1 /\ L[2] = "context" => ws[2].own.file = ss[1]
    BY DEF FileScopeKept
  <2>2. K # <<>>
    BY <1>1, <2>1
  <2>3. K[1] = "held" /\ ws[1] = vs[1]
    BY <1>1, <2>1, <2>2
  <2>4. CASE Len(K) > 1
    <3>1. L[2] = K[2] /\ ws[2] = vs[2]
      BY <1>1, <2>4
    <3> QED
      BY <1>1, <1>3, <2>2, <2>3, <2>4, <3>1 DEF FileScopeKept
  <2>5. CASE Len(K) = 1
    <3>1. L[2] = r /\ ws[2] = v
      BY <1>1, <2>5
    <3> QED
      BY <1>1, <1>3, <2>2, <2>3, <2>5, <3>1 DEF FileScopeKept
  <2> QED
    BY <1>1, <2>2, <2>4, <2>5
<1> QED
  BY <1>2, <1>3 DEF L, ws

(* Pushing a value that is no snapshot. *)
LEMMA PushSound ==
  ASSUME NEW K \in Shape, NEW vs, NEW ss, Sound(K, vs, ss), NEW r \in Role, NEW v \in Value,
         r \in {"string", "declarator", "context"}, Suits(v, r), ValueSound(v),
         r = "context" => v.own.file = ss[1]
  PROVE  Sound(Append(K, r), Append(vs, v), ss)
<1>1. vs \in Seq(Value) /\ ss \in Seq(Scope) /\ Len(K) = Len(vs)
  BY DEF Sound
<1>2. FileScopeKept(Append(K, r), Append(vs, v), ss)
  BY <1>1, AppendedKept DEF Sound
<1>3. LiveIn(Append(vs, v)) = LiveIn(vs)
  BY <1>1, LiveInAppend DEF Suits, IsSnapshot, DeclaratorTag
<1>4. Leveled(Append(K, r), Append(vs, v), ss)
  BY <1>3, AppendedBlocks DEF Sound, Leveled
<1> QED
  BY <1>1, <1>2, <1>4, AppendedSound DEF Sound

(* Pushing a snapshot, a scope being entered. *)
LEMMA PushScope ==
  ASSUME NEW K \in Shape, NEW vs, NEW ss, Sound(K, vs, ss), NEW r \in {"plist", "block"},
         NEW v \in Value, Suits(v, r), ValueSound(v), NEW scope \in Scope,
         r = "plist" => scope = NoDeclarations, r = "block" => OutsideList(K)
  PROVE  Sound(Append(K, r), Append(vs, v), Enter(ss, scope))
<1>1. vs \in Seq(Value) /\ ss \in Seq(Scope) /\ Len(K) = Len(vs) /\ r \in Role
  BY DEF Sound, Role
<1> DEFINE tt == Enter(ss, scope)
<1>2. /\ tt \in Seq(Scope) /\ Len(tt) = Len(ss) + 1 /\ \A j \in 1..Len(ss) : tt[j] = ss[j]
      /\ tt[Len(ss) + 1] = scope
  BY <1>1, EnterTop
<1>3. Len(LiveIn(vs)) \in Nat /\ Len(ss) \in Nat \ {0} /\ LiveIn(vs) \in Seq(SUBSET Ids)
  BY OpenScopes
<1> HIDE DEF tt
<1>4. FileScopeKept(Append(K, r), Append(vs, v), tt)
  <2>1. FileScopeKept(Append(K, r), Append(vs, v), ss)
    BY <1>1, AppendedKept DEF Sound
  <2>2. tt[1] = ss[1]
    BY <1>2, <1>3
  <2> QED
    BY <2>1, <2>2 DEF FileScopeKept
<1>5. LiveIn(Append(vs, v)) = Append(LiveIn(vs), v.ctx)
  BY <1>1, LiveInAppend DEF Suits, IsSnapshot
<1>6. Len(tt) = Len(LiveIn(Append(vs, v))) + 1
  <2>1. Len(Append(LiveIn(vs), v.ctx)) = Len(LiveIn(vs)) + 1
    BY <1>3, ValueFields
  <2>2. Len(ss) = Len(LiveIn(vs)) + 1
    BY DEF Sound, Leveled
  <2> QED
    BY <1>2, <1>5, <2>1, <2>2
<1>7. ASSUME OutsideBlock(Append(K, r)), NEW j \in 2..Len(tt)
      PROVE  Types(tt[j]) = {}
  <2>1. OutsideBlock(K) /\ r = "plist"
    BY <1>1, <1>7, AppendedBlocks
  <2>2. CASE j = Len(ss) + 1
    BY <1>2, <2>1, <2>2 DEF Types, NoDeclarations
  <2>3. CASE j \in 2..Len(ss)
    <3>1. tt[j] = ss[j]
      BY <1>2, <1>3, <2>3
    <3>2. Types(ss[j]) = {}
      BY <2>1, <2>3 DEF Sound, Leveled
    <3> QED
      BY <3>1, <3>2
  <2> QED
    BY <1>2, <1>3, <2>2, <2>3
<1>8. Leveled(Append(K, r), Append(vs, v), tt)
  BY <1>6, <1>7 DEF Leveled
<1> QED
  BY <1>1, <1>2, <1>4, <1>8, AppendedSound DEF Sound, tt

(* Popping a value that is no snapshot. *)
LEMMA PopSound ==
  ASSUME NEW K \in Shape, NEW r \in Role, NEW vs \in Seq(Value), NEW v \in Value, NEW ss,
         Sound(Append(K, r), Append(vs, v), ss), r \notin {"plist", "block"}
  PROVE  Sound(K, vs, ss)
<1>1. ss \in Seq(Scope)
  BY DEF Sound
<1>2. /\ Len(K) = Len(vs)
      /\ \A k \in 1..Len(vs) : Suits(vs[k], K[k]) /\ ValueSound(vs[k])
      /\ Suits(v, r) /\ BlocksBelowLists(K)
      /\ Leveled(Append(K, r), Append(vs, v), ss)
      /\ FileScopeKept(Append(K, r), Append(vs, v), ss)
  BY <1>1, AppendedSound
<1>3. LiveIn(Append(vs, v)) = LiveIn(vs)
  BY <1>2, LiveInAppend DEF Suits, IsSnapshot, DeclaratorTag
<1>4. Leveled(K, vs, ss)
  BY <1>2, <1>3, AppendedBlocks DEF Leveled
<1>5. FileScopeKept(K, vs, ss)
  <2>1. CASE r # "held"
    BY <1>2, <2>1, AppendedKept
  <2>2. CASE K = <<>>
    BY <2>2 DEF FileScopeKept
  <2>3. CASE r = "held" /\ K # <<>>
    <3> DEFINE L == Append(K, r)
               ws == Append(vs, v)
    <3>1. /\ Len(K) \in Nat /\ Len(K) > 0 /\ L # <<>> /\ Len(L) = Len(K) + 1
          /\ L[Len(K) + 1] = r /\ \A i \in 1..Len(K) : L[i] = K[i]
          /\ ws[Len(vs) + 1] = v /\ \A i \in 1..Len(vs) : ws[i] = vs[i]
      BY <2>3, AppendedShape DEF Shape
    <3> HIDE DEF L, ws
    <3>2. L[1] = K[1] /\ ws[1] = vs[1] /\ (Len(K) > 1 => L[2] = K[2] /\ ws[2] = vs[2])
      BY <1>2, <3>1
    <3>3. FileScopeKept(L, ws, ss)
      BY <1>2 DEF L, ws
    <3> QED
      BY <3>1, <3>2, <3>3 DEF FileScopeKept
  <2> QED
    BY <2>1, <2>2, <2>3
<1> QED
  BY <1>1, <1>2, <1>4, <1>5 DEF Sound

(* Popping a snapshot, its scope being left. *)
LEMMA PopScope ==
  ASSUME NEW K \in Shape, NEW r \in {"plist", "block"}, NEW vs \in Seq(Value),
         NEW v \in Value, NEW ss, Sound(Append(K, r), Append(vs, v), ss)
  PROVE  /\ Sound(K, vs, Leave(ss))
         /\ LiveIn(Append(vs, v)) = Append(LiveIn(vs), v.ctx)
<1>1. ss \in Seq(Scope) /\ r \in Role
  BY DEF Sound, Role
<1>2. /\ Len(K) = Len(vs)
      /\ \A k \in 1..Len(vs) : Suits(vs[k], K[k]) /\ ValueSound(vs[k])
      /\ Suits(v, r) /\ BlocksBelowLists(K) /\ (r = "block" => OutsideList(K))
      /\ Leveled(Append(K, r), Append(vs, v), ss)
      /\ FileScopeKept(Append(K, r), Append(vs, v), ss)
  BY <1>1, AppendedSound
<1>3. LiveIn(Append(vs, v)) = Append(LiveIn(vs), v.ctx)
  BY <1>2, LiveInAppend DEF Suits, IsSnapshot
<1>4. LiveIn(vs) \in Seq(SUBSET Ids) /\ Len(LiveIn(vs)) \in Nat
  BY LiveInIs, SnapshotsFinite
<1>5. Len(Append(LiveIn(vs), v.ctx)) = Len(LiveIn(vs)) + 1
  BY <1>4, ValueFields
<1> DEFINE tt == Leave(ss)
<1>6. Len(ss) = Len(LiveIn(vs)) + 2 /\ Len(ss) > 1
  BY <1>2, <1>3, <1>4, <1>5 DEF Leveled
<1>7. tt \in Seq(Scope) /\ Len(tt) = Len(LiveIn(vs)) + 1 /\ \A j \in 1..Len(tt) : tt[j] = ss[j]
  BY <1>1, <1>4, <1>6, LeaveKeepsOuter
<1> HIDE DEF tt
<1>8. FileScopeKept(K, vs, tt)
  <2>1. FileScopeKept(K, vs, ss)
    BY <1>1, <1>2, AppendedKept
  <2>2. tt[1] = ss[1]
    BY <1>4, <1>7
  <2> QED
    BY <2>1, <2>2 DEF FileScopeKept
<1>9. ASSUME OutsideBlock(K), NEW j \in 2..Len(tt)
      PROVE  Types(tt[j]) = {}
  <2>1. CASE r = "plist"
    <3>1. OutsideBlock(Append(K, r))
      BY <1>1, <1>9, <2>1, AppendedBlocks
    <3>2. j \in 2..Len(ss) /\ tt[j] = ss[j]
      BY <1>4, <1>6, <1>7
    <3> QED
      BY <1>2, <3>1, <3>2 DEF Leveled
  <2>2. CASE r = "block"
    <3>1. \A k \in 1..Len(vs) : ~IsSnapshot(vs[k])
      BY <1>2, <1>9, <2>2 DEF OutsideList, OutsideBlock, Suits, IsSnapshot, DeclaratorTag
    <3>2. Snapshots(vs, Len(vs)) = {}
      BY <3>1 DEF Snapshots
    <3>3. Len(LiveIn(vs)) = 0
      BY <3>2, FS_EmptySet, LiveInIs DEF Rank
    <3> QED
      BY <1>7, <3>3
  <2> QED
    BY <2>1, <2>2
<1>10. Leveled(K, vs, tt)
  BY <1>7, <1>9 DEF Leveled
<1>11. Sound(K, vs, tt)
  BY <1>2, <1>7, <1>8, <1>10 DEF Sound
<1> QED
  BY <1>3, <1>11 DEF tt

(* Declaring a name leaves the values sound, where declarations may stand.   *)
LEMMA DeclareSound ==
  ASSUME NEW K \in Shape, NEW vs, NEW ss, Sound(K, vs, ss), Free(K), NEW id \in Ids,
         NEW kind \in {"type", "other"}, kind = "type" => OutsideList(K)
  PROVE  Sound(K, vs, Declare(ss, id, kind))
<1> DEFINE tt == Declare(ss, id, kind)
<1>1. ss \in Seq(Scope) /\ Len(ss) \in Nat \ {0} /\ kind \in Kind
  BY OpenScopes DEF Sound, Kind
<1>2. /\ tt \in Seq(Scope) /\ Len(tt) = Len(ss)
      /\ \A j \in 1..(Len(ss) - 1) : tt[j] = ss[j]
      /\ tt[Len(ss)] = [ss[Len(ss)] EXCEPT ![id] = kind]
      /\ ss[Len(ss)] \in Scope
  BY <1>1, DeclareTop
<1> HIDE DEF tt
<1>3. FileScopeKept(K, vs, tt)
  <2>1. CASE Lossy \/ K = <<>> \/ K[1] # "held"
    BY <2>1 DEF Sound, FileScopeKept
  <2>2. CASE ~Lossy /\ K # <<>> /\ K[1] = "held"
    <3>1. ~OutsideList(K)
      BY <2>2 DEF Free
    <3>2. Len(ss) > 1
      BY <3>1, OpenScopes
    <3>3. tt[1] = ss[1]
      BY <1>1, <1>2, <3>2
    <3> QED
      BY <3>3 DEF Sound, FileScopeKept
  <2> QED
    BY <2>1, <2>2
<1>4. ASSUME OutsideBlock(K), NEW j \in 2..Len(tt)
      PROVE  Types(tt[j]) = {}
  <2>1. ~OutsideList(K)
    BY <1>1, <1>2, <1>4, OpenScopes
  <2>2. kind = "other" /\ Types(ss[j]) = {}
    BY <1>2, <1>4, <2>1 DEF Sound, Leveled
  <2>3. CASE j = Len(ss)
    <3>1. \A x \in Ids : ss[j][x] # "type"
      BY <2>2 DEF Types
    <3>2. \A x \in Ids : tt[j][x] = IF x = id THEN kind ELSE ss[j][x]
      BY <1>2, <2>3 DEF Scope
    <3> QED
      BY <2>2, <3>1, <3>2 DEF Types
  <2>4. CASE j \in 2..(Len(ss) - 1)
    <3>1. tt[j] = ss[j]
      BY <1>1, <1>2, <2>4
    <3> QED
      BY <2>2, <3>1
  <2> QED
    BY <1>1, <1>2, <2>3, <2>4
<1>5. Leveled(K, vs, tt)
  BY <1>2, <1>4 DEF Sound, Leveled
<1> QED
  BY <1>2, <1>3, <1>5 DEF Sound, tt

LEMMA NoSnapshotLeveled ==
  ASSUME NEW K, NEW vs, NEW ss \in Seq(Scope), LiveIn(vs) = <<>>
  PROVE  Leveled(K, vs, ss) <=> Len(ss) = 1
<1>1. Len(LiveIn(vs)) = 0 /\ Len(ss) \in Nat
  OBVIOUS
<1>2. Len(ss) = 1 => \A j \in 2..Len(ss) : FALSE
  BY <1>1
<1> QED
  BY <1>1, <1>2 DEF Leveled

(* The declarator of a definition alone on the stack. *)
LEMMA HeldSound ==
  ASSUME NEW v \in Value, NEW ss \in Seq(Scope)
  PROVE  /\ Sound(<<"held">>, <<v>>, ss) <=>
              /\ v.tag \in DeclaratorTag /\ ValueSound(v) /\ Len(ss) = 1
              /\ Definition
              /\ ~Lossy => (v.own.by = "params" => v.own.file = ss[1])
         /\ Sound(<<"declarator">>, <<v>>, ss) <=>
              v.tag \in DeclaratorTag /\ ValueSound(v) /\ Len(ss) = 1
<1>1. /\ <<>> \in Shape /\ <<>> \in Seq(Value) /\ Len(<<>>) = 0 /\ LiveIn(<<>>) = <<>>
      /\ {"held", "declarator"} \subseteq Role
  BY LiveInEmpty DEF Shape, Role
<1>2. ASSUME NEW r \in {"held", "declarator"}
      PROVE  Sound(<<r>>, <<v>>, ss) <=>
               /\ v.tag \in DeclaratorTag /\ ValueSound(v) /\ Len(ss) = 1
               /\ FileScopeKept(<<r>>, <<v>>, ss)
  <2>1. Append(<<>>, r) = <<r>> /\ Append(<<>>, v) = <<v>> /\ r \in Role
    BY <1>1
  <2>2. Suits(v, r) <=> v.tag \in DeclaratorTag
    BY DEF Suits
  <2>3. BlocksBelowLists(<<>>) /\ OutsideList(<<>>)
    BY <1>1 DEF BlocksBelowLists, OutsideList
  <2>4. ASSUME v.tag \in DeclaratorTag
        PROVE  Leveled(<<r>>, <<v>>, ss) <=> Len(ss) = 1
    <3>1. LiveIn(<<v>>) = <<>>
      <4>1. LiveIn(Append(<<>>, v)) = LiveIn(<<>>)
        BY <1>1, <2>4, LiveInAppend DEF IsSnapshot, DeclaratorTag
      <4> QED
        BY <1>1, <2>1, <4>1
    <3> QED
      BY <3>1, NoSnapshotLeveled
  <2>5. \A k \in 1..Len(<<>>) : FALSE
    BY <1>1
  <2>6. Sound(Append(<<>>, r), Append(<<>>, v), ss) <=>
           /\ Len(<<>>) = Len(<<>>)
           /\ \A k \in 1..Len(<<>>) : Suits(<<>>[k], <<>>[k]) /\ ValueSound(<<>>[k])
           /\ Suits(v, r) /\ ValueSound(v)
           /\ BlocksBelowLists(<<>>) /\ (r = "block" => OutsideList(<<>>))
           /\ Leveled(Append(<<>>, r), Append(<<>>, v), ss)
           /\ FileScopeKept(Append(<<>>, r), Append(<<>>, v), ss)
    BY <1>1, <2>1, AppendedSound
  <2> QED
    BY <2>1, <2>2, <2>3, <2>4, <2>5, <2>6
<1>3. FileScopeKept(<<"declarator">>, <<v>>, ss)
  BY DEF FileScopeKept
<1>4. FileScopeKept(<<"held">>, <<v>>, ss) <=>
        Definition /\ (~Lossy => (v.own.by = "params" => v.own.file = ss[1]))
  BY DEF FileScopeKept
<1> QED
  BY <1>2, <1>3, <1>4

LEMMA EmptySound ==
  ASSUME NEW ss \in Seq(Scope)
  PROVE  Sound(<<>>, <<>>, ss) <=> Len(ss) = 1
<1>1. /\ <<>> \in Shape /\ <<>> \in Seq(Value) /\ Len(<<>>) = 0 /\ LiveIn(<<>>) = <<>>
  BY LiveInEmpty DEF Shape
<1>2. OutsideBlock(<<>>) /\ BlocksBelowLists(<<>>) /\ FileScopeKept(<<>>, <<>>, ss)
  BY <1>1 DEF OutsideBlock, BlocksBelowLists, FileScopeKept
<1>3. \A k \in 1..Len(<<>>) : FALSE
  BY <1>1
<1>4. Leveled(<<>>, <<>>, ss) <=> Len(ss) = 1
  BY <1>1, NoSnapshotLeveled
<1> QED
  BY <1>1, <1>2, <1>3, <1>4 DEF Sound

-----------------------------------------------------------------------------
(* The parameter list that a definition would reopen. *)

RecordsList(d) == d.tag = "function" /\ d.own.by = "params"
AwaitsList(d) == d.tag = "identifier" /\ d.own.by = "none"

LEMMA PendingOff ==
  ASSUME NEW vs, ~Definition \/ vs = <<>>
  PROVE  PendingIn(vs) = NoList
  BY DEF PendingIn, Definition

LEMMA PendingIs ==
  ASSUME NEW vs, Definition, vs # <<>>
  PROVE  PendingIn(vs) =
           IF RecordsList(vs[1]) THEN AsParams(vs[1], vs[1].identifier)
           ELSE IF AwaitsList(vs[1]) /\ Len(vs) >= 2 /\ vs[2].tag = "context"
           THEN AsParams(vs[2], vs[1].identifier) ELSE NoList
  BY DEF PendingIn, Definition, RecordsList, AwaitsList

(* The two values at the bottom decide. *)
LEMMA PendingSame ==
  ASSUME NEW vs \in Seq(Value), NEW ws \in Seq(Value), vs # <<>>, ws # <<>>, vs[1] = ws[1],
         \/ Len(vs) >= 2 /\ Len(ws) >= 2 /\ vs[2] = ws[2]
         \/ /\ Len(vs) >= 2 => vs[2].tag # "context"
            /\ Len(ws) >= 2 => ws[2].tag # "context"
         \/ vs[1].tag = "snapshot"
  PROVE  PendingIn(vs) = PendingIn(ws)
<1>1. CASE ~Definition
  BY <1>1, PendingOff
<1>2. CASE Definition
  BY <1>2, PendingIs DEF RecordsList, AwaitsList
<1> QED
  BY <1>1, <1>2

(* Of one value. *)
LEMMA PendingOne ==
  ASSUME NEW v \in Value
  PROVE  PendingIn(<<v>>) =
           IF Definition /\ RecordsList(v) THEN AsParams(v, v.identifier) ELSE NoList
<1>1. <<v>> # <<>> /\ <<v>>[1] = v /\ ~(Len(<<v>>) >= 2)
  OBVIOUS
<1> QED
  BY <1>1, PendingOff, PendingIs

LEMMA AppendedValue ==
  ASSUME NEW us \in Seq(Value), NEW v \in Value
  PROVE  /\ Append(us, v) \in Seq(Value) /\ Append(us, v) # <<>>
         /\ Len(us) \in Nat /\ Len(Append(us, v)) = Len(us) + 1
         /\ Append(us, v)[Len(us) + 1] = v
         /\ \A i \in 1..Len(us) : Append(us, v)[i] = us[i]
         /\ us = <<>> => Append(us, v) = <<v>>
         /\ us # <<>> => Len(us) >= 1 /\ (Len(us) >= 2 \/ Len(us) = 1)
<1>1. /\ Append(us, v) \in Seq(Value) /\ Len(us) \in Nat /\ Len(Append(us, v)) = Len(us) + 1
      /\ Append(us, v)[Len(us) + 1] = v
  OBVIOUS
<1>2. \A i \in 1..Len(us) : Append(us, v)[i] = us[i]
  OBVIOUS
<1>3. Append(us, v) # <<>>
  BY <1>1
<1>4. us = <<>> => Append(us, v) = <<v>>
  OBVIOUS
<1>5. us # <<>> => Len(us) # 0
  OBVIOUS
<1>6. us # <<>> => Len(us) >= 1 /\ (Len(us) >= 2 \/ Len(us) = 1)
  <2>1. \A n \in Nat : n # 0 => n >= 1 /\ (n >= 2 \/ n = 1)
    OBVIOUS
  <2> QED
    BY <1>1, <1>5, <2>1, Zenon
<1> QED
  BY <1>1, <1>2, <1>3, <1>4, <1>6

(* Strings and snapshots change nothing. *)
LEMMA PendingPushed ==
  ASSUME NEW us \in Seq(Value), NEW v \in Value, v.tag \in {"string", "snapshot"}
  PROVE  PendingIn(Append(us, v)) = PendingIn(us)
<1>1. CASE us = <<>>
  BY <1>1, AppendedValue, PendingOff, PendingOne DEF RecordsList
<1>2. CASE us # <<>>
  <2> DEFINE ws == Append(us, v)
  <2>1. /\ ws \in Seq(Value) /\ ws # <<>> /\ Len(us) \in Nat
        /\ Len(us) >= 2 \/ Len(us) = 1
        /\ Len(ws) = Len(us) + 1 /\ ws[Len(us) + 1] = v
        /\ \A i \in 1..Len(us) : ws[i] = us[i]
    BY <1>2, AppendedValue
  <2> HIDE DEF ws
  <2>2. ws[1] = us[1]
    BY <2>1
  <2>3. CASE Len(us) >= 2
    <3>1. ws[2] = us[2] /\ Len(ws) >= 2
      BY <2>1, <2>3
    <3> QED
      BY <1>2, <2>1, <2>2, <2>3, <3>1, PendingSame DEF ws
  <2>4. CASE Len(us) = 1
    <3>1. ws[2].tag # "context" /\ ~(Len(us) >= 2)
      BY <2>1, <2>4
    <3> QED
      BY <1>2, <2>1, <2>2, <2>4, <3>1, PendingSame DEF ws
  <2> QED
    BY <2>1, <2>3, <2>4
<1> QED
  BY <1>1, <1>2

(* What is not at the bottom and no list changes nothing. *)
LEMMA PendingReplaced ==
  ASSUME NEW us \in Seq(Value), us # <<>>, NEW v \in Value, NEW w \in Value,
         v.tag # "context", w.tag # "context"
  PROVE  PendingIn(Append(us, v)) = PendingIn(Append(us, w))
<1> DEFINE vs == Append(us, v)
           ws == Append(us, w)
<1>1. /\ vs \in Seq(Value) /\ vs # <<>> /\ Len(us) \in Nat
      /\ Len(us) >= 2 \/ Len(us) = 1
      /\ Len(vs) = Len(us) + 1 /\ vs[Len(us) + 1] = v
      /\ \A i \in 1..Len(us) : vs[i] = us[i]
      /\ ws \in Seq(Value) /\ ws # <<>>
      /\ Len(ws) = Len(us) + 1 /\ ws[Len(us) + 1] = w
      /\ \A i \in 1..Len(us) : ws[i] = us[i]
  BY AppendedValue
<1> HIDE DEF vs, ws
<1>2. vs[1] = ws[1]
  BY <1>1
<1>3. CASE Len(us) >= 2
  <2>1. vs[2] = ws[2] /\ Len(vs) >= 2 /\ Len(ws) >= 2
    BY <1>1, <1>3
  <2> QED
    BY <1>1, <1>2, <2>1, PendingSame DEF vs, ws
<1>4. CASE Len(us) = 1
  <2>1. vs[2].tag # "context" /\ ws[2].tag # "context"
    BY <1>1, <1>4
  <2> QED
    BY <1>1, <1>2, <2>1, PendingSame DEF vs, ws
<1> QED
  BY <1>1, <1>3, <1>4

(* Popping may only forget. *)
LEMMA PendingPopped ==
  ASSUME NEW us \in Seq(Value), NEW v \in Value
  PROVE  PendingIn(us) \in {PendingIn(Append(us, v)), NoList}
<1>1. CASE us = <<>>
  BY <1>1, PendingOff
<1>2. CASE us # <<>>
  <2> DEFINE ws == Append(us, v)
  <2>1. /\ ws \in Seq(Value) /\ ws # <<>> /\ Len(us) \in Nat
        /\ Len(us) >= 2 \/ Len(us) = 1
        /\ Len(ws) = Len(us) + 1 /\ ws[Len(us) + 1] = v
        /\ \A i \in 1..Len(us) : ws[i] = us[i]
    BY <1>2, AppendedValue
  <2> HIDE DEF ws
  <2>2. ws[1] = us[1]
    BY <2>1
  <2>3. CASE Len(us) >= 2
    <3>1. ws[2] = us[2] /\ Len(ws) >= 2
      BY <2>1, <2>3
    <3>2. PendingIn(us) = PendingIn(ws)
      BY <1>2, <2>1, <2>2, <2>3, <3>1, PendingSame
    <3> QED
      BY <3>2 DEF ws
  <2>4. CASE Len(us) = 1 /\ ~Definition
    BY <2>4, PendingOff
  <2>5. CASE Len(us) = 1 /\ Definition
    <3>1. PendingIn(us) = IF RecordsList(us[1]) THEN AsParams(us[1], us[1].identifier) ELSE NoList
      BY <1>2, <2>5, PendingIs
    <3>2. RecordsList(us[1]) => PendingIn(ws) = AsParams(us[1], us[1].identifier)
      BY <2>1, <2>2, <2>5, PendingIs
    <3> QED
      BY <3>1, <3>2 DEF ws
  <2> QED
    BY <2>1, <2>3, <2>4, <2>5
<1> QED
  BY <1>1, <1>2

(* A list just read stands above its snapshot. *)
LEMMA PendingListPushed ==
  ASSUME NEW us \in Seq(Value), NEW s \in Value, NEW v \in Value, s.tag = "snapshot"
  PROVE  PendingIn(Append(Append(us, s), v)) = PendingIn(Append(us, s))
<1> DEFINE vs == Append(us, s)
           ws == Append(vs, v)
<1>1. /\ vs \in Seq(Value) /\ vs # <<>> /\ Len(us) \in Nat
      /\ Len(vs) = Len(us) + 1 /\ vs[Len(us) + 1] = s
  BY AppendedValue
<1> HIDE DEF vs
<1>2. /\ ws \in Seq(Value) /\ ws # <<>> /\ Len(ws) = Len(vs) + 1 /\ Len(vs) >= 1
      /\ \A i \in 1..Len(vs) : ws[i] = vs[i]
  BY <1>1, AppendedValue
<1> HIDE DEF ws
<1>3. vs[1] = ws[1]
  BY <1>1, <1>2
<1>4. CASE Len(vs) >= 2
  <2>1. vs[2] = ws[2] /\ Len(ws) >= 2
    BY <1>1, <1>2, <1>4
  <2> QED
    BY <1>1, <1>2, <1>3, <1>4, <2>1, PendingSame DEF vs, ws
<1>5. CASE Len(vs) = 1
  <2>1. vs[1].tag = "snapshot"
    BY <1>1, <1>5
  <2> QED
    BY <1>1, <1>2, <1>3, <2>1, PendingSame DEF vs, ws
<1> QED
  BY <1>1, <1>4, <1>5

(* The list is left: it belongs to the declarator below, if that has none.     *)
LEMMA PendingListLeft ==
  ASSUME NEW us \in Seq(Value), NEW s \in Value, NEW v \in Value, s.tag = "snapshot",
         v.tag = "context"
  PROVE  \/ PendingIn(Append(us, v)) = PendingIn(Append(Append(us, s), v))
         \/ /\ Definition /\ Len(us) = 1 /\ us[1].tag = "identifier"
            /\ PendingIn(Append(us, v)) = AsParams(v, us[1].identifier)
<1> DEFINE ws == Append(us, v)
           vs == Append(Append(us, s), v)
<1>1. PendingIn(vs) = PendingIn(us)
  BY PendingListPushed, PendingPushed
<1>2. /\ ws \in Seq(Value) /\ ws # <<>> /\ Len(us) \in Nat
      /\ Len(ws) = Len(us) + 1 /\ ws[Len(us) + 1] = v
      /\ \A i \in 1..Len(us) : ws[i] = us[i]
      /\ us = <<>> => ws = <<v>>
      /\ us # <<>> => Len(us) >= 2 \/ Len(us) = 1
  BY AppendedValue
<1> HIDE DEF ws, vs
<1>3. CASE us = <<>>
  BY <1>1, <1>2, <1>3, PendingOff, PendingOne DEF RecordsList, ws, vs
<1>4. CASE ~Definition
  BY <1>1, <1>4, PendingOff DEF ws, vs
<1>5. CASE us # <<>> /\ Len(us) >= 2
  <2>1. ws[1] = us[1] /\ ws[2] = us[2] /\ Len(ws) >= 2
    BY <1>2, <1>5
  <2> QED
    BY <1>1, <1>2, <1>5, <2>1, PendingSame DEF ws, vs
<1>6. CASE us # <<>> /\ Len(us) = 1 /\ Definition
  <2>1. ws[1] = us[1] /\ ws[2] = v /\ Len(ws) >= 2 /\ ~(Len(us) >= 2)
    BY <1>2, <1>6
  <2>2. PendingIn(us) = IF RecordsList(us[1]) THEN AsParams(us[1], us[1].identifier) ELSE NoList
    BY <1>6, <2>1, PendingIs
  <2>3. PendingIn(ws) =
          IF RecordsList(us[1]) THEN AsParams(us[1], us[1].identifier)
          ELSE IF AwaitsList(us[1]) THEN AsParams(v, us[1].identifier) ELSE NoList
    BY <1>2, <1>6, <2>1, PendingIs
  <2> QED
    BY <1>1, <1>6, <2>2, <2>3 DEF ws, vs, AwaitsList
<1> QED
  BY <1>2, <1>3, <1>4, <1>5, <1>6

-----------------------------------------------------------------------------
(* The values the actions make. *)

LEMMA NotDerivedIs ==
  /\ NotDerived \in [by : Derivation, last : Derivation, scope : Scope, file : Scope]
  /\ NotDerived.by = "none" /\ NotDerived.last = "none"
  /\ NotDerived.scope = NoDeclarations /\ NotDerived.file = NoDeclarations
  BY NoDeclarationsIsScope DEF NotDerived, Derivation

LEMMA StringIs ==
  ASSUME NEW id \in Ids
  PROVE  /\ StringValue(id) \in Value /\ StringValue(id).tag = "string"
         /\ ValueSound(StringValue(id)) /\ Suits(StringValue(id), "string")
  BY NotDerivedIs, IdsAssumption
     DEF StringValue, ValueOf, Value, ValueSound, Suits, DeclaratorTag

LEMMA ContextIs ==
  ASSUME NEW tag \in {"snapshot", "context"}, NEW c \in SUBSET Ids,
         NEW own \in [by : Derivation, last : Derivation, scope : Scope, file : Scope]
  PROVE  /\ ContextValue(tag, c, own) \in Value /\ ValueSound(ContextValue(tag, c, own))
         /\ ContextValue(tag, c, own).tag = tag
         /\ ContextValue(tag, c, own).ctx = c
         /\ ContextValue(tag, c, own).own = own
  BY DEF ContextValue, ValueOf, Value, ValueSound, DeclaratorTag

LEMMA IdentifierIs ==
  ASSUME NEW id \in Ids
  PROVE  LET v == ValueOf(identifier_declarator(id), NotDerived)
         IN  /\ v \in Value /\ v.tag = "identifier" /\ ValueSound(v) /\ v.own = NotDerived
  BY NotDerivedIs, IdsAssumption
     DEF identifier_declarator, ValueOf, Value, ValueSound, DeclaratorTag, TellsDerivation

LEMMA DerivedIs ==
  ASSUME NEW v \in Value, NEW by \in Derivation, NEW list \in {w.own : w \in Value}
  PROVE  LET own == Derived(v, by, list)
         IN  /\ own \in [by : Derivation, last : Derivation, scope : Scope, file : Scope]
             /\ own.by = IF v.own.by = "none" THEN by ELSE v.own.by
             /\ own.scope = IF v.own.by = "none" THEN list.scope ELSE v.own.scope
             /\ own.file = IF v.own.by = "none" THEN list.file ELSE v.own.file
  BY DEF Derived, Value

LEMMA DeclaratorOfIs ==
  ASSUME NEW v \in Value
  PROVE  /\ DeclaratorOf(v).tag = v.tag /\ DeclaratorOf(v).identifier = v.identifier
         /\ DeclaratorOf(v).ctx = v.ctx
  BY DEF DeclaratorOf

LEMMA ValueOfIs ==
  ASSUME NEW tag \in {"string", "snapshot", "context"} \cup DeclaratorTag,
         NEW id \in Ids \cup {"none"}, NEW c \in SUBSET Ids,
         NEW own \in [by : Derivation, last : Derivation, scope : Scope, file : Scope]
  PROVE  LET v == ValueOf([tag |-> tag, identifier |-> id, ctx |-> c], own)
         IN  /\ v \in Value /\ v.tag = tag /\ v.identifier = id /\ v.ctx = c /\ v.own = own
  BY DEF ValueOf, Value

MadeFunction(d, c) ==
  ValueOf(function_declarator(DeclaratorOf(d), c.ctx), Derived(d, "params", c.own))
MadeOther(d, by) == ValueOf(other_declarator(DeclaratorOf(d)), Derived(d, by, NotDerived))
MadePointer(d) == ValueOf(DeclaratorOf(d), Derived(d, "pointer", NotDerived))

LEMMA FunctionIs ==
  ASSUME NEW d \in Value, d.tag \in DeclaratorTag, ValueSound(d), NEW c \in Value,
         "params" \in Features
  PROVE  LET v == MadeFunction(d, c)
         IN  /\ v \in Value /\ v.tag = "function" /\ v.identifier = d.identifier
             /\ v.ctx = KeptContext(DeclaratorOf(d), c.ctx)
             /\ v.own = Derived(d, "params", c.own)
             /\ v.own.by = IF d.own.by = "none" THEN "params" ELSE d.own.by
             /\ v.own.scope = IF d.own.by = "none" THEN c.own.scope ELSE d.own.scope
             /\ v.own.file = IF d.own.by = "none" THEN c.own.file ELSE d.own.file
             /\ ValueSound(v)
<1> DEFINE own == Derived(d, "params", c.own)
           k == KeptContext(DeclaratorOf(d), c.ctx)
<1>1. /\ own \in [by : Derivation, last : Derivation, scope : Scope, file : Scope]
      /\ own.by = IF d.own.by = "none" THEN "params" ELSE d.own.by
      /\ own.scope = IF d.own.by = "none" THEN c.own.scope ELSE d.own.scope
      /\ own.file = IF d.own.by = "none" THEN c.own.file ELSE d.own.file
  BY DerivedIs DEF Derivation
<1>2. k \in SUBSET Ids
  BY DeclaratorOfIs, ValueFields DEF KeptContext, DeclaratorTag
<1>3. MadeFunction(d, c) = ValueOf([tag |-> "function", identifier |-> d.identifier, ctx |-> k], own)
  BY DeclaratorOfIs DEF MadeFunction, function_declarator
<1>4. "function" \in {"string", "snapshot", "context"} \cup DeclaratorTag
      /\ d.identifier \in Ids \cup {"none"} /\ d.identifier # "none"
  BY ValueFields DEF DeclaratorTag, ValueSound
<1> HIDE DEF own, k
<1> DEFINE v == MadeFunction(d, c)
<1>5. /\ v \in Value /\ v.tag = "function" /\ v.identifier = d.identifier
      /\ v.ctx = k /\ v.own = own
  BY <1>1, <1>2, <1>3, <1>4, ValueOfIs
<1> HIDE DEF v
<1>6. ValueSound(v)
  BY <1>1, <1>4, <1>5 DEF ValueSound, TellsDerivation, DeclaratorTag
<1> QED
  BY <1>1, <1>5, <1>6 DEF own, k, v

LEMMA OtherIs ==
  ASSUME NEW d \in Value, d.tag \in DeclaratorTag, ValueSound(d), NEW by \in {"array", "idlist"},
         by \in Features
  PROVE  LET v == MadeOther(d, by)
         IN  /\ v \in Value /\ v.tag = "other" /\ v.identifier = d.identifier
             /\ ValueSound(v)
             /\ v.own.by = "params" => d.own.by = "params" /\ v.own.file = d.own.file
<1> DEFINE own == Derived(d, by, NotDerived)
<1>1. NotDerived \in {w.own : w \in Value} /\ by \in Derivation
  <2>1. ValueOf([tag |-> "string", identifier |-> "none", ctx |-> {}], NotDerived) \in Value
        /\ ValueOf([tag |-> "string", identifier |-> "none", ctx |-> {}], NotDerived).own = NotDerived
    BY NotDerivedIs DEF ValueOf, Value
  <2> QED
    BY <2>1 DEF Derivation
<1>2. /\ own \in [by : Derivation, last : Derivation, scope : Scope, file : Scope]
      /\ own.by = IF d.own.by = "none" THEN by ELSE d.own.by
      /\ own.scope = IF d.own.by = "none" THEN NotDerived.scope ELSE d.own.scope
      /\ own.file = IF d.own.by = "none" THEN NotDerived.file ELSE d.own.file
  BY <1>1, DerivedIs
<1>3. MadeOther(d, by) = ValueOf([tag |-> "other", identifier |-> d.identifier, ctx |-> {}], own)
  BY DeclaratorOfIs DEF MadeOther, other_declarator
<1>4. "other" \in {"string", "snapshot", "context"} \cup DeclaratorTag
      /\ d.identifier \in Ids \cup {"none"} /\ d.identifier # "none" /\ {} \in SUBSET Ids
  BY ValueFields DEF DeclaratorTag, ValueSound
<1> HIDE DEF own
<1> DEFINE v == MadeOther(d, by)
<1>5. /\ v \in Value /\ v.tag = "other" /\ v.identifier = d.identifier
      /\ v.ctx = {} /\ v.own = own
  BY <1>2, <1>3, <1>4, ValueOfIs
<1> HIDE DEF v
<1>6. ValueSound(v)
  <2>1. Lossy
    BY DEF Lossy
  <2> QED
    BY <1>2, <1>4, <1>5, <2>1, NotDerivedIs DEF ValueSound, TellsDerivation, DeclaratorTag
<1> QED
  BY <1>2, <1>5, <1>6 DEF v

LEMMA PointerIs ==
  ASSUME NEW d \in Value, d.tag \in DeclaratorTag, ValueSound(d)
  PROVE  LET v == MadePointer(d)
         IN  /\ v \in Value /\ v.tag = d.tag /\ v.identifier = d.identifier /\ v.ctx = d.ctx
             /\ ValueSound(v)
             /\ d.own.by = "params" <=> v.own.by = "params"
             /\ d.own.by = "params" => v.own.file = d.own.file /\ v.own.scope = d.own.scope
<1> DEFINE own == Derived(d, "pointer", NotDerived)
<1>1. NotDerived \in {w.own : w \in Value} /\ "pointer" \in Derivation
  <2>1. ValueOf([tag |-> "string", identifier |-> "none", ctx |-> {}], NotDerived) \in Value
        /\ ValueOf([tag |-> "string", identifier |-> "none", ctx |-> {}], NotDerived).own = NotDerived
    BY NotDerivedIs DEF ValueOf, Value
  <2> QED
    BY <2>1 DEF Derivation
<1>2. /\ own \in [by : Derivation, last : Derivation, scope : Scope, file : Scope]
      /\ own.by = IF d.own.by = "none" THEN "pointer" ELSE d.own.by
      /\ own.scope = IF d.own.by = "none" THEN NotDerived.scope ELSE d.own.scope
      /\ own.file = IF d.own.by = "none" THEN NotDerived.file ELSE d.own.file
  BY <1>1, DerivedIs
<1>3. MadePointer(d) = ValueOf([tag |-> d.tag, identifier |-> d.identifier, ctx |-> d.ctx], own)
  BY DeclaratorOfIs DEF MadePointer, DeclaratorOf
<1>4. d.tag \in {"string", "snapshot", "context"} \cup DeclaratorTag
      /\ d.identifier \in Ids \cup {"none"} /\ d.ctx \in SUBSET Ids
  BY ValueFields
<1> HIDE DEF own
<1> DEFINE w == ValueOf([tag |-> d.tag, identifier |-> d.identifier, ctx |-> d.ctx], own)
           v == MadePointer(d)
<1>5. /\ w \in Value /\ w.tag = d.tag /\ w.identifier = d.identifier
      /\ w.ctx = d.ctx /\ w.own = own
  BY <1>2, <1>4 DEF ValueOf, Value
<1>6. /\ v \in Value /\ v.tag = d.tag /\ v.identifier = d.identifier
      /\ v.ctx = d.ctx /\ v.own = own
  BY <1>5, <1>3
<1> HIDE DEF v
<1>7. ValueSound(v)
  BY <1>2, <1>4, <1>6 DEF ValueSound, TellsDerivation, DeclaratorTag
<1> QED
  BY <1>2, <1>6, <1>7 DEF v

(* What is made of a declarator keeps its parameter list.  Where a declarator   *)
(* that loses it could be defined, that is not so: an array of functions or a   *)
(* function with an identifier list, then returning through a pointer.         *)
Lossless == {"definition", "params"} \subseteq Features => ~Lossy

LEMMA PendingPointer ==
  ASSUME NEW us \in Seq(Value), NEW d \in Value, d.tag \in DeclaratorTag, ValueSound(d)
  PROVE  PendingIn(Append(us, MadePointer(d))) = PendingIn(Append(us, d))
<1> DEFINE v == MadePointer(d)
<1>1. /\ v \in Value /\ v.tag = d.tag /\ v.identifier = d.identifier /\ v.ctx = d.ctx
      /\ d.own.by = "params" <=> v.own.by = "params"
      /\ d.own.by = "params" => v.own.file = d.own.file /\ v.own.scope = d.own.scope
  BY PointerIs
<1> HIDE DEF v
<1>2. CASE us = <<>>
  <2>1. Append(us, v) = <<v>> /\ Append(us, d) = <<d>>
    BY <1>1, <1>2, AppendedValue
  <2> QED
    BY <1>1, <2>1, PendingOne DEF RecordsList, AsParams, v
<1>3. CASE us # <<>>
  BY <1>1, <1>3, PendingReplaced DEF DeclaratorTag, v
<1> QED
  BY <1>2, <1>3

LEMMA PendingOther ==
  ASSUME NEW us \in Seq(Value), NEW d \in Value, d.tag \in DeclaratorTag,
         NEW v \in Value, v.tag \in DeclaratorTag, v.tag # "function"
  PROVE  PendingIn(Append(us, v)) \in {PendingIn(Append(us, d)), NoList}
<1>1. CASE us = <<>>
  <2>1. Append(us, v) = <<v>>
    BY <1>1, AppendedValue
  <2> QED
    BY <2>1, PendingOne DEF RecordsList
<1>2. CASE us # <<>>
  BY <1>2, PendingReplaced DEF DeclaratorTag
<1> QED
  BY <1>1, <1>2

LEMMA PendingIdentifier ==
  ASSUME NEW us \in Seq(Value), NEW s \in Value, s.tag = "string", NEW v \in Value,
         v.tag = "identifier"
  PROVE  PendingIn(Append(us, v)) = PendingIn(Append(us, s))
<1>1. CASE us = <<>>
  <2>1. Append(us, v) = <<v>> /\ Append(us, s) = <<s>>
    BY <1>1, AppendedValue
  <2> QED
    BY <2>1, PendingOne DEF RecordsList
<1>2. CASE us # <<>>
  BY <1>2, PendingReplaced
<1> QED
  BY <1>1, <1>2

LEMMA PendingFunction ==
  ASSUME NEW us \in Seq(Value), NEW d \in Value, d.tag \in DeclaratorTag, ValueSound(d),
         NEW c \in Value, c.tag = "context", "params" \in Features, Lossless
  PROVE  PendingIn(Append(us, MadeFunction(d, c))) = PendingIn(Append(Append(us, d), c))
<1> DEFINE v == MadeFunction(d, c)
           ds == Append(us, d)
           ws == Append(ds, c)
<1>1. /\ v \in Value /\ v.tag = "function" /\ v.identifier = d.identifier
      /\ v.ctx = KeptContext(DeclaratorOf(d), c.ctx)
      /\ v.own.by = IF d.own.by = "none" THEN "params" ELSE d.own.by
      /\ v.own.scope = IF d.own.by = "none" THEN c.own.scope ELSE d.own.scope
      /\ v.own.file = IF d.own.by = "none" THEN c.own.file ELSE d.own.file
  BY FunctionIs
<1>2. /\ ds \in Seq(Value) /\ ds # <<>> /\ Len(us) \in Nat /\ Len(ds) = Len(us) + 1
      /\ ds[Len(us) + 1] = d /\ \A i \in 1..Len(us) : ds[i] = us[i]
      /\ us = <<>> => ds = <<d>>
      /\ us # <<>> => Len(us) >= 1
  BY AppendedValue
<1> HIDE DEF v, ds
<1>3. /\ ws \in Seq(Value) /\ ws # <<>> /\ Len(ws) = Len(ds) + 1
      /\ ws[Len(ds) + 1] = c /\ \A i \in 1..Len(ds) : ws[i] = ds[i]
  BY <1>2, AppendedValue
<1> HIDE DEF ws
<1>4. CASE us = <<>> /\ ~Definition
  BY <1>4, PendingOff DEF ws, ds, v
<1>5. CASE us = <<>> /\ Definition
  <2>1. Append(us, v) = <<v>> /\ Len(us) = 0
    BY <1>1, <1>5, AppendedValue
  <2>2. ws[1] = d /\ Len(ws) >= 2 /\ ws[2] = c
    BY <1>2, <1>3, <2>1
  <2>3. PendingIn(ws) = IF RecordsList(d) THEN AsParams(d, d.identifier)
                        ELSE IF AwaitsList(d) THEN AsParams(c, d.identifier) ELSE NoList
    BY <1>3, <1>5, <2>2, PendingIs
  <2>4. PendingIn(<<v>>) = IF RecordsList(v) THEN AsParams(v, v.identifier) ELSE NoList
    BY <1>1, <1>5, PendingOne
  <2>5. d.tag # "other"
    BY <1>5 DEF ValueSound, TellsDerivation, Lossless, Definition
  <2>6. CASE d.own.by = "none"
    <3>1. d.tag = "identifier"
      BY <2>6 DEF ValueSound, TellsDerivation
    <3>2. v.ctx = c.ctx
      BY <1>1, <3>1, DeclaratorOfIs DEF KeptContext
    <3> QED
      BY <1>1, <2>1, <2>3, <2>4, <2>6, <3>1, <3>2 DEF RecordsList, AwaitsList, AsParams, ws, ds, v
  <2>7. CASE d.own.by = "params"
    <3>1. d.tag = "function"
      BY <2>5, <2>7 DEF ValueSound, TellsDerivation, DeclaratorTag
    <3>2. v.ctx = d.ctx
      BY <1>1, <3>1, DeclaratorOfIs DEF KeptContext
    <3> QED
      BY <1>1, <2>1, <2>3, <2>4, <2>7, <3>1, <3>2 DEF RecordsList, AwaitsList, AsParams, ws, ds, v
  <2>8. CASE d.own.by # "none" /\ d.own.by # "params"
    BY <1>1, <2>1, <2>3, <2>4, <2>8 DEF RecordsList, AwaitsList, ws, ds, v
  <2> QED
    BY <2>6, <2>7, <2>8
<1>6. CASE us # <<>>
  <2>1. PendingIn(Append(us, v)) = PendingIn(ds)
    BY <1>1, <1>6, PendingReplaced DEF DeclaratorTag, ds
  <2>2. ds[1] = ws[1] /\ ds[2] = ws[2] /\ Len(ds) >= 2 /\ Len(ws) >= 2
    BY <1>2, <1>3, <1>6
  <2>3. PendingIn(ds) = PendingIn(ws)
    BY <1>2, <1>3, <2>2, PendingSame
  <2> QED
    BY <2>1, <2>3 DEF ws, ds, v
<1> QED
  BY <1>4, <1>5, <1>6
=============================================================================
