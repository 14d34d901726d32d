--------------------------- MODULE ScopesTheorems ---------------------------
(***************************************************************************)
(* What entering, leaving and declaring do to the typedef names that       *)
(* Scopes makes visible, for every set of identifiers and any nesting.     *)
(***************************************************************************)
EXTENDS Scopes, SequenceTheorems, TLAPS

\* Only the levels that are counted matter.
LEMMA VisibleLocal ==
  ASSUME NEW ss \in Seq(Scope), NEW tt \in Seq(Scope), NEW k \in Nat,
         k <= Len(ss), k <= Len(tt), \A j \in 1..k : ss[j] = tt[j]
  PROVE  VisibleTypes(ss, k) = VisibleTypes(tt, k)
<1>1. ASSUME NEW id \in Ids, NEW j \in 1..k
      PROVE  TypeAt(ss, k, j, id) <=> TypeAt(tt, k, j, id)
  BY <1>1 DEF TypeAt
<1> QED
  BY <1>1 DEF VisibleTypes

\* Entering a scope appends one level.
LEMMA EnterTop ==
  ASSUME NEW ss \in Seq(Scope), NEW scope \in Scope
  PROVE  /\ Enter(ss, scope) \in Seq(Scope)
         /\ Len(Enter(ss, scope)) = Len(ss) + 1
         /\ \A j \in 1..Len(ss) : Enter(ss, scope)[j] = ss[j]
         /\ Enter(ss, scope)[Len(ss) + 1] = scope
  BY DEF Enter

\* Two levels are the file scope and what was entered over it.
LEMMA PairOfScopes ==
  ASSUME NEW ss \in Seq(Scope), Len(ss) = 2
  PROVE  ss = <<ss[1], ss[2]>>
  OBVIOUS

\* Entering a scope leaves what the outer levels make visible alone.
LEMMA EnterKeepsOuter ==
  ASSUME NEW ss \in Seq(Scope), NEW scope \in Scope, NEW k \in 1..Len(ss)
  PROVE  VisibleTypes(Enter(ss, scope), k) = VisibleTypes(ss, k)
<1>1. /\ Enter(ss, scope) \in Seq(Scope)
      /\ Len(Enter(ss, scope)) = Len(ss) + 1
      /\ \A j \in 1..k : Enter(ss, scope)[j] = ss[j]
  BY DEF Enter
<1> QED
  BY <1>1, VisibleLocal

LEMMA NoDeclarationsIsScope == NoDeclarations \in Scope
  BY DEF NoDeclarations, Scope, Kind

\* A scope that declares nothing shows what is around it.
LEMMA EnterEmptyKeepsVisible ==
  ASSUME NEW ss \in Seq(Scope)
  PROVE  Visible(Enter(ss, NoDeclarations)) = Visible(ss)
<1> DEFINE tt == Enter(ss, NoDeclarations)
           n  == Len(ss)
<1>1. /\ tt \in Seq(Scope)
      /\ Len(tt) = n + 1
      /\ \A j \in 1..n : tt[j] = ss[j]
      /\ tt[n + 1] = NoDeclarations
  BY NoDeclarationsIsScope DEF Enter
<1>2. ASSUME NEW id \in Ids, NEW j \in 1..n
      PROVE  TypeAt(tt, n + 1, j, id) <=> TypeAt(ss, n, j, id)
  <2>1. tt[n + 1][id] = "none"
    BY <1>1 DEF NoDeclarations
  <2>2. \A i \in (j + 1)..(n + 1) : i = n + 1 \/ i \in (j + 1)..n
    OBVIOUS
  <2>3. \A i \in (j + 1)..n : i \in 1..n /\ i \in (j + 1)..(n + 1)
    OBVIOUS
  <2> QED
    BY <1>1, <2>1, <2>2, <2>3 DEF TypeAt
<1>3. ASSUME NEW id \in Ids
      PROVE  ~TypeAt(tt, n + 1, n + 1, id)
  BY <1>1 DEF TypeAt, NoDeclarations
<1>4. \A j \in 1..(n + 1) : j = n + 1 \/ j \in 1..n
  OBVIOUS
<1>5. \A j \in 1..n : j \in 1..(n + 1)
  OBVIOUS
<1> QED
  BY <1>1, <1>2, <1>3, <1>4, <1>5 DEF Visible, VisibleTypes

\* A declaration touches the innermost scope only.
LEMMA DeclareTop ==
  ASSUME NEW ss \in Seq(Scope), Len(ss) > 0, NEW id \in Ids, NEW kind \in Kind
  PROVE  /\ Declare(ss, id, kind) \in Seq(Scope)
         /\ Len(Declare(ss, id, kind)) = Len(ss)
         /\ \A j \in 1..(Len(ss) - 1) : Declare(ss, id, kind)[j] = ss[j]
         /\ Declare(ss, id, kind)[Len(ss)] = [ss[Len(ss)] EXCEPT ![id] = kind]
<1>1. ss[Len(ss)] \in Scope
  OBVIOUS
<1>2. [ss[Len(ss)] EXCEPT ![id] = kind] \in Scope
  BY <1>1 DEF Scope
<1> QED
  BY <1>2 DEF Declare

\* The declared name is visible as what it was declared, others as before.
LEMMA DeclareChangesOne ==
  ASSUME NEW ss \in Seq(Scope), Len(ss) > 0, NEW id \in Ids,
         NEW kind \in {"type", "other"}
  PROVE  /\ kind = "type"  => Visible(Declare(ss, id, kind)) = Visible(ss) \cup {id}
         /\ kind = "other" => Visible(Declare(ss, id, kind)) = Visible(ss) \ {id}
<1> DEFINE tt == Declare(ss, id, kind)
           n  == Len(ss)
<1>1. /\ tt \in Seq(Scope)
      /\ Len(tt) = n
      /\ \A j \in 1..(n - 1) : tt[j] = ss[j]
      /\ tt[n] = [ss[n] EXCEPT ![id] = kind]
  <2>1. kind \in Kind
    BY DEF Kind
  <2> HIDE DEF tt
  <2> QED
    BY <2>1, DeclareTop DEF tt
<1>2. ss[n] \in Scope /\ n \in Nat /\ n \in 1..n
  OBVIOUS
<1>3. tt[n][id] = kind
  BY <1>1, <1>2 DEF Scope
<1>4. ASSUME NEW j \in 1..n, NEW x \in Ids, x # id
      PROVE  tt[j][x] = ss[j][x]
  <2>1. CASE j = n
    BY <1>1, <1>2, <1>4, <2>1 DEF Scope
  <2>2. CASE j # n
    BY <1>1, <2>2
  <2> QED
    BY <2>1, <2>2
<1>5. ASSUME NEW x \in Ids, x # id, NEW j \in 1..n
      PROVE  TypeAt(tt, n, j, x) <=> TypeAt(ss, n, j, x)
  <2>1. \A i \in (j + 1)..n : i \in 1..n
    OBVIOUS
  <2> QED
    BY <1>4, <1>5, <2>1 DEF TypeAt
<1>6. ASSUME NEW x \in Ids, x # id
      PROVE  x \in Visible(tt) <=> x \in Visible(ss)
  BY <1>1, <1>5, <1>6 DEF Visible, VisibleTypes
<1>7. kind = "type" => id \in Visible(tt)
  <2> SUFFICES ASSUME kind = "type"
               PROVE  \E j \in 1..n : TypeAt(tt, n, j, id)
    BY <1>1 DEF Visible, VisibleTypes
  <2>1. \A i \in (n + 1)..n : FALSE
    BY <1>2
  <2>2. TypeAt(tt, n, n, id)
    BY <1>2, <1>3, <2>1 DEF TypeAt
  <2> QED
    BY <1>2, <2>2
<1>8. kind = "other" => id \notin Visible(tt)
  <2> SUFFICES ASSUME kind = "other", NEW j \in 1..n, TypeAt(tt, n, j, id)
               PROVE  FALSE
    BY <1>1 DEF Visible, VisibleTypes
  <2>1. CASE j = n
    BY <1>3, <2>1 DEF TypeAt
  <2>2. CASE j # n
    <3>1. n \in (j + 1)..n
      BY <2>2
    <3> QED
      BY <1>3, <3>1 DEF TypeAt
  <2> QED
    BY <2>1, <2>2
<1>9. Visible(tt) \subseteq Ids /\ Visible(ss) \subseteq Ids
  BY DEF Visible, VisibleTypes
<1> QED
  BY <1>6, <1>7, <1>8, <1>9

\* Taking the last element off a sequence.
LEMMA DropLast ==
  ASSUME NEW S, NEW s \in Seq(S), Len(s) > 0
  PROVE  /\ SubSeq(s, 1, Len(s) - 1) \in Seq(S)
         /\ Len(SubSeq(s, 1, Len(s) - 1)) = Len(s) - 1
         /\ \A k \in 1..(Len(s) - 1) : SubSeq(s, 1, Len(s) - 1)[k] = s[k]
<1>0. Len(s) - 1 \in Nat
  OBVIOUS
<1> SUFFICES ASSUME NEW m \in Nat, m = Len(s) - 1
             PROVE  /\ SubSeq(s, 1, m) \in Seq(S)
                    /\ Len(SubSeq(s, 1, m)) = m
                    /\ \A k \in 1..m : SubSeq(s, 1, m)[k] = s[k]
  BY <1>0
<1>1. m \in Nat /\ 1 \in Int /\ m \in Int
  OBVIOUS
<1>2. \A k \in 1..m : s[k] \in S
  OBVIOUS
<1>3. /\ SubSeq(s, 1, m) \in Seq(S)
      /\ Len(SubSeq(s, 1, m)) = IF 1 <= m THEN m - 1 + 1 ELSE 0
      /\ \A k \in 1..(m - 1 + 1) : SubSeq(s, 1, m)[k] = s[1 + k - 1]
  BY <1>1, <1>2, SubSeqProperties
<1>4. m - 1 + 1 = m /\ (~(1 <= m) => m = 0)
  BY <1>1
<1>5. ASSUME NEW k \in 1..m PROVE SubSeq(s, 1, m)[k] = s[k]
  <2>1. k \in 1..(m - 1 + 1) /\ 1 + k - 1 = k
    BY <1>1
  <2> QED
    BY <1>3, <2>1
<1>6. Len(SubSeq(s, 1, m)) = m
  BY <1>3, <1>4
<1> QED
  BY <1>3, <1>5, <1>6

\* Leaving a scope removes the last level and nothing else.
LEMMA LeaveKeepsOuter ==
  ASSUME NEW ss \in Seq(Scope), Len(ss) > 1
  PROVE  /\ Leave(ss) \in Seq(Scope)
         /\ Len(Leave(ss)) = Len(ss) - 1
         /\ \A j \in 1..(Len(ss) - 1) : Leave(ss)[j] = ss[j]
         /\ \A k \in 1..(Len(ss) - 1) : VisibleTypes(Leave(ss), k) = VisibleTypes(ss, k)
<1>1. /\ Leave(ss) \in Seq(Scope)
      /\ Len(Leave(ss)) = Len(ss) - 1
      /\ \A j \in 1..(Len(ss) - 1) : Leave(ss)[j] = ss[j]
  BY DEF Leave
<1>2. ASSUME NEW k \in 1..(Len(ss) - 1)
      PROVE  VisibleTypes(Leave(ss), k) = VisibleTypes(ss, k)
  <2>1. k \in Nat /\ k <= Len(ss) /\ k <= Len(Leave(ss))
    BY <1>1
  <2>2. \A j \in 1..k : Leave(ss)[j] = ss[j]
    BY <1>1
  <2> QED
    BY <1>1, <2>1, <2>2, VisibleLocal
<1> QED
  BY <1>1, <1>2

\* Over the file scope, a scope without typedefs only hides.
LEMMA OverFileScope ==
  ASSUME NEW s \in Scope, NEW p \in Scope, Types(p) = {}
  PROVE  Visible(<<s, p>>) = {id \in Ids : s[id] = "type" /\ p[id] = "none"}
<1>1. Len(<<s, p>>) = 2 /\ <<s, p>>[1] = s /\ <<s, p>>[2] = p
  OBVIOUS
<1>2. \A id \in Ids : p[id] # "type"
  BY DEF Types
<1>3. ASSUME NEW id \in Ids
      PROVE  ~TypeAt(<<s, p>>, 2, 2, id)
  BY <1>1, <1>2 DEF TypeAt
<1>4. ASSUME NEW id \in Ids
      PROVE  TypeAt(<<s, p>>, 2, 1, id) <=> s[id] = "type" /\ p[id] = "none"
  <2>1. \A i \in (1 + 1)..2 : i = 2
    OBVIOUS
  <2>2. 2 \in (1 + 1)..2 /\ 1 \in 1..2
    OBVIOUS
  <2> QED
    BY <1>1, <2>1, <2>2 DEF TypeAt
<1>5. \A j \in 1..2 : j = 1 \/ j = 2
  OBVIOUS
<1>6. 1 \in 1..2
  OBVIOUS
<1> QED
  BY <1>1, <1>3, <1>4, <1>5, <1>6 DEF Visible, VisibleTypes
=============================================================================
