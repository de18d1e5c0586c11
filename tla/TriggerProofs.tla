--------------------------- MODULE TriggerProofs ---------------------------
(***************************************************************************)
(* What starts the runs of a job, for every value of the constants: the    *)
(* directory watcher, the debounce of a watched job and the cron schedule, *)
(* which share nothing, and the life of a job that they start.             *)
(***************************************************************************)
EXTENDS JobLife, WatchTrigger, DirWatch, CronSchedule, FiniteSetTheorems, SequenceTheorems,
        WellFoundedInduction, TLAPS

-----------------------------------------------------------------------------
(***************************************************************************)
(* Induction. The principle is proved for a set of numbers, so that it can *)
(* be used without an operator as its parameter.                           *)
(***************************************************************************)
LEMMA LeastNatural ==
  ASSUME NEW S \in SUBSET Nat, S # {}
  PROVE  \E m \in S : \A k \in S : m <= k
<1> DEFINE R == {ss \in Nat \X Nat : ss[1] < ss[2]}
<1>1. IsWellFoundedOn(R, Nat)
  BY NatLessThanWellFounded DEF OpToRel
<1>2. PICK m \in S : \A k \in S : ~(<<k, m>> \in R)
  <2> HIDE DEF R
  <2> QED BY <1>1, WFMin
<1>3. ASSUME NEW k \in S
      PROVE  m <= k
  <2>1. k \in Nat /\ m \in Nat
    OBVIOUS
  <2>2. <<k, m>> \in R <=> k < m
    BY <2>1 DEF R
  <2> QED BY <1>2, <2>1, <2>2
<1> QED BY <1>3

LEMMA Induction ==
  ASSUME NEW S \in SUBSET Nat, 0 \in S, \A n \in S : n + 1 \in S
  PROVE  S = Nat
<1> SUFFICES ASSUME S # Nat
             PROVE  FALSE
  OBVIOUS
<1>1. PICK m \in Nat \ S : \A k \in Nat \ S : m <= k
  BY LeastNatural
<1>2. m - 1 \in S
  BY <1>1
<1> QED BY <1>1, <1>2

LEMMA ElementsInRow ==
  ASSUME NEW S, IsFiniteSet(S)
  PROVE  /\ SetToSeq(S) \in Seq(S)
         /\ \A x \in S : \E i \in DOMAIN SetToSeq(S) : SetToSeq(S)[i] = x
<1> DEFINE n == Cardinality(S)
<1>1. n \in Nat /\ ExistsBijection(1 .. n, S)
  BY FS_CardinalityType
<1>2. \E f \in [1 .. n -> S] : IsInjective(f)
  BY <1>1 DEF ExistsBijection, Bijection, Injection, IsInjective
<1>3. SetToSeq(S) \in [1 .. n -> S] /\ IsInjective(SetToSeq(S))
  BY <1>2 DEF SetToSeq
<1>4. SetToSeq(S) \in Injection(1 .. n, S)
  BY <1>3 DEF Injection, IsInjective
<1>5. Cardinality(1 .. n) = n
  BY <1>1, FS_Interval
<1>6. SetToSeq(S) \in Surjection(1 .. n, S)
  BY <1>4, <1>5, FS_Injection
<1>7. \A x \in S : \E i \in 1 .. n : SetToSeq(S)[i] = x
  BY <1>6 DEF Surjection
<1> QED BY <1>1, <1>3, <1>7

-----------------------------------------------------------------------------
(***************************************************************************)
(* The watcher.                                                            *)
(***************************************************************************)

\* What is left of the pending events: those of the monitors that stay.
LEMMA SurvivingKeeps ==
  ASSUME NEW T, NEW es \in Seq(T), NEW lost
  PROVE  LET left == Surviving(es, lost) IN
         /\ left \in Seq(T)
         /\ \A j \in DOMAIN left : \E i \in DOMAIN es : left[j] = es[i] /\ es[i].by \notin lost
         /\ \A i \in DOMAIN es : es[i].by \notin lost => \E j \in DOMAIN left : left[j] = es[i]
<1> DEFINE Keep(g, i) == IF i = 0 THEN <<>>
                         ELSE IF es[i].by \in lost THEN g[i - 1] ELSE Append(g[i - 1], es[i])
           kept == CHOOSE g : g = [i \in 0 .. Len(es) |-> Keep(g, i)]
<1>1. Len(es) \in Nat /\ DOMAIN es = 1 .. Len(es) /\ \A i \in DOMAIN es : es[i] \in T
  OBVIOUS
<1>2. kept = [i \in 0 .. Len(es) |-> Keep(kept, i)]
  <2> DEFINE Reached == {n \in Nat : \E g : g = [i \in 0 .. n |-> Keep(g, i)]}
  <2>1. 0 \in Reached
    <3> DEFINE g == [i \in 0 .. 0 |-> <<>>]
    <3>1. g = [i \in 0 .. 0 |-> Keep(g, i)]
      OBVIOUS
    <3> HIDE DEF Keep, g
    <3> QED BY <3>1
  <2>2. ASSUME NEW n \in Reached
        PROVE  n + 1 \in Reached
    <3>1. PICK g : g = [i \in 0 .. n |-> Keep(g, i)]
      OBVIOUS
    <3> DEFINE h == [i \in 0 .. (n + 1) |-> IF i = n + 1 THEN Keep(g, n + 1) ELSE g[i]]
    <3>2. \A i \in 0 .. (n + 1) : Keep(h, i) = Keep(g, i)
      OBVIOUS
    <3> HIDE DEF Keep
    <3>3. \A i \in 0 .. n : g[i] = Keep(g, i)
      BY <3>1
    <3>4. h = [i \in 0 .. (n + 1) |-> Keep(h, i)]
      BY <3>2, <3>3
    <3> HIDE DEF h
    <3> QED BY <3>4
  <2> HIDE DEF Keep
  <2>3. Reached \in SUBSET Nat
    OBVIOUS
  <2>4. Len(es) \in Reached
    <3> HIDE DEF Reached
    <3> QED BY <1>1, <2>1, <2>2, <2>3, Induction
  <2> QED BY <2>4
<1>3. Surviving(es, lost) = kept[Len(es)]
  BY DEF Surviving
<1> HIDE DEF kept
<1>4. kept[0] = <<>>
  BY <1>1, <1>2
<1>5. \A i \in 1 .. Len(es) :
        kept[i] = IF es[i].by \in lost THEN kept[i - 1] ELSE Append(kept[i - 1], es[i])
  <2>1. \A i \in 0 .. Len(es) : kept[i] = Keep(kept, i)
    <3> HIDE DEF Keep
    <3> QED BY <1>2
  <2> QED BY <1>1, <2>1
<1> HIDE DEF Keep
<1> DEFINE Right(n) ==
             /\ kept[n] \in Seq(T)
             /\ \A j \in DOMAIN kept[n] : \E i \in 1 .. n : kept[n][j] = es[i] /\ es[i].by \notin lost
             /\ \A i \in 1 .. n : es[i].by \notin lost => \E j \in DOMAIN kept[n] : kept[n][j] = es[i]
           Done == {n \in Nat : n <= Len(es) => Right(n)}
<1>6. 0 \in Done
  <2>1. kept[0] \in Seq(T) /\ DOMAIN kept[0] = {} /\ 1 .. 0 = {}
    BY <1>4
  <2> QED BY <2>1
<1>7. ASSUME NEW n \in Done
      PROVE  n + 1 \in Done
  <2> SUFFICES ASSUME n + 1 <= Len(es)
               PROVE  Right(n + 1)
    OBVIOUS
  <2>1. Right(n)
    BY <1>1
  <2>2. CASE es[n + 1].by \in lost
    <3>1. kept[n + 1] = kept[n]
      BY <1>1, <1>5, <2>2
    <3> QED BY <2>1, <2>2, <3>1
  <2>3. CASE es[n + 1].by \notin lost
    <3>1. kept[n + 1] = Append(kept[n], es[n + 1]) /\ es[n + 1] \in T
      <4>1. n + 1 \in 1 .. Len(es) /\ (n + 1) - 1 = n
        BY <1>1
      <4> QED BY <1>1, <1>5, <2>3, <4>1
    <3> DEFINE k == kept[n]  l == kept[n + 1]
    <3>2. /\ l \in Seq(T) /\ Len(l) = Len(k) + 1 /\ l[Len(k) + 1] = es[n + 1]
          /\ \A j \in 1 .. Len(k) : l[j] = k[j]
          /\ DOMAIN l = 1 .. Len(k) + 1 /\ DOMAIN k = 1 .. Len(k) /\ Len(k) \in Nat
      BY <2>1, <3>1
    <3> HIDE DEF k, l
    <3>3. \A j \in DOMAIN l : \E i \in 1 .. n + 1 : l[j] = es[i] /\ es[i].by \notin lost
      <4> SUFFICES ASSUME NEW j \in DOMAIN l
                   PROVE  \E i \in 1 .. n + 1 : l[j] = es[i] /\ es[i].by \notin lost
        OBVIOUS
      <4>1. CASE j = Len(k) + 1
        <5>1. n + 1 \in 1 .. n + 1
          OBVIOUS
        <5> QED BY <2>3, <3>2, <4>1, <5>1
      <4>2. CASE j \in 1 .. Len(k)
        <5>1. PICK i \in 1 .. n : k[j] = es[i] /\ es[i].by \notin lost
          BY <2>1, <3>2, <4>2 DEF k
        <5>2. i \in 1 .. n + 1
          OBVIOUS
        <5> QED BY <3>2, <4>2, <5>1, <5>2
      <4> QED BY <3>2, <4>1, <4>2
    <3>4. ASSUME NEW i \in 1 .. n + 1, es[i].by \notin lost
          PROVE  \E j \in DOMAIN l : l[j] = es[i]
      <4>1. CASE i = n + 1
        BY <3>2, <4>1
      <4>2. CASE i \in 1 .. n
        <5>1. PICK j \in DOMAIN k : k[j] = es[i]
          BY <2>1, <3>4, <4>2 DEF k
        <5> QED BY <3>2, <5>1
      <4> QED BY <4>1, <4>2
    <3> QED BY <3>2, <3>3, <3>4 DEF l
  <2> QED BY <2>2, <2>3
<1>8. Len(es) \in Done
  <2>1. Done \in SUBSET Nat
    OBVIOUS
  <2> HIDE DEF Done
  <2> QED BY <1>1, <1>6, <1>7, <2>1, Induction
<1> HIDE DEF Right
<1>9. Right(Len(es))
  BY <1>1, <1>8
<1>10. LET left == kept[Len(es)] IN
       /\ left \in Seq(T)
       /\ \A j \in DOMAIN left : \E i \in DOMAIN es : left[j] = es[i] /\ es[i].by \notin lost
       /\ \A i \in DOMAIN es : es[i].by \notin lost => \E j \in DOMAIN left : left[j] = es[i]
  BY <1>1, <1>9 DEF Right
<1> QED BY <1>3, <1>10

(***************************************************************************)
(* Paths and their prefixes.                                               *)
(***************************************************************************)
LEMMA PathsAreNames ==
  ASSUME NEW p
  PROVE  p \in Paths <=> p \in Seq(Names) /\ Len(p) <= TreeDepth
<1>1. p \in Paths <=> \E n \in 0 .. TreeDepth : p \in [1 .. n -> Names]
  BY DEF Paths
<1>2. TreeDepth \in Nat
  BY DirWatchAssumption
<1>3. ASSUME NEW n \in 0 .. TreeDepth, p \in [1 .. n -> Names]
      PROVE  p \in Seq(Names) /\ Len(p) <= TreeDepth
  BY <1>2, <1>3
<1>4. ASSUME p \in Seq(Names), Len(p) <= TreeDepth
      PROVE  Len(p) \in 0 .. TreeDepth /\ p \in [1 .. Len(p) -> Names]
  BY <1>2, <1>4
<1> QED BY <1>1, <1>3, <1>4

LEMMA PrefixAt ==
  ASSUME NEW p \in Seq(Names), NEW q \in Seq(Names)
  PROVE  IsPrefix(q, p) <=> Len(q) <= Len(p) /\ \A i \in 1 .. Len(q) : q[i] = p[i]
<1>1. Len(q) \in Nat /\ Len(p) \in Nat
  OBVIOUS
<1>2. SubSeq(q, 1, Len(q)) = q
  OBVIOUS
<1>3. ASSUME Len(q) <= Len(p)
      PROVE  SubSeq(p, 1, Len(q)) = q <=> \A i \in 1 .. Len(q) : q[i] = p[i]
  <2>1. /\ SubSeq(p, 1, Len(q)) \in Seq(Names) /\ Len(SubSeq(p, 1, Len(q))) = Len(q)
        /\ \A i \in 1 .. Len(q) : SubSeq(p, 1, Len(q))[i] = p[i]
    BY <1>1, <1>3
  <2> QED BY <2>1, SeqEqual
<1> QED BY <1>1, <1>2, <1>3 DEF IsPrefix

LEMMA RootIsFirst ==
  /\ Root \in Paths /\ Len(Root) = 0
  /\ \A p \in Paths : IsPrefix(Root, p) /\ (p = Root <=> Len(p) = 0)
<1>1. Root \in Seq(Names) /\ Len(Root) = 0
  BY DEF Root
<1>2. Root \in Paths
  <2>1. TreeDepth \in Nat
    BY DirWatchAssumption
  <2>2. Len(Root) <= TreeDepth
    BY <1>1, <2>1
  <2> QED BY <1>1, <2>2, PathsAreNames
<1>3. ASSUME NEW p \in Paths
      PROVE  IsPrefix(Root, p) /\ (p = Root <=> Len(p) = 0)
  <2>1. p \in Seq(Names)
    BY PathsAreNames
  <2>2. IsPrefix(Root, p)
    <3>1. Len(Root) <= Len(p) /\ \A i \in 1 .. Len(Root) : Root[i] = p[i]
      BY <1>1, <2>1
    <3> QED BY <1>1, <2>1, <3>1, PrefixAt
  <2> QED BY <2>1, <2>2 DEF Root
<1> QED BY <1>1, <1>2, <1>3

LEMMA PrefixOrder ==
  ASSUME NEW p \in Seq(Names), NEW q \in Seq(Names), NEW r \in Seq(Names)
  PROVE  /\ IsPrefix(p, p)
         /\ IsPrefix(p, q) => Len(p) <= Len(q)
         /\ IsPrefix(p, q) /\ Len(q) <= Len(p) => p = q
         /\ IsPrefix(p, q) /\ IsPrefix(q, r) => IsPrefix(p, r)
         /\ IsPrefix(p, r) /\ IsPrefix(q, r) => IsPrefix(p, q) \/ IsPrefix(q, p)
<1>1. Len(p) \in Nat /\ Len(q) \in Nat /\ Len(r) \in Nat
  OBVIOUS
<1>2. IsPrefix(p, p)
  BY PrefixAt
<1>3. IsPrefix(p, q) => Len(p) <= Len(q)
  BY DEF IsPrefix
<1>4. IsPrefix(p, q) /\ Len(q) <= Len(p) => p = q
  <2> SUFFICES ASSUME IsPrefix(p, q), Len(q) <= Len(p)
               PROVE  p = q
    OBVIOUS
  <2>1. Len(p) = Len(q) /\ \A i \in 1 .. Len(p) : p[i] = q[i]
    BY <1>1, PrefixAt
  <2> QED BY <2>1, SeqEqual
<1>5. IsPrefix(p, q) /\ IsPrefix(q, r) => IsPrefix(p, r)
  <2> SUFFICES ASSUME IsPrefix(p, q), IsPrefix(q, r)
               PROVE  IsPrefix(p, r)
    OBVIOUS
  <2>1. Len(p) <= Len(q) /\ \A i \in 1 .. Len(p) : p[i] = q[i]
    BY PrefixAt
  <2>2. Len(q) <= Len(r) /\ \A i \in 1 .. Len(q) : q[i] = r[i]
    BY PrefixAt
  <2>3. Len(p) <= Len(r) /\ \A i \in 1 .. Len(p) : p[i] = r[i]
    BY <1>1, <2>1, <2>2
  <2> QED BY <2>3, PrefixAt
<1>6. IsPrefix(p, r) /\ IsPrefix(q, r) => IsPrefix(p, q) \/ IsPrefix(q, p)
  <2> SUFFICES ASSUME IsPrefix(p, r), IsPrefix(q, r)
               PROVE  IsPrefix(p, q) \/ IsPrefix(q, p)
    OBVIOUS
  <2>1. \A i \in 1 .. Len(p) : p[i] = r[i]
    BY PrefixAt
  <2>2. \A i \in 1 .. Len(q) : q[i] = r[i]
    BY PrefixAt
  <2>3. CASE Len(p) <= Len(q)
    <3>1. \A i \in 1 .. Len(p) : p[i] = q[i]
      BY <1>1, <2>1, <2>2, <2>3
    <3> QED BY <2>3, <3>1, PrefixAt
  <2>4. CASE Len(q) <= Len(p)
    <3>1. \A i \in 1 .. Len(q) : q[i] = p[i]
      BY <1>1, <2>1, <2>2, <2>4
    <3> QED BY <2>4, <3>1, PrefixAt
  <2> QED BY <1>1, <2>3, <2>4
<1> QED BY <1>2, <1>3, <1>4, <1>5, <1>6

LEMMA Parents ==
  ASSUME NEW p \in Paths \ {Root}
  PROVE  /\ Parent(p) \in Paths /\ Len(Parent(p)) = Len(p) - 1 /\ Parent(p) # p
         /\ IsPrefix(Parent(p), p)
         /\ \A q \in Seq(Names) : IsPrefix(q, p) /\ q # p => IsPrefix(q, Parent(p))
<1>1. p \in Seq(Names) /\ Len(p) <= TreeDepth /\ Len(p) \in Nat \ {0} /\ TreeDepth \in Nat
  BY PathsAreNames, RootIsFirst, DirWatchAssumption
<1>2. /\ Parent(p) \in Seq(Names) /\ Len(Parent(p)) = Len(p) - 1
      /\ \A i \in 1 .. Len(p) - 1 : Parent(p)[i] = p[i]
  <2>1. Parent(p) = SubSeq(p, 1, Len(p) - 1)
    BY DEF Parent, Front
  <2>2. /\ 1 \in Int /\ Len(p) - 1 \in Int
        /\ \A i \in 1 .. Len(p) - 1 : p[i] \in Names
    BY <1>1
  <2>3. /\ SubSeq(p, 1, Len(p) - 1) \in Seq(Names)
        /\ Len(SubSeq(p, 1, Len(p) - 1)) = IF 1 <= Len(p) - 1 THEN (Len(p) - 1) - 1 + 1 ELSE 0
        /\ \A i \in 1 .. (Len(p) - 1) - 1 + 1 : SubSeq(p, 1, Len(p) - 1)[i] = p[1 + i - 1]
    BY <2>2, SubSeqProperties
  <2>4. Parent(p) \in Seq(Names) /\ Len(Parent(p)) = Len(p) - 1
    <3>1. Len(Parent(p)) = IF 1 <= Len(p) - 1 THEN (Len(p) - 1) - 1 + 1 ELSE 0
      BY <2>1, <2>3
    <3>2. Parent(p) \in Seq(Names)
      BY <2>1, <2>3
    <3>3. \A n \in Nat \ {0} : (IF 1 <= n - 1 THEN (n - 1) - 1 + 1 ELSE 0) = n - 1
      OBVIOUS
    <3>4. Len(p) \in Nat \ {0}
      BY <1>1
    <3>5. Len(Parent(p)) = Len(p) - 1
      BY <3>1, <3>3, <3>4
    <3> QED BY <3>2, <3>5
  <2>5. ASSUME NEW i \in 1 .. Len(p) - 1
        PROVE  Parent(p)[i] = p[i]
    <3>1. i \in 1 .. (Len(p) - 1) - 1 + 1 /\ 1 + i - 1 = i
      BY <1>1
    <3> QED BY <2>1, <2>3, <3>1
  <2> QED BY <2>4, <2>5
<1>3. Parent(p) \in Paths /\ Parent(p) # p
  BY <1>1, <1>2, PathsAreNames
<1>4. IsPrefix(Parent(p), p)
  BY <1>1, <1>2, PrefixAt
<1>5. ASSUME NEW q \in Seq(Names), IsPrefix(q, p), q # p
      PROVE  IsPrefix(q, Parent(p))
  <2>1. Len(q) <= Len(p) /\ \A i \in 1 .. Len(q) : q[i] = p[i]
    BY <1>1, <1>5, PrefixAt
  <2>2. Len(q) # Len(p)
    BY <1>1, <1>5, PrefixOrder
  <2>3. Len(q) <= Len(p) - 1 /\ Len(q) \in Nat
    BY <1>1, <2>1, <2>2
  <2>4. \A i \in 1 .. Len(q) : q[i] = Parent(p)[i]
    BY <1>1, <1>2, <2>1, <2>3
  <2> QED BY <1>2, <2>3, <2>4, PrefixAt
<1> QED BY <1>2, <1>3, <1>4, <1>5

\* Only the link, of the directories there are, leads somewhere else.
LEMMA CanonicalPaths ==
  ASSUME NEW d \in Paths, Below(Link) \cap {d} = {}
  PROVE  /\ d # Link => Canonical(d) = d
         /\ d = Link => Canonical(d) = Root
<1>1. d \in Seq(Names) /\ Link \in Seq(Names)
  BY PathsAreNames, DirWatchAssumption
<1>2. ASSUME d # Link
      PROVE  Canonical(d) = d
  <2>1. ~IsPrefix(Link, d)
    BY <1>2 DEF Below, IsStrictPrefix
  <2> QED BY <2>1 DEF Canonical
<1>3. ASSUME d = Link
      PROVE  Canonical(d) = Root
  <2>1. IsPrefix(Link, d)
    BY <1>1, <1>3, PrefixOrder
  <2>2. SubSeq(d, Len(Link) + 1, Len(d)) = <<>>
    BY <1>1, <1>3
  <2> QED BY <2>1, <2>2 DEF Canonical, Root
<1> QED BY <1>2, <1>3

LEMMA RowRange ==
  ASSUME NEW S, IsFiniteSet(S)
  PROVE  SetToSeq(S) \in Seq(S) /\ Range(SetToSeq(S)) = S
<1>1. SetToSeq(S) \in Seq(S) /\ \A x \in S : \E i \in DOMAIN SetToSeq(S) : SetToSeq(S)[i] = x
  BY ElementsInRow
<1>2. \A i \in DOMAIN SetToSeq(S) : SetToSeq(S)[i] \in S
  BY <1>1
<1> QED BY <1>1, <1>2 DEF Range

LEMMA TailRange ==
  ASSUME NEW T, NEW s \in Seq(T), s # <<>>
  PROVE  /\ Head(s) \in Range(s) /\ Tail(s) \in Seq(T) /\ Range(s) \subseteq T
         /\ Range(s) = {Head(s)} \cup Range(Tail(s))
<1>1. /\ Len(s) \in Nat \ {0} /\ DOMAIN s = 1 .. Len(s)
      /\ Head(s) = s[1] /\ Tail(s) \in Seq(T) /\ DOMAIN Tail(s) = 1 .. Len(s) - 1
      /\ \A i \in 1 .. Len(s) - 1 : Tail(s)[i] = s[i + 1]
  OBVIOUS
<1>2. Range(s) \subseteq {Head(s)} \cup Range(Tail(s))
  <2> SUFFICES ASSUME NEW i \in 1 .. Len(s)
               PROVE  s[i] \in {Head(s)} \cup Range(Tail(s))
    BY <1>1 DEF Range
  <2>1. CASE i = 1
    BY <1>1, <2>1
  <2>2. CASE i # 1
    <3>1. i - 1 \in 1 .. Len(s) - 1 /\ (i - 1) + 1 = i
      BY <1>1, <2>2
    <3>2. Tail(s)[i - 1] = s[i]
      BY <1>1, <3>1
    <3> QED BY <1>1, <3>1, <3>2 DEF Range
  <2> QED BY <2>1, <2>2
<1>3. Head(s) \in Range(s)
  <2>1. 1 \in DOMAIN s
    BY <1>1
  <2> QED BY <1>1, <2>1 DEF Range
<1>4. Range(Tail(s)) \subseteq Range(s)
  <2> SUFFICES ASSUME NEW i \in 1 .. Len(s) - 1
               PROVE  Tail(s)[i] \in Range(s)
    BY <1>1 DEF Range
  <2>1. i + 1 \in DOMAIN s /\ Tail(s)[i] = s[i + 1]
    BY <1>1
  <2> QED BY <2>1 DEF Range
<1>5. Range(s) \subseteq T
  BY <1>1 DEF Range
<1> QED BY <1>1, <1>2, <1>3, <1>4, <1>5

LEMMA SurvivingRange ==
  ASSUME NEW T, NEW es \in Seq(T), NEW lost
  PROVE  /\ Surviving(es, lost) \in Seq(T)
         /\ Range(Surviving(es, lost)) = {e \in Range(es) : e.by \notin lost}
<1> DEFINE left == Surviving(es, lost)
<1>1. /\ left \in Seq(T)
      /\ \A j \in DOMAIN left : \E i \in DOMAIN es : left[j] = es[i] /\ es[i].by \notin lost
      /\ \A i \in DOMAIN es : es[i].by \notin lost => \E j \in DOMAIN left : left[j] = es[i]
  BY SurvivingKeeps
<1> HIDE DEF left
<1>2. Range(left) = {e \in Range(es) : e.by \notin lost}
  BY <1>1 DEF Range
<1> QED BY <1>1, <1>2 DEF left

Kinds     == {"created", "deleted"}
WalkCalls == {c \in [dir : Paths, depth : Nat, at : {"enter", "scan"}] : c.depth = Len(c.dir)}
Reports   == {e \in [kind : Kinds, dir : Paths \ {Root}, by : Paths] :
                e.by = Parent(e.dir) \/ (e.kind = "deleted" /\ e.by = e.dir)}

Calls   == Range(walk)
Pending == Range(events)

WatchTypes ==
  /\ IsTree(exists) /\ visited \subseteq Paths /\ gone \subseteq Paths
  /\ walk \in Seq(WalkCalls) /\ events \in Seq(Reports)
  /\ DOMAIN watched \subseteq Paths
  /\ \A d \in DOMAIN watched : watched[d] = Len(d) /\ Len(d) <= MaxDepth

\* Above a monitor there are monitors, up to the root, ...
WatchClosed ==
  /\ \A d \in DOMAIN watched, q \in Paths : IsPrefix(q, d) => q \in DOMAIN watched
  /\ DOMAIN watched # {} => Root \in visited
  /\ DOMAIN watched \subseteq exists \cup gone
  /\ visited \cap Spared \subseteq DOMAIN watched

\* ... where the calls of the walk and the events come from.
CallFounded(c) ==
  IF c.at = "scan" THEN c.dir \in DOMAIN watched
  ELSE c.dir = Root \/ Parent(c.dir) \in DOMAIN watched

Founded ==
  /\ \A c \in Calls : CallFounded(c)
  /\ \A e \in Pending : e.by \in DOMAIN watched /\ (e.kind = "deleted" => e.dir \in gone)

\* A directory that should have a monitor, and whose parent has one, gets it: the
\* walk comes to it, or the event that announces it is on its way; ...
Enters(p)    == \E c \in Calls : c.at = "enter" /\ c.dir = p
Scans(p)     == \E c \in Calls : c.at = "scan" /\ c.dir = p
Announced(p) == \E e \in Pending : e.kind = "created" /\ e.dir = p /\ e.by = Parent(p)
Promised(p)  == Enters(p) \/ (p # Root /\ (Scans(Parent(p)) \/ Announced(p)))

Lacking(p)   == /\ p \in (Covered \cap Spared) \ DOMAIN watched
                /\ p = Root \/ Parent(p) \in DOMAIN watched
PromisesKept == \A p \in Paths : Lacking(p) => Promised(p)

\* ... and what tells of a directory that is gone is on its way to its monitor.
StaleNoted ==
  \A d \in DOMAIN watched \ exists : \E e \in Pending : e.kind = "deleted" /\ IsPrefix(e.dir, d)

WatchInv ==
  /\ WatchTypes /\ WatchClosed /\ Founded /\ PromisesKept /\ StaleNoted

LEMMA NotedEvents ==
  ASSUME NEW kind \in Kinds, NEW d \in Paths \ {Root}, DOMAIN watched \subseteq Paths
  PROVE  /\ Noted(kind, d) \in Seq(Reports)
         /\ \A e \in Range(Noted(kind, d)) : e.kind = kind /\ e.dir = d /\ e.by \in DOMAIN watched
         /\ Parent(d) \in DOMAIN watched =>
              \E e \in Range(Noted(kind, d)) : e.kind = kind /\ e.dir = d /\ e.by = Parent(d)
         /\ kind = "deleted" /\ d \in DOMAIN watched =>
              \E e \in Range(Noted(kind, d)) : e.kind = kind /\ e.dir = d
<1> DEFINE By == (IF d # Root /\ Parent(d) \in DOMAIN watched THEN {Parent(d)} ELSE {})
                 \cup (IF kind = "deleted" /\ d \in DOMAIN watched THEN {d} ELSE {})
           es == {[kind |-> kind, dir |-> d, by |-> b] : b \in By}
<1>1. Parent(d) \in Paths
  BY Parents
<1>2. es \subseteq Reports
  BY <1>1 DEF Reports
<1>3. IsFiniteSet(es)
  <2> DEFINE r == [kind |-> kind, dir |-> d, by |-> Parent(d)]
             s == [kind |-> kind, dir |-> d, by |-> d]
  <2>1. es \in SUBSET ({r} \cup {s})
    OBVIOUS
  <2> HIDE DEF es, r, s
  <2>2. IsFiniteSet({r})
    BY FS_Singleton
  <2>3. IsFiniteSet({r} \cup {s})
    BY <2>2, FS_AddElement
  <2> QED BY <2>1, <2>3, FS_Subset
<1>4. Noted(kind, d) = SetToSeq(es)
  BY DEF Noted
<1> HIDE DEF es
<1>5. Noted(kind, d) \in Seq(es) /\ Range(Noted(kind, d)) = es
  BY <1>3, <1>4, RowRange
<1>6. Noted(kind, d) \in Seq(Reports)
  BY <1>2, <1>5, SeqMonotonic
<1>7. /\ \A e \in es : e.kind = kind /\ e.dir = d /\ e.by \in DOMAIN watched
      /\ Parent(d) \in DOMAIN watched => [kind |-> kind, dir |-> d, by |-> Parent(d)] \in es
      /\ kind = "deleted" /\ d \in DOMAIN watched => [kind |-> kind, dir |-> d, by |-> d] \in es
  BY DEF es
<1> QED BY <1>5, <1>6, <1>7

\* What other programs do, as far as the watcher is concerned: directories appear
\* and disappear, and the monitors that are in place tell of it.
LEMMA ElsewhereStep ==
  ASSUME WatchInv, UNCHANGED <<watched, visited, walk>>, IsTree(exists'),
         gone \subseteq gone', gone' \subseteq Paths, exists \ exists' \subseteq gone',
         NEW new \in Seq(Reports), events' = events \o new,
         \A e \in Range(new) : e.by \in DOMAIN watched /\ (e.kind = "deleted" => e.dir \in gone'),
         \A d \in (DOMAIN watched \cap exists) \ exists' :
           \E e \in Range(new) : e.kind = "deleted" /\ IsPrefix(e.dir, d),
         \A p \in (exists' \ exists) \cap Spared' : Parent(p) \in DOMAIN watched =>
           \E e \in Range(new) : e.kind = "created" /\ e.dir = p /\ e.by = Parent(p)
  PROVE  WatchInv'
<1>1. events' \in Seq(Reports) /\ Pending' = Pending \cup Range(new)
  BY RangeConcatenation DEF WatchInv, WatchTypes, Pending
<1>2. Calls' = Calls
  BY DEF Calls
<1>3. Spared' \subseteq Spared
  BY DEF Spared
<1>4. WatchTypes'
  BY <1>1 DEF WatchInv, WatchTypes
<1>5. WatchClosed'
  BY <1>3 DEF WatchInv, WatchClosed
<1>6. Founded'
  BY <1>1, <1>2 DEF WatchInv, Founded, CallFounded
<1>7. PromisesKept'
  <2> SUFFICES ASSUME NEW p \in Paths, Lacking(p)'
               PROVE  Promised(p)'
    BY DEF PromisesKept
  <2>1. p \in exists' /\ p \in Spared' /\ p \in Covered' /\ (p = Root \/ Parent(p) \in DOMAIN watched)
    BY DEF Lacking, Covered
  <2>2. CASE p \in exists
    <3>1. Lacking(p)
      BY <1>3, <2>1, <2>2 DEF Lacking, Covered
    <3>2. Promised(p)
      BY <3>1 DEF WatchInv, PromisesKept
    <3> QED BY <1>1, <1>2, <3>2 DEF Promised, Enters, Scans, Announced
  <2>3. CASE p \notin exists
    <3>1. p # Root
      BY <2>3 DEF WatchInv, WatchTypes, IsTree
    <3>2. Announced(p)'
      BY <1>1, <2>1, <2>3, <3>1 DEF Announced
    <3> QED BY <3>1, <3>2 DEF Promised
  <2> QED BY <2>2, <2>3
<1>8. StaleNoted'
  BY <1>1 DEF WatchInv, StaleNoted
<1> QED BY <1>4, <1>5, <1>6, <1>7, <1>8 DEF WatchInv

LEMMA CreateStep ==
  ASSUME WatchInv, NEW d \in Paths, CreateDir(d)
  PROVE  WatchInv'
<1>1. /\ d \in Paths \ {Root} /\ d \notin exists /\ Parent(d) \in exists \ {Link}
      /\ exists' = exists \cup {d} /\ events' = events \o Noted("created", d)
      /\ UNCHANGED <<watched, visited, walk, gone>>
  BY DEF CreateDir
<1>2. IsTree(exists) /\ DOMAIN watched \subseteq Paths
  BY DEF WatchInv, WatchTypes
<1>3. IsTree(exists')
  <2>1. IsFiniteSet(exists') /\ exists' \subseteq Paths /\ Root \in exists'
    BY <1>1, <1>2, FS_AddElement DEF IsTree
  <2>2. ASSUME NEW p \in exists', NEW q \in Paths, IsPrefix(q, p)
        PROVE  q \in exists'
    <3>1. CASE p \in exists
      BY <1>1, <1>2, <2>2, <3>1 DEF IsTree
    <3>2. CASE p = d /\ q # d
      <4>1. q \in Seq(Names)
        BY PathsAreNames
      <4>2. IsPrefix(q, Parent(d))
        BY <1>1, <2>2, <3>2, <4>1, Parents
      <4> QED BY <1>1, <1>2, <4>2 DEF IsTree
    <3>3. CASE q = d
      BY <1>1, <3>3
    <3> QED BY <1>1, <3>1, <3>2, <3>3
  <2>3. d \notin Below(Link)
    <3> SUFFICES ASSUME IsPrefix(Link, d), Link # d
                 PROVE  FALSE
      BY DEF Below, IsStrictPrefix
    <3>1. Link \in Seq(Names)
      BY DirWatchAssumption
    <3>2. IsPrefix(Link, Parent(d)) /\ Parent(d) \in Paths
      BY <1>1, <3>1, Parents
    <3>3. Parent(d) \in Below(Link)
      BY <1>1, <3>2 DEF Below, IsStrictPrefix
    <3> QED BY <1>1, <1>2, <3>3 DEF IsTree
  <2>4. Below(Link) \cap exists' = {}
    BY <1>1, <1>2, <2>3 DEF IsTree
  <2> QED BY <2>1, <2>2, <2>4 DEF IsTree
<1> DEFINE new == Noted("created", d)
<1>4. /\ new \in Seq(Reports)
      /\ \A e \in Range(new) : e.kind = "created" /\ e.by \in DOMAIN watched
      /\ Parent(d) \in DOMAIN watched =>
           \E e \in Range(new) : e.kind = "created" /\ e.dir = d /\ e.by = Parent(d)
  BY <1>1, <1>2, NotedEvents DEF Kinds
<1>5. gone' \subseteq Paths
  BY <1>1 DEF WatchInv, WatchTypes
<1>6. events' = events \o new
  BY <1>1
<1> HIDE DEF new
<1>7. \A e \in Range(new) : e.by \in DOMAIN watched /\ (e.kind = "deleted" => e.dir \in gone')
  BY <1>4
<1>8. (DOMAIN watched \cap exists) \ exists' = {} /\ exists \ exists' = {}
  BY <1>1
<1>9. \A p \in (exists' \ exists) \cap Spared' : Parent(p) \in DOMAIN watched =>
        \E e \in Range(new) : e.kind = "created" /\ e.dir = p /\ e.by = Parent(p)
  BY <1>1, <1>4
<1> QED BY <1>1, <1>3, <1>4, <1>5, <1>6, <1>7, <1>8, <1>9, ElsewhereStep

LEMMA DeleteStep ==
  ASSUME WatchInv, NEW d \in Paths, DeleteDir(d)
  PROVE  WatchInv'
<1>1. /\ d \in exists \ {Root} /\ Below(d) \cap exists = {}
      /\ exists' = exists \ {d} /\ gone' = gone \cup {d} /\ events' = events \o Noted("deleted", d)
      /\ UNCHANGED <<watched, visited, walk>>
  BY DEF DeleteDir
<1>2. IsTree(exists) /\ DOMAIN watched \subseteq Paths
  BY DEF WatchInv, WatchTypes
<1>3. IsTree(exists')
  <2>1. IsFiniteSet(exists') /\ exists' \subseteq Paths /\ Root \in exists' /\ Below(Link) \cap exists' = {}
    BY <1>1, <1>2, FS_RemoveElement DEF IsTree
  <2>2. ASSUME NEW p \in exists', NEW q \in Paths, IsPrefix(q, p)
        PROVE  q \in exists'
    <3>1. q \in exists /\ p \in exists /\ p # d /\ p \in Paths
      BY <1>1, <1>2, <2>2 DEF IsTree
    <3>2. q # d
      BY <1>1, <2>2, <3>1 DEF Below, IsStrictPrefix
    <3> QED BY <1>1, <3>1, <3>2
  <2> QED BY <2>1, <2>2 DEF IsTree
<1> DEFINE new == Noted("deleted", d)
<1>4. /\ new \in Seq(Reports)
      /\ \A e \in Range(new) : e.kind = "deleted" /\ e.dir = d /\ e.by \in DOMAIN watched
      /\ d \in DOMAIN watched => \E e \in Range(new) : e.kind = "deleted" /\ e.dir = d
  BY <1>1, <1>2, NotedEvents DEF Kinds
<1>5. gone \subseteq gone' /\ gone' \subseteq Paths
  BY <1>1 DEF WatchInv, WatchTypes
<1>6. events' = events \o new
  BY <1>1
<1> HIDE DEF new
<1>7. \A e \in Range(new) : e.by \in DOMAIN watched /\ (e.kind = "deleted" => e.dir \in gone')
  BY <1>1, <1>4
<1>8. \A e \in (DOMAIN watched \cap exists) \ exists' :
        \E x \in Range(new) : x.kind = "deleted" /\ IsPrefix(x.dir, e)
  <2>1. IsPrefix(d, d)
    BY PathsAreNames, PrefixOrder
  <2> QED BY <1>1, <1>4, <2>1
<1>9. exists' \ exists = {} /\ exists \ exists' \subseteq gone'
  BY <1>1
<1> QED BY <1>1, <1>3, <1>4, <1>5, <1>6, <1>7, <1>8, <1>9, ElsewhereStep

LEMMA RenamedPaths ==
  ASSUME NEW d \in Paths, NEW to \in Paths, NEW e \in Paths, IsPrefix(d, e), Len(to) = Len(d)
  PROVE  LET r == Renamed(d, to, e) IN
         /\ r \in Paths /\ Len(r) = Len(e) /\ IsPrefix(to, r)
         /\ \A i \in 1 .. Len(e) : r[i] = IF i <= Len(to) THEN to[i] ELSE e[i]
<1> DEFINE rest == SubSeq(e, Len(d) + 1, Len(e))
           r    == Renamed(d, to, e)
<1>1. /\ d \in Seq(Names) /\ to \in Seq(Names) /\ e \in Seq(Names) /\ Len(e) <= TreeDepth
      /\ Len(d) \in Nat /\ Len(e) \in Nat /\ Len(d) <= Len(e)
  BY PathsAreNames DEF IsPrefix
<1>2. /\ rest \in Seq(Names) /\ Len(rest) = Len(e) - Len(d)
      /\ \A i \in 1 .. Len(e) - Len(d) : rest[i] = e[Len(d) + i]
  <2>1. \A i \in Len(d) + 1 .. Len(e) : e[i] \in Names
    BY <1>1
  <2>2. /\ rest \in Seq(Names)
        /\ Len(rest) = IF Len(d) + 1 <= Len(e) THEN Len(e) - (Len(d) + 1) + 1 ELSE 0
        /\ \A i \in 1 .. Len(e) - (Len(d) + 1) + 1 : rest[i] = e[(Len(d) + 1) + i - 1]
    BY <1>1, <2>1, SubSeqProperties
  <2> HIDE DEF rest
  <2>3. Len(rest) = Len(e) - Len(d)
    BY <1>1, <2>2
  <2>4. ASSUME NEW i \in 1 .. Len(e) - Len(d)
        PROVE  rest[i] = e[Len(d) + i]
    <3>1. i \in 1 .. Len(e) - (Len(d) + 1) + 1 /\ (Len(d) + 1) + i - 1 = Len(d) + i
      BY <1>1
    <3> QED BY <2>2, <3>1
  <2> QED BY <2>2, <2>3, <2>4
<1>3. r = to \o rest
  BY DEF Renamed
<1> HIDE DEF rest, r
<1>4. r \in Seq(Names) /\ Len(r) = Len(e)
  <2>1. to \in Seq(Names) /\ rest \in Seq(Names)
    BY <1>1, <1>2
  <2>2. to \o rest \in Seq(Names) /\ Len(to \o rest) = Len(to) + Len(rest)
    BY <2>1, ConcatProperties
  <2>3. r \in Seq(Names) /\ Len(r) = Len(to) + Len(rest)
    BY <1>3, <2>2
  <2> QED BY <1>1, <1>2, <2>3
<1>5. ASSUME NEW i \in 1 .. Len(e)
      PROVE  r[i] = IF i <= Len(to) THEN to[i] ELSE e[i]
  <2>1. CASE i <= Len(to)
    BY <1>1, <1>2, <1>3, <2>1
  <2>2. CASE ~(i <= Len(to))
    <3>1. i - Len(to) \in 1 .. Len(e) - Len(d) /\ Len(d) + (i - Len(to)) = i
      BY <1>1, <2>2
    <3>2. r[i] = rest[i - Len(to)]
      BY <1>1, <1>2, <1>3, <2>2
    <3> QED BY <1>2, <2>2, <3>1, <3>2
  <2> QED BY <2>1, <2>2
<1>6. r \in Paths
  BY <1>1, <1>4, PathsAreNames
<1>7. IsPrefix(to, r)
  BY <1>1, <1>4, <1>5, PrefixAt
<1> QED BY <1>4, <1>5, <1>6, <1>7 DEF r

\* What is above a renamed directory is above its new place or moved along.
LEMMA AboveRenamed ==
  ASSUME NEW d \in Paths, NEW to \in Paths, NEW e \in Paths, IsPrefix(d, e), Len(to) = Len(d),
         NEW q \in Seq(Names), IsPrefix(q, Renamed(d, to, e))
  PROVE  \/ IsPrefix(q, to)
         \/ \E f \in Paths : IsPrefix(d, f) /\ IsPrefix(f, e) /\ q = Renamed(d, to, f)
<1> DEFINE r == Renamed(d, to, e)
<1>1. /\ r \in Paths /\ Len(r) = Len(e) /\ IsPrefix(to, r)
      /\ \A i \in 1 .. Len(e) : r[i] = IF i <= Len(to) THEN to[i] ELSE e[i]
  BY RenamedPaths
<1>2. /\ d \in Seq(Names) /\ to \in Seq(Names) /\ e \in Seq(Names) /\ r \in Seq(Names)
      /\ Len(e) <= TreeDepth /\ TreeDepth \in Nat
      /\ Len(d) \in Nat /\ Len(e) \in Nat /\ Len(d) <= Len(e) /\ Len(q) \in Nat
  BY <1>1, PathsAreNames, DirWatchAssumption DEF IsPrefix
<1>3. Len(q) <= Len(e) /\ \A i \in 1 .. Len(q) : q[i] = r[i]
  BY <1>1, <1>2, PrefixAt
<1> HIDE DEF r
<1>4. CASE Len(q) <= Len(to)
  <2>1. IsPrefix(q, r)
    BY DEF r
  <2>2. IsPrefix(q, to) \/ IsPrefix(to, q)
    BY <1>1, <1>2, <2>1, PrefixOrder
  <2>3. IsPrefix(to, q) => to = q
    BY <1>2, <1>4, PrefixOrder
  <2> QED BY <1>2, <2>2, <2>3, PrefixOrder
<1>5. CASE Len(q) > Len(to)
  <2> DEFINE f == SubSeq(e, 1, Len(q))
  <2>1. /\ f \in Seq(Names) /\ Len(f) = Len(q) /\ \A i \in 1 .. Len(q) : f[i] = e[i]
    BY <1>2, <1>3
  <2> HIDE DEF f
  <2>2. f \in Paths
    BY <1>2, <1>3, <2>1, PathsAreNames
  <2>3. IsPrefix(f, e)
    BY <1>2, <1>3, <2>1, PrefixAt
  <2>4. IsPrefix(d, f)
    <3>1. \A i \in 1 .. Len(d) : d[i] = e[i]
      BY <1>2, PrefixAt
    <3>2. Len(d) <= Len(f) /\ \A i \in 1 .. Len(d) : d[i] = f[i]
      BY <1>2, <1>5, <2>1, <3>1
    <3> QED BY <1>2, <2>1, <3>2, PrefixAt
  <2> DEFINE rf == Renamed(d, to, f)
  <2>5. /\ rf \in Paths /\ Len(rf) = Len(f)
        /\ \A i \in 1 .. Len(f) : rf[i] = IF i <= Len(to) THEN to[i] ELSE f[i]
    BY <2>2, <2>4, RenamedPaths
  <2> HIDE DEF rf
  <2>6. rf \in Seq(Names)
    BY <2>5, PathsAreNames
  <2>7. ASSUME NEW i \in 1 .. Len(q)
        PROVE  q[i] = rf[i]
    <3>1. i \in 1 .. Len(e)
      BY <1>2, <1>3
    <3> QED BY <1>1, <1>3, <2>1, <2>5, <3>1
  <2>8. q = rf
    BY <2>1, <2>5, <2>6, <2>7, SeqEqual
  <2> QED BY <2>2, <2>3, <2>4, <2>8 DEF rf
<1> QED BY <1>2, <1>4, <1>5

LEMMA RenameStep ==
  ASSUME WatchInv, NEW d \in exists, NEW to \in Paths, RenameDir(d, to)
  PROVE  WatchInv'
<1> DEFINE tree  == {d} \cup (Below(d) \cap exists)
           moved == {Renamed(d, to, e) : e \in tree}
           new   == Noted("deleted", d) \o Noted("created", to)
<1>1. /\ d \in exists \ {Root, Link} /\ to \in Paths \ exists
      /\ Len(to) = Len(d) /\ Parent(to) \in exists \ {Link} /\ ~IsPrefix(d, to)
      /\ Link \notin tree \cup moved
      /\ exists' = (exists \ tree) \cup moved /\ gone' = gone \cup tree
      /\ events' = (events \o Noted("deleted", d)) \o Noted("created", to)
      /\ UNCHANGED <<watched, visited, walk>>
  BY DEF RenameDir
<1>2. /\ IsTree(exists) /\ DOMAIN watched \subseteq Paths /\ events \in Seq(Reports)
      /\ gone \subseteq Paths /\ exists \subseteq Paths
      /\ \A x \in DOMAIN watched, q \in Paths : IsPrefix(q, x) => q \in DOMAIN watched
      /\ DOMAIN watched \subseteq exists \cup gone
  BY DEF WatchInv, WatchTypes, WatchClosed, IsTree
<1>3. d \in Paths \ {Root} /\ to \in Paths \ {Root} /\ d \in Seq(Names) /\ to \in Seq(Names)
  BY <1>1, <1>2, RootIsFirst, PathsAreNames
<1>4. \A e \in tree : e \in exists /\ e \in Paths /\ e \in Seq(Names) /\ IsPrefix(d, e)
  BY <1>2, <1>3, PrefixOrder, PathsAreNames DEF Below, IsStrictPrefix
<1>5. \A e \in exists : IsPrefix(d, e) => e \in tree
  BY <1>2 DEF Below, IsStrictPrefix
<1>6. \A e \in tree : Renamed(d, to, e) \in Paths /\ IsPrefix(to, Renamed(d, to, e))
  BY <1>1, <1>3, <1>4, RenamedPaths
<1>7. to \in moved
  <2> DEFINE r == Renamed(d, to, d)
  <2>1. IsPrefix(d, d)
    BY <1>3, PrefixOrder
  <2>2. r \in Paths /\ Len(r) = Len(d) /\ IsPrefix(to, r)
    BY <1>1, <1>3, <2>1, RenamedPaths
  <2> HIDE DEF r
  <2>3. r \in Seq(Names)
    BY <2>2, PathsAreNames
  <2>4. Len(r) <= Len(to)
    BY <1>1, <1>3, <2>2
  <2>5. to = r
    BY <1>3, <2>2, <2>3, <2>4, PrefixOrder
  <2> QED BY <2>5 DEF r
<1>8. /\ Noted("deleted", d) \in Seq(Reports) /\ Noted("created", to) \in Seq(Reports)
      /\ \A e \in Range(Noted("deleted", d)) : e.kind = "deleted" /\ e.dir = d /\ e.by \in DOMAIN watched
      /\ d \in DOMAIN watched => \E e \in Range(Noted("deleted", d)) : e.kind = "deleted" /\ e.dir = d
      /\ \A e \in Range(Noted("created", to)) : e.kind = "created" /\ e.by \in DOMAIN watched
      /\ Parent(to) \in DOMAIN watched =>
           \E e \in Range(Noted("created", to)) : e.kind = "created" /\ e.dir = to /\ e.by = Parent(to)
  BY <1>2, <1>3, NotedEvents DEF Kinds
<1>9. /\ new \in Seq(Reports) /\ events' = events \o new
      /\ Range(new) = Range(Noted("deleted", d)) \cup Range(Noted("created", to))
  BY <1>1, <1>2, <1>8, ConcatAssociative, RangeConcatenation
<1> HIDE DEF new
<1>10. \A q \in Paths, x \in moved : IsPrefix(q, x) => q \in exists \ tree \/ q \in moved
  <2> SUFFICES ASSUME NEW q \in Paths, NEW e \in tree, IsPrefix(q, Renamed(d, to, e)), q \notin moved
               PROVE  q \in exists \ tree
    OBVIOUS
  <2>1. q \in Seq(Names)
    BY PathsAreNames
  <2>2. CASE IsPrefix(q, to)
    <3>1. q # to
      BY <1>7
    <3>2. IsPrefix(q, Parent(to))
      BY <1>3, <2>1, <2>2, <3>1, Parents
    <3>3. q \in exists
      BY <1>1, <1>2, <3>2 DEF IsTree
    <3>4. ~IsPrefix(d, q)
      BY <1>1, <1>3, <2>1, <2>2, PrefixOrder
    <3> QED BY <1>4, <3>3, <3>4
  <2>3. ASSUME NEW f \in Paths, IsPrefix(d, f), IsPrefix(f, e), q = Renamed(d, to, f)
        PROVE  FALSE
    <3>1. f \in exists
      BY <1>2, <1>4, <2>3 DEF IsTree
    <3> QED BY <1>5, <2>3, <3>1
  <2> QED BY <1>1, <1>3, <1>4, <2>1, <2>2, <2>3, AboveRenamed
<1>11. IsTree(exists')
  <2>1. IsFiniteSet(exists')
    <3> DEFINE f == [e \in tree |-> Renamed(d, to, e)]
    <3>1. tree \in SUBSET exists /\ exists \ tree \in SUBSET exists
      BY <1>4
    <3>2. IsFiniteSet(exists)
      BY <1>2 DEF IsTree
    <3>3. IsFiniteSet(tree) /\ IsFiniteSet(exists \ tree)
      BY <3>1, <3>2, FS_Subset
    <3>4. f \in Surjection(tree, moved)
      BY DEF Surjection
    <3> HIDE DEF f, tree, moved
    <3>5. IsFiniteSet(moved)
      BY <3>3, <3>4, FS_Surjection
    <3> QED BY <1>1, <3>3, <3>5, FS_Union
  <2>2. exists' \subseteq Paths
    BY <1>1, <1>2, <1>6
  <2>3. Root \in exists'
    <3>1. ~IsPrefix(d, Root)
      BY <1>3, RootIsFirst, PathsAreNames, PrefixOrder
    <3>2. Root \in exists
      BY <1>2 DEF IsTree
    <3>3. Root \notin tree
      BY <1>4, <3>1
    <3> QED BY <1>1, <3>2, <3>3
  <2>4. ASSUME NEW p \in exists', NEW q \in Paths, IsPrefix(q, p)
        PROVE  q \in exists'
    <3>1. CASE p \in moved
      BY <1>1, <1>10, <2>4, <3>1
    <3>2. CASE p \in exists \ tree
      <4>1. q \in exists
        BY <1>2, <2>4, <3>2 DEF IsTree
      <4>2. p \in Seq(Names) /\ q \in Seq(Names)
        BY <1>2, <3>2, PathsAreNames
      <4>3. q \notin tree
        BY <1>3, <1>4, <1>5, <2>4, <3>2, <4>2, PrefixOrder
      <4> QED BY <1>1, <4>1, <4>3
    <3> QED BY <1>1, <3>1, <3>2
  <2>5. ASSUME NEW p \in exists', p \in Below(Link)
        PROVE  FALSE
    <3>1. p \in moved
      BY <1>1, <1>2, <2>5 DEF IsTree
    <3>2. PICK e \in tree : p = Renamed(d, to, e)
      BY <3>1
    <3>3. Link \in Seq(Names) /\ IsPrefix(Link, p)
      BY <2>5, DirWatchAssumption DEF Below, IsStrictPrefix
    <3>4. IsPrefix(Link, to)
      <4>1. ASSUME NEW f \in Paths, IsPrefix(d, f), IsPrefix(f, e), Link = Renamed(d, to, f)
            PROVE  FALSE
        <5>1. f \in exists
          BY <1>2, <1>4, <4>1 DEF IsTree
        <5> QED BY <1>1, <1>5, <4>1, <5>1
      <4> QED BY <1>1, <1>3, <1>4, <3>2, <3>3, <4>1, AboveRenamed
    <3>5. Link # to
      BY <1>1, <1>7
    <3>6. IsPrefix(Link, Parent(to)) /\ Parent(to) \in Paths
      BY <1>3, <3>3, <3>4, <3>5, Parents
    <3>7. Parent(to) \in Below(Link)
      BY <1>1, <3>6 DEF Below, IsStrictPrefix
    <3> QED BY <1>1, <1>2, <3>7 DEF IsTree
  <2> QED BY <2>1, <2>2, <2>3, <2>4, <2>5 DEF IsTree
<1>12. gone \subseteq gone' /\ gone' \subseteq Paths /\ exists \ exists' \subseteq gone'
  BY <1>1, <1>2, <1>4
<1>13. d \in gone'
  BY <1>1
<1>14. \A e \in Range(new) : e.by \in DOMAIN watched /\ (e.kind = "deleted" => e.dir \in gone')
  BY <1>8, <1>9, <1>13
<1>15. \A x \in (DOMAIN watched \cap exists) \ exists' :
         \E e \in Range(new) : e.kind = "deleted" /\ IsPrefix(e.dir, x)
  <2> SUFFICES ASSUME NEW x \in DOMAIN watched, x \in exists, x \notin exists'
               PROVE  \E e \in Range(new) : e.kind = "deleted" /\ IsPrefix(e.dir, x)
    OBVIOUS
  <2>1. x \in tree
    BY <1>1
  <2>2. IsPrefix(d, x)
    BY <1>4, <2>1
  <2>3. d \in DOMAIN watched
    BY <1>2, <1>3, <2>2
  <2> QED BY <1>8, <1>9, <2>2, <2>3
<1>16. \A p \in (exists' \ exists) \cap Spared' : Parent(p) \in DOMAIN watched =>
         \E e \in Range(new) : e.kind = "created" /\ e.dir = p /\ e.by = Parent(p)
  <2> SUFFICES ASSUME NEW p \in exists' \ exists, p \in Spared', Parent(p) \in DOMAIN watched
               PROVE  \E e \in Range(new) : e.kind = "created" /\ e.dir = p /\ e.by = Parent(p)
    OBVIOUS
  <2>1. p \in moved
    BY <1>1
  <2>2. p \in Paths /\ IsPrefix(to, p) /\ p # Root
    BY <1>3, <1>6, <2>1, RootIsFirst, PrefixOrder, PathsAreNames
  <2>3. CASE p = to
    BY <1>8, <1>9, <2>3
  <2>4. CASE p # to
    <3>1. IsPrefix(to, Parent(p))
      BY <1>3, <2>2, <2>4, Parents
    <3>2. to \in gone
      BY <1>1, <1>2, <3>1
    <3> QED BY <1>12, <2>2, <3>2 DEF Spared
  <2> QED BY <2>3, <2>4
<1> HIDE DEF tree, moved
<1>17. UNCHANGED <<watched, visited, walk>>
  BY <1>1
<1> QED BY <1>9, <1>11, <1>12, <1>14, <1>15, <1>16, <1>17, ElsewhereStep

\* A call that has nothing to do: its directory is gone or has a monitor, lies too
\* deep, or is refused one.
LEMMA CallDropped ==
  ASSUME WatchInv, walk # <<>>, walk' = Tail(walk), UNCHANGED <<exists, watched, visited, events>>,
         gone \subseteq gone', gone' \subseteq Paths, Head(walk).at = "enter",
         ~(Head(walk).dir \in (Covered \cap Spared') \ DOMAIN watched)
  PROVE  WatchInv'
<1> DEFINE c == Head(walk)
<1>1. walk' \in Seq(WalkCalls) /\ Calls = {c} \cup Calls'
  BY TailRange DEF WatchInv, WatchTypes, Calls
<1> HIDE DEF c
<1>2. Spared' \subseteq Spared
  BY DEF Spared
<1>3. Pending' = Pending
  BY DEF Pending
<1>4. WatchTypes'
  BY <1>1 DEF WatchInv, WatchTypes
<1>5. WatchClosed'
  BY <1>2 DEF WatchInv, WatchClosed
<1>6. Founded'
  BY <1>1, <1>3 DEF WatchInv, Founded, CallFounded
<1>7. PromisesKept'
  <2> SUFFICES ASSUME NEW p \in Paths, Lacking(p)'
               PROVE  Promised(p)'
    BY DEF PromisesKept
  <2>1. p \in (Covered \cap Spared') \ DOMAIN watched /\ Lacking(p)
    BY <1>2 DEF Lacking, Covered
  <2>2. Promised(p)
    BY <2>1 DEF WatchInv, PromisesKept
  <2>3. c.at = "enter" /\ c.dir # p
    BY <2>1 DEF c
  <2> QED BY <1>1, <1>3, <2>2, <2>3 DEF Promised, Enters, Scans, Announced
<1>8. StaleNoted'
  BY <1>3 DEF WatchInv, StaleNoted
<1> QED BY <1>4, <1>5, <1>6, <1>7, <1>8 DEF WatchInv

\* A monitor is made, and the directory is to be listed.
LEMMA PlacedStep ==
  ASSUME WatchInv, walk # <<>>, Head(walk).at = "enter", ~Skipped(Head(walk)),
         Head(walk).depth <= MaxDepth, Placed(Head(walk)), UNCHANGED <<exists, events>>
  PROVE  WatchInv'
<1> DEFINE c == Head(walk)
           d == c.dir
           listing == Call(d, c.depth, "scan")
<1>1. /\ Tail(walk) \in Seq(WalkCalls) /\ Calls = {c} \cup Range(Tail(walk)) /\ c \in WalkCalls
      /\ CallFounded(c)
  BY TailRange DEF WatchInv, WatchTypes, Calls, Founded
<1>2. /\ d \in Paths /\ c.depth = Len(d) /\ c.depth \in Nat /\ c.at = "enter"
      /\ d \in exists /\ Canonical(d) \notin visited
      /\ d = Root \/ Parent(d) \in DOMAIN watched
  BY <1>1 DEF WalkCalls, Skipped, CallFounded
<1>3. /\ IsTree(exists) /\ DOMAIN watched \subseteq Paths /\ gone \subseteq Paths /\ visited \subseteq Paths
      /\ events \in Seq(Reports)
  BY DEF WatchInv, WatchTypes
<1>4. d # Link /\ Canonical(d) = d
  <2>1. Below(Link) \cap {d} = {}
    BY <1>2, <1>3 DEF IsTree
  <2>2. d # Link
    <3> SUFFICES ASSUME d = Link
                 PROVE  FALSE
      OBVIOUS
    <3>1. Canonical(d) = Root
      BY <1>2, <2>1, CanonicalPaths
    <3>2. Parent(d) \in DOMAIN watched
      BY <1>2, DirWatchAssumption
    <3>3. Root \in visited
      BY <3>2 DEF WatchInv, WatchClosed
    <3> QED BY <1>2, <3>1, <3>3
  <2> QED BY <1>2, <2>1, <2>2, CanonicalPaths
<1>5. /\ visited' = visited \cup {d} /\ gone' = gone
      /\ DOMAIN watched' = DOMAIN watched \cup {d} /\ watched'[d] = Len(d)
      /\ \A x \in DOMAIN watched : x # d => watched'[x] = watched[x]
      /\ walk' = <<listing>> \o Tail(walk)
  BY <1>2, <1>4 DEF Placed, TakeCall
<1>6. listing \in WalkCalls /\ listing.dir = d /\ listing.at = "scan"
  BY <1>2 DEF Call, WalkCalls
<1> HIDE DEF c, d, listing
<1>7. walk' \in Seq(WalkCalls) /\ Calls' = {listing} \cup Range(Tail(walk))
  <2>1. <<listing>> \in Seq(WalkCalls) /\ Range(<<listing>>) = {listing}
    BY <1>6 DEF Range
  <2>2. /\ <<listing>> \o Tail(walk) \in Seq(WalkCalls)
        /\ Range(<<listing>> \o Tail(walk)) = Range(<<listing>>) \cup Range(Tail(walk))
    BY <1>1, <2>1, ConcatProperties, RangeConcatenation
  <2> QED BY <1>5, <2>1, <2>2 DEF Calls
<1>8. Spared' = Spared /\ Pending' = Pending /\ Covered' = Covered
  BY <1>5 DEF Spared, Pending, Covered
<1>9. WatchTypes'
  <2>1. \A x \in DOMAIN watched' : watched'[x] = Len(x) /\ Len(x) <= MaxDepth
    BY <1>2, <1>5 DEF WatchInv, WatchTypes, c
  <2> QED BY <1>2, <1>3, <1>5, <1>7, <2>1 DEF WatchTypes
<1>10. WatchClosed'
  <2>1. ASSUME NEW q \in Paths, IsPrefix(q, d)
        PROVE  q \in DOMAIN watched'
    <3>1. CASE q = d
      BY <1>5, <3>1
    <3>2. CASE q # d /\ d = Root
      BY <2>1, <3>2, RootIsFirst, PathsAreNames, PrefixOrder
    <3>3. CASE q # d /\ d # Root
      <4>1. q \in Seq(Names)
        BY PathsAreNames
      <4>2. IsPrefix(q, Parent(d)) /\ Parent(d) \in DOMAIN watched
        BY <1>2, <2>1, <3>3, <4>1, Parents
      <4> QED BY <1>5, <4>2 DEF WatchInv, WatchClosed
    <3> QED BY <3>1, <3>2, <3>3
  <2>2. \A x \in DOMAIN watched', q \in Paths : IsPrefix(q, x) => q \in DOMAIN watched'
    BY <1>5, <2>1 DEF WatchInv, WatchClosed
  <2>3. Root \in visited'
    BY <1>2, <1>5 DEF WatchInv, WatchClosed
  <2>4. DOMAIN watched' \subseteq exists \cup gone
    BY <1>2, <1>5 DEF WatchInv, WatchClosed
  <2>5. visited' \cap Spared \subseteq DOMAIN watched'
    BY <1>5 DEF WatchInv, WatchClosed
  <2> QED BY <1>5, <1>8, <2>2, <2>3, <2>4, <2>5 DEF WatchClosed
<1>11. Founded'
  BY <1>1, <1>5, <1>6, <1>7, <1>8 DEF WatchInv, Founded, CallFounded
<1>12. PromisesKept'
  <2> SUFFICES ASSUME NEW p \in Paths, Lacking(p)'
               PROVE  Promised(p)'
    BY DEF PromisesKept
  <2>1. /\ p \in (Covered \cap Spared) \ DOMAIN watched /\ p # d
        /\ p = Root \/ Parent(p) \in DOMAIN watched \/ Parent(p) = d
    BY <1>5, <1>8 DEF Lacking
  <2>2. CASE p # Root /\ Parent(p) = d
    BY <1>6, <1>7, <2>2 DEF Promised, Scans
  <2>3. CASE p = Root \/ Parent(p) \in DOMAIN watched
    <3>1. Promised(p)
      BY <2>1, <2>3 DEF WatchInv, PromisesKept, Lacking
    <3>2. c.at = "enter" /\ c.dir # p
      BY <1>2, <2>1 DEF d
    <3> QED BY <1>1, <1>7, <1>8, <3>1, <3>2 DEF Promised, Enters, Scans, Announced
  <2> QED BY <2>1, <2>2, <2>3
<1>13. StaleNoted'
  BY <1>2, <1>5, <1>8 DEF WatchInv, StaleNoted
<1> QED BY <1>9, <1>10, <1>11, <1>12, <1>13 DEF WatchInv

LEMMA EnterStep ==
  ASSUME WatchInv, EnterDir
  PROVE  WatchInv'
<1> DEFINE c == Head(walk)
<1>1. walk # <<>> /\ c.at = "enter" /\ UNCHANGED <<exists, events>>
  BY DEF EnterDir
<1>2. /\ c \in WalkCalls /\ gone \subseteq Paths /\ visited \subseteq Paths /\ IsTree(exists)
      /\ Tail(walk) \in Seq(WalkCalls)
  BY <1>1, TailRange DEF WatchInv, WatchTypes
<1>3. c.dir \in Paths /\ c.depth = Len(c.dir)
  BY <1>2 DEF WalkCalls
<1>4. <<>> \o Tail(walk) = Tail(walk)
  BY <1>2, ConcatEmptySeq
<1>5. CASE Skipped(c) /\ TakeCall(<<>>) /\ UNCHANGED <<watched, visited, reported, gone>>
  <2>1. ~(c.dir \in (Covered \cap Spared) \ DOMAIN watched)
    <3> SUFFICES ASSUME c.dir \in exists, c.dir # Link, c.dir \in Spared
                 PROVE  c.dir \in DOMAIN watched
      BY DEF Covered
    <3>1. Canonical(c.dir) = c.dir
      <4>1. Below(Link) \cap {c.dir} = {}
        BY <1>2 DEF IsTree
      <4> QED BY <1>3, <4>1, CanonicalPaths
    <3>2. c.dir \in visited
      BY <1>5, <3>1 DEF Skipped
    <3> QED BY <3>2 DEF WatchInv, WatchClosed
  <2>2. Spared' = Spared
    BY <1>5 DEF Spared
  <2> QED BY <1>1, <1>2, <1>4, <1>5, <2>1, <2>2, CallDropped DEF TakeCall
<1>6. CASE /\ ~Skipped(c) /\ c.depth > MaxDepth
           /\ TakeCall(<<>>) /\ reported' = TRUE /\ UNCHANGED <<watched, visited, gone>>
  <2>1. c.dir \notin Covered
    <3>1. MaxDepth \in Nat /\ Len(c.dir) \in Nat
      BY <1>3, PathsAreNames, DirWatchAssumption
    <3> QED BY <1>3, <1>6, <3>1 DEF Covered
  <2> QED BY <1>1, <1>2, <1>4, <1>6, <2>1, CallDropped DEF TakeCall
<1>7. CASE /\ ~Skipped(c) /\ c.depth <= MaxDepth /\ ~reported
           /\ TakeCall(<<>>) /\ reported' = TRUE
           /\ gone' = gone \cup {c.dir} \cup Below(c.dir) /\ UNCHANGED <<watched, visited>>
  <2>1. gone \subseteq gone' /\ gone' \subseteq Paths /\ c.dir \in gone'
    BY <1>2, <1>3, <1>7 DEF Below
  <2>2. IsPrefix(c.dir, c.dir)
    BY <1>3, PathsAreNames, PrefixOrder
  <2>3. c.dir \notin Spared'
    BY <2>1, <2>2 DEF Spared
  <2> QED BY <1>1, <1>4, <1>7, <2>1, <2>3, CallDropped DEF TakeCall
<1>8. CASE ~Skipped(c) /\ c.depth <= MaxDepth /\ Placed(c)
  BY <1>1, <1>8, PlacedStep
<1> QED BY <1>5, <1>6, <1>7, <1>8 DEF EnterDir

\* The listing calls for the directories that are there now; those that appear
\* later are announced by the monitor.
LEMMA ScanStep ==
  ASSUME WatchInv, ScanDir
  PROVE  WatchInv'
<1> DEFINE c == Head(walk)
           d == c.dir
           here == IF d = Link THEN {} ELSE {e \in exists : e # Root /\ Parent(e) = d}
           children == {Call(e, c.depth + 1, "enter") : e \in here}
<1>1. /\ walk # <<>> /\ c.at = "scan" /\ walk' = ChildCalls(c) \o Tail(walk)
      /\ UNCHANGED <<exists, watched, visited, events, gone>>
  BY DEF ScanDir, TakeCall
<1>2. /\ Tail(walk) \in Seq(WalkCalls) /\ Calls = {c} \cup Range(Tail(walk)) /\ c \in WalkCalls
      /\ d \in DOMAIN watched
  BY <1>1, TailRange DEF WatchInv, WatchTypes, Calls, Founded, CallFounded
<1>3. IsTree(exists) /\ d \in Paths /\ c.depth = Len(d)
  BY <1>2 DEF WatchInv, WatchTypes, WalkCalls
<1>4. ChildCalls(c) = SetToSeq(children)
  BY DEF ChildCalls
<1>5. IsFiniteSet(children)
  <2> DEFINE f == [e \in here |-> Call(e, c.depth + 1, "enter")]
  <2>1. here \in SUBSET exists /\ IsFiniteSet(exists)
    BY <1>3 DEF IsTree
  <2>2. f \in Surjection(here, children)
    BY DEF Surjection
  <2> HIDE DEF f, here, children
  <2>3. IsFiniteSet(here)
    BY <2>1, FS_Subset
  <2> QED BY <2>2, <2>3, FS_Surjection
<1>6. \A x \in children : /\ x \in WalkCalls /\ x.at = "enter"
                          /\ x.dir \in exists /\ x.dir # Root /\ Parent(x.dir) = d
  <2> SUFFICES ASSUME NEW e \in here
               PROVE  /\ Call(e, c.depth + 1, "enter") \in WalkCalls
                      /\ Call(e, c.depth + 1, "enter").at = "enter"
                      /\ Call(e, c.depth + 1, "enter").dir = e
                      /\ e \in exists /\ e # Root /\ Parent(e) = d
    OBVIOUS
  <2>1. e \in Paths \ {Root} /\ Parent(e) = d /\ e \in exists
    BY <1>3 DEF IsTree
  <2>2. Len(e) = Len(d) + 1 /\ Len(e) \in Nat
    BY <1>3, <2>1, Parents, PathsAreNames, RootIsFirst
  <2> QED BY <1>3, <2>1, <2>2 DEF Call, WalkCalls
<1>7. ASSUME NEW p \in exists, p # Root, Parent(p) = d
      PROVE  \E x \in children : x.at = "enter" /\ x.dir = p
  <2>1. d # Link
    <3> SUFFICES ASSUME d = Link
                 PROVE  FALSE
      OBVIOUS
    <3>1. p \in Paths \ {Root}
      BY <1>3, <1>7 DEF IsTree
    <3>2. p \in Below(Link)
      BY <1>7, <3>1, Parents DEF Below, IsStrictPrefix
    <3> QED BY <1>3, <3>2 DEF IsTree
  <2>2. p \in here
    BY <1>7, <2>1
  <2>3. Call(p, c.depth + 1, "enter") \in children
    BY <2>2
  <2>4. Call(p, c.depth + 1, "enter").at = "enter" /\ Call(p, c.depth + 1, "enter").dir = p
    BY DEF Call
  <2> QED BY <2>3, <2>4
<1> HIDE DEF c, d, here, children
<1>8. walk' \in Seq(WalkCalls) /\ Calls' = children \cup Range(Tail(walk))
  <2>1. ChildCalls(c) \in Seq(children) /\ Range(ChildCalls(c)) = children
    BY <1>4, <1>5, RowRange
  <2>2. ChildCalls(c) \in Seq(WalkCalls)
    BY <1>6, <2>1, SeqMonotonic
  <2>3. /\ ChildCalls(c) \o Tail(walk) \in Seq(WalkCalls)
        /\ Range(ChildCalls(c) \o Tail(walk)) = Range(ChildCalls(c)) \cup Range(Tail(walk))
    BY <1>2, <2>2, ConcatProperties, RangeConcatenation
  <2> QED BY <1>1, <2>1, <2>3 DEF Calls
<1>9. Spared' = Spared /\ Pending' = Pending /\ Covered' = Covered
  BY <1>1 DEF Spared, Pending, Covered
<1>10. WatchTypes' /\ WatchClosed' /\ StaleNoted'
  BY <1>1, <1>8, <1>9 DEF WatchInv, WatchTypes, WatchClosed, StaleNoted
<1>11. Founded'
  BY <1>1, <1>2, <1>6, <1>8, <1>9 DEF WatchInv, Founded, CallFounded
<1>12. PromisesKept'
  <2> SUFFICES ASSUME NEW p \in Paths, Lacking(p)'
               PROVE  Promised(p)'
    BY DEF PromisesKept
  <2>1. Lacking(p) /\ p \in exists
    BY <1>1, <1>9 DEF Lacking, Covered
  <2>2. Promised(p)
    BY <2>1 DEF WatchInv, PromisesKept
  <2>3. CASE p # Root /\ Parent(p) = d
    BY <1>7, <1>8, <2>1, <2>3 DEF Promised, Enters
  <2>4. CASE p = Root \/ Parent(p) # d
    <3>1. c.at = "scan" /\ c.dir = d
      BY <1>1 DEF d, c
    <3> QED BY <1>2, <1>8, <1>9, <2>2, <2>4, <3>1 DEF Promised, Enters, Scans, Announced
  <2> QED BY <2>3, <2>4
<1> QED BY <1>10, <1>11, <1>12 DEF WatchInv

LEMMA CreatedStep ==
  ASSUME WatchInv, walk = <<>>, events # <<>>, Head(events).kind = "created",
         walk' = IF Head(events).dir \in exists
                 THEN <<Call(Head(events).dir,
                             (IF Head(events).by \in DOMAIN watched THEN watched[Head(events).by] ELSE 0) + 1,
                             "enter")>>
                 ELSE <<>>,
         events' = Tail(events), UNCHANGED <<exists, watched, visited, gone>>
  PROVE  WatchInv'
<1> DEFINE e == Head(events)
           call == Call(e.dir, Len(e.dir), "enter")
<1>1. /\ events' \in Seq(Reports) /\ e \in Reports /\ Pending = {e} \cup Pending'
      /\ e.by \in DOMAIN watched
  BY TailRange DEF WatchInv, WatchTypes, Pending, Founded
<1>2. e.dir \in Paths \ {Root} /\ e.by = Parent(e.dir) /\ e.kind = "created"
  BY <1>1 DEF Reports
<1>3. watched[e.by] + 1 = Len(e.dir) /\ Len(e.dir) \in Nat
  <2>1. watched[e.by] = Len(e.by)
    BY <1>1 DEF WatchInv, WatchTypes
  <2> QED BY <1>2, <2>1, Parents, PathsAreNames, RootIsFirst
<1>4. call \in WalkCalls /\ call.at = "enter" /\ call.dir = e.dir
  BY <1>2, <1>3 DEF Call, WalkCalls
<1>5. walk' = IF e.dir \in exists THEN <<call>> ELSE <<>>
  BY <1>1, <1>3
<1> HIDE DEF e, call
<1>6. Calls = {}
  BY DEF Calls, Range
<1>7. walk' \in Seq(WalkCalls) /\ Calls' = IF e.dir \in exists THEN {call} ELSE {}
  <2>1. CASE e.dir \in exists
    <3>1. walk' = <<call>>
      BY <1>5, <2>1
    <3>2. <<call>> \in Seq(WalkCalls) /\ Range(<<call>>) = {call}
      BY <1>4 DEF Range
    <3> QED BY <2>1, <3>1, <3>2 DEF Calls
  <2>2. CASE e.dir \notin exists
    <3>1. walk' = <<>> /\ Calls' = Calls
      BY <1>5, <2>2 DEF Calls
    <3> QED BY <1>6, <2>2, <3>1
  <2> QED BY <2>1, <2>2
<1>8. Spared' = Spared /\ Covered' = Covered
  BY DEF Spared, Covered
<1>9. WatchTypes' /\ WatchClosed'
  BY <1>1, <1>7, <1>8 DEF WatchInv, WatchTypes, WatchClosed
<1>10. Founded'
  BY <1>1, <1>2, <1>4, <1>7 DEF WatchInv, Founded, CallFounded
<1>11. PromisesKept'
  <2> SUFFICES ASSUME NEW p \in Paths, Lacking(p)'
               PROVE  Promised(p)'
    BY DEF PromisesKept
  <2>1. Lacking(p) /\ p \in exists
    BY <1>8 DEF Lacking, Covered
  <2>2. p # Root /\ Announced(p)
    BY <1>6, <2>1 DEF WatchInv, PromisesKept, Promised, Enters, Scans
  <2>3. CASE p = e.dir
    BY <1>4, <1>7, <2>1, <2>3 DEF Promised, Enters
  <2>4. CASE p # e.dir
    BY <1>1, <2>2, <2>4 DEF Promised, Announced
  <2> QED BY <2>3, <2>4
<1>12. StaleNoted'
  BY <1>1, <1>2 DEF WatchInv, StaleNoted
<1> QED BY <1>9, <1>10, <1>11, <1>12 DEF WatchInv

\* A directory that is gone takes its monitors and those below it along, and what
\* they had to report.
LEMMA DeletedStep ==
  ASSUME WatchInv, walk = <<>>, walk' = walk, events # <<>>, Head(events).kind = "deleted",
         NEW lost, lost = IF Head(events).dir \in DOMAIN watched
                          THEN Unwatched(Head(events).dir) ELSE {},
         watched' = [d \in DOMAIN watched \ lost |-> watched[d]],
         events' = Surviving(Tail(events), lost), UNCHANGED <<exists, visited, gone>>
  PROVE  WatchInv'
<1> DEFINE e == Head(events)
           d == e.dir
<1>1. /\ Tail(events) \in Seq(Reports) /\ Pending = {e} \cup Range(Tail(events)) /\ e \in Reports
      /\ d \in gone /\ Range(Tail(events)) \subseteq Pending
  BY TailRange DEF WatchInv, WatchTypes, Pending, Founded
<1>2. d \in Paths /\ e.kind = "deleted" /\ d \in Seq(Names)
  BY <1>1, PathsAreNames DEF Reports
<1>3. events' \in Seq(Reports) /\ Pending' = {x \in Range(Tail(events)) : x.by \notin lost}
  <2>1. ASSUME NEW es \in Seq(Reports)
        PROVE  /\ Surviving(es, lost) \in Seq(Reports)
               /\ Range(Surviving(es, lost)) = {x \in Range(es) : x.by \notin lost}
    BY SurvivingRange
  <2>2. /\ Surviving(Tail(events), lost) \in Seq(Reports)
        /\ Range(Surviving(Tail(events), lost)) = {x \in Range(Tail(events)) : x.by \notin lost}
    BY <1>1, <2>1
  <2> QED BY <2>2 DEF Pending
<1>4. /\ DOMAIN watched' = DOMAIN watched \ lost
      /\ \A x \in DOMAIN watched' : watched'[x] = watched[x]
  OBVIOUS
<1>5. /\ DOMAIN watched \subseteq Paths /\ DOMAIN watched \subseteq Seq(Names)
      /\ \A x \in DOMAIN watched, q \in Paths : IsPrefix(q, x) => q \in DOMAIN watched
  BY PathsAreNames DEF WatchInv, WatchTypes, WatchClosed
<1>6. \A x \in DOMAIN watched : x \in lost <=> IsPrefix(d, x)
  BY <1>2, <1>5 DEF Unwatched
<1>7. lost \subseteq DOMAIN watched /\ lost \cap Spared = {}
  BY <1>1, <1>6 DEF Unwatched, Spared
<1> HIDE DEF e, d
<1>8. Spared' = Spared /\ Covered' = Covered /\ Calls' = Calls /\ Calls = {}
  BY DEF Spared, Covered, Calls, Range
<1>9. WatchTypes'
  BY <1>3, <1>4 DEF WatchInv, WatchTypes
<1>10. WatchClosed'
  <2>1. ASSUME NEW x \in DOMAIN watched', NEW q \in Paths, IsPrefix(q, x)
        PROVE  q \in DOMAIN watched'
    <3>1. x \in DOMAIN watched /\ q \in DOMAIN watched /\ ~IsPrefix(d, x)
      BY <1>4, <1>5, <1>6, <2>1
    <3>2. ~IsPrefix(d, q)
      BY <1>2, <1>5, <2>1, <3>1, PrefixOrder
    <3> QED BY <1>4, <1>6, <3>1, <3>2
  <2>2. DOMAIN watched' # {} => Root \in visited'
    BY <1>4 DEF WatchInv, WatchClosed
  <2>3. DOMAIN watched' \subseteq exists \cup gone
    BY <1>4 DEF WatchInv, WatchClosed
  <2>4. visited \cap Spared \subseteq DOMAIN watched'
    BY <1>4, <1>7 DEF WatchInv, WatchClosed
  <2> QED BY <1>8, <2>1, <2>2, <2>3, <2>4 DEF WatchClosed
<1>11. Founded'
  BY <1>1, <1>3, <1>4, <1>8 DEF WatchInv, Founded
<1>12. PromisesKept'
  <2> SUFFICES ASSUME NEW p \in Paths, Lacking(p)'
               PROVE  Promised(p)'
    BY DEF PromisesKept
  <2>1. p \in Covered /\ p \in Spared /\ p \notin DOMAIN watched
        /\ (p = Root \/ Parent(p) \in DOMAIN watched \ lost)
    BY <1>4, <1>7, <1>8 DEF Lacking
  <2>2. Lacking(p)
    BY <2>1 DEF Lacking
  <2>3. p # Root /\ Announced(p)
    BY <1>8, <2>2 DEF WatchInv, PromisesKept, Promised, Enters, Scans
  <2>4. PICK x \in Pending : x.kind = "created" /\ x.dir = p /\ x.by = Parent(p)
    BY <2>3 DEF Announced
  <2>5. x \in Pending'
    BY <1>1, <1>2, <1>3, <2>1, <2>3, <2>4
  <2> QED BY <2>3, <2>4, <2>5 DEF Promised, Announced
<1>13. StaleNoted'
  <2> SUFFICES ASSUME NEW x \in DOMAIN watched' \ exists
               PROVE  \E y \in Pending' : y.kind = "deleted" /\ IsPrefix(y.dir, x)
    BY DEF StaleNoted
  <2>1. x \in DOMAIN watched /\ ~IsPrefix(d, x) /\ x \in Seq(Names)
    BY <1>4, <1>5, <1>6
  <2>2. PICK y \in Pending : y.kind = "deleted" /\ IsPrefix(y.dir, x)
    BY <2>1 DEF WatchInv, StaleNoted
  <2>3. y # e
    BY <2>1, <2>2 DEF d
  <2>4. y \in Reports /\ y.by \in DOMAIN watched
    BY TailRange, <2>2 DEF WatchInv, WatchTypes, Founded, Pending
  <2>5. /\ y.dir \in Paths \ {Root} /\ y.dir \in Seq(Names) /\ y.by \in Seq(Names)
        /\ IsPrefix(y.by, y.dir)
    BY <2>4, Parents, PathsAreNames, PrefixOrder DEF Reports
  <2>6. ~IsPrefix(d, y.by)
    BY <1>2, <2>1, <2>2, <2>5, PrefixOrder
  <2> QED BY <1>1, <1>3, <1>6, <2>2, <2>3, <2>4, <2>6
<1> QED BY <1>9, <1>10, <1>11, <1>12, <1>13 DEF WatchInv

LEMMA WatchStep ==
  ASSUME WatchInv, [DirNext]_dirVars
  PROVE  WatchInv'
<1>1. CASE \E d \in Paths : CreateDir(d) \/ DeleteDir(d)
  BY <1>1, CreateStep, DeleteStep
<1>2. CASE \E d \in exists, to \in Paths : RenameDir(d, to)
  BY <1>2, RenameStep
<1>3. CASE EnterDir
  BY <1>3, EnterStep
<1>4. CASE ScanDir
  BY <1>4, ScanStep
<1>5. CASE MonitorEvent
  <2> DEFINE e == Head(events)
             lost == IF e.dir \in DOMAIN watched THEN Unwatched(e.dir) ELSE {}
  <2>1. walk = <<>> /\ events # <<>> /\ UNCHANGED <<exists, visited, gone>>
    BY <1>5 DEF MonitorEvent
  <2>2. CASE /\ e.kind = "created" /\ events' = Tail(events) /\ UNCHANGED watched
             /\ walk' = IF e.dir \in exists
                        THEN <<Call(e.dir, (IF e.by \in DOMAIN watched THEN watched[e.by] ELSE 0) + 1,
                                    "enter")>>
                        ELSE <<>>
    BY <2>1, <2>2, CreatedStep
  <2>3. CASE /\ e.kind = "deleted" /\ UNCHANGED walk
             /\ watched' = [d \in DOMAIN watched \ lost |-> watched[d]]
             /\ events' = Surviving(Tail(events), lost)
    <3>1. \E l : l = lost
      OBVIOUS
    <3> QED BY <2>1, <2>3, <3>1, DeletedStep
  <2> QED BY <1>5, <2>2, <2>3 DEF MonitorEvent
<1>6. CASE UNCHANGED dirVars
  BY <1>6 DEF dirVars, WatchInv, WatchTypes, WatchClosed, Founded, PromisesKept, StaleNoted,
     CallFounded, Promised, Enters, Scans, Announced, Lacking, Covered, Spared, Calls, Pending
<1> QED BY <1>1, <1>2, <1>3, <1>4, <1>5, <1>6 DEF DirNext

LEMMA WatchStart == DirInit => WatchInv
<1> SUFFICES ASSUME DirInit
             PROVE  WatchInv
  OBVIOUS
<1> DEFINE call == Call(Root, 0, "enter")
<1>1. /\ exists \in Trees0 /\ DOMAIN watched = {} /\ visited = {} /\ walk = <<call>>
      /\ events = <<>> /\ gone = {}
  BY DEF DirInit
<1>2. call \in WalkCalls /\ call.at = "enter" /\ call.dir = Root
  BY RootIsFirst DEF Call, WalkCalls
<1> HIDE DEF call
<1>3. /\ walk \in Seq(WalkCalls) /\ events \in Seq(Reports)
      /\ Calls = {call} /\ Pending = {}
  <2>1. <<call>> \in Seq(WalkCalls) /\ Range(<<call>>) = {call}
    BY <1>2 DEF Range
  <2>2. <<>> \in Seq(Reports) /\ Range(<<>>) = {}
    BY DEF Range
  <2> QED BY <1>1, <2>1, <2>2 DEF Calls, Pending
<1>4. WatchTypes
  BY <1>1, <1>3, DirWatchAssumption DEF WatchTypes
<1>5. WatchClosed /\ Founded /\ StaleNoted
  BY <1>1, <1>2, <1>3 DEF WatchClosed, Founded, CallFounded, StaleNoted
<1>6. PromisesKept
  BY <1>1, <1>2, <1>3 DEF PromisesKept, Promised, Enters, Lacking
<1> QED BY <1>4, <1>5, <1>6 DEF WatchInv

\* A directory without a monitor has a highest one above it that has none, which
\* the invariant says is still to come.
LEMMA NothingMissed ==
  ASSUME WatchInv, Quiet
  PROVE  NewDirsWatched /\ NoStaleWatch
<1>1. Calls = {} /\ Pending = {}
  BY DEF Quiet, Calls, Pending, Range
<1>2. NoStaleWatch
  BY <1>1 DEF WatchInv, StaleNoted, NoStaleWatch
<1>3. \A p \in Paths : ~Lacking(p)
  BY <1>1 DEF WatchInv, PromisesKept, Promised, Enters, Scans, Announced
<1>4. IsTree(exists)
  BY DEF WatchInv, WatchTypes
<1>5. ASSUME NEW p \in Covered \cap Spared, p \notin DOMAIN watched
      PROVE  FALSE
  <2> DEFINE Missing == {q \in Paths : IsPrefix(q, p) /\ q \notin DOMAIN watched}
             lens    == {Len(q) : q \in Missing}
  <2>1. p \in Paths /\ p \in exists /\ p \in Seq(Names) /\ Len(p) <= MaxDepth /\ p # Link
    BY <1>4, PathsAreNames DEF Covered, IsTree
  <2>2. p \in Missing
    BY <1>5, <2>1, PrefixOrder
  <2>3. lens \in SUBSET Nat /\ lens # {}
    <3>1. \A q \in Missing : Len(q) \in Nat
      BY PathsAreNames
    <3> QED BY <2>2, <3>1
  <2>4. PICK n \in lens : \A k \in lens : n <= k
    <3> HIDE DEF lens
    <3> QED BY <2>3, LeastNatural
  <2>5. PICK q \in Missing : Len(q) = n
    OBVIOUS
  <2>6. \A x \in Missing : Len(q) <= Len(x)
    BY <2>4, <2>5
  <2>7. /\ q \in Paths /\ IsPrefix(q, p) /\ q \notin DOMAIN watched /\ q \in Seq(Names)
        /\ Len(q) \in Nat /\ Len(p) \in Nat /\ Len(q) <= Len(p)
    BY <2>1, PathsAreNames, PrefixOrder
  <2>8. q \in Covered
    <3>1. q \in exists
      BY <1>4, <2>1, <2>7 DEF IsTree
    <3>2. Len(q) <= MaxDepth
      BY <2>1, <2>7, DirWatchAssumption
    <3>3. q # Link
      <4> SUFFICES ASSUME q = Link
                   PROVE  FALSE
        OBVIOUS
      <4>1. p \in Below(Link)
        BY <2>1, <2>7 DEF Below, IsStrictPrefix
      <4> QED BY <1>4, <2>1, <4>1 DEF IsTree
    <3> QED BY <3>1, <3>2, <3>3 DEF Covered
  <2>9. q \in Spared
    <3> SUFFICES ASSUME NEW g \in gone, IsPrefix(g, q)
                 PROVE  FALSE
      BY <2>7 DEF Spared
    <3>1. g \in Seq(Names)
      BY PathsAreNames DEF WatchInv, WatchTypes
    <3>2. IsPrefix(g, p)
      BY <2>1, <2>7, <3>1, PrefixOrder
    <3> QED BY <1>5, <3>2 DEF Spared
  <2>10. q = Root \/ Parent(q) \in DOMAIN watched
    <3> SUFFICES ASSUME q # Root, Parent(q) \notin DOMAIN watched
                 PROVE  FALSE
      OBVIOUS
    <3>1. Parent(q) \in Paths /\ IsPrefix(Parent(q), q) /\ Len(Parent(q)) = Len(q) - 1
      BY <2>7, Parents
    <3>2. IsPrefix(Parent(q), p)
      BY <2>1, <2>7, <3>1, PathsAreNames, PrefixOrder
    <3>3. Parent(q) \in Missing
      BY <3>1, <3>2
    <3>4. Len(q) <= Len(Parent(q))
      BY <2>6, <3>3
    <3> QED BY <2>7, <3>1, <3>4
  <2> QED BY <1>3, <2>7, <2>8, <2>9, <2>10 DEF Lacking
<1> QED BY <1>2, <1>5 DEF NewDirsWatched

\* Once the watcher has caught up, its monitors are those of the tree: none is
\* missing on a directory that was never away or refused one, and none is left on a
\* directory that is gone, whatever other programs did between two of its steps,
\* however often, in whatever tree.
THEOREM WatcherCatchesUp == DirSpec => []WatchesMatchTree
<1>1. WatchInv => WatchesMatchTree
  BY NothingMissed DEF WatchesMatchTree
<1> QED BY <1>1, WatchStart, WatchStep, PTL DEF DirSpec

\* The watcher keeps its types, and no monitor is deeper than the limit of the
\* walk, for any tree.
THEOREM WatcherTypes == DirSpec => []DirTypeOK
<1>1. WatchInv => DirTypeOK
  <2> SUFFICES ASSUME WatchInv
               PROVE  DirTypeOK
    OBVIOUS
  <2>1. WatchTypes
    BY DEF WatchInv
  <2>2. exists \subseteq Paths
    BY <2>1 DEF WatchTypes, IsTree
  <2>3. \A d \in DOMAIN watched : watched[d] \in 0 .. MaxDepth
    <3>1. \A d \in Paths : Len(d) \in Nat
      BY PathsAreNames
    <3>2. MaxDepth \in Nat
      BY DirWatchAssumption
    <3> QED BY <2>1, <3>1, <3>2 DEF WatchTypes
  <2>4. \A i \in DOMAIN events : events[i].kind \in {"created", "deleted"}
    <3>1. events \in Seq(Reports)
      BY <2>1 DEF WatchTypes
    <3>2. \A e \in Reports : e.kind \in {"created", "deleted"}
      BY DEF Reports, Kinds
    <3> HIDE DEF Reports
    <3>3. \A i \in DOMAIN events : events[i] \in Reports
      BY <3>1
    <3> QED BY <3>2, <3>3
  <2> QED BY <2>1, <2>2, <2>3, <2>4 DEF DirTypeOK, WatchTypes
<1> QED BY <1>1, WatchStart, WatchStep, PTL DEF DirSpec

-----------------------------------------------------------------------------
(***************************************************************************)
(* The debounce. A burst is pending exactly while there are changes that   *)
(* no run has answered; its timer is set for the quiet period or for the   *)
(* end of the longest wait, never later than that, and is not overdue.     *)
(***************************************************************************)
TriggerTypes ==
  /\ watchedJob \in [mount : BOOLEAN, local : BOOLEAN, debounce : Int, maxWait : Int]
  /\ pending \in BOOLEAN /\ clock \in Nat /\ burst \in Nat /\ due \in Int
  /\ noted \in [first : Int, last : Int]

BurstInv ==
  /\ pending <=> due # Never
  /\ pending <=> noted.first # Never
  /\ pending =>
       /\ noted.first = burst /\ burst <= noted.last /\ noted.last <= clock
       /\ clock <= due /\ due <= burst + MaxWait
       /\ noted.last + Debounce <= due \/ burst + MaxWait <= due

TriggerInv == TriggerTypes /\ BurstInv

LEMMA TimesInForce ==
  ASSUME watchedJob \in [mount : BOOLEAN, local : BOOLEAN, debounce : Int, maxWait : Int]
  PROVE  Debounce \in Nat /\ MaxWait \in Nat
  BY WatchTriggerAssumption DEF Debounce, MaxWait

LEMMA TriggerStep ==
  ASSUME TriggerInv, [TriggerNext]_watchVars
  PROVE  TriggerInv'
<1> USE DEF Never
<1>1. Debounce \in Nat /\ MaxWait \in Nat
  BY TimesInForce DEF TriggerInv, TriggerTypes
<1>2. CASE TreeChanged
  <2>1. UNCHANGED <<watchedJob, clock>>
    BY <1>2 DEF TreeChanged
  <2>2. Debounce' = Debounce /\ MaxWait' = MaxWait
    BY <2>1 DEF Debounce, MaxWait
  <2>3. BurstStart \in Nat /\ BurstStart <= clock
    BY DEF TriggerInv, TriggerTypes, BurstInv, BurstStart
  <2>4. clock <= BurstStart + MaxWait
    BY <1>1 DEF TriggerInv, TriggerTypes, BurstInv, BurstStart
  <2> DEFINE wait == FireIn(BurstStart)
  <2>5. wait \in Nat /\ clock + wait <= BurstStart + MaxWait
    BY <1>1, <2>3, <2>4 DEF FireIn, Clamp, Minimum, TriggerInv, TriggerTypes
  <2>6. Debounce <= wait \/ BurstStart + MaxWait <= clock + wait
    BY <1>1, <2>3, <2>4 DEF FireIn, Clamp, Minimum, TriggerInv, TriggerTypes
  <2>7. pending' /\ burst' = BurstStart /\ due' = clock + wait
    BY <1>2 DEF TreeChanged
  <2>8. noted' = [first |-> BurstStart, last |-> clock]
    BY <1>2 DEF TreeChanged, TriggerInv, TriggerTypes, BurstInv, BurstStart
  <2> HIDE DEF wait
  <2>9. TriggerTypes'
    BY <1>2, <2>1, <2>3, <2>5, <2>7, <2>8 DEF TreeChanged, TriggerInv, TriggerTypes
  <2>10. BurstInv'
    <3>1. noted'.first = BurstStart /\ noted'.last = clock
      BY <2>8
    <3>2. clock \in Nat
      BY DEF TriggerInv, TriggerTypes
    <3> QED BY <1>1, <2>1, <2>2, <2>3, <2>5, <2>6, <2>7, <3>1, <3>2 DEF BurstInv
  <2> QED BY <2>9, <2>10 DEF TriggerInv
<1> NoNote \in [first : Int, last : Int] /\ NoNote.first = Never
  BY DEF NoNote
<1>3. CASE TriggerFires
  <2>1. /\ UNCHANGED <<watchedJob, clock, burst>> /\ noted' = NoNote
        /\ ~pending' /\ pending' \in BOOLEAN /\ due' = Never
    BY <1>3 DEF TriggerFires
  <2> QED BY <2>1 DEF TriggerInv, TriggerTypes, BurstInv
<1>4. CASE TimePasses
  <2>1. UNCHANGED <<watchedJob, pending, burst, due, noted>> /\ clock' = clock + 1
    BY <1>4 DEF TimePasses
  <2>2. Debounce' = Debounce /\ MaxWait' = MaxWait
    BY <2>1 DEF Debounce, MaxWait
  <2>3. due # Never => clock < due
    BY <1>4 DEF TimePasses, TriggerInv, TriggerTypes
  <2> QED BY <1>1, <2>1, <2>2, <2>3 DEF TriggerInv, TriggerTypes, BurstInv
<1>5. ASSUME NEW j \in Jobs0, ListChanged(j)
      PROVE  TriggerInv'
  <2>1. /\ UNCHANGED <<clock, burst>> /\ noted' = NoNote
        /\ ~pending' /\ pending' \in BOOLEAN /\ due' = Never
    BY <1>5 DEF ListChanged
  <2>2. watchedJob' \in [mount : BOOLEAN, local : BOOLEAN, debounce : Int, maxWait : Int]
    BY <1>5, WatchTriggerAssumption DEF ListChanged
  <2> QED BY <2>1, <2>2 DEF TriggerInv, TriggerTypes, BurstInv
<1>6. CASE UNCHANGED watchVars
  <2>1. UNCHANGED <<watchedJob, clock, pending, burst, due, noted>>
    BY <1>6 DEF watchVars
  <2>2. Debounce' = Debounce /\ MaxWait' = MaxWait
    BY <2>1 DEF Debounce, MaxWait
  <2> QED BY <2>1, <2>2 DEF TriggerInv, TriggerTypes, BurstInv
<1> QED BY <1>2, <1>3, <1>4, <1>5, <1>6 DEF TriggerNext

LEMMA TriggerStart == TriggerInit => TriggerInv
<1> SUFFICES ASSUME TriggerInit
             PROVE  TriggerInv
  OBVIOUS
<1>1. /\ clock = 0 /\ burst = 0 /\ due = -1 /\ ~pending /\ pending \in BOOLEAN
      /\ noted = [first |-> -1, last |-> -1]
  BY DEF TriggerInit, Never, NoNote
<1>2. noted \in [first : Int, last : Int] /\ noted.first = -1
  BY <1>1
<1>3. watchedJob \in [mount : BOOLEAN, local : BOOLEAN, debounce : Int, maxWait : Int]
  BY WatchTriggerAssumption DEF TriggerInit
<1> QED BY <1>1, <1>2, <1>3 DEF TriggerInv, TriggerTypes, BurstInv, Never

LEMMA TriggerAlways == TriggerSpec => []TriggerInv
<1>1. TriggerInv /\ [TriggerNext]_watchVars => TriggerInv'
  BY TriggerStep
<1> QED BY <1>1, TriggerStart, PTL DEF TriggerSpec

\* However many changes follow one another, the first of them waits no longer
\* than the maximum wait (on_watch_changed clamps each new timer to what is
\* left of it), for every debounce time and every maximum wait.
THEOREM BurstsAreBounded == TriggerSpec => []BurstBounded
<1>1. TriggerInv => BurstBounded
  <2> SUFFICES ASSUME TriggerInv, noted.first # Never
               PROVE  clock - noted.first <= MaxWait
    BY DEF BurstBounded
  <2>1. MaxWait \in Nat
    BY TimesInForce DEF TriggerInv, TriggerTypes
  <2> QED BY <2>1 DEF TriggerInv, TriggerTypes, BurstInv
<1> QED BY <1>1, TriggerAlways, PTL

\* The debounce keeps its types; a timer is only set while the job is watched
\* and has a burst pending.
THEOREM DebounceTypes == TriggerSpec => []TriggerTypeOK
<1> DEFINE TypeInv == TriggerInv /\ TriggerTypeOK
<1>1. TriggerInit => TypeInv
  <2> SUFFICES ASSUME TriggerInit
               PROVE  TypeInv
    OBVIOUS
  <2>1. MaxClock \in Nat
    BY WatchTriggerAssumption
  <2>2. watching \in BOOLEAN
    BY WatchTriggerAssumption DEF TriggerInit, Watchable
  <2>3. TriggerInv /\ pending \in BOOLEAN
    BY TriggerStart DEF TriggerInv, TriggerTypes
  <2>4. watchedJob \in Jobs0 /\ clock \in 0 .. MaxClock /\ burst \in 0 .. MaxClock
    BY <2>1 DEF TriggerInit
  <2>5. due = Never /\ due \in Int
    BY DEF TriggerInit, Never
  <2> QED BY <2>2, <2>3, <2>4, <2>5 DEF TriggerTypeOK
<1>2. ASSUME TypeInv, [TriggerNext]_watchVars
      PROVE  TypeInv'
  <2>1. TriggerInv'
    BY <1>2, TriggerStep
  <2>2. MaxClock \in Nat
    BY WatchTriggerAssumption
  <2>3. due' \in Int /\ pending' \in BOOLEAN
    BY <2>1 DEF TriggerInv, TriggerTypes
  <2>4. watchedJob' \in Jobs0 /\ watching' \in BOOLEAN
    BY <1>2, WatchTriggerAssumption
       DEF TriggerTypeOK, TriggerNext, TreeChanged, TriggerFires, TimePasses, ListChanged, Watchable,
           watchVars
  <2>5. clock' \in 0 .. MaxClock /\ burst' \in 0 .. MaxClock
    BY <1>2, <2>2
       DEF TriggerTypeOK, TriggerNext, TreeChanged, TriggerFires, TimePasses, ListChanged, BurstStart,
           watchVars
  <2>6. due' # Never => watching' /\ pending'
    BY <1>2
       DEF TriggerTypeOK, TriggerNext, TreeChanged, TriggerFires, TimePasses, ListChanged, watchVars
  <2> QED BY <2>1, <2>3, <2>4, <2>5, <2>6 DEF TriggerTypeOK
<1>3. TypeInv /\ [TriggerNext]_watchVars => TypeInv'
  BY <1>2
<1>4. TypeInv => TriggerTypeOK
  OBVIOUS
<1> QED BY <1>1, <1>3, <1>4, PTL DEF TriggerSpec

\* A watched job is triggered only when its tree was quiet for the debounce
\* time or its burst has lasted for the maximum wait: a timer of an earlier
\* change never fires for a later one.
THEOREM TriggersAreTimely == TriggerSpec => FiresWhenQuiet
<1> DEFINE Timely == fired' # fired => \/ clock - noted.last >= Debounce
                                       \/ clock - noted.first >= MaxWait
<1>1. ASSUME TriggerInv, [TriggerNext]_watchVars
      PROVE  [Timely]_watchVars
  <2> SUFFICES ASSUME fired' # fired
               PROVE  \/ clock - noted.last >= Debounce
                      \/ clock - noted.first >= MaxWait
    OBVIOUS
  <2>1. TriggerFires
    BY <1>1 DEF TriggerNext, TreeChanged, TimePasses, ListChanged, watchVars
  <2>2. Debounce \in Nat /\ MaxWait \in Nat
    BY <1>1, TimesInForce DEF TriggerInv, TriggerTypes
  <2> QED BY <1>1, <2>1, <2>2 DEF TriggerFires, TriggerInv, TriggerTypes, BurstInv
<1>2. TriggerInv /\ [TriggerNext]_watchVars => [Timely]_watchVars
  BY <1>1
<1> QED BY <1>2, TriggerAlways, PTL DEF TriggerSpec, FiresWhenQuiet

-----------------------------------------------------------------------------
(***************************************************************************)
(* The schedule. The minutes from a moment on are a walk, and two walks    *)
(* from one moment agree (the induction). The search of next_occurrence()  *)
(* finds the first minute of the walk that matches; the timer armed with   *)
(* it, or with the cap of the wait, stays on the walk from the last        *)
(* evaluation, and CronInv says which of its minutes are still to come.    *)
(***************************************************************************)
\* The moments from t on, minute by minute.
IsWalk(w, t, n) ==
  /\ w = [i \in 0 .. n |-> w[i]] /\ w[0] = t
  /\ \A i \in 0 .. n - 1 : w[i + 1] = AddMinute(w[i])

LEMMA WalkOn ==
  ASSUME NEW n \in Nat, NEW t, NEW w, IsWalk(w, t, n)
  PROVE  \E v : IsWalk(v, t, n + 1) /\ \A i \in 0 .. n : v[i] = w[i]
<1> DEFINE v == [i \in 0 .. n + 1 |-> IF i = n + 1 THEN AddMinute(w[n]) ELSE w[i]]
<1>1. \A i \in 0 .. n : v[i] = w[i]
  OBVIOUS
<1>2. v[n + 1] = AddMinute(w[n])
  OBVIOUS
<1>3. v = [i \in 0 .. n + 1 |-> v[i]]
  OBVIOUS
<1> HIDE DEF v
<1>4. v[0] = t
  BY <1>1 DEF IsWalk
<1>5. ASSUME NEW i \in 0 .. (n + 1) - 1
      PROVE  v[i + 1] = AddMinute(v[i])
  <2>1. CASE i = n
    BY <1>1, <1>2, <2>1
  <2>2. CASE i # n
    <3>1. i \in 0 .. n - 1 /\ i \in 0 .. n /\ i + 1 \in 0 .. n
      BY <2>2
    <3> QED BY <1>1, <3>1 DEF IsWalk
  <2> QED BY <2>1, <2>2
<1>6. IsWalk(v, t, n + 1)
  BY <1>3, <1>4, <1>5 DEF IsWalk
<1> QED BY <1>1, <1>6

LEMMA WalkStarts ==
  ASSUME NEW t
  PROVE  \E w : IsWalk(w, t, 0)
<1> DEFINE w == [i \in 0 .. 0 |-> t]
<1>1. w = [i \in 0 .. 0 |-> w[i]] /\ w[0] = t /\ 0 .. 0 - 1 = {}
  OBVIOUS
<1> HIDE DEF w
<1> QED BY <1>1 DEF IsWalk

LEMMA WalkExists ==
  ASSUME NEW n \in Nat, NEW t
  PROVE  \E w : IsWalk(w, t, n)
<1> DEFINE S == {m \in Nat : \E w : IsWalk(w, t, m)}
<1>1. 0 \in S
  BY WalkStarts
<1>2. ASSUME NEW m \in S
      PROVE  m + 1 \in S
  BY WalkOn
<1>3. n \in S
  <2>1. S \in SUBSET Nat
    OBVIOUS
  <2> HIDE DEF S
  <2> QED BY <1>1, <1>2, <2>1, Induction
<1> QED BY <1>3

\* One minute put in front.
LEMMA WalkInFront ==
  ASSUME NEW n \in Nat, NEW t, NEW w, IsWalk(w, AddMinute(t), n)
  PROVE  \E v : IsWalk(v, t, n + 1) /\ \A i \in 0 .. n : v[i + 1] = w[i]
<1> DEFINE v == [i \in 0 .. n + 1 |-> IF i = 0 THEN t ELSE w[i - 1]]
<1>1. v = [i \in 0 .. n + 1 |-> v[i]] /\ v[0] = t
  OBVIOUS
<1>2. ASSUME NEW i \in 0 .. n
      PROVE  v[i + 1] = w[i]
  <2>1. i + 1 \in 0 .. n + 1 /\ i + 1 # 0 /\ (i + 1) - 1 = i
    OBVIOUS
  <2> QED BY <2>1
<1> HIDE DEF v
<1>3. ASSUME NEW i \in 0 .. (n + 1) - 1
      PROVE  v[i + 1] = AddMinute(v[i])
  <2>1. CASE i = 0
    BY <1>1, <1>2, <2>1 DEF IsWalk
  <2>2. CASE i # 0
    <3> DEFINE j == i - 1
    <3>1. j \in 0 .. n - 1 /\ j \in 0 .. n /\ i = j + 1 /\ i \in 0 .. n
      BY <2>2
    <3> HIDE DEF j
    <3>2. w[j + 1] = AddMinute(w[j])
      BY <3>1 DEF IsWalk
    <3> QED BY <1>2, <3>1, <3>2
  <2> QED BY <2>1, <2>2
<1>4. IsWalk(v, t, n + 1)
  BY <1>1, <1>3 DEF IsWalk
<1> QED BY <1>2, <1>4

Looks(f, t, first, loop, i) ==
  IF i = 0 THEN [at |-> t, away |-> Unset]
  ELSE LET before == loop[i - 1] IN
       IF before.away # Unset THEN before
       ELSE IF Matching(f, before.at) THEN [before EXCEPT !.away = first + i - 1]
       ELSE [before EXCEPT !.at = AddMinute(@)]

\* The loop is defined: what it does in a step depends on the one before.
LEMMA SearchDefined ==
  ASSUME NEW f, NEW t, NEW first \in Nat, NEW span \in Nat
  PROVE  \E loop : /\ Search(f, t, first, span) = loop[span].away
                   /\ \A i \in 0 .. span : loop[i] = Looks(f, t, first, loop, i)
<1> DEFINE Step(g, i) == Looks(f, t, first, g, i)
           loop == CHOOSE g : g = [i \in 0 .. span |-> Step(g, i)]
           Reached == {n \in Nat : \E g : g = [i \in 0 .. n |-> Step(g, i)]}
<1>1. Search(f, t, first, span) = loop[span].away
  BY DEF Search, Looks
<1> HIDE DEF loop
<1>2. ASSUME NEW g, NEW h, NEW i \in Nat, i # 0 => g[i - 1] = h[i - 1]
      PROVE  Step(g, i) = Step(h, i)
  BY <1>2 DEF Looks
<1> HIDE DEF Step
<1>3. 0 \in Reached
  <2> DEFINE g == [i \in 0 .. 0 |-> Step(<<>>, 0)]
  <2>1. Step(g, 0) = Step(<<>>, 0)
    BY <1>2
  <2>2. g = [i \in 0 .. 0 |-> Step(g, i)]
    BY <2>1
  <2> HIDE DEF g
  <2> QED BY <2>2
<1>4. ASSUME NEW n \in Reached
      PROVE  n + 1 \in Reached
  <2>1. PICK g : g = [i \in 0 .. n |-> Step(g, i)]
    OBVIOUS
  <2> DEFINE h == [i \in 0 .. (n + 1) |-> IF i = n + 1 THEN Step(g, n + 1) ELSE g[i]]
  <2>2. \A i \in 0 .. n : h[i] = g[i]
    OBVIOUS
  <2>3. h[n + 1] = Step(g, n + 1)
    OBVIOUS
  <2>4. h = [i \in 0 .. (n + 1) |-> h[i]]
    OBVIOUS
  <2> HIDE DEF h
  <2>5. ASSUME NEW i \in 0 .. (n + 1)
        PROVE  h[i] = Step(h, i)
    <3>1. i # 0 => h[i - 1] = g[i - 1]
      BY <2>2
    <3>2. Step(h, i) = Step(g, i)
      BY <1>2, <3>1
    <3>3. CASE i = n + 1
      BY <2>3, <3>2, <3>3
    <3>4. CASE i # n + 1
      <4>1. i \in 0 .. n
        BY <3>4
      <4>2. g[i] = Step(g, i)
        BY <2>1, <4>1
      <4> QED BY <2>2, <3>2, <4>1, <4>2
    <3> QED BY <3>3, <3>4
  <2>6. h = [i \in 0 .. (n + 1) |-> Step(h, i)]
    BY <2>4, <2>5
  <2> QED BY <2>6
<1>5. span \in Reached
  <2>1. Reached \in SUBSET Nat
    OBVIOUS
  <2> HIDE DEF Reached
  <2> QED BY <1>3, <1>4, <2>1, Induction
<1>6. loop = [i \in 0 .. span |-> Step(loop, i)]
  BY <1>5 DEF loop
<1>7. \A i \in 0 .. span : loop[i] = Step(loop, i)
  BY <1>6
<1> QED BY <1>1, <1>7 DEF Step

\* The search finds the first minute that matches, or there is none.
LEMMA SearchFinds ==
  ASSUME NEW f, NEW t, NEW first \in Nat, NEW span \in Nat
  PROVE  LET away == Search(f, t, first, span) IN
         \E w : /\ IsWalk(w, t, span)
                /\ away = Unset => \A j \in 0 .. span - 1 : ~Matching(f, w[j])
                /\ away # Unset => \E j \in 0 .. span - 1 :
                     away = first + j /\ \A l \in 0 .. j - 1 : ~Matching(f, w[l])
<1>1. PICK loop : /\ Search(f, t, first, span) = loop[span].away
                  /\ \A i \in 0 .. span : loop[i] = Looks(f, t, first, loop, i)
  BY SearchDefined
<1> DEFINE Right(w, i) ==
             /\ IsWalk(w, t, i)
             /\ loop[i] = [at |-> loop[i].at, away |-> loop[i].away]
             /\ loop[i].away = Unset =>
                  loop[i].at = w[i] /\ \A j \in 0 .. i - 1 : ~Matching(f, w[j])
             /\ loop[i].away # Unset => \E j \in 0 .. i - 1 :
                  loop[i].away = first + j /\ \A l \in 0 .. j - 1 : ~Matching(f, w[l])
           Done == {i \in Nat : i <= span => \E w : Right(w, i)}
<1>2. 0 \in Done
  <2>1. PICK w : IsWalk(w, t, 0)
    BY WalkStarts
  <2>2. loop[0] = [at |-> t, away |-> Unset]
    <3>1. 0 \in 0 .. span
      OBVIOUS
    <3>2. loop[0] = Looks(f, t, first, loop, 0)
      BY <1>1, <3>1
    <3> QED BY <3>2 DEF Looks
  <2>3. w[0] = t /\ 0 .. 0 - 1 = {}
    BY <2>1 DEF IsWalk
  <2>4. Right(w, 0)
    BY <2>1, <2>2, <2>3
  <2> QED BY <2>4
<1>3. ASSUME NEW i \in Done
      PROVE  i + 1 \in Done
  <2> HIDE DEF Right
  <2> SUFFICES ASSUME i + 1 <= span
               PROVE  \E w : Right(w, i + 1)
    OBVIOUS
  <2>1. PICK w : Right(w, i)
    <3>1. i \in Nat /\ i <= span
      OBVIOUS
    <3> QED BY <3>1
  <2> USE DEF Right
  <2>2. PICK v : IsWalk(v, t, i + 1) /\ \A j \in 0 .. i : v[j] = w[j]
    BY <2>1, WalkOn
  <2>3. i \in Nat /\ i + 1 \in 0 .. span /\ i + 1 # 0 /\ (i + 1) - 1 = i
        /\ 0 .. i - 1 \subseteq 0 .. i /\ first + (i + 1) - 1 = first + i
    OBVIOUS
  <2>4. loop[i + 1] = Looks(f, t, first, loop, i + 1)
    BY <1>1, <2>3
  <2>5. CASE loop[i].away # Unset
    <3>1. loop[i + 1] = loop[i]
      BY <2>3, <2>4, <2>5 DEF Looks
    <3>2. PICK j \in 0 .. i - 1 : loop[i].away = first + j /\ \A l \in 0 .. j - 1 : ~Matching(f, w[l])
      BY <2>1, <2>5
    <3>3. j \in 0 .. (i + 1) - 1 /\ \A l \in 0 .. j - 1 : v[l] = w[l]
      BY <2>2, <2>3
    <3>4. Right(v, i + 1)
      BY <2>1, <2>2, <2>5, <3>1, <3>2, <3>3
    <3> QED BY <3>4
  <2>6. CASE loop[i].away = Unset
    <3>1. loop[i].at = w[i] /\ \A j \in 0 .. i - 1 : ~Matching(f, w[j])
      BY <2>1, <2>6
    <3>2. v[i] = w[i]
      BY <2>2, <2>3
    <3>3. CASE Matching(f, w[i])
      <4>1. loop[i + 1] = [loop[i] EXCEPT !.away = first + i]
        BY <2>3, <2>4, <2>6, <3>1, <3>3 DEF Looks
      <4>2. loop[i + 1] = [at |-> loop[i].at, away |-> first + i]
        BY <2>1, <4>1
      <4>3. first + i # Unset /\ i \in 0 .. (i + 1) - 1
        BY <2>3 DEF Unset
      <4>4. \A l \in 0 .. i - 1 : ~Matching(f, v[l])
        BY <2>2, <2>3, <3>1
      <4>5. Right(v, i + 1)
        BY <2>2, <4>2, <4>3, <4>4
      <4> QED BY <4>5
    <3>4. CASE ~Matching(f, w[i])
      <4>1. loop[i + 1] = [loop[i] EXCEPT !.at = AddMinute(@)]
        BY <2>3, <2>4, <2>6, <3>1, <3>4 DEF Looks
      <4>2. loop[i + 1] = [at |-> AddMinute(w[i]), away |-> Unset]
        BY <2>1, <2>6, <3>1, <4>1
      <4>3. v[i + 1] = AddMinute(w[i])
        <5>1. i \in 0 .. (i + 1) - 1
          BY <2>3
        <5> QED BY <2>2, <3>2, <5>1 DEF IsWalk
      <4>4. ASSUME NEW j \in 0 .. (i + 1) - 1
            PROVE  ~Matching(f, v[j])
        <5>1. CASE j = i
          BY <3>2, <3>4, <5>1
        <5>2. CASE j # i
          <6>1. j \in 0 .. i - 1
            BY <2>3, <5>2
          <6> QED BY <2>2, <2>3, <3>1, <6>1
        <5> QED BY <5>1, <5>2
      <4>5. Right(v, i + 1)
        BY <2>2, <4>2, <4>3, <4>4
      <4> QED BY <4>5
    <3> QED BY <3>3, <3>4
  <2> QED BY <2>5, <2>6
<1>4. span \in Done
  <2>1. Done \in SUBSET Nat
    OBVIOUS
  <2> HIDE DEF Done
  <2> QED BY <1>2, <1>3, <2>1, Induction
<1>5. PICK w : Right(w, span)
  <2> HIDE DEF Right
  <2> QED BY <1>4
<1> QED BY <1>1, <1>5

LEMMA Horizon ==
  ASSUME CronAssumption
  PROVE  /\ DayLength \in Nat /\ SearchDays * DayLength \in Nat /\ CapDays * DayLength \in Nat
         /\ CapDays * DayLength <= SearchDays * DayLength
<1>1. DayLength \in Nat
  BY DEF CronAssumption, DayLength
<1>2. PICK rest \in Nat : SearchDays = CapDays + rest
  <2>1. SearchDays - CapDays \in Nat /\ SearchDays = CapDays + (SearchDays - CapDays)
    BY DEF CronAssumption
  <2> QED BY <2>1
<1>3. CapDays \in Nat /\ SearchDays \in Nat
  BY DEF CronAssumption
<1>4. ASSUME NEW d \in Nat, NEW a \in Nat, NEW b \in Nat
      PROVE  a * d \in Nat /\ b * d \in Nat /\ (a + b) * d = a * d + b * d
  OBVIOUS
<1>5. CapDays * DayLength \in Nat /\ rest * DayLength \in Nat
      /\ SearchDays * DayLength = CapDays * DayLength + rest * DayLength
  BY <1>1, <1>2, <1>3, <1>4
<1> QED BY <1>1, <1>5

\* A schedule that a field rules out has no minute.
LEMMA NoField ==
  ASSUME NEW c, NEW t, \E k \in DOMAIN Fields(c) : Fields(c)[k] = {}
  PROVE  ~Matching(Fields(c), t)
BY DEF Fields, Matching

\* next_occurrence(): the first minute after t that the schedule names.
LEMMA NextIsFirst ==
  ASSUME CronAssumption, NEW c, NEW t
  PROVE  LET away == NextOccurrence(c, t)
             far  == SearchDays * DayLength IN
         \E w : /\ IsWalk(w, t, far)
                /\ away = Unset => \A j \in 1 .. far : ~Matching(Fields(c), w[j])
                /\ away # Unset =>
                     away \in 1 .. far /\ \A j \in 1 .. away - 1 : ~Matching(Fields(c), w[j])
<1> DEFINE f    == Fields(c)
           far  == SearchDays * DayLength
           away == NextOccurrence(c, t)
<1>1. far \in Nat
  BY Horizon
<1> HIDE DEF far
<1>2. CASE \E k \in DOMAIN f : f[k] = {}
  <2>1. PICK w : IsWalk(w, t, far)
    BY <1>1, WalkExists
  <2>2. away = Unset
    BY <1>2 DEF NextOccurrence
  <2>3. \A j \in 1 .. far : ~Matching(f, w[j])
    BY <1>2, NoField
  <2> QED BY <2>1, <2>2, <2>3 DEF far
<1>3. CASE ~\E k \in DOMAIN f : f[k] = {}
  <2>1. away = Search(f, AddMinute(t), 1, far)
    BY <1>3 DEF NextOccurrence, far
  <2> HIDE DEF away, f
  <2>2. PICK u : /\ IsWalk(u, AddMinute(t), far)
                 /\ away = Unset => \A j \in 0 .. far - 1 : ~Matching(f, u[j])
                 /\ away # Unset => \E j \in 0 .. far - 1 :
                      away = 1 + j /\ \A l \in 0 .. j - 1 : ~Matching(f, u[l])
    BY <1>1, <2>1, SearchFinds
  <2>3. PICK v : IsWalk(v, t, far + 1) /\ \A i \in 0 .. far : v[i + 1] = u[i]
    BY <1>1, <2>2, WalkInFront
  <2> DEFINE w == [i \in 0 .. far |-> v[i]]
  <2>4. IsWalk(w, t, far) /\ \A i \in 0 .. far : w[i] = v[i]
    <3>1. \A i \in 0 .. far : w[i] = v[i]
      OBVIOUS
    <3>2. w = [i \in 0 .. far |-> w[i]]
      OBVIOUS
    <3> HIDE DEF w
    <3>3. w[0] = t
      BY <1>1, <2>3, <3>1 DEF IsWalk
    <3>4. ASSUME NEW i \in 0 .. far - 1
          PROVE  w[i + 1] = AddMinute(w[i])
      <4>1. i \in 0 .. far /\ i + 1 \in 0 .. far /\ i \in 0 .. (far + 1) - 1
        BY <1>1
      <4> QED BY <2>3, <3>1, <4>1 DEF IsWalk
    <3> QED BY <3>1, <3>2, <3>3, <3>4 DEF IsWalk
  <2> HIDE DEF w
  <2>5. ASSUME NEW j \in 1 .. far
        PROVE  w[j] = u[j - 1] /\ j - 1 \in 0 .. far - 1
    <3> DEFINE l == j - 1
    <3>1. l \in 0 .. far /\ l \in 0 .. far - 1 /\ j = l + 1 /\ j \in 0 .. far
      BY <1>1
    <3> HIDE DEF l
    <3>2. w[j] = u[l]
      BY <2>3, <2>4, <3>1
    <3> QED BY <3>1, <3>2 DEF l
  <2>6. ASSUME away = Unset, NEW j \in 1 .. far
        PROVE  ~Matching(f, w[j])
    BY <2>2, <2>5, <2>6
  <2>7. ASSUME away # Unset
        PROVE  away \in 1 .. far /\ \A j \in 1 .. away - 1 : ~Matching(f, w[j])
    <3>1. PICK j \in 0 .. far - 1 : away = 1 + j /\ \A l \in 0 .. j - 1 : ~Matching(f, u[l])
      BY <2>2, <2>7
    <3>2. away \in 1 .. far
      BY <1>1, <3>1
    <3>3. ASSUME NEW l \in 1 .. away - 1
          PROVE  ~Matching(f, w[l])
      <4>1. l \in 1 .. far /\ l - 1 \in 0 .. j - 1
        BY <1>1, <3>1
      <4>2. w[l] = u[l - 1]
        BY <2>5, <4>1
      <4> QED BY <3>1, <4>1, <4>2
    <3> QED BY <3>2, <3>3
  <2> QED BY <2>4, <2>6, <2>7 DEF away, f, far
<1> QED BY <1>2, <1>3

\* From the minute in which the timer was computed to the one in which it
\* fires, no minute matches before it.
Ahead(c, from, here, left) ==
  \E n, i, w :
    /\ n \in Nat /\ i \in Nat /\ IsWalk(w, from, n) /\ i + left <= n /\ w[i] = here
    /\ \A j \in 1 .. (i + left) - 1 : ~Matching(Fields(c), w[j])

CronInv == timer # Unset =>
  timer \in 0 .. CapDays * DayLength /\ Ahead(cron, armedAt, now, timer)

LEMMA ArmedAhead ==
  ASSUME CronAssumption, NEW c, NEW t, Armed(c, t) # Unset
  PROVE  Armed(c, t) \in 0 .. CapDays * DayLength /\ Ahead(c, t, t, Armed(c, t))
<1> DEFINE far  == SearchDays * DayLength
           cap  == CapDays * DayLength
           away == NextOccurrence(c, t)
           left == Armed(c, t)
<1>1. far \in Nat /\ cap \in Nat /\ cap <= far
  BY Horizon
<1>2. PICK w : /\ IsWalk(w, t, far)
               /\ away # Unset =>
                    away \in 1 .. far /\ \A j \in 1 .. away - 1 : ~Matching(Fields(c), w[j])
  BY NextIsFirst
<1>3. left = IF away = Unset \/ away < cap THEN away ELSE cap
  BY DEF Armed
<1> HIDE DEF far, cap, away, left
<1>4. left # Unset
  BY DEF left
<1>5. away # Unset /\ away \in 1 .. far /\ left \in 0 .. cap /\ left <= away
  <2>1. away # Unset /\ away \in 1 .. far
    BY <1>2, <1>3, <1>4
  <2>2. CASE away < cap
    BY <1>1, <1>3, <2>1, <2>2
  <2>3. CASE ~(away < cap)
    BY <1>1, <1>3, <2>1, <2>3
  <2> QED BY <2>1, <2>2, <2>3
<1>6. 0 + left <= far /\ \A j \in 1 .. (0 + left) - 1 : j \in 1 .. away - 1
  BY <1>1, <1>5
<1>7. w[0] = t
  BY <1>2 DEF IsWalk
<1>8. \A j \in 1 .. (0 + left) - 1 : ~Matching(Fields(c), w[j])
  BY <1>2, <1>5, <1>6
<1>9. Ahead(c, t, t, left)
  BY <1>1, <1>2, <1>6, <1>7, <1>8 DEF Ahead
<1> QED BY <1>5, <1>9 DEF left, cap

\* A timer that schedule_job leaves alone: the schedule names no minute.
LEMMA KeptAhead ==
  ASSUME CronAssumption, NEW c, NEW t, NextOccurrence(c, t) = Unset,
         NEW left \in 0 .. CapDays * DayLength
  PROVE  Ahead(c, t, t, left)
<1> DEFINE far == SearchDays * DayLength
<1>1. far \in Nat /\ left \in Nat /\ left <= far
  BY Horizon
<1>2. PICK w : IsWalk(w, t, far) /\ \A j \in 1 .. far : ~Matching(Fields(c), w[j])
  BY NextIsFirst
<1> HIDE DEF far
<1>3. 0 + left <= far /\ \A j \in 1 .. (0 + left) - 1 : j \in 1 .. far
  BY <1>1
<1>4. w[0] = t
  BY <1>2 DEF IsWalk
<1> QED BY <1>1, <1>2, <1>3, <1>4 DEF Ahead

LEMMA CronStep ==
  ASSUME CronAssumption, CronInv, [CronNext]_cronVars
  PROVE  CronInv'
<1>0. CapDays * DayLength \in Nat
  BY Horizon
<1>1. CASE MinutePasses
  <2> SUFFICES ASSUME timer' # Unset
               PROVE  timer' \in 0 .. CapDays * DayLength /\ Ahead(cron, armedAt, now', timer')
    BY <1>1 DEF CronInv, MinutePasses
  <2> DEFINE cap == CapDays * DayLength
  <2>1. timer # Unset /\ timer # 0 /\ timer' = timer - 1 /\ now' = AddMinute(now)
    BY <1>1 DEF MinutePasses
  <2>2. timer \in 0 .. cap /\ Ahead(cron, armedAt, now, timer)
    BY <2>1 DEF CronInv
  <2>3. timer' \in 0 .. cap /\ timer \in Nat /\ timer' \in Nat
    <3> HIDE DEF cap
    <3>1. cap \in Nat
      BY <1>0 DEF cap
    <3> QED BY <2>1, <2>2, <3>1
  <2>4. PICK n, i, w :
          /\ n \in Nat /\ i \in Nat
          /\ IsWalk(w, armedAt, n) /\ i + timer <= n /\ w[i] = now
          /\ \A j \in 1 .. (i + timer) - 1 : ~Matching(Fields(cron), w[j])
    BY <2>2 DEF Ahead
  <2>5. (i + 1) + timer' = i + timer /\ i \in 0 .. n - 1 /\ i + 1 \in Nat
    BY <2>1, <2>3, <2>4
  <2>6. w[i + 1] = now'
    BY <2>1, <2>4, <2>5 DEF IsWalk
  <2>7. Ahead(cron, armedAt, now', timer')
    BY <2>4, <2>5, <2>6 DEF Ahead
  <2> QED BY <2>3, <2>7
<1>2. CASE TimerFires
  BY <1>2 DEF TimerFires, CronInv
<1>3. CASE RunEnds
  <2>1. /\ cron' = cron /\ armedAt' = now /\ now' = now
        /\ timer' = IF NextOccurrence(cron, now) = Unset THEN timer ELSE Armed(cron, now)
    BY <1>3 DEF RunEnds
  <2>2. CASE NextOccurrence(cron, now) = Unset
    BY <2>1, <2>2, KeptAhead DEF CronInv
  <2>3. CASE NextOccurrence(cron, now) # Unset
    BY <2>1, <2>3, ArmedAhead DEF CronInv
  <2> QED BY <2>2, <2>3
<1>4. ASSUME NEW c \in Crons, ListEdited(c)
      PROVE  CronInv'
  <2>1. /\ cron' = c /\ armedAt' = now /\ now' = now
        /\ timer' = IF NextOccurrence(c, now) = Unset THEN timer ELSE Armed(c, now)
    BY <1>4 DEF ListEdited
  <2>2. CASE NextOccurrence(c, now) = Unset
    BY <2>1, <2>2, KeptAhead DEF CronInv
  <2>3. CASE NextOccurrence(c, now) # Unset
    BY <2>1, <2>3, ArmedAhead DEF CronInv
  <2> QED BY <2>2, <2>3
<1>5. CASE UNCHANGED cronVars
  BY <1>5 DEF cronVars, CronInv
<1> QED BY <1>1, <1>2, <1>3, <1>4, <1>5 DEF CronNext

\* The search neither skips nor overshoots an occurrence: a minute that the
\* schedule names, later than the one the timer was computed in, does not pass
\* while the job is idle and the timer waits for another one, whatever the
\* calendar, the schedules and the times at which the job list is edited.
THEOREM NoMinuteIsMissed == CronSpec => []NoMinuteMissed
<1>1. CronInit => CronInv
  BY CronAssumption, ArmedAhead DEF CronInit, CronInv
<1>2. CronInv /\ [CronNext]_cronVars => CronInv'
  BY CronAssumption, CronStep
<1>3. CronInv => NoMinuteMissed
  <2> SUFFICES ASSUME CronInv, timer # Unset, armedAt # now, Matching(Fields(cron), now), timer # 0
               PROVE  FALSE
    BY DEF NoMinuteMissed
  <2>1. timer \in Nat
    BY CronAssumption, Horizon DEF CronInv
  <2>2. PICK n, i, w :
          /\ n \in Nat /\ i \in Nat
          /\ IsWalk(w, armedAt, n) /\ i + timer <= n /\ w[i] = now
          /\ \A j \in 1 .. (i + timer) - 1 : ~Matching(Fields(cron), w[j])
    BY DEF CronInv, Ahead
  <2>3. i # 0
    BY <2>2 DEF IsWalk
  <2>4. i \in 1 .. (i + timer) - 1
    BY <2>1, <2>2, <2>3
  <2> QED BY <2>2, <2>4
<1> QED BY <1>1, <1>2, <1>3, PTL DEF CronSpec


(***************************************************************************)
(* The calendar. A day's number is what day_of_week() takes modulo 7: its  *)
(* year's share grows by one from year to year, and by one more in a leap  *)
(* year, which days_in_month() gives one day more.                         *)
(***************************************************************************)
\* The months have 28 to 31 days.
LEMMA MonthLengths ==
  ASSUME NEW y, NEW mo \in 1 .. 12
  PROVE  DaysInMonth(y, mo) \in 28 .. 31
<1>1. CASE mo = 2
  BY <1>1 DEF DaysInMonth
<1>2. CASE mo # 2
  <2>1. DaysInMonth(y, mo) = <<31, 28, 31, 30, 31, 30, 31, 31, 30, 31, 30, 31>>[mo]
    BY <1>2 DEF DaysInMonth
  <2>2. mo \in {1, 3, 4, 5, 6, 7, 8, 9, 10, 11, 12}
    BY <1>2
  <2> QED BY <2>1, <2>2
<1> QED BY <1>1, <1>2

\* The minute after a moment is a moment: no day is skipped and none is made up.
LEMMA NextMoment ==
  ASSUME NEW t, IsMoment(t)
  PROVE  IsMoment(AddMinute(t))
<1> DEFINE n == AddMinute(t)
<1>1. /\ t = [y |-> t.y, mo |-> t.mo, d |-> t.d, h |-> t.h, mi |-> t.mi]
      /\ t.y \in Nat \ {0} /\ t.mo \in 1 .. 12 /\ t.d \in 1 .. DaysInMonth(t.y, t.mo)
      /\ t.h \in 0 .. HoursPerDay - 1 /\ t.mi \in 0 .. MinutesPerHour - 1
  BY DEF IsMoment
<1>2. HoursPerDay \in Nat \ {0} /\ MinutesPerHour \in Nat \ {0}
  BY CronAssumption
<1>3. DaysInMonth(t.y, t.mo) \in Nat
  BY <1>1, MonthLengths
<1>4. CASE t.mi + 1 < MinutesPerHour
  <2>1. n = [t EXCEPT !.mi = @ + 1]
    BY <1>1, <1>2, <1>4 DEF AddMinute
  <2> HIDE DEF n
  <2>2. n = [y |-> t.y, mo |-> t.mo, d |-> t.d, h |-> t.h, mi |-> t.mi + 1]
    BY <1>1, <2>1
  <2> QED BY <1>1, <1>2, <1>4, <2>2 DEF IsMoment, n
<1>5. CASE t.mi + 1 = MinutesPerHour /\ t.h + 1 < HoursPerDay
  <2>1. n = [t EXCEPT !.mi = 0, !.h = @ + 1]
    BY <1>1, <1>2, <1>5 DEF AddMinute
  <2> HIDE DEF n
  <2>2. n = [y |-> t.y, mo |-> t.mo, d |-> t.d, h |-> t.h + 1, mi |-> 0]
    BY <1>1, <2>1
  <2> QED BY <1>1, <1>2, <1>5, <2>2 DEF IsMoment, n
<1>6. CASE ~(t.mi + 1 < MinutesPerHour) /\ ~(t.mi + 1 = MinutesPerHour /\ t.h + 1 < HoursPerDay)
  <2> DEFINE day == [t EXCEPT !.mi = 0, !.h = 0]
  <2>1. n = IF t.d + 1 <= DaysInMonth(t.y, t.mo) THEN [day EXCEPT !.d = @ + 1]
            ELSE IF t.mo < 12 THEN [day EXCEPT !.d = 1, !.mo = @ + 1]
            ELSE [day EXCEPT !.d = 1, !.mo = 1, !.y = @ + 1]
    BY <1>6 DEF AddMinute
  <2> HIDE DEF n
  <2>2. day = [y |-> t.y, mo |-> t.mo, d |-> t.d, h |-> 0, mi |-> 0]
    <3>1. ASSUME NEW x, x = [t EXCEPT !.mi = 0, !.h = 0]
          PROVE  x = [y |-> t.y, mo |-> t.mo, d |-> t.d, h |-> 0, mi |-> 0]
      BY <1>1, <3>1
    <3> QED BY <3>1
  <2> HIDE DEF day
  <2>3. CASE t.d + 1 <= DaysInMonth(t.y, t.mo)
    <3>1. n = [y |-> t.y, mo |-> t.mo, d |-> t.d + 1, h |-> 0, mi |-> 0]
      BY <2>1, <2>2, <2>3
    <3> QED BY <1>1, <1>2, <1>3, <2>3, <3>1 DEF IsMoment, n
  <2>4. CASE ~(t.d + 1 <= DaysInMonth(t.y, t.mo)) /\ t.mo < 12
    <3>1. n = [y |-> t.y, mo |-> t.mo + 1, d |-> 1, h |-> 0, mi |-> 0]
      BY <2>1, <2>2, <2>4
    <3>2. t.mo + 1 \in 1 .. 12
      BY <1>1, <2>4
    <3>3. DaysInMonth(t.y, t.mo + 1) \in 28 .. 31
      BY <3>2, MonthLengths
    <3> QED BY <1>1, <1>2, <3>1, <3>2, <3>3 DEF IsMoment, n
  <2>5. CASE ~(t.d + 1 <= DaysInMonth(t.y, t.mo)) /\ ~(t.mo < 12)
    <3>1. n = [y |-> t.y + 1, mo |-> 1, d |-> 1, h |-> 0, mi |-> 0]
      BY <2>1, <2>2, <2>5
    <3>2. DaysInMonth(t.y + 1, 1) \in 28 .. 31
      BY MonthLengths
    <3> QED BY <1>1, <1>2, <3>1, <3>2 DEF IsMoment, n
  <2> QED BY <2>3, <2>4, <2>5
<1> QED BY <1>4, <1>5, <1>6

\* The number that day_of_week() takes modulo 7.
YearSum(y) == y + (y \div 4) - (y \div 100) + (y \div 400)
Offsets    == <<0, 3, 2, 5, 0, 3, 5, 1, 4, 6, 2, 4>>
DayNumber(t) == YearSum(IF t.mo < 3 THEN t.y - 1 ELSE t.y) + Offsets[t.mo] + t.d

LEMMA DayOfNumber ==
  ASSUME NEW t
  PROVE  DayOfWeek(t) = DayNumber(t) % 7
BY DEF DayOfWeek, DayNumber, YearSum, Offsets

LEMMA YearSums ==
  ASSUME NEW y \in Nat
  PROVE  /\ YearSum(y) \in Int
         /\ YearSum(y + 1) = YearSum(y) + 1 + (IF IsLeap(y + 1) THEN 1 ELSE 0)
<1> DEFINE p == IF (y + 1) % 4 = 0 THEN 1 ELSE 0
           q == IF (y + 1) % 100 = 0 THEN 1 ELSE 0
           r == IF (y + 1) % 400 = 0 THEN 1 ELSE 0
<1>1. (y + 1) \div 4 = (y \div 4) + p
  OBVIOUS
<1>2. (y + 1) \div 100 = (y \div 100) + q
  OBVIOUS
<1>3. (y + 1) \div 400 = (y \div 400) + r
  OBVIOUS
<1>4. y \div 4 \in Int /\ y \div 100 \in Int /\ y \div 400 \in Int
  OBVIOUS
<1>5. (y + 1) % 100 = 0 => (y + 1) % 4 = 0
  OBVIOUS
<1>6. (y + 1) % 400 = 0 => (y + 1) % 100 = 0
  OBVIOUS
<1>7. p - q + r = IF IsLeap(y + 1) THEN 1 ELSE 0
  BY <1>5, <1>6 DEF IsLeap
<1>8. YearSum(y + 1) = (y + 1) + ((y \div 4) + p) - ((y \div 100) + q) + ((y \div 400) + r)
  BY <1>1, <1>2, <1>3 DEF YearSum
<1> DEFINE a == y \div 4
           b == y \div 100
           c == y \div 400
           leap == IF IsLeap(y + 1) THEN 1 ELSE 0
<1>9. YearSum(y) = y + a - b + c
  BY DEF YearSum
<1>10. p \in Int /\ q \in Int /\ r \in Int /\ leap \in Int
  OBVIOUS
<1>11. YearSum(y + 1) = YearSum(y) + 1 + (p - q + r)
  <2>1. \A i, j, k, l, m, n \in Int :
          (y + 1) + (i + l) - (j + m) + (k + n) = (y + i - j + k) + 1 + (l - m + n)
    OBVIOUS
  <2>2. a \in Int /\ b \in Int /\ c \in Int
    BY <1>4
  <2> HIDE DEF a, b, c, p, q, r
  <2>3. YearSum(y + 1) = (y + 1) + (a + p) - (b + q) + (c + r)
    BY <1>8 DEF a, b, c
  <2> QED BY <1>9, <1>10, <2>1, <2>2, <2>3
<1> HIDE DEF a, b, c, p, q, r, leap
<1> QED BY <1>4, <1>7, <1>9, <1>10, <1>11 DEF a, b, c, leap

\* From the last minute of a day on, the number of the day grows by one, up to
\* whole weeks.
LEMMA NextDay ==
  ASSUME NEW t, IsMoment(t), AddMinute(t).d # t.d
  PROVE  \E k \in Int : DayNumber(AddMinute(t)) = DayNumber(t) + 1 + 7 * k
<1> DEFINE n == AddMinute(t)
<1>1. /\ t = [y |-> t.y, mo |-> t.mo, d |-> t.d, h |-> t.h, mi |-> t.mi]
      /\ t.y \in Nat \ {0} /\ t.mo \in 1 .. 12 /\ t.d \in 1 .. DaysInMonth(t.y, t.mo)
  BY DEF IsMoment
<1>2. DaysInMonth(t.y, t.mo) \in 28 .. 31
  BY <1>1, MonthLengths
<1>3. YearSum(t.y) \in Int /\ YearSum(t.y - 1) \in Int
      /\ YearSum(t.y) = YearSum(t.y - 1) + 1 + (IF IsLeap(t.y) THEN 1 ELSE 0)
  <2>1. t.y - 1 \in Nat /\ (t.y - 1) + 1 = t.y
    BY <1>1
  <2> QED BY <1>1, <2>1, YearSums
<1> DEFINE Follows(later) == \E k \in Int : DayNumber(later) = DayNumber(t) + 1 + 7 * k
<1> HIDE DEF n
<1>4. CASE n.y = t.y /\ n.mo = t.mo /\ n.d = t.d + 1
  <2> DEFINE s == YearSum(IF t.mo < 3 THEN t.y - 1 ELSE t.y)
  <2>1. DayNumber(t) = s + Offsets[t.mo] + t.d /\ DayNumber(n) = s + Offsets[t.mo] + (t.d + 1)
    BY <1>4 DEF DayNumber
  <2>2. s \in Int /\ Offsets[t.mo] \in Int /\ t.d \in Int
    BY <1>1, <1>2, <1>3 DEF Offsets
  <2> HIDE DEF s
  <2>3. DayNumber(n) = DayNumber(t) + 1 + 7 * 0
    BY <2>1, <2>2
  <2> QED BY <2>3 DEF n
<1>5. CASE t.d = DaysInMonth(t.y, t.mo) /\ t.mo < 12 /\ n.y = t.y /\ n.mo = t.mo + 1 /\ n.d = 1
  <2>1. CASE t.mo = 2
    <3>1. DayNumber(t) = YearSum(t.y - 1) + 3 + t.d /\ DayNumber(n) = YearSum(t.y) + 2 + 1
      BY <1>5, <2>1 DEF DayNumber, Offsets
    <3>2. t.d = IF IsLeap(t.y) THEN 29 ELSE 28
      BY <1>5, <2>1 DEF DaysInMonth
    <3>3. DayNumber(n) = DayNumber(t) + 1 + 7 * (-4)
      BY <1>3, <3>1, <3>2
    <3> QED BY <3>3 DEF n
  <2>2. CASE t.mo # 2
    <3> DEFINE s == YearSum(IF t.mo < 3 THEN t.y - 1 ELSE t.y)
    <3>1. DayNumber(t) = s + Offsets[t.mo] + t.d /\ DayNumber(n) = s + Offsets[t.mo + 1] + 1
      BY <1>1, <1>5, <2>2 DEF DayNumber
    <3>2. s \in Int
      BY <1>3
    <3> HIDE DEF s
    <3>3. t.d = <<31, 28, 31, 30, 31, 30, 31, 31, 30, 31, 30, 31>>[t.mo]
      BY <1>5, <2>2 DEF DaysInMonth
    <3>4. t.mo \in {1, 3, 4, 5, 6, 7, 8, 9, 10, 11}
      BY <1>1, <1>5, <2>2
    <3>5. \E k \in Int : Offsets[t.mo + 1] + 1 = Offsets[t.mo] + t.d + 1 + 7 * k
      <4>1. \/ Offsets[t.mo + 1] + 1 = Offsets[t.mo] + t.d + 1 + 7 * (-4)
            \/ Offsets[t.mo + 1] + 1 = Offsets[t.mo] + t.d + 1 + 7 * (-5)
        BY <3>3, <3>4 DEF Offsets
      <4>2. -4 \in Int /\ -5 \in Int
        OBVIOUS
      <4> QED BY <4>1, <4>2
    <3>6. Offsets[t.mo] \in Int /\ Offsets[t.mo + 1] \in Int /\ t.d \in Int
      BY <1>1, <1>2, <3>4 DEF Offsets
    <3> QED BY <3>1, <3>2, <3>5, <3>6 DEF n
  <2> QED BY <2>1, <2>2
<1>6. CASE t.d = DaysInMonth(t.y, t.mo) /\ t.mo = 12 /\ n.y = t.y + 1 /\ n.mo = 1 /\ n.d = 1
  <2>1. (t.y + 1) - 1 = t.y
    BY <1>1
  <2>2. DayNumber(t) = YearSum(t.y) + 4 + t.d /\ DayNumber(n) = YearSum(t.y) + 0 + 1
    BY <1>6, <2>1 DEF DayNumber, Offsets
  <2>3. t.d = 31
    BY <1>6 DEF DaysInMonth
  <2>4. DayNumber(n) = DayNumber(t) + 1 + 7 * (-5)
    BY <1>3, <2>2, <2>3
  <2> QED BY <2>4 DEF n
<1>7. \/ n.y = t.y /\ n.mo = t.mo /\ n.d = t.d + 1
      \/ t.d = DaysInMonth(t.y, t.mo) /\ t.mo < 12 /\ n.y = t.y /\ n.mo = t.mo + 1 /\ n.d = 1
      \/ t.d = DaysInMonth(t.y, t.mo) /\ t.mo = 12 /\ n.y = t.y + 1 /\ n.mo = 1 /\ n.d = 1
  <2> DEFINE day == [t EXCEPT !.mi = 0, !.h = 0]
  <2>1. n = CASE t.mi + 1 < MinutesPerHour -> [t EXCEPT !.mi = @ + 1]
              [] t.mi + 1 = MinutesPerHour /\ t.h + 1 < HoursPerDay -> [t EXCEPT !.mi = 0, !.h = @ + 1]
              [] OTHER ->
                 IF t.d + 1 <= DaysInMonth(t.y, t.mo) THEN [day EXCEPT !.d = @ + 1]
                 ELSE IF t.mo < 12 THEN [day EXCEPT !.d = 1, !.mo = @ + 1]
                 ELSE [day EXCEPT !.d = 1, !.mo = 1, !.y = @ + 1]
    BY DEF AddMinute, n
  <2>2. day = [y |-> t.y, mo |-> t.mo, d |-> t.d, h |-> 0, mi |-> 0]
    <3>1. ASSUME NEW x, x = [t EXCEPT !.mi = 0, !.h = 0]
          PROVE  x = [y |-> t.y, mo |-> t.mo, d |-> t.d, h |-> 0, mi |-> 0]
      BY <1>1, <3>1
    <3> QED BY <3>1
  <2> HIDE DEF day
  <2>3. n.d # t.d
    BY DEF n
  <2>4. /\ ~(t.mi + 1 < MinutesPerHour)
        /\ ~(t.mi + 1 = MinutesPerHour /\ t.h + 1 < HoursPerDay)
    <3>1. ASSUME t.mi + 1 < MinutesPerHour
          PROVE  FALSE
      <4>1. n = [t EXCEPT !.mi = @ + 1]
        BY <2>1, <3>1, <1>1, CronAssumption DEF IsMoment
      <4> QED BY <1>1, <2>3, <4>1
    <3>2. ASSUME t.mi + 1 = MinutesPerHour /\ t.h + 1 < HoursPerDay
          PROVE  FALSE
      <4>1. n = [t EXCEPT !.mi = 0, !.h = @ + 1]
        BY <2>1, <3>2, <1>1, CronAssumption DEF IsMoment
      <4> QED BY <1>1, <2>3, <4>1
    <3> QED BY <3>1, <3>2
  <2>5. n = IF t.d + 1 <= DaysInMonth(t.y, t.mo) THEN [day EXCEPT !.d = @ + 1]
            ELSE IF t.mo < 12 THEN [day EXCEPT !.d = 1, !.mo = @ + 1]
            ELSE [day EXCEPT !.d = 1, !.mo = 1, !.y = @ + 1]
    BY <2>1, <2>4
  <2>6. CASE t.d + 1 <= DaysInMonth(t.y, t.mo)
    BY <2>2, <2>5, <2>6
  <2>7. CASE ~(t.d + 1 <= DaysInMonth(t.y, t.mo)) /\ t.mo < 12
    BY <1>1, <1>2, <2>2, <2>5, <2>7
  <2>8. CASE ~(t.d + 1 <= DaysInMonth(t.y, t.mo)) /\ ~(t.mo < 12)
    BY <1>1, <1>2, <2>2, <2>5, <2>8
  <2> QED BY <2>6, <2>7, <2>8
<1> QED BY <1>4, <1>5, <1>6, <1>7

LEMMA NumberTyped ==
  ASSUME NEW t, IsMoment(t)
  PROVE  DayNumber(t) \in Int
<1>1. t.y \in Nat \ {0} /\ t.mo \in 1 .. 12 /\ t.d \in 1 .. DaysInMonth(t.y, t.mo)
  BY DEF IsMoment
<1>2. DaysInMonth(t.y, t.mo) \in 28 .. 31
  BY <1>1, MonthLengths
<1>3. t.y - 1 \in Nat
  BY <1>1
<1>4. YearSum(t.y) \in Int /\ YearSum(t.y - 1) \in Int
  BY <1>1, <1>3, YearSums
<1>5. Offsets[t.mo] \in Int
  BY <1>1 DEF Offsets
<1> QED BY <1>1, <1>2, <1>4, <1>5 DEF DayNumber

\* The weekdays follow one another through the ends of months and years and
\* through every 29 February: the formula of day_of_week() and days_in_month()
\* are one calendar, from any day on, for as long as the daemon runs.
THEOREM WeekdaysFollow == CronSpec => WeekdayAdvances
<1>1. CronInit => IsMoment(now)
  BY StartsAssumption DEF CronInit
<1>2. IsMoment(now) /\ [CronNext]_cronVars => IsMoment(now)'
  <2> SUFFICES ASSUME IsMoment(now), [CronNext]_cronVars
               PROVE  IsMoment(now')
    BY DEF IsMoment
  <2>1. now' = now \/ now' = AddMinute(now)
    BY DEF CronNext, MinutePasses, TimerFires, RunEnds, ListEdited, cronVars
  <2> QED BY <2>1, NextMoment
<1> DEFINE Advances == now'.d # now.d => DayOfWeek(now') = (DayOfWeek(now) + 1) % 7
<1>3. ASSUME IsMoment(now), [CronNext]_cronVars
      PROVE  [Advances]_cronVars
  <2> SUFFICES ASSUME now'.d # now.d
               PROVE  DayOfWeek(now') = (DayOfWeek(now) + 1) % 7
    OBVIOUS
  <2>1. now' = AddMinute(now)
    BY <1>3 DEF CronNext, MinutePasses, TimerFires, RunEnds, ListEdited, cronVars
  <2>2. PICK k \in Int : DayNumber(now') = DayNumber(now) + 1 + 7 * k
    BY <1>3, <2>1, NextDay
  <2>3. DayNumber(now) \in Int
    BY <1>3, NumberTyped
  <2>4. \A a, j \in Int : (a + 1 + 7 * j) % 7 = ((a % 7) + 1) % 7
    OBVIOUS
  <2> QED BY <2>2, <2>3, <2>4, DayOfNumber
<1>4. IsMoment(now) /\ [CronNext]_cronVars => [Advances]_cronVars
  BY <1>3
<1> QED BY <1>1, <1>2, <1>4, PTL DEF CronSpec, WeekdayAdvances

\* The schedule keeps its types, the clock stays in the calendar and the timer
\* within the cap, for any schedules, days and horizons.
THEOREM ScheduleTypes == CronSpec => []CronTypeOK
<1> DEFINE TypeInv == /\ CronInv /\ IsMoment(now)
                      /\ cron \in Crons /\ busy \in BOOLEAN /\ elapsed \in 0 .. MaxMinutes
<1>1. CronInit => TypeInv
  <2>1. CronInit => CronInv
    BY CronAssumption, ArmedAhead DEF CronInit, CronInv
  <2>2. MaxMinutes \in Nat
    BY CronAssumption
  <2>3. ASSUME CronInit
        PROVE  IsMoment(now) /\ cron \in Crons /\ elapsed \in 0 .. MaxMinutes
    BY <2>2, <2>3, StartsAssumption DEF CronInit
  <2>4. CronInit => busy \in BOOLEAN
    BY DEF CronInit
  <2> QED BY <2>1, <2>3, <2>4
<1>2. ASSUME TypeInv, [CronNext]_cronVars
      PROVE  TypeInv'
  <2>1. CronInv'
    BY <1>2, CronAssumption, CronStep
  <2>2. now' = now \/ now' = AddMinute(now)
    BY <1>2 DEF CronNext, MinutePasses, TimerFires, RunEnds, ListEdited, cronVars
  <2>3. IsMoment(now')
    BY <1>2, <2>2, NextMoment
  <2>4. cron' \in Crons /\ busy' \in BOOLEAN
    BY <1>2 DEF CronNext, MinutePasses, TimerFires, RunEnds, ListEdited, cronVars
  <2>5. elapsed' \in 0 .. MaxMinutes
    BY <1>2, CronAssumption DEF CronNext, MinutePasses, TimerFires, RunEnds, ListEdited, cronVars
  <2> QED BY <2>1, <2>3, <2>4, <2>5 DEF IsMoment
<1>3. TypeInv => CronTypeOK
  <2> SUFFICES ASSUME TypeInv
               PROVE  CronTypeOK
    OBVIOUS
  <2>1. timer \in Int /\ timer <= CapDays * DayLength
    <3>1. CapDays * DayLength \in Nat
      BY CronAssumption, Horizon
    <3> QED BY <3>1 DEF CronInv, Unset
  <2>2. DaysInMonth(now.y, now.mo) \in 28 .. 31
    BY MonthLengths DEF IsMoment
  <2>3. now.d \in 1 .. 31 /\ now.mo \in 1 .. 12
    BY <2>2 DEF IsMoment
  <2> QED BY <2>1, <2>3 DEF CronTypeOK, IsMoment
<1> HIDE DEF TypeInv
<1>4. TypeInv /\ [CronNext]_cronVars => TypeInv'
  BY <1>2
<1> QED BY <1>1, <1>3, <1>4, PTL DEF CronSpec

-----------------------------------------------------------------------------
(***************************************************************************)
(* The life of a job: what it guarantees to whoever looks at it.           *)
(***************************************************************************)
LifeInv == LifeTypeOK /\ ShownWhileWorking

LEMMA LifeStep ==
  ASSUME MaxRetries \in Nat, LifeInv, [LifeNext]_lifeVars
  PROVE  LifeInv'
<1> USE DEF LifeInv, LifeTypeOK, ShownWhileWorking, Works, OwnStarts
<1>1. CASE Begin({}) BY <1>1 DEF Begin
<1>2. ASSUME NEW s \in ahead, Begin({s}) \/ Overtaken(s) PROVE LifeInv'
  BY <1>2 DEF Begin, Overtaken
<1>3. CASE Accepted \/ Rejected BY <1>3 DEF Accepted, Rejected
<1>4. CASE TriesAgain BY <1>4 DEF TriesAgain
<1>5. CASE Resyncs BY <1>5 DEF Resyncs
<1>6. CASE StopAsked \/ Stopped BY <1>6 DEF StopAsked, Stopped
<1>7. ASSUME NEW again \in BOOLEAN, Concludes(again) PROVE LifeInv' BY <1>7 DEF Concludes
<1>8. CASE Forgotten
  <2>1. /\ work' = "idle" /\ shown' = FALSE /\ tries' = 0 /\ resynced' = FALSE
        /\ ahead' = {}
    BY <1>8 DEF Forgotten
  <2>2. tries' \in Nat /\ tries' <= MaxRetries BY <2>1
  <2>3. shown' \in BOOLEAN /\ resynced' \in BOOLEAN BY <2>1
  <2> QED BY <2>1, <2>2, <2>3
<1>9. CASE UNCHANGED lifeVars BY <1>9 DEF lifeVars
<1> QED BY <1>1, <1>2, <1>3, <1>4, <1>5, <1>6, <1>7, <1>8, <1>9 DEF LifeNext

\* A job whose work is under way is shown as running, and the retries since its
\* last verdict never exceed the budget, whatever the budget is.
THEOREM LifeIsShown ==
  ASSUME MaxRetries \in Nat
  PROVE  LifeSpec => []ShownWhileWorking
<1>1. LifeInit => LifeInv
  <2> SUFFICES ASSUME LifeInit PROVE LifeInv
    OBVIOUS
  <2>1. tries \in Nat /\ tries <= MaxRetries BY DEF LifeInit
  <2>2. shown \in BOOLEAN /\ resynced \in BOOLEAN BY DEF LifeInit
  <2> QED BY <2>1, <2>2
          DEF LifeInit, LifeInv, LifeTypeOK, ShownWhileWorking, Works, OwnStarts
<1>2. LifeInv /\ [LifeNext]_lifeVars => LifeInv' BY LifeStep
<1>3. LifeInv => ShownWhileWorking BY DEF LifeInv
<1> QED BY <1>1, <1>2, <1>3, PTL DEF LifeSpec
=============================================================================
