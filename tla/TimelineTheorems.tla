-------------------------- MODULE TimelineTheorems --------------------------
(***************************************************************************)
(* What holds of the timeline in every state.  The lemmas about its steps  *)
(* assume that walking the pointers gives back the sequence they were made *)
(* from (ChainRight).  That needs an induction and is proved here, and the *)
(* theorems follow.                                                        *)
(***************************************************************************)
EXTENDS TimelineReaders, FiniteSetTheorems

(* A set of numbers that is not empty has a least one.                     *)
LEMMA LeastNat ==
    ASSUME NEW T, T \subseteq Nat, T # {}
    PROVE  \E n \in T : \A m \in T : n <= m
<1> DEFINE R == {ss \in Nat \X Nat : ss[1] < ss[2]}
<1>1. IsWellFoundedOn(R, Nat)
  BY NatLessThanWellFounded, Zenon DEF OpToRel
<1>2. PICK n \in T : \A m \in T : ~(<<m, n>> \in R)
  <2> HIDE DEF R
  <2> QED BY <1>1, WFMin, Zenon
<1>3. ASSUME NEW m \in T PROVE n <= m
  <2>1. ~(<<m, n>> \in R) /\ m \in Nat /\ n \in Nat
    BY <1>2
  <2>2. <<m, n>> \in Nat \X Nat /\ <<m, n>>[1] = m /\ <<m, n>>[2] = n
    BY <2>1
  <2>3. ~(m < n)
    BY <2>1, <2>2, ZenonT(30)
  <2> QED BY <2>1, <2>3
<1> QED BY <1>3

(* Induction over the numbers, for a set of them.                          *)
LEMMA NatInSet ==
    ASSUME NEW T, 0 \in T, \A n \in Nat : n \in T => n + 1 \in T
    PROVE  \A n \in Nat : n \in T
<1> DEFINE U == {n \in Nat : n \notin T}
<1>1. SUFFICES ASSUME U # {} PROVE FALSE
  BY Zenon
<1>2. PICK n \in U : \A m \in U : n <= m
  <2>1. U \subseteq Nat
    OBVIOUS
  <2> HIDE DEF U
  <2> QED BY <1>1, <2>1, LeastNat, Zenon
<1>3. n \in Nat /\ n # 0 /\ n - 1 \in Nat /\ n - 1 \notin U
  BY <1>2
<1>4. n - 1 \in T
  BY <1>3, ZenonT(30)
<1>5. (n - 1) + 1 \in T
  BY <1>3, <1>4, ZenonT(30)
<1> QED BY <1>2, <1>3, <1>5

(* The walk along m_pNext meets the items of the sequence, then the end.   *)
LEMMA WalkAt ==
    ASSUME NEW l, NEW s \in Seq(Item), Linked(l, s), NEW n \in Nat
    PROVE  Walk(l.next, l.root, n) = At(s, n + 1)
<1> DEFINE Body(h) == [k \in 0..n |-> IF k = 0 THEN l.root ELSE Follow(l.next, h[k-1])]
           at == CHOOSE h : h = Body(h)
           g == [k \in 0..n |-> At(s, k + 1)]
<1>0. /\ l.root = At(s, 1)
      /\ \A i \in 1..Len(s) : l.next[s[i]] = At(s, i + 1)
      /\ Len(s) \in Nat
  <2>1. Len(s) \in Nat
    OBVIOUS
  <2> QED BY <2>1, LinkedAt, Zenon
<1>1. ASSUME NEW k \in Nat PROVE Follow(l.next, At(s, k + 1)) = At(s, k + 2)
  <2>1. CASE k + 1 \in 1..Len(s)
    <3>1. At(s, k + 1) = s[k + 1] /\ s[k + 1] \in Item /\ s[k + 1] # NULL
      BY <2>1, NullAssumption, SeqFacts DEF At
    <3>2. l.next[s[k + 1]] = At(s, (k + 1) + 1)
      BY <1>0, <2>1, ZenonT(30)
    <3> QED BY <3>1, <3>2 DEF Follow
  <2>2. CASE k + 1 \notin 1..Len(s)
    <3>1. k + 2 \notin 1..Len(s)
      BY <1>0, <2>2
    <3> QED BY <2>2, <3>1, ZenonT(30) DEF Follow, At
  <2> QED BY <2>1, <2>2, ZenonT(30)
<1>2. g = Body(g)
  <2>1. ASSUME NEW k \in 0..n
        PROVE  g[k] = IF k = 0 THEN l.root ELSE Follow(l.next, g[k-1])
    <3>1. CASE k = 0
      BY <1>0, <3>1
    <3>2. CASE k # 0
      <4>1. k - 1 \in Nat /\ k - 1 \in 0..n /\ k - 1 + 1 = k /\ k - 1 + 2 = k + 1
        BY <3>2
      <4>2. g[k] = At(s, k + 1) /\ g[k-1] = At(s, k - 1 + 1)
        BY <4>1
      <4>3. Follow(l.next, At(s, k - 1 + 1)) = At(s, k - 1 + 2)
        BY <1>1, <4>1, Zenon
      <4> QED BY <3>2, <4>1, <4>2, <4>3, ZenonT(30)
    <3> QED BY <3>1, <3>2, ZenonT(30)
  <2> HIDE DEF Follow, At
  <2> QED BY <2>1
<1>3. at = Body(at)
  <2> HIDE DEF Body, g
  <2> QED BY <1>2
<1>4. Walk(l.next, l.root, n) = at[n]
  BY Zenon DEF Walk
<1> HIDE DEF at
<1>5. \A k \in 0..n : at[k] = IF k = 0 THEN l.root ELSE Follow(l.next, at[k-1])
  BY <1>3, Zenon
<1> DEFINE T == {k \in Nat : k <= n => at[k] = At(s, k + 1)}
<1>6. 0 \in T
  BY <1>0, <1>5
<1>7. ASSUME NEW k \in Nat, k \in T PROVE k + 1 \in T
  <2>1. SUFFICES ASSUME k + 1 <= n PROVE at[k + 1] = At(s, (k + 1) + 1)
    OBVIOUS
  <2>2. at[k + 1] = Follow(l.next, at[(k + 1) - 1]) /\ (k + 1) - 1 = k
    BY <1>5, <2>1
  <2>3. at[k] = At(s, k + 1)
    BY <1>7, <2>1
  <2>4. (k + 1) + 1 = k + 2
    OBVIOUS
  <2> QED BY <1>1, <2>2, <2>3, <2>4, ZenonT(30)
<1>8. n \in T
  <2> HIDE DEF T
  <2> QED BY <1>6, <1>7, NatInSet, Zenon
<1> QED BY <1>4, <1>8

(* A sequence without repetition is not longer than there are items.       *)
LEMMA DistinctBound ==
    ASSUME NEW s \in Seq(Item), Distinct(s)
    PROVE  Len(s) <= Cardinality(Item) /\ Cardinality(Item) \in Nat
<1>1. Len(s) \in Nat /\ s \in [1..Len(s) -> Item]
  BY SeqFacts
<1>2. s \in Injection(1..Len(s), Item)
  BY <1>1, Zenon DEF Distinct, Injection, IsInjective
<1>3. Cardinality(1..Len(s)) <= Cardinality(Item)
  BY <1>2, ItemAssumption, FS_Injection, ZenonT(30)
<1>4. Cardinality(1..Len(s)) = Len(s)
  <2>1. 1 \in Int /\ Len(s) \in Int
    BY <1>1
  <2>2. Cardinality(1..Len(s)) = IF 1 > Len(s) THEN 0 ELSE Len(s) - 1 + 1
    BY <2>1, FS_Interval, ZenonT(30)
  <2> QED BY <1>1, <2>2
<1>5. Cardinality(Item) \in Nat
  BY ItemAssumption, FS_CardinalityType, ZenonT(30)
<1> QED BY <1>3, <1>4, <1>5, ZenonT(30)

(* The chain from m_pRoot on is the sequence that the list represents.     *)
LEMMA ChainIs ==
    ASSUME NEW l, NEW s \in Seq(Item), Linked(l, s)
    PROVE  Chain(l) = s
<1>1. Distinct(s)
  BY LinkedAt, Zenon
<1>2. /\ Len(s) <= Cardinality(Item) /\ Cardinality(Item) \in Nat
      /\ Len(s) \in Nat
  BY <1>1, DistinctBound
<1> DEFINE W(n) == Walk(l.next, l.root, n)
           N == {n \in 0 .. Cardinality(Item) - 1 : W(n) # NULL}
<1>3. ASSUME NEW n \in Nat
      PROVE  /\ n < Len(s) => W(n) = s[n + 1] /\ s[n + 1] \in Item
             /\ n >= Len(s) => W(n) = NULL
  <2>1. W(n) = At(s, n + 1)
    BY WalkAt, Zenon
  <2> HIDE DEF W
  <2> QED BY <1>2, <2>1 DEF At
<1> HIDE DEF W
<1>4. N = 0..(Len(s) - 1)
  BY <1>2, <1>3, NullAssumption
<1>5. Cardinality(N) = Len(s)
  <2>1. Cardinality(0..(Len(s) - 1)) = IF 0 > Len(s) - 1 THEN 0 ELSE Len(s) - 1 - 0 + 1
    <3> DEFINE e == Len(s) - 1
    <3>1. 0 \in Int /\ e \in Int
      BY <1>2
    <3> HIDE DEF e
    <3>2. Cardinality(0..e) = IF 0 > e THEN 0 ELSE e - 0 + 1
      BY <3>1, FS_Interval, ZenonT(30)
    <3> QED BY <3>2, Zenon DEF e
  <2>2. Cardinality(N) = Cardinality(0..(Len(s) - 1))
    BY <1>4, Zenon
  <2> HIDE DEF N
  <2>3. (IF 0 > Len(s) - 1 THEN 0 ELSE Len(s) - 1 - 0 + 1) = Len(s)
    BY <1>2
  <2> QED BY <2>1, <2>2, <2>3, Zenon
<1>6. Chain(l) = [n \in 1..Cardinality(N) |-> W(n - 1)]
  BY DEF Chain, WalkLength, W
<1> HIDE DEF N
<1>7. Chain(l) = [n \in 1..Len(s) |-> W(n - 1)]
  BY <1>5, <1>6, ZenonT(30)
<1>8. ASSUME NEW n \in 1..Len(s) PROVE W(n - 1) = s[n]
  BY <1>2, <1>3
<1>9. s = [n \in 1..Len(s) |-> s[n]]
  BY SeqFacts, ZenonT(30)
<1> QED BY <1>7, <1>8, <1>9, ZenonT(30)

(* So the lemmas on the steps of the timeline hold without an assumption.  *)
LEMMA ChainHolds == ChainRight
BY ChainIs, ZenonT(30) DEF ChainRight

-----------------------------------------------------------------------------
(* The inductive invariant.                                                *)
THEOREM TimelineInvariant == Spec => []Inv
BY InitInv, NextInv, ChainHolds, PTL DEF Spec

(* After every step of every thread the pointers of the pool's list are    *)
(* those of one chain from m_pRoot to m_pLast.                             *)
THEOREM ListIsWellFormed == Spec => []ListWellFormed
<1>1. Inv => ListWellFormed
  BY Zenon DEF Inv, Listed, ListWellFormed, S
<1> QED BY <1>1, TimelineInvariant, PTL

(* Alloc never hands out an event that somebody has.                       *)
THEOREM EventHasOneOwner == Spec => []OneOwner
<1>1. Inv => OneOwner
  <2> SUFFICES ASSUME Inv PROVE OneOwner
    OBVIOUS
  <2>1. TypeOK /\ Listed /\ OwnerInv
    BY Zenon DEF Inv
  <2>2. \A x \in Item : Stored(x) <=> \E i \in 1..Len(S) : S[i] = x
    BY <2>1, StoredListed, Zenon
  <2>3. ASSUME NEW x \in Item, queued[x] > 0
        PROVE  queued[x] = 1 /\ x \in heap /\ ~Stored(x)
    <3>1. queued[x] # 0
      BY <2>3
    <3> QED BY <2>1, <2>2, <3>1, Zenon DEF OwnerInv
  <2>4. ASSUME NEW x \in Item, Stored(x) PROVE x \in heap
    <3>1. PICK i \in 1..Len(S) : S[i] = x
      BY <2>2, <2>4, Zenon
    <3>2. S[i] \in heap
      BY <2>1, Zenon DEF OwnerInv
    <3> QED BY <3>1, <3>2, ZenonT(30)
  <2>5. ASSUME NEW p \in Producer, ev[p] # NULL
        PROVE  /\ ev[p] \in heap /\ queued[ev[p]] = 0 /\ ~Stored(ev[p])
               /\ \A q \in Producer : ev[q] = ev[p] => q = p
    <3>1. ev[p] \in Item
      BY <2>1, <2>5, Zenon DEF TypeOK, Pointer, Thread
    <3> QED BY <2>1, <2>2, <2>5, <3>1, Zenon DEF OwnerInv
  <2> QED BY <2>3, <2>4, <2>5, Zenon DEF OneOwner
<1> QED BY <1>1, TimelineInvariant, PTL

(* "Keep events ordered in time": the list is sorted after every step.     *)
THEOREM EventsInTimeOrder == Spec => []TimeOrdered
<1>1. Inv => TimeOrdered
  <2> SUFFICES ASSUME Inv PROVE TimeOrdered
    OBVIOUS
  <2>1. S \in Seq(Item) /\ OrderInv
    BY Zenon DEF Inv, Listed
  <2>2. DOMAIN S = 1..Len(S)
    BY <2>1, SeqFacts, Zenon
  <2> QED BY <2>1, <2>2, Zenon DEF TimeOrdered, OrderInv, S
<1> QED BY <1>1, TimelineInvariant, PTL

(* DequeTimeEvents hands out exactly the events that were due and that no  *)
(* call had handed out, each once and in time order; called with another   *)
(* type it touches none of them; GetTimeEvents returns the stored events.  *)
THEOREM ResultsAreComplete == Spec => []ResultsComplete
<1>1. ASSUME Inv, NEW c \in Consumer, pc[c] = "dequed"
      PROVE  /\ due[c] = {result[c][i] : i \in DOMAIN result[c]}
             /\ \A i, j \in DOMAIN result[c] : i < j =>
                   result[c][i] # result[c][j] /\ time[result[c][i]] <= time[result[c][j]]
             /\ \A x \in Item : Stored(x) /\ time[x] <= arg[c] => triggered[x]
  <2>1. TypeOK /\ Listed /\ WalkInv(c) /\ c \in Thread
    BY <1>1, Zenon DEF Inv, Thread
  <2>2. /\ DueInv(c) /\ Taken(c)
        /\ \A j \in 1..Len(S) : time[S[j]] <= arg[c] => triggered[S[j]]
    BY <1>1, <2>1, Zenon DEF WalkInv
  <2> DEFINE r == result[c]
             D == due[c]
  <2>3. /\ D \in SUBSET Item /\ r \in Seq(Item)
        /\ DOMAIN r = 1..Len(r) /\ Len(r) \in Nat /\ \A i \in 1..Len(r) : r[i] \in Item
    <3>1. D \in SUBSET Item /\ r \in Seq(Item)
      BY <2>1, Zenon DEF TypeOK
    <3> HIDE DEF r, D
    <3> QED BY <3>1, SeqFacts, ZenonT(30)
  <2>4. ASSUME NEW x \in Item PROVE ~Awaits(c, x)
    BY <2>2, Zenon DEF Awaits
  <2>5. \A x \in Item : x \in D <=> \E i \in 1..Len(r) : r[i] = x
    BY <2>2, <2>4, Zenon DEF DueInv, InResult
  <2>6. \A i \in 1..Len(r) :
           /\ \A j \in 1..i : time[r[j]] <= time[r[i]]
           /\ \A j \in 1..Len(r) : r[j] = r[i] => j = i
    BY <2>2, Zenon DEF Taken
  <2>7. \A x \in Item : Stored(x) /\ time[x] <= arg[c] => triggered[x]
    BY <2>1, <2>2, StoredListed, Zenon
  <2> HIDE DEF r, D
  <2>8. D = {r[i] : i \in DOMAIN r}
    BY <2>3, <2>5, ZenonT(30)
  <2>9. ASSUME NEW i \in DOMAIN r, NEW j \in DOMAIN r, i < j
        PROVE  r[i] # r[j] /\ time[r[i]] <= time[r[j]]
    <3>1. i \in 1..Len(r) /\ j \in 1..Len(r)
      BY <2>3, Zenon
    <3>2. i \in 1..j /\ i # j
      BY <2>3, <2>9, <3>1
    <3> QED BY <2>6, <3>1, <3>2, Zenon
  <2> QED BY <2>7, <2>8, <2>9, Zenon DEF r, D
<1>2. ASSUME Inv, NEW c \in Consumer, pc[c] = "scanned"
      PROVE  result[c] = <<>> /\ \A x \in due[c] : ~triggered[x]
  <2>1. ScanInv(c)
    BY <1>2, Zenon DEF Inv, WalkInv, Thread
  <2> QED BY <2>1, Zenon DEF ScanInv
<1>3. ASSUME Inv, NEW c \in Consumer, pc[c] = "listed"
      PROVE  result[c] = Chain(list)
  BY <1>3, Zenon DEF Inv, WalkInv, Thread, S
<1>4. Inv => ResultsComplete
  BY <1>1, <1>2, <1>3, Zenon DEF ResultsComplete
<1> QED BY <1>4, TimelineInvariant, PTL

(* Behind a recent event that is not too old: an event that starts no      *)
(* earlier is recent, and if it is too old it has ended earlier.           *)
LEMMA BehindRecent ==
    ASSUME NEW now \in Nat, NEW window \in Nat, NEW age \in Nat,
           NEW t1 \in Nat, NEW d1 \in Nat, NEW t2 \in Nat, NEW d2 \in Nat,
           now < t1 + window, ~(now > t1 + d1 + age), t1 <= t2
    PROVE  now < t2 + window /\ (now > t2 + d2 + age => t2 + d2 < t1 + d1)
OBVIOUS

(* What ExpireEvents leaves behind although it is too old is recent, and   *)
(* is behind a recent event that ends later and is not too old.            *)
THEOREM ExpiryIsComplete == Spec => []ExpireComplete
<1>1. ASSUME Inv, NEW e \in Expirer, pc[e] = "expired",
             NEW x \in Item, Stored(x), TooOld(e, x)
      PROVE  /\ Recent(e, x)
             /\ \E y \in Item :
                   /\ Stored(y) /\ ~TooOld(e, y) /\ Recent(e, y)
                   /\ time[y] <= time[x] /\ time[x] + duration[x] < time[y] + duration[y]
  <2>1. TypeOK /\ Listed /\ OrderInv /\ WalkInv(e) /\ e \in Thread
    BY <1>1, Zenon DEF Inv, Thread
  <2>2. PICK i \in 1..Len(S) : S[i] = x
    BY <1>1, <2>1, StoredListed, Zenon
  <2>3. PICK k \in 1..(Len(S) + 1) : StoppedAt(e, k)
    BY <1>1, <2>1, Zenon DEF WalkInv
  <2>4. /\ ~(i < k)
        /\ k \in 1..Len(S) => ~TooOld(e, S[k]) /\ Recent(e, S[k])
    BY <1>1, <2>2, <2>3, Zenon DEF StoppedAt
  <2>5. S \in Seq(Item) /\ Len(S) \in Nat
    BY <2>1, SeqFacts, Zenon DEF Listed
  <2>6. k \in 1..Len(S) /\ (k < i \/ k = i)
    BY <2>4, <2>5
  <2> DEFINE y == S[k]
  <2>7. y \in Item /\ Stored(y)
    <3>1. y \in Item
      BY <2>5, <2>6, AtType, Zenon
    <3> QED BY <2>1, <2>6, <3>1, StoredListed, Zenon
  <2>8. ~TooOld(e, y) /\ Recent(e, y)
    BY <2>4, <2>6, Zenon
  <2>9. k < i
    BY <1>1, <2>2, <2>6, <2>8, Zenon
  <2>10. time[y] <= time[x]
    BY <2>1, <2>2, <2>6, <2>9, Zenon DEF OrderInv
  <2> HIDE DEF y
  <2>11. /\ arg[e] \in Nat /\ old[e] \in Nat /\ RecentWindow \in Nat
         /\ time[x] \in Nat /\ duration[x] \in Nat
         /\ time[y] \in Nat /\ duration[y] \in Nat
    BY <2>1, <2>7, TimeAssumption, Zenon DEF TypeOK
  <2>12. /\ arg[e] < time[y] + RecentWindow
         /\ ~(arg[e] > time[y] + duration[y] + old[e])
         /\ arg[e] > time[x] + duration[x] + old[e]
    BY <1>1, <2>8, Zenon DEF TooOld, Recent
  <2>13. /\ arg[e] < time[x] + RecentWindow
         /\ time[x] + duration[x] < time[y] + duration[y]
    BY <2>10, <2>11, <2>12, BehindRecent, Zenon
  <2>14. Recent(e, x)
    BY <2>13, Zenon DEF Recent
  <2> QED BY <2>7, <2>8, <2>10, <2>13, <2>14, Zenon
<1>2. Inv => ExpireComplete
  BY <1>1, Zenon DEF ExpireComplete
<1> QED BY <1>2, TimelineInvariant, PTL

-----------------------------------------------------------------------------
(* The timeline implements the queue of events.                            *)

(* Events is that queue, before and after a step.                          *)
LEMMA EventsAre ==
    /\ Events = QueueOf(S, time, triggered)
    /\ Events' = QueueOf(S', time', triggered')
<1>1. Events = QueueOf(S, time, triggered)
  BY Zenon DEF Events, Entry, EntryOf, QueueOf, S
<1>2. Events' = QueueOf(S', time', triggered')
  BY Zenon DEF Events, Entry, EntryOf, QueueOf, S
<1> QED BY <1>1, <1>2, Zenon

(* Storing an event is Store: it goes behind all that are not later.       *)
LEMMA StoreInsertRefines ==
    ASSUME Inv, NEW p \in Producer, StoreInsert(p)
    PROVE  Q!QueueNext
<1> DEFINE x == ev[p]
           tm == time[x]
           e == [item |-> x, time |-> tm, fired |-> FALSE]
<1>1. S \in Seq(Item) /\ time \in [Item -> Nat] /\ triggered \in [Item -> BOOLEAN]
  BY Zenon DEF Inv, TypeOK, Listed
<1>2. PICK k \in 0..Len(S) :
        /\ S' = With(S, k, x)
        /\ x \in Item /\ \A i \in 1..Len(S) : S[i] # x
        /\ \A i \in 1..Len(S) : i <= k <=> time[S[i]] <= time[x]
  BY StoreInsertKeeps, ChainHolds, Zenon
<1>3. time' = time /\ triggered' = triggered /\ pc[p] = "storeWalk"
  BY DEF StoreInsert, eventVars, Goto
<1>4. tm \in Time /\ ~triggered[x]
  BY <1>3, Zenon DEF Inv, HeldInv
<1>5. Events = QueueOf(S, time, triggered) /\ Events' = QueueOf(With(S, k, x), time, triggered)
  BY <1>2, <1>3, EventsAre, Zenon
<1>6. Q!Store(x, time[x]) /\ Events' # Events
  <2> DEFINE z == QueueOf(With(S, k, x), time, triggered)
             v == QueueOf(S, time, triggered)
             y == [item |-> x, time |-> time[x], fired |-> FALSE]
  <2> HIDE DEF x
  <2>1. /\ z # v /\ DOMAIN v = 1..Len(S) /\ k \in 0..Len(v)
        /\ \A i \in 1..Len(S) : v[i].item = S[i] /\ v[i].time = time[S[i]]
        /\ z = SubSeq(v, 1, k) \o <<EntryOf(x, time, triggered)>> \o SubSeq(v, k + 1, Len(v))
    BY <1>1, <1>2, QueueStores, Zenon
  <2>2. EntryOf(x, time, triggered) = y
    <3>1. triggered[x] = FALSE
      BY <1>1, <1>2, <1>4, Zenon
    <3> QED BY <3>1, Zenon DEF EntryOf
  <2>3. z = Events' /\ v = Events
    BY <1>5, Zenon
  <2> HIDE DEF z, v, y
  <2>4. /\ \A i \in DOMAIN v : v[i].item # x
        /\ \A i \in DOMAIN v : i <= k <=> v[i].time <= time[x]
    BY <1>2, <2>1, Zenon
  <2>5. Events' = SubSeq(Events, 1, k) \o <<y>> \o SubSeq(Events, k + 1, Len(Events))
    BY <2>1, <2>2, <2>3, Zenon
  <2>6. /\ Events' # Events /\ k \in 0..Len(Events)
        /\ \A i \in DOMAIN Events : Events[i].item # x
        /\ \A i \in DOMAIN Events : i <= k <=> Events[i].time <= time[x]
    BY <2>1, <2>3, <2>4, Zenon
  <2> QED BY <2>5, <2>6, Zenon DEF Q!Store, y
<1> HIDE DEF x
<1> QED BY <1>2, <1>4, <1>6, Zenon DEF Q!QueueNext

(* A step that leaves the list, the times and the flags alone changes      *)
(* nothing of the queue.                                                   *)
LEMMA EventsSame ==
    ASSUME UNCHANGED <<list, time, triggered>>
    PROVE  Events' = Events
<1>1. list' = list /\ time' = time /\ triggered' = triggered
  OBVIOUS
<1> QED BY <1>1, Zenon DEF Events, Entry

(* Nor does a producer that writes an event it has not stored yet.         *)
LEMMA HeldEventUnseen ==
    ASSUME Inv, NEW p \in Producer, AllocInit(p) \/ SetTime(p)
    PROVE  Events' = Events
<1>1. /\ S \in Seq(Item) /\ time \in [Item -> Nat] /\ triggered \in [Item -> BOOLEAN]
      /\ pc[p] \in {"writeId", "allocated"} /\ list' = list
  BY ZenonT(30) DEF Inv, TypeOK, Listed, AllocInit, SetTime, Goto
<1>2. \A i \in 1..Len(S) : S[i] \in Item /\ S[i] # ev[p]
  <2>1. ev[p] # NULL
    BY <1>1, Zenon DEF Inv, HeldInv, Holding
  <2>2. \A i \in 1..Len(S) : S[i] # ev[p]
    BY <2>1, Zenon DEF Inv, OwnerInv
  <2>3. \A i \in 1..Len(S) : S[i] \in Item
    BY <1>1, SeqFacts, ZenonT(30)
  <2> QED BY <2>2, <2>3, Zenon
<1>3. \A x \in Item : x # ev[p] => time'[x] = time[x] /\ triggered'[x] = triggered[x]
  <2>1. CASE AllocInit(p)
    BY <1>1, <2>1, Zenon DEF AllocInit
  <2>2. CASE SetTime(p)
    <3>1. PICK tm \in Time : time' = [time EXCEPT ![ev[p]] = tm]
      BY <2>2, Zenon DEF SetTime
    <3>2. triggered' = triggered
      BY <2>2 DEF SetTime
    <3> QED BY <1>1, <3>1, <3>2, Zenon
  <2> QED BY <2>1, <2>2
<1>4. \A i \in 1..Len(S) :
         time'[S[i]] = time[S[i]] /\ triggered'[S[i]] = triggered[S[i]]
  BY <1>2, <1>3, Zenon
<1>5. QueueOf(S, time', triggered') = QueueOf(S, time, triggered)
  <2>1. DOMAIN S = 1..Len(S)
    BY <1>1, SeqFacts
  <2>2. \A i \in 1..Len(S) : EntryOf(S[i], time', triggered') = EntryOf(S[i], time, triggered)
    BY <1>4, Zenon DEF EntryOf
  <2> QED BY <2>1, <2>2, Zenon DEF QueueOf
<1>6. S' = S
  BY <1>1 DEF S
<1> QED BY <1>5, <1>6, EventsAre, Zenon

(* Handing out an event is Fire: all in front of it have fired before.     *)
LEMMA DequeStepRefines ==
    ASSUME Inv, NEW c \in Consumer, DequeStep(c)
    PROVE  Q!QueueNext \/ Events' = Events
<1>1. /\ S \in Seq(Item) /\ time \in [Item -> Nat] /\ triggered \in [Item -> BOOLEAN]
      /\ Distinct(S)
  <2>1. S \in Seq(Item) /\ Represents(list, S)
    BY Zenon DEF Inv, Listed
  <2> QED BY <2>1, LinkedAt, Zenon DEF Inv, TypeOK, Represents
<1>2. S' = S /\ time' = time
  BY DequeStepKeeps, Zenon
<1>3. CASE triggered' = triggered
  <2>1. list' = list
    BY DEF DequeStep
  <2> QED BY <1>2, <1>3, <2>1, EventsSame, ZenonT(30)
<1>4. CASE triggered' # triggered
  <2>1. PICK k \in 1..Len(S) :
          /\ \A j \in 1..Len(S) : j < k => triggered[S[j]]
          /\ ~triggered[S[k]]
          /\ triggered' = [triggered EXCEPT ![S[k]] = TRUE]
    BY <1>4, DequeStepKeeps, Zenon
  <2>2. \A j \in 1..(k - 1) : j \in 1..Len(S) /\ j < k
    <3>1. Len(S) \in Nat
      BY <1>1, SeqFacts, ZenonT(30)
    <3> QED BY <3>1
  <2> DEFINE z == QueueOf(S, time, triggered')
             v == QueueOf(S, time, triggered)
  <2>3. /\ k \in DOMAIN v
        /\ \A j \in 1..Len(S) : v[j].fired = triggered[S[j]]
        /\ z[k].fired
        /\ z = EntryFired(v, k)
    <3>1. FlagSet(triggered', triggered, S[k])
      BY <2>1, Zenon DEF FlagSet
    <3>2. Fires(z, v, S, triggered, k)
      BY <1>1, <3>1, QueueFires, Zenon
    <3> HIDE DEF z, v
    <3> QED BY <3>2, Zenon DEF Fires
  <2>4. z = Events' /\ v = Events
    BY <1>2, <2>1, EventsAre, Zenon
  <2> HIDE DEF z, v
  <2>5. v[k].fired = triggered[S[k]] /\ ~v[k].fired
    BY <2>1, <2>3, Zenon
  <2>6. z # v
    BY <2>3, <2>5, Zenon
  <2>7. \A j \in 1..(k - 1) : v[j].fired
    BY <2>1, <2>2, <2>3, Zenon
  <2>8. /\ Events' # Events /\ k \in DOMAIN Events
        /\ \A j \in 1..(k - 1) : Events[j].fired
        /\ ~Events[k].fired
        /\ Events' = EntryFired(Events, k)
    BY <2>3, <2>4, <2>5, <2>6, <2>7, Zenon
  <2>9. Q!Fire(k)
    BY <2>8, Zenon DEF Q!Fire, EntryFired
  <2> QED BY <2>8, <2>9, Zenon DEF Q!QueueNext
<1> QED BY <1>3, <1>4, Zenon

(* Expiring an event is Remove.                                            *)
LEMMA ExpireVictimRefines ==
    ASSUME Inv, NEW e \in Expirer, ExpireVictim(e)
    PROVE  Q!QueueNext
<1>1. S \in Seq(Item) /\ time \in [Item -> Nat] /\ triggered \in [Item -> BOOLEAN]
  BY Zenon DEF Inv, TypeOK, Listed
<1>2. PICK k \in 1..Len(S) : S' = Without(S, k)
  BY ExpireVictimKeeps, ChainHolds, Zenon
<1>3. time' = time /\ triggered' = triggered
  BY DEF ExpireVictim, eventVars
<1> DEFINE z == QueueOf(Without(S, k), time, triggered)
           v == QueueOf(S, time, triggered)
<1>4. /\ z # v /\ k \in DOMAIN v
      /\ z = SubSeq(v, 1, k - 1) \o SubSeq(v, k + 1, Len(v))
  BY <1>1, QueueRemoves, Zenon
<1>5. z = Events' /\ v = Events
  BY <1>2, <1>3, EventsAre, Zenon
<1> HIDE DEF z, v
<1>6. /\ Events' # Events /\ k \in DOMAIN Events
      /\ Events' = SubSeq(Events, 1, k - 1) \o SubSeq(Events, k + 1, Len(Events))
  BY <1>4, <1>5, Zenon
<1>7. Q!Remove(k)
  BY <1>6, Zenon DEF Q!Remove
<1> QED BY <1>6, <1>7, Zenon DEF Q!QueueNext

(* Every step of every thread is a step of the queue or leaves it alone.   *)
LEMMA NextRefines == Inv /\ [Next]_vars => [Q!QueueNext]_Events
<1> SUFFICES ASSUME Inv, [Next]_vars PROVE Q!QueueNext \/ Events' = Events
  OBVIOUS
<1>1. ASSUME NEW p \in Producer, ProducerStep(p) PROVE Q!QueueNext \/ Events' = Events
  <2>1. CASE AllocItem(p) \/ AllocReadId(p) \/ StoreLock(p) \/ StoreWalk(p)
    <3>1. UNCHANGED <<list, time, triggered>>
      BY <2>1, Zenon DEF AllocItem, AllocReadId, StoreLock, StoreWalk, eventVars
    <3> QED BY <3>1, EventsSame, Zenon
  <2>2. CASE AllocInit(p) \/ SetTime(p)
    BY <2>2, HeldEventUnseen, Zenon
  <2>3. CASE StoreInsert(p)
    BY <2>3, StoreInsertRefines, Zenon
  <2> QED BY <1>1, <2>1, <2>2, <2>3, Zenon DEF ProducerStep
<1>2. ASSUME NEW c \in Consumer, ConsumerStep(c) PROVE Q!QueueNext \/ Events' = Events
  <2>1. CASE DequeLock(c) \/ DequeDone(c) \/ GetLock(c) \/ GetStep(c) \/ GetDone(c)
    <3>1. UNCHANGED <<list, time, triggered>>
      BY <2>1, Zenon DEF DequeLock, DequeDone, GetLock, GetStep, GetDone, eventVars
    <3> QED BY <3>1, EventsSame, Zenon
  <2>2. CASE DequeStep(c)
    BY <2>2, DequeStepRefines, Zenon
  <2> QED BY <1>2, <2>1, <2>2, Zenon DEF ConsumerStep
<1>3. ASSUME NEW e \in Expirer, ExpirerStep(e) PROVE Q!QueueNext \/ Events' = Events
  <2>1. CASE ExpireLock(e) \/ ExpireStep(e) \/ ExpireDone(e)
    <3>1. UNCHANGED <<list, time, triggered>>
      BY <2>1, Zenon DEF ExpireLock, ExpireStep, ExpireDone, eventVars
    <3> QED BY <3>1, EventsSame, Zenon
  <2>2. CASE ExpireVictim(e)
    BY <2>2, ExpireVictimRefines, Zenon
  <2> QED BY <1>3, <2>1, <2>2, Zenon DEF ExpirerStep
<1>4. ASSUME NEW t \in Thread, Unlock(t) PROVE Events' = Events
  <2>1. UNCHANGED <<list, time, triggered>>
    BY <1>4 DEF Unlock, eventVars
  <2> QED BY <2>1, EventsSame, Zenon
<1>5. ASSUME NEW x \in Item, ClearStep(x) PROVE Events' = Events
  <2>1. UNCHANGED <<list, time, triggered>>
    BY <1>5 DEF ClearStep, eventVars
  <2> QED BY <2>1, EventsSame, Zenon
<1>6. CASE UNCHANGED vars
  <2>1. UNCHANGED <<list, time, triggered>>
    BY <1>6 DEF vars, eventVars
  <2> QED BY <2>1, EventsSame, Zenon
<1> QED BY <1>1, <1>2, <1>3, <1>4, <1>5, <1>6, Zenon DEF Next

(* An empty timeline is an empty queue.                                    *)
LEMMA InitRefines == Init => Q!QueueInit
<1> SUFFICES ASSUME Init PROVE Events = <<>>
  BY Zenon DEF Q!QueueInit
<1>1. S = <<>>
  BY EmptyListed, ChainHolds, Zenon DEF Init, S
<1> QED BY <1>1, EventsAre DEF QueueOf

(* The pointers, flags and loops of the timeline, moved by any number of   *)
(* producers, consumers and expirers, implement the queue in which an      *)
(* event goes behind all that are not later, fires once and in order, and  *)
(* leaves one at a time.                                                   *)
THEOREM TimelineIsEventQueue == Spec => ImplementsEventQueue
<1>1. Init => Q!QueueInit
  BY InitRefines
<1>2. Inv /\ [Next]_vars => [Q!QueueNext]_Events
  BY NextRefines
<1> QED BY <1>1, <1>2, TimelineInvariant, PTL DEF Spec, ImplementsEventQueue, Q!QueueSpec
=============================================================================
