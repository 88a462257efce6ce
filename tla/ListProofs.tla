----------------------------- MODULE ListProofs -----------------------------
(***************************************************************************)
(* What the list functions of src/thread/mempool.cpp do to a list, for     *)
(* lists of any length: the pointers they leave are those of the sequence  *)
(* with the item put in or taken out, and walking the pointers gives that  *)
(* sequence back.                                                          *)
(***************************************************************************)
EXTENDS ListOps, Integers, TLAPS

(* The places of a sequence and what is there.                             *)
LEMMA SeqFacts ==
    ASSUME NEW V, NEW s \in Seq(V)
    PROVE  /\ Len(s) \in Nat /\ s \in [1..Len(s) -> V] /\ DOMAIN s = 1..Len(s)
           /\ \A i \in 1..Len(s) : s[i] \in V
           /\ s = <<>> <=> Len(s) = 0
OBVIOUS

(* Two sequences that have the same elements are the same.                 *)
LEMMA SameSeq ==
    ASSUME NEW V, NEW s \in Seq(V), NEW r \in Seq(V), Len(s) = Len(r),
           \A i \in 1..Len(s) : s[i] = r[i]
    PROVE  s = r
<1>1. /\ s \in [1..Len(s) -> V] /\ r \in [1..Len(s) -> V]
  BY SeqFacts, Zenon
<1> QED BY <1>1

(* One sequence behind another.                                            *)
LEMMA ConcatFacts ==
    ASSUME NEW V, NEW s \in Seq(V), NEW r \in Seq(V)
    PROVE  /\ s \o r \in Seq(V) /\ Len(s \o r) = Len(s) + Len(r)
           /\ \A i \in 1..(Len(s) + Len(r)) :
                 (s \o r)[i] = IF i <= Len(s) THEN s[i] ELSE r[i - Len(s)]
OBVIOUS

-----------------------------------------------------------------------------
(* The item at place i of s, or the null pointer outside of it.            *)
At(s, i) == IF i \in 1..Len(s) THEN s[i] ELSE NULL

(* s with x at place k + 1, and s without its k-th item.                   *)
With(s, k, x) ==
    [i \in 1..(Len(s) + 1) |->
        IF i <= k THEN s[i] ELSE IF i = k + 1 THEN x ELSE s[i - 1]]
Without(s, k) == [i \in 1..(Len(s) - 1) |-> IF i < k THEN s[i] ELSE s[i + 1]]

Distinct(s) == \A i, j \in 1..Len(s) : s[i] = s[j] => i = j

(* Walking the pointers of a list gives back the sequence it represents:   *)
(* ChainIs of TimelineTheorems, an assumption of the lemmas before that.   *)
ChainRight == \A l : \A s \in Seq(Item) : Linked(l, s) => Chain(l) = s

(* Linked in terms of places: one equation for each of the pointers.       *)
LEMMA LinkedAt ==
    ASSUME NEW l, NEW s \in Seq(Item)
    PROVE  Linked(l, s) <=>
             /\ Distinct(s)
             /\ l.root = At(s, 1) /\ l.last = At(s, Len(s))
             /\ \A i \in 1..Len(s) : /\ l.next[s[i]] = At(s, i + 1)
                                     /\ l.prev[s[i]] = At(s, i - 1)
<1>1. Len(s) \in Nat /\ (s = <<>> <=> Len(s) = 0)
  BY SeqFacts
<1>2. /\ At(s, 1) = IF s = <<>> THEN NULL ELSE s[1]
      /\ At(s, Len(s)) = IF s = <<>> THEN NULL ELSE s[Len(s)]
  BY <1>1 DEF At
<1>3. \A i \in 1..Len(s) : /\ At(s, i + 1) = IF i < Len(s) THEN s[i+1] ELSE NULL
                           /\ At(s, i - 1) = IF i > 1 THEN s[i-1] ELSE NULL
  BY <1>1 DEF At
<1> HIDE DEF At
<1> QED BY <1>2, <1>3, Zenon DEF Linked, Distinct

-----------------------------------------------------------------------------
(* What is at a place of a sequence of items is an item or null.           *)
LEMMA AtType ==
    ASSUME NEW s \in Seq(Item)
    PROVE  /\ Len(s) \in Nat
           /\ \A i \in 1..Len(s) : s[i] \in Item /\ At(s, i) = s[i] /\ s[i] # NULL
           /\ \A i \in Int : i \notin 1..Len(s) => At(s, i) = NULL
           /\ \A i \in Int : At(s, i) \in Pointer
<1>1. Len(s) \in Nat /\ \A i \in 1..Len(s) : s[i] \in Item
  BY SeqFacts
<1> QED BY <1>1, NullAssumption DEF At, Pointer

(* A sequence of items with one item put in is a sequence of items.        *)
LEMMA WithType ==
    ASSUME NEW s \in Seq(Item), NEW x \in Item, NEW k \in 0..Len(s)
    PROVE  /\ With(s, k, x) \in Seq(Item) /\ Len(With(s, k, x)) = Len(s) + 1
           /\ \A i \in 1..(Len(s) + 1) : With(s, k, x)[i] =
                 IF i <= k THEN s[i] ELSE IF i = k + 1 THEN x ELSE s[i - 1]
<1>1. Len(s) \in Nat /\ \A i \in 1..Len(s) : s[i] \in Item
  BY SeqFacts
<1> DEFINE w == With(s, k, x)
<1>2. w \in [1..(Len(s) + 1) -> Item]
  BY <1>1 DEF With
<1>3. w \in Seq(Item) /\ Len(w) = Len(s) + 1
  <2> HIDE DEF w
  <2> QED BY <1>1, <1>2
<1> QED BY <1>3 DEF With

(* So is one with an item taken out.                                       *)
LEMMA WithoutType ==
    ASSUME NEW s \in Seq(Item), NEW k \in 1..Len(s)
    PROVE  /\ Without(s, k) \in Seq(Item) /\ Len(Without(s, k)) = Len(s) - 1
           /\ \A i \in 1..(Len(s) - 1) :
                 Without(s, k)[i] = IF i < k THEN s[i] ELSE s[i + 1]
<1>1. Len(s) \in Nat /\ \A i \in 1..Len(s) : s[i] \in Item
  BY SeqFacts
<1> DEFINE w == Without(s, k)
<1>2. w \in [1..(Len(s) - 1) -> Item]
  BY <1>1 DEF Without
<1>3. w \in Seq(Item) /\ Len(w) = Len(s) - 1
  <2> HIDE DEF w
  <2>1. Len(s) - 1 \in Nat
    BY <1>1
  <2> QED BY <1>2, <2>1
<1> QED BY <1>3 DEF Without

(* An assignment through a pointer that may be null changes that field.    *)
LEMMA AssignType ==
    ASSUME NEW f \in [Item -> Pointer], NEW p, NEW v \in Pointer
    PROVE  /\ Assign(f, p, v) \in [Item -> Pointer]
           /\ \A y \in Item : Assign(f, p, v)[y] = IF y = p THEN v ELSE f[y]
BY DEF Assign

(* The fields of a list.                                                   *)
LEMMA ListFields ==
    ASSUME NEW l \in ListType
    PROVE  /\ l.root \in Pointer /\ l.last \in Pointer
           /\ l.next \in [Item -> Pointer] /\ l.prev \in [Item -> Pointer]
BY DEF ListType

(* The list r is l with x put in behind the k-th item of s, pointer by     *)
(* pointer.                                                                *)
Spliced(r, l, s, k, x) ==
    /\ r \in ListType
    /\ r.root = IF k = 0 THEN x ELSE l.root
    /\ r.last = IF k = Len(s) THEN x ELSE l.last
    /\ \A y \in Item :
          /\ r.next[y] = IF y = x THEN At(s, k + 1) ELSE IF y = At(s, k) THEN x ELSE l.next[y]
          /\ r.prev[y] = IF y = x THEN At(s, k) ELSE IF y = At(s, k + 1) THEN x ELSE l.prev[y]

(* list_insert_before does that at the item behind, or in an empty list.   *)
LEMMA InsertBeforeSplices ==
    ASSUME NEW l \in ListType, NEW s \in Seq(Item), Linked(l, s),
           NEW x \in Item, \A i \in 1..Len(s) : s[i] # x,
           l.next[x] = NULL, l.prev[x] = NULL,
           NEW k \in 0..Len(s), k < Len(s) \/ s = <<>>
    PROVE  Spliced(InsertBefore(l, At(s, k + 1), x), l, s, k, x)
<1> DEFINE r == InsertBefore(l, At(s, k + 1), x)
<1>1. /\ Distinct(s)
      /\ l.root = At(s, 1) /\ l.last = At(s, Len(s))
      /\ \A i \in 1..Len(s) : /\ l.next[s[i]] = At(s, i + 1)
                              /\ l.prev[s[i]] = At(s, i - 1)
  BY LinkedAt, Zenon
<1>2. CASE s = <<>>
  <2>1. Len(s) = 0 /\ k = 0 /\ \A i \in Int : At(s, i) = NULL
    BY <1>2 DEF At
  <2>2. r = [l EXCEPT !.root = x, !.last = x]
    BY <2>1 DEF InsertBefore
  <2>3. /\ r \in ListType /\ r.root = x /\ r.last = x
        /\ r.next = l.next /\ r.prev = l.prev
    BY <2>2, Zenon DEF ListType, Pointer
  <2> HIDE DEF r
  <2>4. \A y \in Item : y # NULL
    BY NullAssumption
  <2>5. At(s, k) = NULL /\ At(s, k + 1) = NULL
    BY <2>1
  <2> QED BY <2>1, <2>3, <2>4, <2>5 DEF Spliced, r
<1>3. CASE k < Len(s)
  <2> DEFINE pos == At(s, k + 1)
             before == At(s, k)
  <2>1. /\ Len(s) \in Nat /\ k + 1 \in 1..Len(s) /\ k + 1 \in Int
        /\ pos = s[k + 1] /\ pos \in Item /\ pos # NULL
        /\ before \in Pointer
    <3>1. Len(s) \in Nat /\ k + 1 \in 1..Len(s) /\ k \in Int
      BY <1>3
    <3> QED BY <3>1, AtType
  <2>2. l.prev[pos] = before
    <3>1. l.prev[s[k + 1]] = At(s, (k + 1) - 1) /\ (k + 1) - 1 = k
      BY <1>1, <2>1
    <3> QED BY <2>1, <3>1
  <2>3. l.root = pos <=> k = 0
    <3>1. l.root = s[1] /\ 1 \in 1..Len(s)
      BY <1>1, <2>1, AtType
    <3> QED BY <1>1, <2>1, <3>1 DEF Distinct
  <2>4. k # Len(s)
    BY <1>3
  <2>5. pos # x /\ before # x
    <3>1. k \in 1..Len(s) => before # x
      BY AtType
    <3>2. k \notin 1..Len(s) => before # x
      BY AtType, NullAssumption
    <3> QED BY <2>1, <3>1, <3>2
  <2> HIDE DEF pos, before
  <2>6. r = [l EXCEPT !.prev = Assign(Assign(l.prev, pos, x), x, before),
                      !.next = Assign(Assign(l.next, before, x), x, pos),
                      !.root = IF l.root = pos THEN x ELSE l.root]
    BY <2>1, <2>2, Zenon DEF InsertBefore, pos
  <2>7. /\ r \in ListType /\ r.last = l.last
        /\ r.root = IF l.root = pos THEN x ELSE l.root
        /\ r.prev = Assign(Assign(l.prev, pos, x), x, before)
        /\ r.next = Assign(Assign(l.next, before, x), x, pos)
    <3> DEFINE p == Assign(Assign(l.prev, pos, x), x, before)
               n == Assign(Assign(l.next, before, x), x, pos)
               rt == IF l.root = pos THEN x ELSE l.root
    <3>1. x \in Pointer /\ pos \in Pointer
      BY <2>1 DEF Pointer
    <3>2. p \in [Item -> Pointer] /\ n \in [Item -> Pointer] /\ rt \in Pointer
      BY <2>1, <3>1, ListFields, AssignType
    <3> HIDE DEF p, n, rt
    <3>3. r = [l EXCEPT !.prev = p, !.next = n, !.root = rt]
      BY <2>6, Zenon DEF p, n, rt
    <3> HIDE DEF r
    <3>4. /\ r \in ListType /\ r.last = l.last /\ r.root = rt
          /\ r.prev = p /\ r.next = n
      BY <3>2, <3>3, Zenon DEF ListType
    <3> QED BY <3>4, Zenon DEF p, n, rt
  <2> HIDE DEF r
  <2>8. \A y \in Item :
          /\ r.next[y] = IF y = x THEN pos ELSE IF y = before THEN x ELSE l.next[y]
          /\ r.prev[y] = IF y = x THEN before ELSE IF y = pos THEN x ELSE l.prev[y]
    BY <2>7 DEF Assign
  <2> QED BY <2>3, <2>4, <2>7, <2>8 DEF Spliced, pos, before, r
<1>4. k < Len(s) \/ s = <<>>
  OBVIOUS
<1> QED BY <1>2, <1>3, <1>4

(* list_insert_after does it behind the item given, or at the front.       *)
LEMMA InsertAfterSplices ==
    ASSUME NEW l \in ListType, NEW s \in Seq(Item), Linked(l, s),
           NEW x \in Item, \A i \in 1..Len(s) : s[i] # x,
           l.next[x] = NULL, l.prev[x] = NULL,
           NEW k \in 0..Len(s)
    PROVE  Spliced(InsertAfter(l, At(s, k), x), l, s, k, x)
<1> DEFINE r == InsertAfter(l, At(s, k), x)
<1>1. /\ Distinct(s)
      /\ l.root = At(s, 1) /\ l.last = At(s, Len(s))
      /\ \A i \in 1..Len(s) : /\ l.next[s[i]] = At(s, i + 1)
                              /\ l.prev[s[i]] = At(s, i - 1)
  BY LinkedAt, Zenon
<1>2. CASE k = 0
  <2>1. At(s, k) = NULL /\ Len(s) \in Nat /\ k \in Int
    BY <1>2, AtType
  <2>2. k < Len(s) \/ s = <<>>
    BY <1>2, <2>1, SeqFacts
  <2>3. Spliced(InsertBefore(l, At(s, k + 1), x), l, s, k, x)
    BY <2>2, InsertBeforeSplices
  <2>4. k + 1 = 1
    BY <1>2
  <2>5. r = InsertBefore(l, At(s, k + 1), x)
    BY <1>1, <2>1, <2>4, Zenon DEF InsertAfter
  <2> QED BY <2>3, <2>5, Zenon
<1>3. CASE k # 0
  <2> DEFINE pos == At(s, k)
             after == At(s, k + 1)
  <2>1. /\ Len(s) \in Nat /\ k \in 1..Len(s) /\ k + 1 \in Int
        /\ pos = s[k] /\ pos \in Item /\ pos # NULL
        /\ after \in Pointer
    <3>1. Len(s) \in Nat /\ k \in 1..Len(s) /\ k + 1 \in Int
      BY <1>3
    <3> QED BY <3>1, AtType
  <2>2. l.next[pos] = after
    BY <1>1, <2>1
  <2>3. l.last = pos <=> k = Len(s)
    <3>1. l.last = s[Len(s)] /\ Len(s) \in 1..Len(s)
      BY <1>1, <2>1, AtType
    <3> QED BY <1>1, <2>1, <3>1 DEF Distinct
  <2>4. pos # x /\ after # x
    <3>1. k + 1 \in 1..Len(s) => after # x
      BY AtType
    <3>2. k + 1 \notin 1..Len(s) => after # x
      BY <2>1, AtType, NullAssumption
    <3> QED BY <2>1, <3>1, <3>2
  <2> HIDE DEF pos, after
  <2> DEFINE n == Assign(Assign(l.next, pos, x), x, after)
             p == Assign(Assign(l.prev, x, pos), after, x)
             lt == IF l.last = pos THEN x ELSE l.last
  <2>5. x \in Pointer /\ pos \in Pointer
    BY <2>1 DEF Pointer
  <2>6. p \in [Item -> Pointer] /\ n \in [Item -> Pointer] /\ lt \in Pointer
    BY <2>1, <2>5, ListFields, AssignType
  <2>7. \A y \in Item :
          /\ n[y] = IF y = x THEN after ELSE IF y = pos THEN x ELSE l.next[y]
          /\ p[y] = IF y = x THEN pos ELSE IF y = after THEN x ELSE l.prev[y]
    BY <2>4 DEF Assign
  <2> HIDE DEF p, n
  <2>8. r = [l EXCEPT !.last = lt, !.next = n, !.prev = p]
    BY <2>1, <2>2, Zenon DEF InsertAfter, pos, p, n
  <2> HIDE DEF r, lt
  <2>9. /\ r \in ListType /\ r.root = l.root /\ r.last = lt
        /\ r.prev = p /\ r.next = n
    BY <2>6, <2>8, Zenon DEF ListType
  <2> QED BY <1>3, <2>3, <2>7, <2>9 DEF Spliced, lt, pos, after, r
<1> QED BY <1>2, <1>3

(* The items of a sequence without repetition are at one place each.       *)
LEMMA DistinctAt ==
    ASSUME NEW s \in Seq(Item), Distinct(s), NEW a \in 1..Len(s), NEW b \in Int
    PROVE  s[a] = At(s, b) <=> a = b
<1>1. CASE b \in 1..Len(s)
  BY <1>1, AtType DEF Distinct
<1>2. CASE b \notin 1..Len(s)
  BY <1>2, AtType
<1> QED BY <1>1, <1>2

(* The splice of a list that represents s represents s with x put in.      *)
LEMMA SplicedLinked ==
    ASSUME NEW l \in ListType, NEW s \in Seq(Item), Linked(l, s),
           NEW x \in Item, \A i \in 1..Len(s) : s[i] # x,
           NEW k \in 0..Len(s), NEW r, Spliced(r, l, s, k, x)
    PROVE  Linked(r, With(s, k, x))
<1> DEFINE w == With(s, k, x)
           n == Len(s)
<1>1. /\ Distinct(s)
      /\ l.root = At(s, 1) /\ l.last = At(s, Len(s))
      /\ \A i \in 1..Len(s) : /\ l.next[s[i]] = At(s, i + 1)
                              /\ l.prev[s[i]] = At(s, i - 1)
  BY LinkedAt, Zenon
<1>2. /\ w \in Seq(Item) /\ Len(w) = n + 1 /\ n \in Nat
      /\ \A i \in 1..(n + 1) : w[i] = IF i <= k THEN s[i] ELSE IF i = k + 1 THEN x ELSE s[i - 1]
  <2>1. n \in Nat
    OBVIOUS
  <2> QED BY <2>1, WithType, Zenon
<1> HIDE DEF w
<1>3. /\ At(w, k + 1) = x
      /\ \A i \in 0..k : At(w, i) = At(s, i)
      /\ \A i \in (k + 2)..(n + 2) : At(w, i) = At(s, i - 1)
  BY <1>2 DEF At
<1>4. /\ w[k + 1] = x
      /\ \A i \in 1..k : i \in 1..n /\ w[i] = s[i]
      /\ \A i \in (k + 2)..(n + 1) : i - 1 \in 1..n /\ w[i] = s[i - 1]
      /\ \A i \in 1..Len(w) : i \in 1..k \/ i = k + 1 \/ i \in (k + 2)..(n + 1)
  BY <1>2
<1>5. ASSUME NEW a \in 1..n, NEW b \in Int PROVE s[a] = At(s, b) <=> a = b
  BY <1>1, DistinctAt
<1>6. Distinct(w)
  <2> SUFFICES ASSUME NEW i \in 1..Len(w), NEW j \in 1..Len(w), w[i] = w[j]
               PROVE  i = j
    BY DEF Distinct
  <2> DEFINE Old(m) == IF m <= k THEN m ELSE m - 1
  <2>1. ASSUME NEW m \in 1..Len(w)
        PROVE  m # k + 1 => w[m] # x /\ w[m] = s[Old(m)] /\ Old(m) \in 1..n
    BY <1>2, <1>4
  <2>2. CASE i = k + 1 \/ j = k + 1
    BY <1>4, <2>1, <2>2
  <2>3. CASE i # k + 1 /\ j # k + 1
    <3>1. Old(i) = Old(j)
      <4>1. /\ Old(i) \in 1..Len(s) /\ Old(j) \in 1..Len(s)
            /\ s[Old(i)] = s[Old(j)]
        BY <2>1, <2>3
      <4> HIDE DEF Old
      <4> QED BY <1>1, <4>1, Zenon DEF Distinct
    <3> QED BY <1>2, <2>3, <3>1
  <2> QED BY <2>2, <2>3
<1>7. r.root = At(w, 1)
  <2>1. CASE k = 0
    BY <1>3, <2>1 DEF Spliced
  <2>2. CASE k # 0
    <3>1. At(w, 1) = At(s, 1)
      BY <1>2, <1>3, <2>2
    <3> QED BY <1>1, <2>2, <3>1 DEF Spliced
  <2> QED BY <2>1, <2>2
<1>8. r.last = At(w, Len(w))
  <2>1. CASE k = n
    BY <1>2, <1>3, <2>1 DEF Spliced
  <2>2. CASE k # n
    <3>1. n + 1 \in (k + 2)..(n + 2) /\ n + 1 - 1 = n
      BY <1>2, <2>2
    <3>2. At(w, n + 1) = At(s, n)
      BY <1>3, <3>1
    <3> QED BY <1>1, <1>2, <2>2, <3>2 DEF Spliced
  <2> QED BY <2>1, <2>2
<1>9. \A y \in Item :
        /\ r.next[y] = IF y = x THEN At(s, k + 1) ELSE IF y = At(s, k) THEN x ELSE l.next[y]
        /\ r.prev[y] = IF y = x THEN At(s, k) ELSE IF y = At(s, k + 1) THEN x ELSE l.prev[y]
  BY Zenon DEF Spliced
<1>10. ASSUME NEW a \in 1..n
       PROVE  /\ r.next[s[a]] = IF a = k THEN x ELSE At(s, a + 1)
              /\ r.prev[s[a]] = IF a = k + 1 THEN x ELSE At(s, a - 1)
  <2>1. s[a] \in Item /\ s[a] # x /\ k \in Int /\ k + 1 \in Int
    BY <1>2, AtType
  <2>2. (s[a] = At(s, k) <=> a = k) /\ (s[a] = At(s, k + 1) <=> a = k + 1)
    BY <1>5, <2>1
  <2>3. l.next[s[a]] = At(s, a + 1) /\ l.prev[s[a]] = At(s, a - 1)
    BY <1>1
  <2> QED BY <1>9, <2>1, <2>2, <2>3, Zenon
<1>11. ASSUME NEW i \in 1..Len(w)
       PROVE  r.next[w[i]] = At(w, i + 1) /\ r.prev[w[i]] = At(w, i - 1)
  <2>1. CASE i = k + 1
    <3>1. r.next[x] = At(s, k + 1) /\ r.prev[x] = At(s, k)
      BY <1>9
    <3>2. At(w, k + 2) = At(s, k + 2 - 1) /\ At(w, k) = At(s, k)
      BY <1>2, <1>3
    <3>3. k + 1 + 1 = k + 2 /\ k + 2 - 1 = k + 1 /\ k + 1 - 1 = k
      BY <1>2
    <3> QED BY <1>4, <2>1, <3>1, <3>2, <3>3
  <2>2. CASE i \in 1..k
    <3>1. w[i] = s[i] /\ i \in 1..n /\ i # k + 1
      BY <1>2, <1>4, <2>2
    <3>2. r.next[s[i]] = (IF i = k THEN x ELSE At(s, i + 1)) /\ r.prev[s[i]] = At(s, i - 1)
      BY <1>10, <3>1
    <3>3. At(w, i - 1) = At(s, i - 1)
      BY <1>3, <2>2
    <3>4. At(w, i + 1) = IF i = k THEN x ELSE At(s, i + 1)
      BY <1>3, <2>2
    <3> QED BY <3>1, <3>2, <3>3, <3>4
  <2>3. CASE i \in (k + 2)..(n + 1)
    <3>1. w[i] = s[i - 1] /\ i - 1 \in 1..n /\ i - 1 # k /\ (i - 1) + 1 = i
      BY <1>2, <1>4, <2>3
    <3>2. /\ r.next[s[i - 1]] = At(s, i)
          /\ r.prev[s[i - 1]] = IF i - 1 = k + 1 THEN x ELSE At(s, (i - 1) - 1)
      BY <1>10, <3>1
    <3>3. At(w, i + 1) = At(s, i)
      <4>1. i + 1 \in (k + 2)..(n + 2) /\ i + 1 - 1 = i
        BY <1>2, <2>3
      <4> QED BY <1>3, <4>1
    <3>4. At(w, i - 1) = IF i - 1 = k + 1 THEN x ELSE At(s, (i - 1) - 1)
      <4>1. i - 1 # k + 1 => i - 1 \in (k + 2)..(n + 2)
        BY <1>2, <2>3
      <4> QED BY <1>3, <4>1
    <3> QED BY <3>1, <3>2, <3>3, <3>4
  <2> QED BY <1>4, <2>1, <2>2, <2>3
<1> QED BY <1>2, <1>6, <1>7, <1>8, <1>11, LinkedAt, Zenon DEF w

(* The list r is l without the k-th item of s, pointer by pointer.         *)
Cut(r, l, s, k) ==
    /\ r \in ListType
    /\ r.root = IF k = 1 THEN At(s, 2) ELSE l.root
    /\ r.last = IF k = Len(s) THEN At(s, k - 1) ELSE l.last
    /\ \A y \in Item :
          /\ r.next[y] = IF y = s[k] THEN NULL
                         ELSE IF y = At(s, k - 1) THEN At(s, k + 1) ELSE l.next[y]
          /\ r.prev[y] = IF y = s[k] THEN NULL
                         ELSE IF y = At(s, k + 1) THEN At(s, k - 1) ELSE l.prev[y]

(* list_disconnect cuts out the item.                                      *)
LEMMA DisconnectCuts ==
    ASSUME NEW l \in ListType, NEW s \in Seq(Item), Linked(l, s),
           NEW k \in 1..Len(s)
    PROVE  Cut(Disconnect(l, s[k]), l, s, k)
<1> DEFINE x == s[k]
           before == At(s, k - 1)
           after == At(s, k + 1)
           r == Disconnect(l, x)
           root == IF l.root = x THEN after ELSE l.root
           last == IF l.last = x THEN before ELSE l.last
           n == Assign(Assign(l.next, before, after), x, NULL)
           p == Assign(Assign(l.prev, after, before), x, NULL)
<1>1. /\ Distinct(s)
      /\ l.root = At(s, 1) /\ l.last = At(s, Len(s))
      /\ \A i \in 1..Len(s) : /\ l.next[s[i]] = At(s, i + 1)
                              /\ l.prev[s[i]] = At(s, i - 1)
  BY LinkedAt, Zenon
<1>2. /\ x \in Item /\ x # NULL /\ Len(s) \in Nat /\ k - 1 \in Int /\ k + 1 \in Int
      /\ before \in Pointer /\ after \in Pointer
      /\ l.next[x] = after /\ l.prev[x] = before
  BY <1>1, AtType
<1>3. /\ l.root = x <=> k = 1
      /\ l.last = x <=> k = Len(s)
      /\ before # x /\ after # x
  BY <1>1, <1>2, DistinctAt
<1>4. root \in Pointer /\ last \in Pointer
  BY <1>2, ListFields
<1>5. n \in [Item -> Pointer] /\ p \in [Item -> Pointer]
  <2>1. NULL \in Pointer
    BY DEF Pointer
  <2>2. l.next \in [Item -> Pointer] /\ l.prev \in [Item -> Pointer]
    BY ListFields, Zenon
  <2> HIDE DEF before, after, x
  <2>3. /\ Assign(l.next, before, after) \in [Item -> Pointer]
        /\ Assign(l.prev, after, before) \in [Item -> Pointer]
    BY <1>2, <2>2, AssignType, Zenon
  <2> QED BY <1>2, <2>1, <2>3, AssignType, Zenon
<1>6. \A y \in Item :
        /\ n[y] = IF y = x THEN NULL ELSE IF y = before THEN after ELSE l.next[y]
        /\ p[y] = IF y = x THEN NULL ELSE IF y = after THEN before ELSE l.prev[y]
  BY DEF Assign
<1>7. last \in Item => n[last] = NULL
  <2>1. CASE k = Len(s)
    <3>1. last = before /\ after = NULL
      BY <1>2, <1>3, <2>1 DEF At
    <3> HIDE DEF last, before, after, n, x
    <3> QED BY <1>6, <3>1
  <2>2. CASE k # Len(s)
    <3>1. Len(s) \in 1..Len(s) /\ s[Len(s)] \in Item /\ last = s[Len(s)]
      <4>1. Len(s) \in 1..Len(s) /\ s[Len(s)] \in Item
        BY <1>2
      <4>2. l.last = s[Len(s)]
        BY <1>1, <4>1 DEF At
      <4> QED BY <1>3, <2>2, <4>1, <4>2, Zenon
    <3>2. s[Len(s)] # x
      BY <2>2, <3>1, <1>1 DEF Distinct
    <3>3. s[Len(s)] # before
      BY <3>1, <1>1, <1>2, NullAssumption DEF Distinct, At
    <3>4. l.next[s[Len(s)]] = NULL
      <4>1. At(s, Len(s) + 1) = NULL
        BY <1>2 DEF At
      <4> QED BY <1>1, <3>1, <4>1, Zenon
    <3> HIDE DEF last, before, after, n, x
    <3> QED BY <1>6, <3>1, <3>2, <3>3, <3>4, Zenon
  <2> QED BY <2>1, <2>2, Zenon
<1>8. root \in Item => p[root] = NULL
  <2>1. CASE k = 1
    <3>1. root = after /\ before = NULL
      BY <1>2, <1>3, <2>1 DEF At
    <3> HIDE DEF root, before, after, p, x
    <3> QED BY <1>6, <3>1
  <2>2. CASE k # 1
    <3>1. 1 \in 1..Len(s) /\ s[1] \in Item /\ root = s[1]
      <4>1. 1 \in 1..Len(s) /\ s[1] \in Item
        BY <1>2
      <4>2. l.root = s[1]
        BY <1>1, <4>1 DEF At
      <4> QED BY <1>3, <2>2, <4>1, <4>2, Zenon
    <3>2. s[1] # x
      BY <2>2, <3>1, <1>1 DEF Distinct
    <3>3. s[1] # after
      BY <3>1, <1>1, <1>2, NullAssumption DEF Distinct, At
    <3>4. l.prev[s[1]] = NULL
      <4>1. At(s, 1 - 1) = NULL
        BY <1>2 DEF At
      <4> QED BY <1>1, <3>1, <4>1, Zenon
    <3> HIDE DEF root, before, after, p, x
    <3> QED BY <1>6, <3>1, <3>2, <3>3, <3>4, Zenon
  <2> QED BY <2>1, <2>2, Zenon
<1>9. r = [root |-> root, last |-> last,
           next |-> Assign(n, last, NULL), prev |-> Assign(p, root, NULL)]
  <2> HIDE DEF before, after, x
  <2> QED BY <1>2, Zenon DEF Disconnect
<1> HIDE DEF n, p, r, root, last
<1>10. Assign(n, last, NULL) = n /\ Assign(p, root, NULL) = p
  BY <1>5, <1>7, <1>8 DEF Assign
<1>11. /\ r \in ListType /\ r.root = root /\ r.last = last
       /\ r.next = n /\ r.prev = p
  BY <1>4, <1>5, <1>9, <1>10, Zenon DEF ListType
<1>12. root = (IF k = 1 THEN At(s, 2) ELSE l.root) /\ last = (IF k = Len(s) THEN before ELSE l.last)
  BY <1>3 DEF root, last
<1> QED BY <1>6, <1>11, <1>12, Zenon DEF Cut, r, x, before, after

(* What is left of a list that represents s represents s without the item. *)
LEMMA CutLinked ==
    ASSUME NEW l \in ListType, NEW s \in Seq(Item), Linked(l, s),
           NEW k \in 1..Len(s), NEW r, Cut(r, l, s, k)
    PROVE  Linked(r, Without(s, k))
<1> DEFINE w == Without(s, k)
           n == Len(s)
           Old(m) == IF m < k THEN m ELSE m + 1
<1>1. /\ Distinct(s)
      /\ l.root = At(s, 1) /\ l.last = At(s, Len(s))
      /\ \A i \in 1..Len(s) : /\ l.next[s[i]] = At(s, i + 1)
                              /\ l.prev[s[i]] = At(s, i - 1)
  BY LinkedAt, Zenon
<1>2. /\ w \in Seq(Item) /\ Len(w) = n - 1 /\ n \in Nat
      /\ \A i \in 1..(n - 1) : w[i] = IF i < k THEN s[i] ELSE s[i + 1]
  <2>1. n \in Nat
    OBVIOUS
  <2> QED BY <2>1, WithoutType, Zenon
<1> HIDE DEF w
<1>3. /\ \A i \in 0..(k - 1) : At(w, i) = At(s, i)
      /\ \A i \in k..n : At(w, i) = At(s, i + 1)
  BY <1>2 DEF At
<1>4. \A i \in 1..Len(w) : Old(i) \in 1..n /\ Old(i) # k /\ w[i] = s[Old(i)]
  BY <1>2
<1>5. ASSUME NEW a \in 1..n, NEW b \in Int PROVE s[a] = At(s, b) <=> a = b
  BY <1>1, DistinctAt
<1>6. Distinct(w)
  <2> SUFFICES ASSUME NEW i \in 1..Len(w), NEW j \in 1..Len(w), w[i] = w[j]
               PROVE  i = j
    BY DEF Distinct
  <2>1. Old(i) = Old(j)
    <3>1. Old(i) \in 1..Len(s) /\ Old(j) \in 1..Len(s) /\ s[Old(i)] = s[Old(j)]
      BY <1>4
    <3> HIDE DEF Old
    <3> QED BY <1>1, <3>1, Zenon DEF Distinct
  <2> QED BY <1>2, <2>1
<1>7. r.root = At(w, 1)
  <2>1. CASE k = 1
    BY <1>2, <1>3, <2>1 DEF Cut
  <2>2. CASE k # 1
    <3>1. At(w, 1) = At(s, 1)
      BY <1>2, <1>3, <2>2
    <3> QED BY <1>1, <2>2, <3>1 DEF Cut
  <2> QED BY <2>1, <2>2
<1>8. r.last = At(w, Len(w))
  <2>1. CASE k = n
    BY <1>2, <1>3, <2>1 DEF Cut
  <2>2. CASE k # n
    <3>1. n - 1 \in k..n /\ n - 1 + 1 = n
      BY <1>2, <2>2
    <3>2. At(w, n - 1) = At(s, n)
      BY <1>3, <3>1
    <3> QED BY <1>1, <1>2, <2>2, <3>2 DEF Cut
  <2> QED BY <2>1, <2>2
<1>9. \A y \in Item :
        /\ r.next[y] = IF y = s[k] THEN NULL
                       ELSE IF y = At(s, k - 1) THEN At(s, k + 1) ELSE l.next[y]
        /\ r.prev[y] = IF y = s[k] THEN NULL
                       ELSE IF y = At(s, k + 1) THEN At(s, k - 1) ELSE l.prev[y]
  BY Zenon DEF Cut
<1>10. ASSUME NEW a \in 1..n, a # k
       PROVE  /\ r.next[s[a]] = IF a = k - 1 THEN At(s, k + 1) ELSE At(s, a + 1)
              /\ r.prev[s[a]] = IF a = k + 1 THEN At(s, k - 1) ELSE At(s, a - 1)
  <2>1. s[a] \in Item /\ k - 1 \in Int /\ k + 1 \in Int
    BY <1>2, AtType
  <2>2. /\ s[a] = At(s, k - 1) <=> a = k - 1
        /\ s[a] = At(s, k + 1) <=> a = k + 1
    BY <1>5, <2>1
  <2>3. s[a] # s[k]
    BY <1>1, <1>10, Zenon DEF Distinct
  <2>4. l.next[s[a]] = At(s, a + 1) /\ l.prev[s[a]] = At(s, a - 1)
    BY <1>1
  <2> QED BY <1>9, <2>1, <2>2, <2>3, <2>4, Zenon
<1>11. ASSUME NEW i \in 1..Len(w)
       PROVE  r.next[w[i]] = At(w, i + 1) /\ r.prev[w[i]] = At(w, i - 1)
  <2>1. CASE i < k
    <3>1. w[i] = s[i] /\ i \in 1..n /\ i # k /\ i # k + 1 /\ i \in Int
      BY <1>2, <2>1
    <3>2. /\ r.next[s[i]] = IF i = k - 1 THEN At(s, k + 1) ELSE At(s, i + 1)
          /\ r.prev[s[i]] = At(s, i - 1)
      BY <1>10, <3>1
    <3>3. At(w, i - 1) = At(s, i - 1)
      BY <1>3, <2>1
    <3>4. At(w, i + 1) = IF i = k - 1 THEN At(s, k + 1) ELSE At(s, i + 1)
      BY <1>3, <2>1
    <3> QED BY <3>1, <3>2, <3>3, <3>4
  <2>2. CASE ~(i < k)
    <3>1. /\ w[i] = s[i + 1] /\ i + 1 \in 1..n /\ i + 1 # k /\ i + 1 # k - 1
          /\ (i + 1) - 1 = i
      BY <1>2, <1>4, <2>2
    <3>2. /\ r.next[s[i + 1]] = At(s, (i + 1) + 1)
          /\ r.prev[s[i + 1]] = IF i + 1 = k + 1 THEN At(s, k - 1) ELSE At(s, i)
      BY <1>10, <3>1
    <3>3. At(w, i + 1) = At(s, (i + 1) + 1)
      <4>1. i + 1 \in k..n
        BY <1>2, <2>2
      <4> QED BY <1>3, <4>1
    <3>4. At(w, i - 1) = IF i + 1 = k + 1 THEN At(s, k - 1) ELSE At(s, i)
      <4>1. CASE i = k
        BY <1>2, <1>3, <4>1
      <4>2. CASE i # k
        <5>1. i - 1 \in k..n /\ (i - 1) + 1 = i /\ i + 1 # k + 1
          BY <1>2, <2>2, <4>2
        <5> QED BY <1>3, <5>1
      <4> QED BY <4>1, <4>2
    <3> QED BY <3>1, <3>2, <3>3, <3>4
  <2> QED BY <2>1, <2>2
<1> QED BY <1>2, <1>6, <1>7, <1>8, <1>11, LinkedAt, Zenon DEF w

(* list_insert_after on a list that represents s, at the place that the    *)
(* caller walked to.                                                       *)
LEMMA InsertKeeps ==
    ASSUME NEW l \in ListType, NEW s \in Seq(Item), Represents(l, s),
           NEW x \in Item, \A i \in 1..Len(s) : s[i] # x,
           NEW k \in 0..Len(s)
    PROVE  LET r == InsertAfter(l, At(s, k), x)
           IN  r \in ListType /\ Represents(r, With(s, k, x))
<1> DEFINE r == InsertAfter(l, At(s, k), x)
           w == With(s, k, x)
<1>1. Linked(l, s) /\ Isolated(l, s)
  BY DEF Represents
<1>2. l.next[x] = NULL /\ l.prev[x] = NULL
  BY <1>1, Zenon DEF Isolated
<1>3. Spliced(r, l, s, k, x)
  BY <1>1, <1>2, InsertAfterSplices, Zenon
<1> HIDE DEF r
<1>4. Linked(r, w)
  BY <1>1, <1>3, SplicedLinked, Zenon
<1>5. Isolated(r, w)
  <2> SUFFICES ASSUME NEW y \in Item, \A i \in 1..Len(w) : w[i] # y
               PROVE  r.next[y] = NULL /\ r.prev[y] = NULL
    BY DEF Isolated
  <2>1. /\ Len(w) = Len(s) + 1 /\ Len(s) \in Nat
        /\ \A i \in 1..(Len(s) + 1) :
              w[i] = IF i <= k THEN s[i] ELSE IF i = k + 1 THEN x ELSE s[i - 1]
    <3>1. Len(s) \in Nat
      OBVIOUS
    <3> QED BY <3>1, WithType, Zenon
  <2> HIDE DEF w
  <2>2. y # x
    <3>1. k + 1 \in 1..Len(w) /\ w[k + 1] = x
      BY <2>1
    <3> QED BY <3>1, Zenon
  <2>3. \A i \in 1..Len(s) : s[i] # y
    <3> SUFFICES ASSUME NEW i \in 1..Len(s) PROVE s[i] # y
      OBVIOUS
    <3>1. CASE i <= k
      <4>1. i \in 1..Len(w) /\ w[i] = s[i]
        BY <2>1, <3>1
      <4> QED BY <4>1
    <3>2. CASE ~(i <= k)
      <4>1. i + 1 \in 1..Len(w) /\ w[i + 1] = s[i]
        BY <2>1, <3>2
      <4> QED BY <4>1
    <3> QED BY <3>1, <3>2
  <2>4. \A i \in Int : At(s, i) # y
    BY <2>3, NullAssumption DEF At
  <2>5. k \in Int /\ k + 1 \in Int
    BY <2>1
  <2>6. l.next[y] = NULL /\ l.prev[y] = NULL
    BY <1>1, <2>3, Zenon DEF Isolated
  <2> QED BY <1>3, <2>2, <2>4, <2>5, <2>6, Zenon DEF Spliced
<1> QED BY <1>3, <1>4, <1>5, Zenon DEF Represents, Spliced, r, w

(* list_disconnect of an item of the list.                                 *)
LEMMA DisconnectKeeps ==
    ASSUME NEW l \in ListType, NEW s \in Seq(Item), Represents(l, s),
           NEW k \in 1..Len(s)
    PROVE  LET r == Disconnect(l, s[k])
           IN  r \in ListType /\ Represents(r, Without(s, k))
<1> DEFINE r == Disconnect(l, s[k])
           w == Without(s, k)
<1>1. Linked(l, s) /\ Isolated(l, s)
  BY DEF Represents
<1>2. Cut(r, l, s, k)
  BY <1>1, DisconnectCuts, Zenon
<1> HIDE DEF r
<1>3. Linked(r, w)
  BY <1>1, <1>2, CutLinked, Zenon
<1>4. Isolated(r, w)
  <2> SUFFICES ASSUME NEW y \in Item, \A i \in 1..Len(w) : w[i] # y
               PROVE  r.next[y] = NULL /\ r.prev[y] = NULL
    BY DEF Isolated
  <2>1. CASE y = s[k]
    BY <1>2, <2>1, Zenon DEF Cut
  <2>2. CASE y # s[k]
    <3>1. /\ Len(w) = Len(s) - 1 /\ Len(s) \in Nat
          /\ \A i \in 1..(Len(s) - 1) : w[i] = IF i < k THEN s[i] ELSE s[i + 1]
      <4>1. Len(s) \in Nat
        OBVIOUS
      <4> QED BY <4>1, WithoutType, Zenon
    <3> HIDE DEF w
    <3>2. \A i \in 1..Len(s) : s[i] # y
      <4> SUFFICES ASSUME NEW i \in 1..Len(s) PROVE s[i] # y
        OBVIOUS
      <4>1. CASE i < k
        <5>1. i \in 1..Len(w) /\ w[i] = s[i]
          BY <3>1, <4>1
        <5> QED BY <5>1
      <4>2. CASE i = k
        BY <2>2, <4>2
      <4>3. CASE i > k
        <5>1. i - 1 \in 1..Len(w) /\ w[i - 1] = s[i]
          BY <3>1, <4>3
        <5> QED BY <5>1
      <4> QED BY <3>1, <4>1, <4>2, <4>3
    <3>3. \A i \in Int : At(s, i) # y
      BY <3>2, NullAssumption DEF At
    <3>4. k - 1 \in Int /\ k + 1 \in Int
      BY <3>1
    <3>5. l.next[y] = NULL /\ l.prev[y] = NULL
      BY <1>1, <3>2, Zenon DEF Isolated
    <3> QED BY <1>2, <2>2, <3>3, <3>4, <3>5, Zenon DEF Cut
  <2> QED BY <2>1, <2>2
<1> QED BY <1>2, <1>3, <1>4, Zenon DEF Represents, Cut, r, w

(* list_disconnect of an item that is in no list changes nothing, so       *)
(* TPool::Free may disconnect an item that was disconnected before.        *)
LEMMA DisconnectOutside ==
    ASSUME NEW l \in ListType, NEW s \in Seq(Item), Represents(l, s),
           NEW x \in Item, \A i \in 1..Len(s) : s[i] # x
    PROVE  Disconnect(l, x) = l
<1>1. Linked(l, s) /\ Isolated(l, s)
  BY DEF Represents
<1>2. l.next[x] = NULL /\ l.prev[x] = NULL
  BY <1>1, Zenon DEF Isolated
<1>3. /\ Len(s) \in Nat
      /\ l.root = At(s, 1) /\ l.last = At(s, Len(s))
      /\ \A i \in 1..Len(s) : /\ l.next[s[i]] = At(s, i + 1)
                              /\ l.prev[s[i]] = At(s, i - 1)
  BY <1>1, LinkedAt
<1>4. l.root # x /\ l.last # x
  BY <1>3, NullAssumption DEF At
<1>5. l.last \in Item => l.next[l.last] = NULL
  <2>1. CASE Len(s) = 0
    BY <1>3, <2>1, NullAssumption DEF At
  <2>2. CASE Len(s) # 0
    <3>1. Len(s) \in 1..Len(s) /\ At(s, Len(s) + 1) = NULL /\ l.last = s[Len(s)]
      BY <1>3, <2>2 DEF At
    <3> QED BY <1>3, <3>1, Zenon
  <2> QED BY <2>1, <2>2
<1>6. l.root \in Item => l.prev[l.root] = NULL
  <2>1. CASE Len(s) = 0
    BY <1>3, <2>1, NullAssumption DEF At
  <2>2. CASE Len(s) # 0
    <3>1. 1 \in 1..Len(s) /\ At(s, 1 - 1) = NULL /\ l.root = s[1]
      BY <1>3, <2>2 DEF At
    <3> QED BY <1>3, <3>1, Zenon
  <2> QED BY <2>1, <2>2
<1>7. l.next \in [Item -> Pointer] /\ l.prev \in [Item -> Pointer]
  BY ListFields, Zenon
<1>8. ASSUME NEW f \in [Item -> Pointer], NEW y, NEW v, y \in Item => f[y] = v
      PROVE  Assign(f, y, v) = f
  BY <1>8 DEF Assign
<1>9. /\ Assign(l.next, NULL, NULL) = l.next /\ Assign(l.prev, NULL, NULL) = l.prev
      /\ Assign(l.next, x, NULL) = l.next /\ Assign(l.prev, x, NULL) = l.prev
      /\ Assign(l.next, l.last, NULL) = l.next /\ Assign(l.prev, l.root, NULL) = l.prev
  <2>1. Assign(l.next, NULL, NULL) = l.next /\ Assign(l.prev, NULL, NULL) = l.prev
    BY <1>7, <1>8, NullAssumption
  <2>2. Assign(l.next, x, NULL) = l.next /\ Assign(l.prev, x, NULL) = l.prev
    BY <1>2, <1>7, <1>8
  <2>3. Assign(l.next, l.last, NULL) = l.next /\ Assign(l.prev, l.root, NULL) = l.prev
    BY <1>5, <1>6, <1>7, <1>8
  <2> QED BY <2>1, <2>2, <2>3
<1>10. Disconnect(l, x) = [root |-> l.root, last |-> l.last, next |-> l.next, prev |-> l.prev]
  BY <1>2, <1>4, <1>9, Zenon DEF Disconnect
<1>11. l = [root |-> l.root, last |-> l.last, next |-> l.next, prev |-> l.prev]
  BY DEF ListType
<1> QED BY <1>10, <1>11, Zenon

(* An item is the root or has a predecessor exactly when it is in the list.*)
LEMMA StoredIn ==
    ASSUME NEW l \in ListType, NEW s \in Seq(Item), Represents(l, s), NEW x \in Item
    PROVE  l.root = x \/ l.prev[x] # NULL <=> \E i \in 1..Len(s) : s[i] = x
<1>1. Linked(l, s) /\ Isolated(l, s)
  BY DEF Represents
<1>2. /\ Len(s) \in Nat
      /\ l.root = At(s, 1)
      /\ \A i \in 1..Len(s) : l.prev[s[i]] = At(s, i - 1)
  BY <1>1, LinkedAt
<1>3. ASSUME l.root = x \/ l.prev[x] # NULL
      PROVE  \E i \in 1..Len(s) : s[i] = x
  <2>1. CASE l.root = x
    BY <1>2, <2>1, NullAssumption DEF At
  <2>2. CASE l.prev[x] # NULL
    BY <1>1, <2>2, Zenon DEF Isolated
  <2> QED BY <1>3, <2>1, <2>2
<1>4. ASSUME NEW i \in 1..Len(s), s[i] = x
      PROVE  l.root = x \/ l.prev[x] # NULL
  <2>1. CASE i = 1
    BY <1>2, <1>4, <2>1 DEF At
  <2>2. CASE i # 1
    <3>1. i - 1 \in 1..Len(s) /\ l.prev[x] = At(s, i - 1)
      BY <1>2, <1>4, <2>2
    <3> QED BY <3>1, AtType
  <2> QED BY <2>1, <2>2
<1> QED BY <1>3, <1>4, Zenon

(* The items of a sequence with x put in: the ones in front of x, x, and   *)
(* the ones behind it.                                                     *)
LEMMA WithItems ==
    ASSUME NEW s \in Seq(Item), NEW x \in Item, NEW k \in 0..Len(s),
           NEW i \in 1..Len(With(s, k, x))
    PROVE  LET w == With(s, k, x)
           IN  \/ i <= k /\ i \in 1..Len(s) /\ w[i] = s[i]
               \/ i = k + 1 /\ w[i] = x
               \/ i > k + 1 /\ i - 1 \in 1..Len(s) /\ w[i] = s[i - 1]
<1> DEFINE w == With(s, k, x)
<1>1. Len(s) \in Nat /\ \A j \in 1..Len(s) : s[j] \in Item
  BY AtType
<1>2. /\ Len(w) = Len(s) + 1
      /\ \A j \in 1..(Len(s) + 1) :
            w[j] = IF j <= k THEN s[j] ELSE IF j = k + 1 THEN x ELSE s[j - 1]
  BY WithType, Zenon
<1> HIDE DEF w
<1>3. i \in 1..Len(w)
  BY DEF w
<1>4. \/ i <= k /\ i \in 1..Len(s) /\ w[i] = s[i]
      \/ i = k + 1 /\ w[i] = x
      \/ i > k + 1 /\ i - 1 \in 1..Len(s) /\ w[i] = s[i - 1]
  BY <1>1, <1>2, <1>3
<1> QED BY <1>4, Zenon DEF w

(* The sequence stays in the order of f when x is put in its place.        *)
LEMMA WithOrdered ==
    ASSUME NEW s \in Seq(Item), NEW x \in Item, NEW k \in 0..Len(s),
           NEW f \in [Item -> Nat],
           \A i, j \in 1..Len(s) : i < j => f[s[i]] <= f[s[j]],
           \A i \in 1..Len(s) : i <= k => f[s[i]] <= f[x],
           \A i \in 1..Len(s) : i > k => f[x] < f[s[i]]
    PROVE  LET w == With(s, k, x)
           IN  \A i, j \in 1..Len(w) : i < j => f[w[i]] <= f[w[j]]
<1> DEFINE w == With(s, k, x)
<1>1. Len(s) \in Nat /\ \A i \in 1..Len(s) : s[i] \in Item
  BY AtType
<1>2. Len(w) = Len(s) + 1
  BY WithType, Zenon
<1>3. ASSUME NEW i \in 1..Len(w)
      PROVE  \/ i <= k /\ i \in 1..Len(s) /\ w[i] = s[i]
             \/ i = k + 1 /\ w[i] = x
             \/ i > k + 1 /\ i - 1 \in 1..Len(s) /\ w[i] = s[i - 1]
  BY WithItems, Zenon
<1> HIDE DEF w
<1>4. \A i, j \in 1..Len(s) : i < j => f[s[i]] <= f[s[j]]
  OBVIOUS
<1>5. ASSUME NEW i \in 1..Len(w), NEW j \in 1..Len(w), i < j
      PROVE  f[w[i]] <= f[w[j]]
  <2>1. \A a \in 1..Len(s) : f[s[a]] \in Nat
    BY <1>1
  <2>2. CASE i <= k /\ i \in 1..Len(s) /\ w[i] = s[i]
    <3>1. CASE j <= k /\ j \in 1..Len(s) /\ w[j] = s[j]
      BY <1>5, <2>2, <3>1
    <3>2. CASE j = k + 1 /\ w[j] = x
      BY <1>5, <2>2, <3>2
    <3>3. CASE j > k + 1 /\ j - 1 \in 1..Len(s) /\ w[j] = s[j - 1]
      <4>1. i < j - 1
        BY <1>1, <2>2, <3>3
      <4> QED BY <1>5, <2>2, <3>3, <4>1, Zenon
    <3> QED BY <1>3, <3>1, <3>2, <3>3, Zenon
  <2>3. CASE i = k + 1 /\ w[i] = x
    <3>1. j > k + 1 /\ j - 1 \in 1..Len(s) /\ w[j] = s[j - 1]
      BY <1>1, <1>3, <1>5, <2>3
    <3>2. f[x] \in Nat /\ f[s[j - 1]] \in Nat
      BY <2>1, <3>1
    <3>3. j - 1 > k
      BY <3>1
    <3>4. f[x] < f[s[j - 1]]
      BY <3>1, <3>3, Zenon
    <3> QED BY <2>3, <3>1, <3>2, <3>4
  <2>4. CASE i > k + 1 /\ i - 1 \in 1..Len(s) /\ w[i] = s[i - 1]
    <3>1. /\ j > k + 1 /\ j - 1 \in 1..Len(s) /\ w[j] = s[j - 1]
          /\ i - 1 < j - 1
      BY <1>1, <1>3, <1>5, <2>4, SMTT(20)
    <3> QED BY <1>5, <2>4, <3>1, Zenon
  <2> QED BY <1>3, <2>2, <2>3, <2>4, Zenon
<1> QED BY <1>5, Zenon DEF w

(* The items of a sequence without its k-th: the ones in front of it and   *)
(* the ones behind it.                                                     *)
LEMMA WithoutItems ==
    ASSUME NEW s \in Seq(Item), NEW k \in 1..Len(s), NEW i \in 1..Len(Without(s, k))
    PROVE  LET w == Without(s, k)
           IN  \/ i < k /\ i \in 1..Len(s) /\ w[i] = s[i]
               \/ k <= i /\ i + 1 \in 1..Len(s) /\ w[i] = s[i + 1]
<1> DEFINE w == Without(s, k)
<1>1. Len(s) \in Nat
  OBVIOUS
<1>2. /\ Len(w) = Len(s) - 1
      /\ \A j \in 1..(Len(s) - 1) : w[j] = IF j < k THEN s[j] ELSE s[j + 1]
  BY <1>1, WithoutType, Zenon
<1>3. i \in 1..Len(w)
  BY DEF w
<1> HIDE DEF w
<1>4. \/ i < k /\ i \in 1..Len(s) /\ w[i] = s[i]
      \/ k <= i /\ i + 1 \in 1..Len(s) /\ w[i] = s[i + 1]
  BY <1>1, <1>2, <1>3
<1> QED BY <1>4, Zenon DEF w

(* Counting up stays in Nat.                                               *)
LEMMA NatSucc ==
    ASSUME NEW n \in Nat
    PROVE  n + 1 \in Nat
OBVIOUS

(* They are items of the sequence, and the k-th is not one of them.        *)
LEMMA WithoutOthers ==
    ASSUME NEW s \in Seq(Item), Distinct(s), NEW k \in 1..Len(s)
    PROVE  LET w == Without(s, k)
           IN  \A i \in 1..Len(w) : (\E j \in 1..Len(s) : w[i] = s[j]) /\ w[i] # s[k]
<1> DEFINE w == Without(s, k)
<1>1. ASSUME NEW i \in 1..Len(w)
      PROVE  \/ i < k /\ i \in 1..Len(s) /\ w[i] = s[i]
             \/ k <= i /\ i + 1 \in 1..Len(s) /\ w[i] = s[i + 1]
  BY WithoutItems, Zenon
<1> HIDE DEF w
<1>2. ASSUME NEW i \in 1..Len(w)
      PROVE  (\E j \in 1..Len(s) : w[i] = s[j]) /\ w[i] # s[k]
  <2>1. PICK j \in 1..Len(s) : w[i] = s[j] /\ j # k
    BY <1>1
  <2>2. s[j] # s[k]
    BY <2>1, Zenon DEF Distinct
  <2> QED BY <2>1, <2>2, Zenon
<1> QED BY <1>2, Zenon DEF w

(* The sequence stays in the order of f.                                   *)
LEMMA WithoutOrdered ==
    ASSUME NEW s \in Seq(Item), NEW k \in 1..Len(s), NEW f \in [Item -> Nat],
           \A i, j \in 1..Len(s) : i < j => f[s[i]] <= f[s[j]]
    PROVE  LET w == Without(s, k)
           IN  \A i, j \in 1..Len(w) : i < j => f[w[i]] <= f[w[j]]
<1> DEFINE w == Without(s, k)
<1>1. ASSUME NEW i \in 1..Len(w)
      PROVE  \/ i < k /\ i \in 1..Len(s) /\ w[i] = s[i]
             \/ k <= i /\ i + 1 \in 1..Len(s) /\ w[i] = s[i + 1]
  BY WithoutItems, Zenon
<1> HIDE DEF w
<1>2. ASSUME NEW i \in 1..Len(w), NEW j \in 1..Len(w), i < j
      PROVE  f[w[i]] <= f[w[j]]
  <2>1. PICK a \in 1..Len(s) : w[i] = s[a] /\ a = IF i < k THEN i ELSE i + 1
    BY <1>1
  <2>2. PICK b \in 1..Len(s) : w[j] = s[b] /\ b = IF j < k THEN j ELSE j + 1
    BY <1>1
  <2>3. a < b
    BY <1>2, <2>1, <2>2
  <2> QED BY <2>1, <2>2, <2>3, Zenon
<1> QED BY <1>2, Zenon DEF w

-----------------------------------------------------------------------------
(* z is v with y behind the k first, and v without the k-th, by places.    *)
PutIn(z, v, k, y) ==
    /\ Len(z) = Len(v) + 1
    /\ \A i \in 1..(Len(v) + 1) :
          z[i] = IF i <= k THEN v[i] ELSE IF i = k + 1 THEN y ELSE v[i - 1]
TakenOut(z, v, k) ==
    /\ Len(z) = Len(v) - 1
    /\ \A i \in 1..(Len(v) - 1) : z[i] = IF i < k THEN v[i] ELSE v[i + 1]

(* A sequence with y put in behind its k-th element, cut and put together. *)
LEMMA SpliceSeq ==
    ASSUME NEW V, NEW v \in Seq(V), NEW y \in V, NEW k \in 0..Len(v),
           NEW z \in Seq(V), PutIn(z, v, k, y)
    PROVE  z = SubSeq(v, 1, k) \o <<y>> \o SubSeq(v, k + 1, Len(v))
<1> DEFINE a == SubSeq(v, 1, k)
           b == SubSeq(v, k + 1, Len(v))
           c == a \o <<y>>
<1>1. Len(v) \in Nat
  OBVIOUS
<1>2. a \in Seq(V) /\ Len(a) = k /\ \A i \in 1..k : a[i] = v[i]
  BY <1>1
<1>3. b \in Seq(V) /\ Len(b) = Len(v) - k /\ \A i \in 1..(Len(v) - k) : b[i] = v[k + i]
  BY <1>1
<1> HIDE DEF a, b
<1>4. /\ c \in Seq(V) /\ Len(c) = k + 1 /\ c[k + 1] = y
      /\ \A i \in 1..k : c[i] = v[i]
  BY <1>2
<1> HIDE DEF c
<1> DEFINE d == c \o b
<1>5. /\ d \in Seq(V) /\ Len(d) = Len(c) + Len(b)
      /\ \A i \in 1..(Len(c) + Len(b)) : d[i] = IF i <= Len(c) THEN c[i] ELSE b[i - Len(c)]
  BY <1>3, <1>4, ConcatFacts, Zenon
<1> HIDE DEF d
<1>6. Len(d) = Len(v) + 1
  BY <1>1, <1>3, <1>4, <1>5
<1>7. ASSUME NEW i \in 1..(Len(v) + 1) PROVE z[i] = d[i]
  <2>1. i \in 1..(Len(c) + Len(b)) /\ i \in Int /\ k \in Int
    BY <1>1, <1>3, <1>4
  <2>2. d[i] = IF i <= Len(c) THEN c[i] ELSE b[i - Len(c)]
    BY <1>5, <2>1, Zenon
  <2>3. CASE i <= k
    <3>1. i \in 1..k /\ i <= Len(c) /\ z[i] = v[i]
      BY <1>4, <2>3 DEF PutIn
    <3> QED BY <1>4, <2>2, <3>1, Zenon
  <2>4. CASE i = k + 1
    <3>1. ~(i <= k) /\ i <= Len(c) /\ z[i] = y
      BY <1>4, <2>4 DEF PutIn
    <3> QED BY <1>4, <2>2, <2>4, <3>1, Zenon
  <2>5. CASE ~(i <= k) /\ i # k + 1
    <3>1. z[i] = v[i - 1]
      BY <2>5, Zenon DEF PutIn
    <3>2. ~(i <= Len(c)) /\ i - Len(c) \in 1..(Len(v) - k) /\ k + (i - Len(c)) = i - 1
      BY <1>1, <1>4, <2>1, <2>5
    <3> QED BY <1>3, <2>2, <3>1, <3>2, Zenon
  <2> QED BY <2>3, <2>4, <2>5, Zenon
<1>8. z = d
  <2>1. Len(z) = Len(d) /\ \A i \in 1..Len(z) : z[i] = d[i]
    BY <1>6, <1>7, Zenon DEF PutIn
  <2> QED BY <1>5, <2>1, SameSeq, Zenon
<1> QED BY <1>8 DEF a, b, c, d

(* A sequence without its k-th element, cut and put together.              *)
LEMMA CutSeq ==
    ASSUME NEW V, NEW v \in Seq(V), NEW k \in 1..Len(v),
           NEW z \in Seq(V), TakenOut(z, v, k)
    PROVE  z = SubSeq(v, 1, k - 1) \o SubSeq(v, k + 1, Len(v))
<1> DEFINE a == SubSeq(v, 1, k - 1)
           b == SubSeq(v, k + 1, Len(v))
<1>1. Len(v) \in Nat
  OBVIOUS
<1>2. a \in Seq(V) /\ Len(a) = k - 1 /\ \A i \in 1..(k - 1) : a[i] = v[i]
  BY <1>1
<1>3. b \in Seq(V) /\ Len(b) = Len(v) - k /\ \A i \in 1..(Len(v) - k) : b[i] = v[k + i]
  BY <1>1
<1> HIDE DEF a, b
<1> DEFINE d == a \o b
<1>4. /\ d \in Seq(V) /\ Len(d) = Len(a) + Len(b)
      /\ \A i \in 1..(Len(a) + Len(b)) : d[i] = IF i <= Len(a) THEN a[i] ELSE b[i - Len(a)]
  BY <1>2, <1>3, ConcatFacts, Zenon
<1> HIDE DEF d
<1>5. Len(d) = Len(v) - 1
  BY <1>1, <1>2, <1>3, <1>4
<1>6. ASSUME NEW i \in 1..(Len(v) - 1) PROVE z[i] = d[i]
  <2>1. i \in 1..(Len(a) + Len(b)) /\ i \in Int /\ k \in Int
    BY <1>1, <1>2, <1>3
  <2>2. d[i] = IF i <= Len(a) THEN a[i] ELSE b[i - Len(a)]
    BY <1>4, <2>1, Zenon
  <2>3. CASE i < k
    <3>1. i \in 1..(k - 1) /\ i <= Len(a) /\ z[i] = v[i]
      BY <1>2, <2>3 DEF TakenOut
    <3> QED BY <1>2, <2>2, <3>1, Zenon
  <2>4. CASE ~(i < k)
    <3>1. z[i] = v[i + 1]
      BY <2>4, Zenon DEF TakenOut
    <3>2. ~(i <= Len(a)) /\ i - Len(a) \in 1..(Len(v) - k) /\ k + (i - Len(a)) = i + 1
      BY <1>1, <1>2, <2>1, <2>4
    <3> QED BY <1>3, <2>2, <3>1, <3>2, Zenon
  <2> QED BY <2>3, <2>4, Zenon
<1>7. z = d
  <2>1. Len(z) = Len(d) /\ \A i \in 1..Len(z) : z[i] = d[i]
    BY <1>5, <1>6, Zenon DEF TakenOut
  <2> QED BY <1>4, <2>1, SameSeq, Zenon
<1> QED BY <1>7 DEF a, b, d

(* The queue that a sequence of events stands for, as Q maps it.           *)
EntryOf(x, tm, fi) == [item |-> x, time |-> tm[x], fired |-> fi[x]]
QueueOf(s, tm, fi) == [i \in DOMAIN s |-> EntryOf(s[i], tm, fi)]
Entries == [item : Item, time : Nat, fired : BOOLEAN]

(* The fields of an entry.                                                 *)
LEMMA EntryFields ==
    ASSUME NEW x, NEW tm, NEW fi
    PROVE  /\ EntryOf(x, tm, fi).item = x /\ EntryOf(x, tm, fi).time = tm[x]
           /\ EntryOf(x, tm, fi).fired = fi[x]
BY SMT DEF EntryOf

(* Setting a field of a record.                                            *)
LEMMA RecordExcept ==
    ASSUME NEW a, NEW b, NEW c, NEW d
    PROVE  [[item |-> a, time |-> b, fired |-> c] EXCEPT !.fired = d]
             = [item |-> a, time |-> b, fired |-> d]
OBVIOUS

(* A function on 1..n is a sequence of length n.                           *)
LEMMA SeqOfLength ==
    ASSUME NEW V, NEW n \in Nat, NEW q \in [1..n -> V]
    PROVE  q \in Seq(V) /\ Len(q) = n /\ DOMAIN q = 1..n
OBVIOUS

(* Its entries, one for each stored event.                                 *)
LEMMA QueueEntries ==
    ASSUME NEW s \in Seq(Item), NEW tm \in [Item -> Nat], NEW fi \in [Item -> BOOLEAN]
    PROVE  /\ QueueOf(s, tm, fi) \in Seq(Entries)
           /\ Len(QueueOf(s, tm, fi)) = Len(s) /\ DOMAIN QueueOf(s, tm, fi) = 1..Len(s)
           /\ Len(s) \in Nat
           /\ \A i \in 1..Len(s) :
                 /\ QueueOf(s, tm, fi)[i] = EntryOf(s[i], tm, fi)
                 /\ s[i] \in Item /\ tm[s[i]] \in Nat
<1>2. DOMAIN s = 1..Len(s) /\ Len(s) \in Nat /\ \A i \in 1..Len(s) : s[i] \in Item
  BY SeqFacts
<1> DEFINE F(i) == EntryOf(s[i], tm, fi)
           q == QueueOf(s, tm, fi)
<1>3. q = [i \in 1..Len(s) |-> F(i)]
  BY <1>2, Zenon DEF QueueOf
<1>4. \A i \in 1..Len(s) : F(i) \in Entries
  BY <1>2, Zenon DEF Entries, EntryOf
<1> HIDE DEF F, q
<1>5. q \in [1..Len(s) -> Entries]
  BY <1>3, <1>4, Zenon
<1>6. q \in Seq(Entries) /\ Len(q) = Len(s)
  BY <1>2, <1>5, SeqOfLength, Zenon
<1>7. DOMAIN q = 1..Len(s)
  BY <1>3, Zenon
<1>8. \A i \in 1..Len(s) : q[i] = F(i)
  BY <1>3, Zenon
<1>9. \A i \in 1..Len(s) : s[i] \in Item /\ tm[s[i]] \in Nat
  BY <1>2, Zenon
<1> QED BY <1>2, <1>6, <1>7, <1>8, <1>9, Zenon DEF F, q

(* What the queue becomes when an event is stored behind the k first.      *)
LEMMA QueueStores ==
    ASSUME NEW s \in Seq(Item), NEW tm \in [Item -> Nat], NEW fi \in [Item -> BOOLEAN],
           NEW x \in Item, NEW k \in 0..Len(s)
    PROVE  LET z == QueueOf(With(s, k, x), tm, fi)
               v == QueueOf(s, tm, fi)
           IN
           /\ z # v /\ DOMAIN v = 1..Len(s) /\ k \in 0..Len(v)
           /\ \A i \in 1..Len(s) : v[i].item = s[i] /\ v[i].time = tm[s[i]]
           /\ z = SubSeq(v, 1, k) \o <<EntryOf(x, tm, fi)>> \o SubSeq(v, k + 1, Len(v))
<1> DEFINE w == With(s, k, x)
           z == QueueOf(w, tm, fi)
           v == QueueOf(s, tm, fi)
           y == EntryOf(x, tm, fi)
<1>1. w \in Seq(Item) /\ Len(w) = Len(s) + 1
  BY WithType, Zenon
<1>2. /\ v \in Seq(Entries) /\ Len(v) = Len(s) /\ DOMAIN v = 1..Len(s) /\ Len(s) \in Nat
      /\ \A i \in 1..Len(s) : v[i] = EntryOf(s[i], tm, fi)
  BY QueueEntries, Zenon
<1>3. \A i \in 1..(Len(s) + 1) :
         w[i] = IF i <= k THEN s[i] ELSE IF i = k + 1 THEN x ELSE s[i - 1]
  BY Zenon DEF With
<1> HIDE DEF w
<1>4. /\ z \in Seq(Entries) /\ Len(z) = Len(w)
      /\ \A i \in 1..Len(w) : z[i] = EntryOf(w[i], tm, fi)
  BY <1>1, QueueEntries, Zenon
<1>5. y \in Entries
  BY Zenon DEF Entries, EntryOf
<1> HIDE DEF v, z, y
<1>6. Len(z) = Len(v) + 1 /\ z # v
  BY <1>1, <1>2, <1>4
<1>7. \A i \in 1..Len(s) : v[i].item = s[i] /\ v[i].time = tm[s[i]]
  BY <1>2, SMT DEF EntryOf
<1>8. ASSUME NEW i \in 1..(Len(v) + 1)
      PROVE  z[i] = IF i <= k THEN v[i] ELSE IF i = k + 1 THEN y ELSE v[i - 1]
  <2>1. z[i] = EntryOf(w[i], tm, fi)
    BY <1>1, <1>2, <1>4, Zenon
  <2>2. w[i] = IF i <= k THEN s[i] ELSE IF i = k + 1 THEN x ELSE s[i - 1]
    BY <1>2, <1>3, Zenon
  <2>3. /\ i <= k => i \in 1..Len(s)
        /\ ~(i <= k) /\ i # k + 1 => i - 1 \in 1..Len(s)
    BY <1>2
  <2> QED BY <1>2, <2>1, <2>2, <2>3, Zenon DEF y
<1>9. k \in 0..Len(v)
  BY <1>2, Zenon
<1>10. z = SubSeq(v, 1, k) \o <<y>> \o SubSeq(v, k + 1, Len(v))
  <2>1. v \in Seq(Entries) /\ z \in Seq(Entries)
    BY <1>2, <1>4, Zenon
  <2>2. PutIn(z, v, k, y)
    BY <1>6, <1>8, Zenon DEF PutIn
  <2> QED BY <1>5, <1>9, <2>1, <2>2, SpliceSeq, Zenon
<1> QED BY <1>2, <1>6, <1>7, <1>9, <1>10, Zenon DEF y, v, z, w

(* What the queue becomes when the k-th event leaves.                      *)
LEMMA QueueRemoves ==
    ASSUME NEW s \in Seq(Item), NEW tm \in [Item -> Nat], NEW fi \in [Item -> BOOLEAN],
           NEW k \in 1..Len(s)
    PROVE  LET z == QueueOf(Without(s, k), tm, fi)
               v == QueueOf(s, tm, fi)
           IN
           /\ z # v /\ k \in DOMAIN v
           /\ z = SubSeq(v, 1, k - 1) \o SubSeq(v, k + 1, Len(v))
<1> DEFINE w == Without(s, k)
           z == QueueOf(w, tm, fi)
           v == QueueOf(s, tm, fi)
<1>1. w \in Seq(Item) /\ Len(w) = Len(s) - 1
  BY WithoutType, Zenon
<1>2. /\ v \in Seq(Entries) /\ Len(v) = Len(s) /\ DOMAIN v = 1..Len(s) /\ Len(s) \in Nat
      /\ \A i \in 1..Len(s) :
            v[i] = EntryOf(s[i], tm, fi)
  BY QueueEntries, Zenon
<1>3. \A i \in 1..(Len(s) - 1) : w[i] = IF i < k THEN s[i] ELSE s[i + 1]
  BY WithoutType, Zenon
<1> HIDE DEF w
<1>5. /\ z \in Seq(Entries) /\ Len(z) = Len(w)
      /\ \A i \in 1..Len(w) : z[i] = EntryOf(w[i], tm, fi)
  BY <1>1, QueueEntries, Zenon
<1> HIDE DEF v, z
<1>6. Len(z) = Len(v) - 1 /\ z # v
  BY <1>1, <1>2, <1>5
<1>7. ASSUME NEW i \in 1..(Len(v) - 1)
      PROVE  z[i] = IF i < k THEN v[i] ELSE v[i + 1]
  <2>1. z[i] = EntryOf(w[i], tm, fi)
    BY <1>1, <1>2, <1>5, Zenon
  <2>2. w[i] = IF i < k THEN s[i] ELSE s[i + 1]
    BY <1>2, <1>3, Zenon
  <2>3. i \in 1..Len(s) /\ i + 1 \in 1..Len(s)
    BY <1>2
  <2> QED BY <1>2, <2>1, <2>2, <2>3, Zenon
<1>8. k \in 1..Len(v) /\ k \in DOMAIN v
  BY <1>2, Zenon
<1>9. z = SubSeq(v, 1, k - 1) \o SubSeq(v, k + 1, Len(v))
  <2>1. v \in Seq(Entries) /\ z \in Seq(Entries) /\ k \in 1..Len(v)
    BY <1>2, <1>5, <1>8, Zenon
  <2>2. TakenOut(z, v, k)
    BY <1>6, <1>7, Zenon DEF TakenOut
  <2> QED BY <2>1, <2>2, CutSeq, Zenon
<1> QED BY <1>6, <1>8, <1>9, Zenon DEF v, z, w

FlagSet(fn, fi, x) == fn = [fi EXCEPT ![x] = TRUE]
EntryFired(v, k) == [v EXCEPT ![k].fired = TRUE]
Fires(z, v, s, fi, k) ==
    /\ k \in DOMAIN v
    /\ \A j \in 1..Len(s) : v[j].fired = fi[s[j]]
    /\ z[k].fired
    /\ z = EntryFired(v, k)

(* What the queue becomes when the k-th event fires.                       *)
LEMMA QueueFires ==
    ASSUME NEW s \in Seq(Item), NEW tm \in [Item -> Nat], NEW fi \in [Item -> BOOLEAN],
           Distinct(s), NEW k \in 1..Len(s), NEW fn, FlagSet(fn, fi, s[k])
    PROVE  Fires(QueueOf(s, tm, fn), QueueOf(s, tm, fi), s, fi, k)
<1> DEFINE z == QueueOf(s, tm, fn)
           v == QueueOf(s, tm, fi)
<1>1. /\ v \in Seq(Entries) /\ Len(v) = Len(s) /\ DOMAIN v = 1..Len(s) /\ Len(s) \in Nat
      /\ \A i \in 1..Len(s) : v[i] = EntryOf(s[i], tm, fi)
  BY QueueEntries, Zenon
<1>2. \A i \in 1..Len(s) : s[i] \in Item
  BY SeqFacts
<1>3. fn \in [Item -> BOOLEAN]
  BY <1>2, Zenon DEF FlagSet
<1>0. fn[s[k]] = TRUE
  BY <1>2, Zenon DEF FlagSet
<1>4. \A i \in 1..Len(s) : i # k => fn[s[i]] = fi[s[i]]
  BY <1>2, Zenon DEF Distinct, FlagSet
<1>5. /\ z \in Seq(Entries) /\ Len(z) = Len(s)
      /\ \A i \in 1..Len(s) : z[i] = EntryOf(s[i], tm, fn)
  BY <1>3, QueueEntries, Zenon
<1> HIDE DEF v, z
<1>6. \A j \in 1..Len(s) : v[j].fired = fi[s[j]]
  BY <1>1, SMT DEF EntryOf
<1>7. z[k].fired
  <2>1. z[k].fired = fn[s[k]]
    <3>1. z[k] = EntryOf(s[k], tm, fn)
      BY <1>5, Zenon
    <3>2. EntryOf(s[k], tm, fn).fired = fn[s[k]]
      BY EntryFields
    <3> QED BY <3>1, <3>2, Zenon
  <2> QED BY <1>0, <2>1, Zenon
<1> DEFINE e == EntryOf(s[k], tm, fn)
           u == [v EXCEPT ![k].fired = TRUE]
<1>8. e \in Entries
  BY <1>2, <1>3, Zenon DEF Entries, EntryOf
<1>9. [v[k] EXCEPT !.fired = TRUE] = e
  <2>1. v[k] = EntryOf(s[k], tm, fi)
    BY <1>1, Zenon
  <2>2. [EntryOf(s[k], tm, fi) EXCEPT !.fired = TRUE] = e
    <3>1. e = [item |-> s[k], time |-> tm[s[k]], fired |-> TRUE]
      BY <1>0, Zenon DEF EntryOf
    <3>2. [EntryOf(s[k], tm, fi) EXCEPT !.fired = TRUE]
            = [item |-> s[k], time |-> tm[s[k]], fired |-> TRUE]
      BY RecordExcept, Zenon DEF EntryOf
    <3> QED BY <3>1, <3>2, Zenon
  <2> QED BY <2>1, <2>2, Zenon
<1> HIDE DEF e
<1>10. u = [v EXCEPT ![k] = e]
  BY <1>9, Zenon
<1> HIDE DEF u
<1>11. v \in [1..Len(s) -> Entries]
  BY <1>1
<1>12. u \in [1..Len(s) -> Entries]
  BY <1>8, <1>10, <1>11, Zenon
<1>13. u[k] = e /\ \A i \in 1..Len(s) : i # k => u[i] = v[i]
  BY <1>10, <1>11, Zenon
<1>14. u \in Seq(Entries) /\ Len(u) = Len(s)
  BY <1>1, <1>12, SeqOfLength, Zenon
<1>15. ASSUME NEW i \in 1..Len(s) PROVE z[i] = u[i]
  <2>1. CASE i = k
    BY <1>5, <1>13, <2>1, Zenon DEF e
  <2>2. CASE i # k
    <3>1. EntryOf(s[i], tm, fn) = EntryOf(s[i], tm, fi)
      BY <1>4, <2>2, Zenon DEF EntryOf
    <3>2. u[i] = v[i] /\ v[i] = EntryOf(s[i], tm, fi)
      BY <1>1, <1>13, <2>2, Zenon
    <3>3. z[i] = EntryOf(s[i], tm, fn)
      BY <1>5, Zenon
    <3> QED BY <3>1, <3>2, <3>3, Zenon
  <2> QED BY <2>1, <2>2, Zenon
<1>16. z = u
  <2>1. Len(z) = Len(u) /\ z \in Seq(Entries) /\ \A i \in 1..Len(z) : z[i] = u[i]
    BY <1>5, <1>14, <1>15, Zenon
  <2> QED BY <1>14, <2>1, SameSeq, Zenon
<1>17. k \in DOMAIN v
  BY <1>1, Zenon
<1> QED BY <1>6, <1>7, <1>16, <1>17, Zenon DEF v, z, u, EntryFired, Fires

-----------------------------------------------------------------------------
(* The pointers forward and backward mirror each other.                    *)
Mirror(next, prev) == \A x, y \in Item : next[x] = y <=> prev[y] = x

(* They still do when an item that is in no chain has been put in between  *)
(* two neighbours, or at an end.                                           *)
LEMMA HookMirrors ==
    ASSUME NEW n, NEW p, Mirror(n, p),
           NEW x \in Item, n[x] = NULL, p[x] = NULL,
           NEW b \in Pointer, NEW a \in Pointer, x # a, x # b,
           b # NULL => n[b] = a, a # NULL => p[a] = b,
           NEW n2, NEW p2,
           \A y \in Item :
              /\ n2[y] = IF y = x THEN a ELSE IF y = b THEN x ELSE n[y]
              /\ p2[y] = IF y = x THEN b ELSE IF y = a THEN x ELSE p[y]
    PROVE  Mirror(n2, p2)
<1> SUFFICES ASSUME NEW u \in Item, NEW v \in Item
             PROVE  n2[u] = v <=> p2[v] = u
  BY DEF Mirror
<1>1. (n[u] = v <=> p[v] = u) /\ n[u] # x /\ p[v] # x
  BY NullAssumption DEF Mirror
<1>2. CASE u = x
  BY <1>1, <1>2 DEF Pointer
<1>3. CASE u # x /\ v = x
  BY <1>1, <1>3 DEF Pointer
<1>4. CASE u # x /\ v # x /\ u = b
  BY <1>1, <1>4, NullAssumption DEF Pointer
<1>5. CASE u # x /\ v # x /\ u # b
  BY <1>1, <1>5, NullAssumption DEF Pointer
<1> QED BY <1>2, <1>3, <1>4, <1>5

(* And when an item has been taken out of its chain.                       *)
LEMMA UnhookMirrors ==
    ASSUME NEW n, NEW p, Mirror(n, p),
           NEW x \in Item, NEW n2, NEW p2,
           \A y \in Item :
              /\ n2[y] = IF y = x THEN NULL ELSE IF y = p[x] THEN n[x] ELSE n[y]
              /\ p2[y] = IF y = x THEN NULL ELSE IF y = n[x] THEN p[x] ELSE p[y]
    PROVE  Mirror(n2, p2)
<1> SUFFICES ASSUME NEW u \in Item, NEW v \in Item
             PROVE  n2[u] = v <=> p2[v] = u
  BY DEF Mirror
<1>1. /\ n[u] = v <=> p[v] = u
      /\ n[x] = v <=> p[v] = x
      /\ n[u] = x <=> p[x] = u
      /\ n[x] = x <=> p[x] = x
  BY Zenon DEF Mirror
<1> QED BY <1>1, NullAssumption

(* And when a range between two neighbours has been cut out.               *)
LEMMA RangeMirrors ==
    ASSUME NEW n, NEW p, Mirror(n, p),
           NEW begin \in Item, NEW end \in Item, p[begin] \in Item, n[end] \in Item,
           p[begin] # end, n[end] # begin,
           NEW n2, NEW p2,
           \A y \in Item :
              /\ n2[y] = IF y = end THEN NULL ELSE IF y = p[begin] THEN n[end] ELSE n[y]
              /\ p2[y] = IF y = begin THEN NULL ELSE IF y = n[end] THEN p[begin] ELSE p[y]
    PROVE  Mirror(n2, p2)
<1> SUFFICES ASSUME NEW u \in Item, NEW v \in Item
             PROVE  n2[u] = v <=> p2[v] = u
  BY DEF Mirror
<1>1. /\ n[u] = v <=> p[v] = u
      /\ n[end] = v <=> p[v] = end
      /\ n[u] = begin <=> p[begin] = u
  BY Zenon DEF Mirror
<1> QED BY <1>1, NullAssumption

-----------------------------------------------------------------------------
(* A list that stands for s in a pool where items can be linked outside of *)
(* the list too, and the items that are linked.                            *)
Sewn(l, s) == l \in ListType /\ Linked(l, s) /\ Mirror(l.next, l.prev)

Chained(l) == {x \in Item : l.next[x] # NULL \/ l.prev[x] # NULL \/ l.root = x}

(* The items of the list are linked.                                       *)
LEMMA ListedChained ==
    ASSUME NEW l, NEW s \in Seq(Item), Linked(l, s), NEW k \in 1..Len(s)
    PROVE  s[k] \in Chained(l)
<1>1. /\ Len(s) \in Nat /\ s[k] \in Item
      /\ l.root = At(s, 1) /\ l.prev[s[k]] = At(s, k - 1)
  BY LinkedAt, AtType
<1>2. CASE k = 1
  BY <1>1, <1>2 DEF At, Chained
<1>3. CASE k # 1
  <2>1. k - 1 \in 1..Len(s)
    BY <1>1, <1>3
  <2>2. At(s, k - 1) # NULL
    BY <2>1, AtType
  <2> QED BY <1>1, <2>2 DEF Chained
<1> QED BY <1>2, <1>3

(* The neighbours in the list of an item in the list.                      *)
LEMMA SewnPlaces ==
    ASSUME NEW l, NEW s \in Seq(Item), Sewn(l, s)
    PROVE  /\ Len(s) \in Nat /\ Distinct(s)
           /\ l.root = At(s, 1) /\ l.last = At(s, Len(s))
           /\ \A k \in 1..Len(s) : /\ s[k] \in Item
                                   /\ l.next[s[k]] = At(s, k + 1)
                                   /\ l.prev[s[k]] = At(s, k - 1)
           /\ \A k \in Int : At(s, k) \in Pointer /\ (At(s, k) # NULL => k \in 1..Len(s))
           /\ \A k \in 1..Len(s) : At(s, k) = s[k]
<1>1. Linked(l, s)
  BY DEF Sewn
<1>2. /\ Len(s) \in Nat
      /\ \A k \in 1..Len(s) : s[k] \in Item /\ At(s, k) = s[k] /\ s[k] # NULL
      /\ \A k \in Int : k \notin 1..Len(s) => At(s, k) = NULL
      /\ \A k \in Int : At(s, k) \in Pointer
  BY AtType, Zenon
<1>3. /\ Distinct(s)
      /\ l.root = At(s, 1) /\ l.last = At(s, Len(s))
      /\ \A k \in 1..Len(s) : /\ l.next[s[k]] = At(s, k + 1)
                              /\ l.prev[s[k]] = At(s, k - 1)
  BY <1>1, LinkedAt, Zenon
<1> QED BY <1>2, <1>3, Zenon

(* An item put into the list: the list stands for the longer sequence, and *)
(* no other item has been linked.                                          *)
LEMMA SewnInsert ==
    ASSUME NEW l, NEW s \in Seq(Item), Sewn(l, s),
           NEW x \in Item, x \notin Chained(l), NEW k \in 0..Len(s),
           NEW r, Spliced(r, l, s, k, x)
    PROVE  Sewn(r, With(s, k, x)) /\ Chained(r) \subseteq Chained(l) \cup {x}
<1>1. /\ l \in ListType /\ Linked(l, s) /\ Mirror(l.next, l.prev)
      /\ l.next[x] = NULL /\ l.prev[x] = NULL
  BY Zenon DEF Sewn, Chained
<1>2. \A j \in 1..Len(s) : s[j] # x
  BY <1>1, ListedChained, Zenon
<1>3. Linked(r, With(s, k, x))
  BY <1>1, <1>2, SplicedLinked, Zenon
<1> DEFINE b == At(s, k)
           a == At(s, k + 1)
<1>4. k \in Int /\ k + 1 \in Int /\ (k + 1) - 1 = k
  BY SewnPlaces
<1>5. /\ b \in Pointer /\ a \in Pointer
      /\ b # NULL => k \in 1..Len(s) /\ b = s[k]
      /\ a # NULL => k + 1 \in 1..Len(s) /\ a = s[k + 1]
  BY <1>4, SewnPlaces, Zenon
<1>6. /\ b # NULL => l.next[b] = a
      /\ a # NULL => l.prev[a] = b
      /\ x # b /\ x # a
  <2>0. \A j \in 1..Len(s) : /\ l.next[s[j]] = At(s, j + 1)
                              /\ l.prev[s[j]] = At(s, j - 1)
    BY SewnPlaces
  <2>1. b # NULL => l.next[b] = a
    <3>1. k \in 1..Len(s) => l.next[s[k]] = At(s, k + 1)
      BY <2>0, Zenon
    <3> QED BY <1>5, <3>1, Zenon
  <2>2. a # NULL => l.prev[a] = b
    <3>1. k + 1 \in 1..Len(s) => l.prev[s[k + 1]] = At(s, k)
      BY <1>4, <2>0
    <3> QED BY <1>5, <3>1, Zenon
  <2>3. x # NULL
    BY NullAssumption
  <2>4. x # b /\ x # a
    BY <1>2, <1>5, <2>3
  <2> QED BY <2>1, <2>2, <2>4, Zenon
<1> HIDE DEF a, b
<1>7. \A y \in Item :
         /\ r.next[y] = IF y = x THEN a ELSE IF y = b THEN x ELSE l.next[y]
         /\ r.prev[y] = IF y = x THEN b ELSE IF y = a THEN x ELSE l.prev[y]
  BY Zenon DEF Spliced, a, b
<1>8. Mirror(r.next, r.prev)
  BY <1>1, <1>5, <1>6, <1>7, HookMirrors
<1>9. ASSUME NEW y \in Chained(r), y # x PROVE y \in Chained(l)
  <2>1. /\ y \in Item
        /\ r.next[y] # NULL \/ r.prev[y] # NULL \/ r.root = y
    BY Zenon DEF Chained
  <2>2. y = a \/ y = b => y \in Chained(l)
    <3>1. y # NULL
      BY <2>1, NullAssumption
    <3> QED BY <1>1, <1>5, <3>1, ListedChained, Zenon
  <2>3. r.root = x \/ r.root = l.root
    BY Zenon DEF Spliced
  <2> QED BY <1>7, <1>9, <2>1, <2>2, <2>3, Zenon DEF Chained
<1> QED BY <1>3, <1>8, <1>9, Zenon DEF Sewn, Spliced

(* An item of the list taken out of it.                                    *)
LEMMA SewnRemove ==
    ASSUME NEW l, NEW s \in Seq(Item), Sewn(l, s), NEW k \in 1..Len(s)
    PROVE  LET r == Disconnect(l, s[k])
           IN  Sewn(r, Without(s, k)) /\ Chained(r) \subseteq Chained(l) \ {s[k]}
<1> DEFINE r == Disconnect(l, s[k])
           x == s[k]
<1>1. l \in ListType /\ Linked(l, s) /\ Mirror(l.next, l.prev)
  BY Zenon DEF Sewn
<1>2. Cut(r, l, s, k) /\ Linked(r, Without(s, k))
  BY <1>1, DisconnectCuts, CutLinked, Zenon
<1>3. x \in Item /\ l.next[x] = At(s, k + 1) /\ l.prev[x] = At(s, k - 1)
  BY SewnPlaces, Zenon
<1> HIDE DEF r, x
<1>4. \A y \in Item :
         /\ r.next[y] = IF y = x THEN NULL ELSE IF y = l.prev[x] THEN l.next[x] ELSE l.next[y]
         /\ r.prev[y] = IF y = x THEN NULL ELSE IF y = l.next[x] THEN l.prev[x] ELSE l.prev[y]
  BY <1>2, <1>3, Zenon DEF Cut, x
<1>5. Mirror(r.next, r.prev)
  BY <1>1, <1>3, <1>4, UnhookMirrors
<1>6. ASSUME NEW y \in Chained(r) PROVE y \in Chained(l) /\ y # x
  <2>1. /\ y \in Item
        /\ r.next[y] # NULL \/ r.prev[y] # NULL \/ r.root = y
    BY Zenon DEF Chained
  <2>2. r.root = y => y \in Chained(l) /\ y # x
    <3> SUFFICES ASSUME r.root = y PROVE y \in Chained(l) /\ y # x
      OBVIOUS
    <3>0. y # NULL /\ Len(s) \in Nat /\ x = s[k] /\ Distinct(s) /\ l.root = At(s, 1)
      BY <2>1, NullAssumption, SewnPlaces DEF x
    <3>1. \E j \in 1..Len(s) : j # k /\ y = s[j]
      <4>1. CASE k = 1
        <5>1. y = At(s, 2)
          BY <1>2, <4>1, Zenon DEF Cut
        <5> QED BY <3>0, <4>1, <5>1 DEF At
      <4>2. CASE k # 1
        <5>1. y = At(s, 1)
          BY <1>2, <3>0, <4>2, Zenon DEF Cut
        <5> QED BY <3>0, <4>2, <5>1 DEF At
      <4> QED BY <4>1, <4>2
    <3> QED BY <1>1, <3>0, <3>1, ListedChained, Zenon DEF Distinct
  <2>3. y # x /\ (y = l.prev[x] \/ y = l.next[x]) => y \in Chained(l)
    BY <1>1, <1>3, <2>1, NullAssumption DEF Chained, Mirror
  <2> QED BY <1>4, <2>1, <2>2, <2>3, Zenon DEF Chained
<1> QED BY <1>1, <1>2, <1>5, <1>6, Zenon DEF Sewn, Cut, r, x

(* list_disconnect of an item that is not in the list: it may be linked in *)
(* a strand that was cut out.                                              *)
LEMMA SewnOutside ==
    ASSUME NEW l, NEW s \in Seq(Item), Sewn(l, s),
           NEW x \in Item, \A j \in 1..Len(s) : s[j] # x
    PROVE  LET r == Disconnect(l, x)
           IN  Sewn(r, s) /\ Chained(r) \subseteq Chained(l) \ {x}
<1> DEFINE r == Disconnect(l, x)
           before == l.prev[x]
           after == l.next[x]
           n == Assign(Assign(Assign(l.next, before, after), x, NULL), l.last, NULL)
           p == Assign(Assign(Assign(l.prev, after, before), x, NULL), l.root, NULL)
<1>1. l \in ListType /\ Linked(l, s) /\ Mirror(l.next, l.prev)
  BY Zenon DEF Sewn
<1>2. /\ Len(s) \in Nat /\ Distinct(s)
      /\ l.root = At(s, 1) /\ l.last = At(s, Len(s))
      /\ \A k \in 1..Len(s) : /\ s[k] \in Item
                              /\ l.next[s[k]] = At(s, k + 1)
                              /\ l.prev[s[k]] = At(s, k - 1)
  BY SewnPlaces
<1>3. l.root # x /\ l.last # x
  BY <1>2, NullAssumption DEF At
<1>4. /\ l.next \in [Item -> Pointer] /\ l.prev \in [Item -> Pointer]
      /\ l.root \in Pointer /\ l.last \in Pointer
      /\ before \in Pointer /\ after \in Pointer /\ NULL \in Pointer
  <2>1. /\ l.next \in [Item -> Pointer] /\ l.prev \in [Item -> Pointer]
        /\ l.root \in Pointer /\ l.last \in Pointer
    BY <1>1, ListFields, Zenon
  <2> QED BY <2>1, Zenon DEF Pointer
<1>5. r = [root |-> l.root, last |-> l.last, next |-> n, prev |-> p]
  BY <1>3, Zenon DEF Disconnect
<1>6. \A k \in 1..Len(s) : s[k] # before /\ s[k] # after
  <2> SUFFICES ASSUME NEW k \in 1..Len(s), s[k] = before \/ s[k] = after
               PROVE  FALSE
    BY Zenon
  <2>1. l.next[s[k]] = x \/ l.prev[s[k]] = x
    BY <1>1, <1>2 DEF Mirror
  <2>2. At(s, k + 1) = x \/ At(s, k - 1) = x
    BY <1>2, <2>1, Zenon
  <2> QED BY <1>2, <2>2, NullAssumption DEF At
<1>7. /\ l.last \in Item => l.next[l.last] = NULL /\ l.last # before
      /\ l.root \in Item => l.prev[l.root] = NULL /\ l.root # after
  <2>1. CASE Len(s) = 0
    BY <1>2, <2>1, NullAssumption DEF At
  <2>2. CASE Len(s) # 0
    <3>1. /\ Len(s) \in 1..Len(s) /\ At(s, Len(s) + 1) = NULL /\ l.last = s[Len(s)]
          /\ 1 \in 1..Len(s) /\ At(s, 1 - 1) = NULL /\ l.root = s[1]
      BY <1>2, <2>2 DEF At
    <3> HIDE DEF before, after
    <3> QED BY <1>2, <1>6, <3>1, Zenon
  <2> QED BY <2>1, <2>2
<1> HIDE DEF before, after
<1>8. n \in [Item -> Pointer] /\ p \in [Item -> Pointer]
  <2>1. /\ Assign(l.next, before, after) \in [Item -> Pointer]
        /\ Assign(l.prev, after, before) \in [Item -> Pointer]
    BY <1>4, AssignType, Zenon
  <2>2. /\ Assign(Assign(l.next, before, after), x, NULL) \in [Item -> Pointer]
        /\ Assign(Assign(l.prev, after, before), x, NULL) \in [Item -> Pointer]
    BY <1>4, <2>1, AssignType, Zenon
  <2> QED BY <1>4, <2>2, AssignType, Zenon
<1>9. \A y \in Item :
         /\ n[y] = IF y = x THEN NULL ELSE IF y = before THEN after ELSE l.next[y]
         /\ p[y] = IF y = x THEN NULL ELSE IF y = after THEN before ELSE l.prev[y]
  BY <1>3, <1>7 DEF Assign
<1> HIDE DEF n, p, r
<1>10. /\ r \in ListType /\ r.root = l.root /\ r.last = l.last
       /\ r.next = n /\ r.prev = p
  BY <1>4, <1>5, <1>8, Zenon DEF ListType
<1>11. Mirror(n, p)
  BY <1>1, <1>9, UnhookMirrors DEF before, after
<1>12. \A k \in 1..Len(s) : n[s[k]] = At(s, k + 1) /\ p[s[k]] = At(s, k - 1)
  BY <1>2, <1>6, <1>9, Zenon
<1>13. Linked(r, s)
  BY <1>2, <1>10, <1>12, LinkedAt, Zenon
<1>14. ASSUME NEW y \in Chained(r) PROVE y \in Chained(l) /\ y # x
  <2>1. /\ y \in Item
        /\ n[y] # NULL \/ p[y] # NULL \/ l.root = y
    BY <1>10, Zenon DEF Chained
  <2>2. y = before \/ y = after => y \in Chained(l)
    <3>1. y = before => l.next[y] = x
      BY <1>1, <2>1, Zenon DEF Mirror, before
    <3>2. y = after => l.prev[y] = x
      BY <1>1, <2>1, Zenon DEF Mirror, after
    <3>3. x # NULL
      BY NullAssumption
    <3> QED BY <2>1, <3>1, <3>2, <3>3, Zenon DEF Chained
  <2> QED BY <1>3, <1>9, <2>1, <2>2, Zenon DEF Chained
<1> QED BY <1>10, <1>11, <1>13, <1>14, Zenon DEF Sewn, r

(* s without the items from the a-th to the b-th.                          *)
WithoutRange(s, a, b) ==
    [m \in 1..(Len(s) - (b - a + 1)) |-> IF m < a THEN s[m] ELSE s[m + (b - a + 1)]]

(* list_disconnect_range of a range that touches no end of the list: the   *)
(* rest of the list closes up, and the range stays linked in itself.       *)
LEMMA SewnRange ==
    ASSUME NEW l, NEW s \in Seq(Item), Sewn(l, s),
           NEW a \in 1..Len(s), NEW b \in 1..Len(s), 1 < a, a < b, b < Len(s)
    PROVE  LET r == DisconnectRange(l, s[a], s[b])
           IN  /\ WithoutRange(s, a, b) \in Seq(Item)
               /\ Sewn(r, WithoutRange(s, a, b)) /\ Chained(r) \subseteq Chained(l)
<1> DEFINE r == DisconnectRange(l, s[a], s[b])
           begin == s[a]
           end == s[b]
           before == s[a - 1]
           after == s[b + 1]
           n == Assign(Assign(l.next, before, after), end, NULL)
           p == Assign(Assign(l.prev, after, before), begin, NULL)
           w == WithoutRange(s, a, b)
           d == b - a + 1
           N == Len(s)
<1>1. l \in ListType /\ Linked(l, s) /\ Mirror(l.next, l.prev)
  BY Zenon DEF Sewn
<1>2. /\ N \in Nat /\ Distinct(s)
      /\ l.root = At(s, 1) /\ l.last = At(s, N)
      /\ \A k \in 1..N : /\ s[k] \in Item
                         /\ l.next[s[k]] = At(s, k + 1)
                         /\ l.prev[s[k]] = At(s, k - 1)
  BY SewnPlaces
<1>0. N \in Nat /\ \A j, k \in 1..N : s[j] = s[k] => j = k
  BY <1>2, Zenon DEF Distinct
<1>3. /\ begin \in Item /\ end \in Item /\ before \in Item /\ after \in Item
      /\ begin # NULL /\ end # NULL
      /\ l.prev[begin] = before /\ l.next[end] = after
      /\ l.root = s[1] /\ l.last = s[N]
  <2>1. /\ a - 1 \in 1..N /\ b + 1 \in 1..N /\ 1 \in 1..N /\ N \in 1..N
    BY <1>0
  <2>2. /\ At(s, a - 1) = before /\ At(s, b + 1) = after
        /\ At(s, 1) = s[1] /\ At(s, N) = s[N]
    BY <2>1 DEF At
  <2> QED BY <1>2, <2>1, <2>2, NullAssumption, Zenon
<1>4. l.root # begin /\ l.last # end /\ before # end /\ after # begin
  <2>1. /\ a - 1 \in 1..N /\ b + 1 \in 1..N /\ 1 \in 1..N /\ N \in 1..N
        /\ 1 # a /\ N # b /\ a - 1 # b /\ b + 1 # a
    BY <1>0
  <2> QED BY <1>0, <1>3, <2>1, Zenon
<1>5. /\ l.next \in [Item -> Pointer] /\ l.prev \in [Item -> Pointer]
      /\ l.root \in Pointer /\ l.last \in Pointer
      /\ before \in Pointer /\ after \in Pointer /\ NULL \in Pointer
  <2>1. /\ l.next \in [Item -> Pointer] /\ l.prev \in [Item -> Pointer]
        /\ l.root \in Pointer /\ l.last \in Pointer
    BY <1>1, ListFields, Zenon
  <2> QED BY <1>3, <2>1, Zenon DEF Pointer
<1>6. r = [[l EXCEPT !.root = l.root, !.last = l.last] EXCEPT !.next = n, !.prev = p]
  BY <1>3, <1>4, Zenon DEF DisconnectRange, RangeEnds
<1> HIDE DEF begin, end, before, after
<1>7. n \in [Item -> Pointer] /\ p \in [Item -> Pointer]
  <2>1. /\ Assign(l.next, before, after) \in [Item -> Pointer]
        /\ Assign(l.prev, after, before) \in [Item -> Pointer]
    BY <1>5, AssignType, Zenon
  <2> QED BY <1>5, <2>1, AssignType, Zenon
<1>8. \A y \in Item :
         /\ n[y] = IF y = end THEN NULL ELSE IF y = before THEN after ELSE l.next[y]
         /\ p[y] = IF y = begin THEN NULL ELSE IF y = after THEN before ELSE l.prev[y]
  BY DEF Assign
<1> HIDE DEF n, p, r
<1>9. /\ r \in ListType /\ r.root = l.root /\ r.last = l.last
      /\ r.next = n /\ r.prev = p
  BY <1>1, <1>5, <1>6, <1>7, Zenon DEF ListType
<1>10. Mirror(n, p)
  BY <1>1, <1>3, <1>4, <1>8, RangeMirrors
<1>11. /\ w \in Seq(Item) /\ Len(w) = N - d /\ N - d \in Nat
       /\ d \in Nat /\ a + d = b + 1 /\ a <= N - d
       /\ \A m \in 1..(N - d) : w[m] = IF m < a THEN s[m] ELSE s[m + d]
  <2>1. d \in Nat /\ N - d \in Nat /\ a + d = b + 1 /\ a <= N - d
    BY <1>0
  <2>2. w \in [1..(N - d) -> Item]
    BY <1>2, <2>1 DEF WithoutRange
  <2>3. w \in Seq(Item) /\ Len(w) = N - d
    <3> HIDE DEF w, d, N
    <3> QED BY <2>1, <2>2
  <2> QED BY <2>1, <2>3 DEF WithoutRange
<1> HIDE DEF w, d, N
<1>17. /\ N \in Nat /\ d \in Nat /\ a \in Nat /\ b \in Nat
       /\ 1 < a /\ a < b /\ b < N /\ a + d = b + 1 /\ a <= N - d
       /\ Len(w) = N - d
  BY <1>0, <1>11 DEF N
<1>18. /\ \A m \in 1..(N - d) : m < a => w[m] = s[m]
       /\ \A m \in 1..(N - d) : ~(m < a) => w[m] = s[m + d]
  BY <1>11, Zenon
<1>12. Distinct(w)
  <2> SUFFICES ASSUME NEW j \in 1..(N - d), NEW k \in 1..(N - d), w[j] = w[k]
               PROVE  j = k
    BY <1>11 DEF Distinct
  <2> DEFINE Old(m) == IF m < a THEN m ELSE m + d
  <2>1. Old(j) \in 1..N /\ Old(k) \in 1..N /\ (Old(j) = Old(k) => j = k)
    BY <1>17
  <2>2. w[j] = s[Old(j)] /\ w[k] = s[Old(k)]
    BY <1>11, Zenon
  <2> HIDE DEF Old
  <2> QED BY <1>0, <2>1, <2>2, Zenon
<1>13. At(w, 1) = s[1] /\ At(w, Len(w)) = s[N]
  <2>1. /\ N - d \in 1..(N - d) /\ 1 \in 1..(N - d)
        /\ ~(N - d < a) /\ (N - d) + d = N
    BY <1>17
  <2>2. w[1] = s[1] /\ w[N - d] = s[N]
    <3>1. 1 < a /\ w[N - d] = s[(N - d) + d]
      BY <1>17, <1>18, <2>1
    <3> QED BY <1>18, <2>1, <3>1
  <2>3. Len(w) = N - d
    BY <1>11
  <2> QED BY <2>1, <2>2, <2>3, Zenon DEF At
<1>19. /\ \A m \in Int : m < a => At(w, m) = At(s, m)
       /\ \A m \in Int : m >= a => At(w, m) = At(s, m + d)
  <2>1. ASSUME NEW m \in Int
        PROVE  /\ At(w, m) = IF m \in 1..(N - d) THEN w[m] ELSE NULL
               /\ At(s, m) = IF m \in 1..N THEN s[m] ELSE NULL
    BY <1>17, Zenon DEF At, N
  <2>2. ASSUME NEW m \in Int, m < a PROVE At(w, m) = At(s, m)
    <3>1. m \in 1..(N - d) <=> m \in 1..N
      BY <1>17, <2>2
    <3> QED BY <1>18, <2>1, <2>2, <3>1, Zenon
  <2>3. ASSUME NEW m \in Int, m >= a PROVE At(w, m) = At(s, m + d)
    <3>1. /\ m \in 1..(N - d) <=> m + d \in 1..N
          /\ m + d \in Int /\ ~(m < a)
      BY <1>17, <2>3
    <3> QED BY <1>18, <2>1, <3>1, Zenon
  <2> QED BY <2>2, <2>3
<1>14. ASSUME NEW k \in 1..Len(w)
       PROVE  n[w[k]] = At(w, k + 1) /\ p[w[k]] = At(w, k - 1)
  <2> DEFINE e == IF k < a THEN k ELSE k + d
  <2>1. /\ k \in 1..(N - d) /\ k + 1 \in Int /\ k - 1 \in Int /\ e \in 1..N
        /\ a \in 1..N /\ b \in 1..N /\ a - 1 \in 1..N /\ b + 1 \in 1..N
        /\ e # a /\ e # b
        /\ e = a - 1 <=> k = a - 1
        /\ e = b + 1 <=> k = a
    BY <1>17
  <2>2. w[k] = s[e]
    BY <1>18, <2>1
  <2>3. /\ k # a - 1 => At(w, k + 1) = At(s, e + 1)
        /\ k = a - 1 => At(w, k + 1) = At(s, b + 1)
    <3>1. /\ k + 1 < a => At(w, k + 1) = At(s, k + 1)
          /\ k + 1 >= a => At(w, k + 1) = At(s, (k + 1) + d)
      BY <1>19, <2>1, Zenon
    <3>2. /\ k + 1 < a => k # a - 1 /\ e = k
          /\ ~(k + 1 < a) => k + 1 >= a
          /\ k + 1 >= a /\ k # a - 1 => (k + 1) + d = e + 1
          /\ k = a - 1 => (k + 1) + d = b + 1
      BY <1>17
    <3> HIDE DEF e
    <3> QED BY <3>1, <3>2, Zenon
  <2>4. /\ k # a => At(w, k - 1) = At(s, e - 1)
        /\ k = a => At(w, k - 1) = At(s, a - 1)
    <3>1. /\ k - 1 < a => At(w, k - 1) = At(s, k - 1)
          /\ k - 1 >= a => At(w, k - 1) = At(s, (k - 1) + d)
      BY <1>19, <2>1, Zenon
    <3>2. /\ k - 1 < a /\ k # a => e = k
          /\ ~(k - 1 < a) => k - 1 >= a /\ k # a /\ (k - 1) + d = e - 1
      BY <1>17
    <3> HIDE DEF e
    <3> QED BY <3>1, <3>2, Zenon
  <2> HIDE DEF e
  <2>5. At(s, b + 1) = after /\ At(s, a - 1) = before
    BY <2>1, Zenon DEF At, after, before, N
  <2>6. /\ s[e] \in Item /\ s[e] # begin /\ s[e] # end
        /\ s[e] = before <=> k = a - 1
        /\ s[e] = after <=> k = a
    BY <1>0, <1>2, <2>1, Zenon DEF begin, end, before, after
  <2>7. l.next[s[e]] = At(s, e + 1) /\ l.prev[s[e]] = At(s, e - 1)
    BY <1>2, <2>1, Zenon
  <2>8. n[s[e]] = At(w, k + 1)
    BY <1>8, <2>3, <2>5, <2>6, <2>7, Zenon
  <2>9. p[s[e]] = At(w, k - 1)
    BY <1>8, <2>4, <2>5, <2>6, <2>7, Zenon
  <2> QED BY <2>2, <2>8, <2>9, Zenon
<1>15. Linked(r, w)
  BY <1>3, <1>9, <1>11, <1>12, <1>13, <1>14, LinkedAt, Zenon DEF N
<1>16. ASSUME NEW y \in Chained(r) PROVE y \in Chained(l)
  <2>1. y \in Item /\ (n[y] # NULL \/ p[y] # NULL \/ l.root = y)
    BY <1>9, Zenon DEF Chained
  <2>2. y = before \/ y = after => y \in Chained(l)
    <3>1. a - 1 \in 1..N /\ b + 1 \in 1..N
      BY <1>17
    <3> QED BY <1>1, <3>1, ListedChained, Zenon DEF before, after, N
  <2> QED BY <1>8, <2>1, <2>2, Zenon DEF Chained
<1> QED BY <1>9, <1>10, <1>11, <1>15, <1>16, Zenon DEF Sewn, r, w

(* s without a range, cut and put together.                                *)
LEMMA RangeSeq ==
    ASSUME NEW s \in Seq(Item), NEW a \in 1..Len(s), NEW b \in 1..Len(s), a <= b,
           WithoutRange(s, a, b) \in Seq(Item)
    PROVE  WithoutRange(s, a, b) = SubSeq(s, 1, a - 1) \o SubSeq(s, b + 1, Len(s))
<1> DEFINE u == SubSeq(s, 1, a - 1)
           v == SubSeq(s, b + 1, Len(s))
           w == WithoutRange(s, a, b)
           d == b - a + 1
<1>1. Len(s) \in Nat
  OBVIOUS
<1>2. u \in Seq(Item) /\ Len(u) = a - 1 /\ \A m \in 1..(a - 1) : u[m] = s[m]
  BY <1>1
<1>3. v \in Seq(Item) /\ Len(v) = Len(s) - b /\ \A m \in 1..(Len(s) - b) : v[m] = s[b + m]
  BY <1>1
<1>4. /\ DOMAIN w = 1..(Len(s) - d)
      /\ \A m \in 1..(Len(s) - d) : /\ m < a => w[m] = s[m]
                                    /\ ~(m < a) => w[m] = s[m + d]
  BY Zenon DEF WithoutRange
<1>5. d \in Nat /\ Len(s) - d \in Nat /\ (a - 1) + (Len(s) - b) = Len(s) - d /\ (a - 1) + d = b
  BY <1>1
<1> HIDE DEF u, v, w, d
<1> DEFINE z == u \o v
<1>6. /\ z \in Seq(Item) /\ Len(z) = Len(u) + Len(v)
      /\ \A m \in 1..(Len(u) + Len(v)) : z[m] = IF m <= Len(u) THEN u[m] ELSE v[m - Len(u)]
  BY <1>2, <1>3, ConcatFacts, Zenon
<1> HIDE DEF z
<1>7. Len(w) = Len(s) - d /\ Len(z) = Len(s) - d
  <2>1. w \in Seq(Item)
    BY DEF w
  <2>2. Len(w) \in Nat /\ DOMAIN w = 1..Len(w)
    BY <2>1, SeqFacts, Zenon
  <2>3. Len(w) = Len(s) - d
    BY <1>4, <1>5, <2>2
  <2> QED BY <1>2, <1>3, <1>5, <1>6, <2>3
<1>8. ASSUME NEW m \in 1..(Len(s) - d) PROVE w[m] = z[m]
  <2>1. m \in 1..(Len(u) + Len(v))
    BY <1>2, <1>3, <1>5
  <2>2. z[m] = IF m <= Len(u) THEN u[m] ELSE v[m - Len(u)]
    BY <1>6, <2>1, Zenon
  <2>3. CASE m < a
    <3>1. m \in 1..(a - 1) /\ m <= Len(u)
      BY <1>2, <2>3
    <3> QED BY <1>2, <1>4, <2>2, <2>3, <3>1, Zenon
  <2>4. CASE ~(m < a)
    <3>1. /\ ~(m <= Len(u)) /\ m - Len(u) \in 1..(Len(s) - b)
          /\ b + (m - Len(u)) = m + d
      BY <1>1, <1>2, <1>5, <2>4
    <3> QED BY <1>3, <1>4, <2>2, <2>4, <3>1, Zenon
  <2> QED BY <2>3, <2>4
<1> QED
  <2>1. w \in Seq(Item) /\ Len(w) = Len(z) /\ \A m \in 1..Len(w) : w[m] = z[m]
    BY <1>7, <1>8, Zenon DEF w
  <2>2. w = z
    BY <1>6, <2>1, SameSeq, Zenon
  <2> QED BY <2>2 DEF w, z, u, v

=============================================================================
