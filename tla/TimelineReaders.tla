-------------------------- MODULE TimelineReaders --------------------------
(***************************************************************************)
(* The steps of the threads that read the timeline and expire its events,  *)
(* and that every step keeps the invariant of TimelineProofs.              *)
(***************************************************************************)
EXTENDS TimelineProofs

(* The stored events are the ones of the sequence.                         *)
LEMMA StoredListed ==
    ASSUME TypeOK, Listed, NEW x \in Item
    PROVE  Stored(x) <=> \E i \in 1..Len(S) : S[i] = x
<1>1. list \in ListType /\ S \in Seq(Item) /\ Represents(list, S)
  BY Zenon DEF TypeOK, Listed
<1> QED BY <1>1, StoredIn, Zenon DEF Stored

(* What is due, handed out or waiting depends on the events and the call.  *)
LEMMA DueFrame ==
    ASSUME NEW c, S' = S, time' = time, triggered' = triggered,
           arg'[c] = arg[c], result'[c] = result[c], due'[c] = due[c]
    PROVE  (DueInv(c) => DueInv(c)') /\ (ScanInv(c) => ScanInv(c)')
<1>1. \A x : InResult(c, x)' <=> InResult(c, x)
  BY Zenon DEF InResult
<1>2. \A x : Awaits(c, x)' <=> Awaits(c, x)
  BY Zenon DEF Awaits
<1>3. DueInv(c) => DueInv(c)'
  BY <1>1, <1>2, Zenon DEF DueInv
<1>4. ScanInv(c) => ScanInv(c)'
  BY Zenon DEF ScanInv
<1> QED BY <1>3, <1>4, Zenon

(* DequeTimeEvents starts at the root, with an empty result.               *)
LEMMA DequeLockKeeps ==
    ASSUME Inv, NEW c \in Consumer, DequeLock(c)
    PROVE  Inv' /\ S' = S
<1>1. /\ TypeOK /\ Listed /\ WalkInv(c) /\ c \in Thread
      /\ c \notin Producer /\ c \notin Expirer
  BY ThreadAssumption, Zenon DEF Inv, Thread
<1>2. PICK loop \in {"deque", "scan"} : pc[c] = "idle" /\ pc' = [pc EXCEPT ![c] = loop]
  BY Zenon DEF DequeLock, Goto
<1>3. PICK upTo \in Clock :
         /\ arg' = [arg EXCEPT ![c] = upTo]
         /\ due' = [due EXCEPT ![c] =
               {x \in Item : Stored(x) /\ time[x] <= upTo /\ ~triggered[x]}]
  BY Zenon DEF DequeLock
<1>4. /\ Lock(c) /\ cur' = [cur EXCEPT ![c] = list.root]
      /\ UNCHANGED <<heap, queued, nextId, id, time, duration, triggered, list,
                     ev, old, result>>
  BY DEF DequeLock, eventVars, poolVars
<1>5. pc'[c] = loop /\ cur'[c] = list.root /\ result'[c] = <<>>
  BY <1>1, <1>2, <1>4 DEF TypeOK, WalkInv, Idle
<1>6. /\ S' = S /\ Listed' /\ MutexInv' /\ OwnerInv' /\ OrderInv'
      /\ \A t \in Thread : t # c => WalkInv(t)'
      /\ \A q \in Producer : HeldInv(q)'
  <2>1. loop \in Inside /\ loop \in ConsumerAt /\ pc[c] \in Idle
    BY <1>2 DEF Inside, Idle, ConsumerAt
  <2> QED BY <1>1, <1>2, <1>4, <2>1, EnterStep, Zenon
<1>7. TypeOK'
  <2>1. list.root \in Pointer
    BY <1>1, ListFields, Zenon DEF TypeOK
  <2>2. cur' \in [Thread -> Pointer]
    BY <1>1, <1>4, <2>1, Zenon DEF TypeOK
  <2>3. pc' \in [Thread -> Idle \cup Inside]
    BY <1>1, <1>2 DEF TypeOK, Inside
  <2>4. owner' \in Thread \cup {NoThread}
    BY <1>1, <1>4 DEF Lock
  <2>5. arg' \in [Thread -> Nat]
    BY <1>1, <1>3, TimeAssumption, ZenonT(30) DEF TypeOK
  <2>6. due' \in [Thread -> SUBSET Item]
    <3> DEFINE D == {x \in Item : Stored(x) /\ time[x] <= upTo /\ ~triggered[x]}
    <3>1. D \in SUBSET Item
      BY Zenon
    <3>2. due' = [due EXCEPT ![c] = D]
      BY <1>3, Zenon
    <3> HIDE DEF D
    <3> QED BY <1>1, <3>1, <3>2, Zenon DEF TypeOK
  <2> QED BY <1>1, <1>4, <2>2, <2>3, <2>4, <2>5, <2>6, Zenon DEF TypeOK
<1>8. WalkInv(c)'
  <2>1. Len(S) \in Nat /\ list.root = At(S, 1)
    BY <1>1, LinkedAt, AtType, Zenon DEF Listed, Represents
  <2>2. Len(result'[c]) = 0
    <3>1. Len(<<>>) = 0
      OBVIOUS
    <3> QED BY <1>5, <3>1, Zenon
  <2>3. Taken(c)'
    <3>1. \A i \in 1..Len(result'[c]) : FALSE
      BY <2>2
    <3> QED BY <3>1, Zenon DEF Taken
  <2>4. DequeAt(c, 1)'
    <3>1. \A j \in 1..Len(S) : ~(j < 1)
      BY <2>1
    <3>2. \A i \in 1..Len(result'[c]) : FALSE
      BY <2>2
    <3> QED BY <1>5, <1>6, <2>1, <2>3, <3>1, <3>2, Zenon DEF DequeAt
  <2>5. 1 \in 1..(Len(S) + 1)
    BY <2>1
  <2>6. \E k \in 1..(Len(S') + 1) : DequeAt(c, k)'
    BY <1>6, <2>4, <2>5, Zenon
  <2>7. /\ arg'[c] = upTo
        /\ \A x \in Item : x \in due'[c] <=>
              Stored(x) /\ time[x] <= upTo /\ ~triggered[x]
    <3>1. arg \in [Thread -> Nat] /\ due \in [Thread -> SUBSET Item]
      BY <1>1, Zenon DEF TypeOK
    <3> QED BY <1>1, <1>3, <3>1, Zenon
  <2>8. \A x \in Item : Stored(x) <=> \E j \in 1..Len(S) : S[j] = x
    BY <1>1, StoredListed, Zenon
  <2>9. DueInv(c)'
    <3>1. ASSUME NEW x \in Item PROVE ~InResult(c, x)'
      <4>1. \A i \in 1..Len(result'[c]) : FALSE
        BY <2>2
      <4> QED BY <4>1, Zenon DEF InResult
    <3>2. ASSUME NEW x \in Item PROVE x \in due'[c] <=> Awaits(c, x)'
      <4>1. S' = S /\ time' = time /\ triggered' = triggered
        BY <1>4, <1>6, Zenon
      <4> QED BY <2>7, <2>8, <4>1, Zenon DEF Awaits
    <3> QED BY <3>1, <3>2, Zenon DEF DueInv
  <2>10. ScanInv(c)'
    <3>1. \A x \in due'[c] : x \in Item
      BY <1>1, <1>7, Zenon DEF TypeOK
    <3>2. ASSUME NEW x \in due'[c] PROVE (\E j \in 1..Len(S) : S[j] = x) /\ ~triggered[x]
      BY <2>7, <2>8, <3>1, Zenon
    <3> QED BY <1>4, <1>5, <1>6, <3>2, Zenon DEF ScanInv
  <2>11. pc'[c] \in {"deque", "scan"}
    BY <1>5
  <2> QED BY <2>6, <2>9, <2>10, <2>11 DEF WalkInv, Idle
<1> QED BY <1>6, <1>7, <1>8, Zenon DEF Inv

(* What DequeTimeEvents takes is due, and later than what it took before.  *)
LEMMA TakenAppend ==
    ASSUME Inv, NEW c \in Consumer, NEW k \in 1..Len(S),
           DequeAt(c, k), pc[c] = "deque", time[S[k]] <= arg[c],
           time' = time, list' = list, arg' = arg,
           result' = [result EXCEPT ![c] = Append(@, S[k])]
    PROVE  /\ Taken(c)'
           /\ \A i \in 1..Len(result'[c]) :
                 \E j \in 1..Len(S) : j < k + 1 /\ result'[c][i] = S[j]
<1>1. TypeOK /\ Listed /\ OrderInv /\ c \in Thread
  BY Zenon DEF Inv, Thread
<1> DEFINE r == result[c]
<1>2. r \in Seq(Item) /\ result'[c] = Append(r, S[k])
  BY <1>1 DEF TypeOK
<1>3. /\ S \in Seq(Item) /\ Len(S) \in Nat /\ time \in [Item -> Nat] /\ S' = S
      /\ \A i \in 1..Len(S) : S[i] \in Item
  <2>1. S \in Seq(Item) /\ time \in [Item -> Nat]
    BY <1>1, Zenon DEF Listed, TypeOK
  <2> QED BY <2>1, AtType DEF S
<1> HIDE DEF r
<1> DEFINE w == Append(r, S[k])
<1>4. /\ Len(r) \in Nat /\ Len(w) = Len(r) + 1 /\ w[Len(r) + 1] = S[k]
      /\ \A i \in 1..Len(r) : w[i] = r[i]
  BY <1>2, <1>3
<1> HIDE DEF w
<1>5. /\ \A i \in 1..Len(r) : \E j \in 1..Len(S) : j < k /\ r[i] = S[j]
      /\ \A i \in 1..Len(r) :
            /\ time[r[i]] <= arg[c]
            /\ \A j \in 1..i : time[r[j]] <= time[r[i]]
  BY Zenon DEF DequeAt, Taken, r
<1>12. /\ \A i, j \in 1..Len(r) : r[j] = r[i] => j = i
       /\ \A i \in 1..Len(r) : r[i] # S[k]
  <2>1. \A i, j \in 1..Len(r) : r[j] = r[i] => j = i
    BY Zenon DEF DequeAt, Taken, r
  <2>2. Distinct(S)
    BY <1>1, <1>3, LinkedAt, Zenon DEF Listed, Represents
  <2>3. ASSUME NEW i \in 1..Len(r) PROVE r[i] # S[k]
    <3>1. PICK j \in 1..Len(S) : j < k /\ r[i] = S[j]
      BY <1>5, Zenon
    <3>2. j # k
      BY <3>1
    <3> QED BY <2>2, <3>1, <3>2, Zenon DEF Distinct
  <2> QED BY <2>1, <2>3, Zenon
<1>13. \A i, j \in 1..Len(w) : w[j] = w[i] => j = i
  <2> TAKE i, j \in 1..Len(w)
  <2>1. /\ i \in 1..Len(r) \/ i = Len(r) + 1
        /\ j \in 1..Len(r) \/ j = Len(r) + 1
    BY <1>4
  <2> QED BY <1>4, <1>12, <2>1, Zenon
<1>6. \A i \in 1..Len(w) : \E j \in 1..Len(S) : j < k + 1 /\ w[i] = S[j]
  <2> TAKE i \in 1..Len(w)
  <2>1. CASE i \in 1..Len(r)
    <3>1. PICK j \in 1..Len(S) : j < k /\ r[i] = S[j]
      BY <1>5, <2>1, Zenon
    <3>2. j < k + 1 /\ w[i] = S[j]
      BY <1>4, <2>1, <3>1
    <3> QED BY <3>2, Zenon
  <2>2. CASE i = Len(r) + 1
    <3>1. k < k + 1 /\ w[i] = S[k]
      BY <1>4, <2>2
    <3> QED BY <3>1, Zenon
  <2> QED BY <1>4, <2>1, <2>2
<1>7. \A i \in 1..Len(r) : time[r[i]] <= time[S[k]]
  <2> TAKE i \in 1..Len(r)
  <2>1. PICK j \in 1..Len(S) : j < k /\ r[i] = S[j]
    BY <1>5, Zenon
  <2> QED BY <1>1, <2>1, Zenon DEF OrderInv
<1>8. ASSUME NEW i \in 1..Len(w)
      PROVE  /\ time[w[i]] <= arg[c]
             /\ \A j \in 1..i : time[w[j]] <= time[w[i]]
  <2>1. CASE i \in 1..Len(r)
    <3>1. \A j \in 1..i : w[j] = r[j]
      BY <1>4, <2>1
    <3>2. w[i] = r[i]
      BY <1>4, <2>1, Zenon
    <3> QED BY <1>5, <2>1, <3>1, <3>2, Zenon
  <2>2. CASE i = Len(r) + 1
    <3>1. w[i] = S[k] /\ time[S[k]] \in Nat
      BY <1>3, <1>4, <2>2
    <3>2. ASSUME NEW j \in 1..i PROVE time[w[j]] <= time[S[k]]
      <4>1. CASE j = Len(r) + 1
        BY <1>4, <3>1, <4>1
      <4>2. CASE j # Len(r) + 1
        <5>1. j \in 1..Len(r)
          BY <1>4, <2>2, <4>2
        <5> QED BY <1>4, <1>7, <5>1, Zenon
      <4> QED BY <4>1, <4>2
    <3> QED BY <3>1, <3>2
  <2> QED BY <1>4, <2>1, <2>2
<1>9. \A i \in 1..Len(w) : \E j \in 1..Len(S) : w[i] = S[j]
  BY <1>6, Zenon
<1>10. result'[c] = w
  BY <1>2 DEF w
<1>11. Taken(c)'
  <2>1. \A i \in 1..Len(w) :
           /\ \E j \in 1..Len(S) : w[i] = S[j]
           /\ time[w[i]] <= arg[c]
           /\ \A j \in 1..i : time[w[j]] <= time[w[i]]
           /\ \A j \in 1..Len(w) : w[j] = w[i] => j = i
    BY <1>8, <1>9, <1>13, Zenon
  <2>2. S' = S /\ time' = time /\ arg' = arg /\ result'[c] = w
    BY <1>3, <1>10, Zenon
  <2>3. ASSUME NEW i \in 1..Len(result'[c])
        PROVE  /\ \E j \in 1..Len(S') : result'[c][i] = S'[j]
               /\ time'[result'[c][i]] <= arg'[c]
               /\ \A j \in 1..i : time'[result'[c][j]] <= time'[result'[c][i]]
               /\ \A j \in 1..Len(result'[c]) : result'[c][j] = result'[c][i] => j = i
    <3>1. i \in 1..Len(w)
      BY <2>2, Zenon
    <3>2. \E j \in 1..Len(S') : result'[c][i] = S'[j]
      <4>1. PICK j \in 1..Len(S) : w[i] = S[j]
        BY <1>9, <3>1, Zenon
      <4>2. j \in 1..Len(S') /\ result'[c][i] = S'[j]
        BY <2>2, <4>1, Zenon
      <4> QED BY <4>2, Zenon
    <3>3. time'[result'[c][i]] <= arg'[c]
      BY <2>1, <2>2, <3>1, Zenon
    <3>4. \A j \in 1..i : time'[result'[c][j]] <= time'[result'[c][i]]
      BY <2>1, <2>2, <3>1, Zenon
    <3>5. ASSUME NEW j \in 1..Len(result'[c]), result'[c][j] = result'[c][i]
          PROVE  j = i
      <4>1. j \in 1..Len(w) /\ w[j] = w[i]
        BY <2>2, <3>5, Zenon
      <4> QED BY <1>13, <3>1, <4>1, Zenon
    <3> QED BY <3>2, <3>3, <3>4, <3>5, Zenon
  <2> QED BY <2>3, Zenon DEF Taken
<1> QED BY <1>6, <1>10, <1>11, Zenon

(* An event that is taken was waiting, and is in the result then.          *)
LEMMA DueTake ==
    ASSUME NEW c \in Thread, NEW k \in 1..Len(S), DueInv(c),
           S \in Seq(Item), triggered \in [Item -> BOOLEAN],
           result \in [Thread -> Seq(Item)],
           time[S[k]] <= arg[c], ~triggered[S[k]], S' = S,
           time' = time, arg' = arg, due' = due,
           triggered' = [triggered EXCEPT ![S[k]] = TRUE],
           result' = [result EXCEPT ![c] = Append(@, S[k])]
    PROVE  DueInv(c)'
<1>1. S[k] \in Item
  BY SeqFacts
<1>2. ASSUME NEW x \in Item PROVE InResult(c, x)' <=> InResult(c, x) \/ x = S[k]
  <2> DEFINE r == result[c]
             y == S[k]
  <2>1. r \in Seq(Item) /\ result'[c] = Append(r, y) /\ y \in Item
    BY <1>1, Zenon
  <2> HIDE DEF r, y
  <2>2. (\E i \in 1..Len(Append(r, y)) : Append(r, y)[i] = x)
           <=> (\E i \in 1..Len(r) : r[i] = x) \/ x = y
    <3> DEFINE q == Append(r, y)
               n == Len(r)
    <3>1. n \in Nat /\ Len(q) = n + 1 /\ q[n + 1] = y /\ \A i \in 1..n : q[i] = r[i]
      BY <2>1
    <3> HIDE DEF q, n
    <3>2. n + 1 \in 1..Len(q) /\ \A i : i \in 1..Len(q) <=> i \in 1..n \/ i = n + 1
      BY <3>1
    <3>3. (\E i \in 1..Len(q) : q[i] = x) <=> (\E i \in 1..n : r[i] = x) \/ x = y
      BY <3>1, <3>2, Zenon
    <3> QED BY <3>3, Zenon DEF q, n
  <2> QED BY <2>1, <2>2, Zenon DEF InResult, r, y
<1>3. ASSUME NEW x \in Item PROVE Awaits(c, x)' <=> Awaits(c, x) /\ x # S[k]
  <2>1. triggered'[x] <=> triggered[x] \/ x = S[k]
    BY <1>1, Zenon
  <2> QED BY <2>1, Zenon DEF Awaits
<1>4. Awaits(c, S[k])
  BY Zenon DEF Awaits
<1> QED BY <1>2, <1>3, <1>4, Zenon DEF DueInv

(* One event of DequeTimeEvents: it is taken when it has not fired and is  *)
(* due.  Then every event in front of it has fired.                        *)
LEMMA DequeStepKeeps ==
    ASSUME Inv, NEW c \in Consumer, DequeStep(c)
    PROVE  /\ Inv' /\ S' = S /\ time' = time
           /\ \/ triggered' = triggered
              \/ \E k \in 1..Len(S) :
                    /\ \A j \in 1..Len(S) : j < k => triggered[S[j]]
                    /\ ~triggered[S[k]]
                    /\ triggered' = [triggered EXCEPT ![S[k]] = TRUE]
<1>1. /\ TypeOK /\ Listed /\ WalkInv(c) /\ OwnerInv /\ c \in Thread
      /\ c \notin Producer /\ c \notin Expirer
  BY ThreadAssumption, Zenon DEF Inv, Thread
<1> DEFINE take == pc[c] = "deque" /\ ~triggered[cur[c]]
<1>2. /\ pc[c] \in {"deque", "scan"} /\ cur[c] # NULL
      /\ triggered[cur[c]] \/ time[cur[c]] <= arg[c]
      /\ cur' = [cur EXCEPT ![c] = list.next[cur[c]]]
      /\ UNCHANGED <<heap, queued, nextId, id, time, duration, list, owner, pc,
                     ev, arg, old, due>>
  BY DEF DequeStep, poolVars, Skipped, Due
<1>3. /\ triggered' = [triggered EXCEPT ![cur[c]] = @ \/ take]
      /\ result' = [result EXCEPT ![c] = IF take THEN Append(@, cur[c]) ELSE @]
  BY Zenon DEF DequeStep, Skipped
<1>4. cur'[c] = list.next[cur[c]] /\ cur[c] \in Item
  BY <1>1, <1>2 DEF TypeOK, Pointer
<1>5. PICK k \in 1..(Len(S) + 1) : DequeAt(c, k)
  BY <1>1, <1>2, Zenon DEF WalkInv
<1>6. /\ Len(S) \in Nat /\ S \in Seq(Item)
      /\ \A i \in 1..Len(S) : list.next[S[i]] = At(S, i + 1) /\ S[i] \in Item
  <2>1. S \in Seq(Item) /\ Linked(list, S)
    BY <1>1, Zenon DEF Listed, Represents
  <2> QED BY <2>1, LinkedAt
<1>7. k \in 1..Len(S) /\ cur[c] = S[k]
  BY <1>2, <1>5, <1>6, Zenon DEF At, DequeAt
<1>8. cur'[c] = At(S, k + 1) /\ k + 1 \in 1..(Len(S) + 1)
  BY <1>4, <1>6, <1>7
<1>9. triggered \in [Item -> BOOLEAN] /\ result \in [Thread -> Seq(Item)]
  BY <1>1, Zenon DEF TypeOK
<1>10. CASE take
  <2>1. triggered' = [triggered EXCEPT ![S[k]] = TRUE] /\ ~triggered[S[k]]
    BY <1>3, <1>7, <1>10, Zenon
  <2>2. result' = [result EXCEPT ![c] = Append(@, S[k])]
    BY <1>3, <1>7, <1>10, Zenon
  <2>3. \A j \in 1..Len(S) : j < k => triggered[S[j]]
    BY <1>5, <1>10, Zenon DEF DequeAt
  <2>4. /\ S' = S /\ Listed' /\ MutexInv' /\ OwnerInv' /\ OrderInv'
        /\ \A t \in Thread : t # c => WalkInv(t)'
        /\ \A q \in Producer : HeldInv(q)'
    <3>1. pc[c] \in Inside /\ pc[c] \in ConsumerAt
      BY <1>2, Zenon DEF Inside, ConsumerAt
    <3>2. pc' = [pc EXCEPT ![c] = pc[c]]
      BY <1>1, <1>2 DEF TypeOK
    <3>3. ASSUME NEW q \in Producer, ev[q] # NULL PROVE Kept(ev[q])
      <4>1. ev[q] \in Item
        BY <1>1, <3>3 DEF TypeOK, Pointer, Thread
      <4>2. S[k] # ev[q]
        BY <1>1, <1>7, <3>3, Zenon DEF OwnerInv
      <4>3. triggered'[ev[q]] = triggered[ev[q]]
        BY <1>9, <2>1, <4>1, <4>2, Zenon
      <4> QED BY <1>2, <4>3, Zenon DEF Kept
    <3>4. \A t \in Thread : t # c => result'[t] = result[t]
      BY <1>9, <2>2, Zenon
    <3> QED BY <1>1, <1>2, <3>1, <3>2, <3>3, <3>4, InsideStep, Zenon
  <2>5. TypeOK'
    <3>1. list.next[cur[c]] \in Pointer
      <4>1. list \in ListType
        BY <1>1, Zenon DEF TypeOK
      <4>2. list.next \in [Item -> Pointer]
        BY <4>1, ListFields, Zenon
      <4> QED BY <1>4, <4>2, Zenon
    <3>2. cur' \in [Thread -> Pointer]
      BY <1>1, <1>2, <3>1, Zenon DEF TypeOK
    <3>3. triggered' \in [Item -> BOOLEAN]
      BY <1>9, <2>1, Zenon
    <3>4. Append(result[c], S[k]) \in Seq(Item)
      BY <1>1, <1>6, <1>7, <1>9
    <3>5. result' \in [Thread -> Seq(Item)]
      BY <1>9, <2>2, <3>4, Zenon
    <3> QED BY <1>1, <1>2, <3>2, <3>3, <3>5, Zenon DEF TypeOK
  <2>6. /\ Taken(c)'
        /\ \A i \in 1..Len(result'[c]) :
              \E j \in 1..Len(S) : j < k + 1 /\ result'[c][i] = S[j]
    <3>1. time[S[k]] <= arg[c]
      BY <1>2, <1>7, <1>10, Zenon
    <3> HIDE DEF take
    <3>2. pc[c] = "deque"
      BY <1>10, Zenon DEF take
    <3> QED BY <1>2, <1>5, <1>7, <2>2, <3>1, <3>2, TakenAppend, Zenon
  <2>7. ASSUME NEW j \in 1..Len(S), j < k + 1 PROVE triggered'[S[j]]
    <3>1. CASE S[j] = S[k]
      BY <1>6, <1>7, <1>9, <2>1, <3>1, Zenon
    <3>2. CASE S[j] # S[k]
      <4>1. j < k
        BY <1>6, <1>7, <2>7, <3>2
      <4> QED BY <1>6, <1>9, <2>1, <2>3, <3>2, <4>1, Zenon
    <3> QED BY <3>1, <3>2, Zenon
  <2>8. DequeAt(c, k + 1)'
    BY <1>8, <2>4, <2>6, <2>7, Zenon DEF DequeAt
  <2>9. WalkInv(c)'
    <3>1. \E n \in 1..(Len(S') + 1) : DequeAt(c, n)'
      BY <1>8, <2>4, <2>8, Zenon
    <3>2. pc'[c] = "deque"
      BY <1>2, <1>10
    <3>3. DueInv(c)
      <4> HIDE DEF take
      <4>1. pc[c] = "deque"
        BY <1>10, Zenon DEF take
      <4> QED BY <1>1, <4>1, Zenon DEF WalkInv
    <3>4. time[S[k]] <= arg[c]
      BY <1>2, <1>7, <1>10, Zenon
    <3>5. DueInv(c)'
      BY <1>2, <1>6, <1>7, <1>9, <2>1, <2>2, <2>4, <3>3, <3>4, <1>1, DueTake, Zenon
    <3> QED BY <3>1, <3>2, <3>5 DEF WalkInv, Idle
  <2>10. Inv'
    BY <2>4, <2>5, <2>9, Zenon DEF Inv
  <2> QED BY <1>2, <1>7, <2>1, <2>3, <2>4, <2>10, Zenon
<1>11. CASE ~take
  <2>1. triggered' = triggered /\ result' = result
    <3> HIDE DEF take
    <3>1. triggered[cur[c]] \/ take <=> triggered[cur[c]]
      BY <1>11, Zenon
    <3>2. (triggered[cur[c]] \/ take) = triggered[cur[c]]
      BY <1>4, <1>9, <3>1, Zenon
    <3>3. triggered' = triggered
      BY <1>3, <1>4, <1>9, <3>2, Zenon
    <3>4. result' = result
      BY <1>1, <1>3, <1>9, <1>11, Zenon
    <3> QED BY <3>3, <3>4, Zenon
  <2>2. pc[c] = "deque" => triggered[S[k]]
    BY <1>7, <1>11, Zenon
  <2>4. /\ S' = S /\ Listed' /\ MutexInv' /\ OwnerInv' /\ OrderInv'
        /\ \A t \in Thread : t # c => WalkInv(t)'
        /\ \A q \in Producer : HeldInv(q)'
    <3>1. pc[c] \in Inside /\ pc[c] \in ConsumerAt
      BY <1>2, Zenon DEF Inside, ConsumerAt
    <3>2. pc' = [pc EXCEPT ![c] = pc[c]]
      BY <1>1, <1>2 DEF TypeOK
    <3>3. \A q \in Producer : ev[q] # NULL => Kept(ev[q])
      BY <1>2, <2>1, Zenon DEF Kept
    <3> QED BY <1>1, <1>2, <2>1, <3>1, <3>2, <3>3, InsideStep, Zenon
  <2>5. TypeOK'
    <3>1. list.next[cur[c]] \in Pointer
      <4>1. list \in ListType
        BY <1>1, Zenon DEF TypeOK
      <4>2. list.next \in [Item -> Pointer]
        BY <4>1, ListFields, Zenon
      <4> QED BY <1>4, <4>2, Zenon
    <3>2. cur' \in [Thread -> Pointer]
      BY <1>1, <1>2, <3>1, Zenon DEF TypeOK
    <3> QED BY <1>1, <1>2, <2>1, <3>2, Zenon DEF TypeOK
  <2>6. DequeAt(c, k + 1)'
    <3>1. CASE pc[c] = "deque"
      <4>1. /\ \A j \in 1..Len(S) : j < k => triggered[S[j]]
            /\ \A i \in 1..Len(result[c]) :
                  \E j \in 1..Len(S) : j < k /\ result[c][i] = S[j]
            /\ Taken(c)
        BY <1>5, <3>1, Zenon DEF DequeAt
      <4>2. \A j \in 1..Len(S) : j < k + 1 => j < k \/ j = k
        BY <1>6, <1>7
      <4>3. \A j \in 1..Len(S) : j < k => j < k + 1
        BY <1>6, <1>7
      <4>4. \A j \in 1..Len(S) : j < k + 1 => triggered[S[j]]
        BY <2>2, <3>1, <4>1, <4>2, Zenon
      <4>5. \A i \in 1..Len(result[c]) :
              \E j \in 1..Len(S) : j < k + 1 /\ result[c][i] = S[j]
        BY <4>1, <4>3, Zenon
      <4>6. Taken(c)'
        BY <1>2, <2>1, <2>4, <4>1, Zenon DEF Taken
      <4> QED BY <1>2, <1>8, <2>1, <2>4, <4>4, <4>5, <4>6, Zenon DEF DequeAt
    <3>2. CASE pc[c] # "deque"
      BY <1>2, <1>8, <2>4, <3>2, Zenon DEF DequeAt
    <3> QED BY <3>1, <3>2, Zenon
  <2>7. WalkInv(c)'
    <3>1. \E n \in 1..(Len(S') + 1) : DequeAt(c, n)'
      BY <1>8, <2>4, <2>6, Zenon
    <3>2. pc'[c] \in {"deque", "scan"} /\ pc'[c] = pc[c]
      BY <1>2, ZenonT(30)
    <3>3. (DueInv(c) => DueInv(c)') /\ (ScanInv(c) => ScanInv(c)')
      BY <1>2, <2>1, <2>4, DueFrame, Zenon
    <3>4. pc'[c] = "deque" => DueInv(c)'
      BY <1>1, <3>2, <3>3, Zenon DEF WalkInv
    <3>5. pc'[c] = "scan" => ScanInv(c)'
      BY <1>1, <3>2, <3>3, Zenon DEF WalkInv
    <3> QED BY <3>1, <3>2, <3>4, <3>5 DEF WalkInv, Idle
  <2>8. Inv'
    BY <2>4, <2>5, <2>7, Zenon DEF Inv
  <2> QED BY <1>2, <2>1, <2>4, <2>8, Zenon
<1> QED BY <1>10, <1>11, Zenon

(* DequeTimeEvents leaves its loop: at the end of the list, or at an event *)
(* that is not due, behind which none is.                                  *)
LEMMA DequeDoneKeeps ==
    ASSUME Inv, NEW c \in Consumer, DequeDone(c)
    PROVE  Inv' /\ S' = S
<1>1. /\ TypeOK /\ Listed /\ WalkInv(c) /\ OrderInv /\ c \in Thread
      /\ c \notin Producer /\ c \notin Expirer
  BY ThreadAssumption, Zenon DEF Inv, Thread
<1> DEFINE to == IF pc[c] = "deque" THEN "dequed" ELSE "scanned"
<1>2. /\ pc[c] \in {"deque", "scan"}
      /\ cur[c] = NULL \/ (~triggered[cur[c]] /\ ~(time[cur[c]] <= arg[c]))
      /\ pc' = [pc EXCEPT ![c] = to]
      /\ cur' = [cur EXCEPT ![c] = NULL]
      /\ UNCHANGED <<heap, queued, nextId, id, time, duration, triggered, list,
                     owner, ev, arg, old, result, due>>
  BY Zenon DEF DequeDone, poolVars, eventVars, Skipped, Due
<1>3. /\ to \in Inside /\ to \in ConsumerAt /\ pc[c] \in Inside
      /\ to = "dequed" \/ to = "scanned"
      /\ to = "dequed" => pc[c] = "deque"
      /\ to = "scanned" => pc[c] = "scan"
  BY <1>2 DEF Inside, ConsumerAt
<1> HIDE DEF to
<1>4. pc'[c] = to
  BY <1>1, <1>2 DEF TypeOK
<1>5. /\ S' = S /\ Listed' /\ MutexInv' /\ OwnerInv' /\ OrderInv'
      /\ \A t \in Thread : t # c => WalkInv(t)'
      /\ \A q \in Producer : HeldInv(q)'
  <2>1. \A q \in Producer : ev[q] # NULL => Kept(ev[q])
    BY <1>2, Zenon DEF Kept
  <2>2. \A t \in Thread : t # c => result'[t] = result[t]
    BY <1>2, Zenon
  <2> QED BY <1>1, <1>2, <1>3, <2>1, <2>2, InsideStep, Zenon
<1>6. TypeOK'
  <2>1. cur' \in [Thread -> Pointer]
    BY <1>1, <1>2 DEF TypeOK, Pointer
  <2>2. pc' \in [Thread -> Idle \cup Inside]
    BY <1>1, <1>2, <1>3, Zenon DEF TypeOK
  <2> QED BY <1>1, <1>2, <2>1, <2>2, Zenon DEF TypeOK
<1>7. ASSUME pc[c] = "deque"
      PROVE  /\ \A j \in 1..Len(S) : time[S[j]] <= arg[c] => triggered[S[j]]
             /\ Taken(c)'
  <2>1. PICK k \in 1..(Len(S) + 1) : DequeAt(c, k)
    BY <1>1, <1>2, Zenon DEF WalkInv
  <2>2. /\ cur[c] = At(S, k) /\ Taken(c)
        /\ \A j \in 1..Len(S) : j < k => triggered[S[j]]
    BY <1>7, <2>1, Zenon DEF DequeAt
  <2>3. Taken(c)'
    BY <1>2, <1>5, <2>2, Zenon DEF Taken
  <2>4. S \in Seq(Item) /\ time \in [Item -> Nat] /\ arg[c] \in Nat
    BY <1>1, Zenon DEF Listed, TypeOK
  <2>5. Len(S) \in Nat /\ \A i \in 1..Len(S) : S[i] \in Item /\ time[S[i]] \in Nat
    BY <2>4, AtType
  <2>6. ASSUME NEW j \in 1..Len(S), time[S[j]] <= arg[c] PROVE j < k
    <3>1. CASE k = Len(S) + 1
      BY <2>5, <3>1
    <3>2. CASE k \in 1..Len(S)
      <4>1. cur[c] = S[k] /\ cur[c] # NULL
        BY <2>2, <2>5, <3>2, NullAssumption DEF At
      <4>2. ~(time[S[k]] <= arg[c])
        BY <1>2, <4>1, Zenon
      <4>3. k # j
        BY <2>6, <4>2
      <4>4. ~(k < j)
        <5>1. k < j => time[S[k]] <= time[S[j]]
          BY <1>1, <3>2, Zenon DEF OrderInv
        <5> QED BY <2>4, <2>5, <2>6, <3>2, <4>2, <5>1
      <4> QED BY <3>2, <4>3, <4>4
    <3> QED BY <2>5, <3>1, <3>2
  <2> QED BY <2>2, <2>3, <2>6, Zenon
<1>9. (DueInv(c) => DueInv(c)') /\ (ScanInv(c) => ScanInv(c)')
  BY <1>2, <1>5, DueFrame, Zenon
<1>8. WalkInv(c)'
  <2>1. CASE to = "dequed"
    <3>1. /\ \A j \in 1..Len(S) : time[S[j]] <= arg[c] => triggered[S[j]]
          /\ Taken(c)'
      BY <1>3, <1>7, <2>1, Zenon
    <3>2. \A j \in 1..Len(S') : time'[S'[j]] <= arg'[c] => triggered'[S'[j]]
      BY <1>2, <1>5, <3>1, Zenon
    <3>3. DueInv(c)'
      BY <1>1, <1>3, <1>9, <2>1, Zenon DEF WalkInv
    <3> QED BY <1>4, <2>1, <3>1, <3>2, <3>3 DEF WalkInv, Idle
  <2>2. CASE to = "scanned"
    <3>1. ScanInv(c)'
      BY <1>1, <1>3, <1>9, <2>2, Zenon DEF WalkInv
    <3> QED BY <1>4, <2>2, <3>1 DEF WalkInv, Idle
  <2> QED BY <1>3, <2>1, <2>2, Zenon
<1> QED BY <1>5, <1>6, <1>8, Zenon DEF Inv

(* GetTimeEvents starts at the root, with an empty result.                 *)
LEMMA GetLockKeeps ==
    ASSUME Inv, NEW c \in Consumer, GetLock(c)
    PROVE  Inv' /\ S' = S
<1>1. /\ TypeOK /\ Listed /\ WalkInv(c) /\ c \in Thread
      /\ c \notin Producer /\ c \notin Expirer
  BY ThreadAssumption, Zenon DEF Inv, Thread
<1>2. /\ pc[c] = "idle" /\ pc' = [pc EXCEPT ![c] = "get"]
      /\ Lock(c) /\ cur' = [cur EXCEPT ![c] = list.root]
      /\ UNCHANGED <<heap, queued, nextId, id, time, duration, triggered, list,
                     ev, arg, old, result, due>>
  BY DEF GetLock, Goto, eventVars, poolVars
<1>3. pc'[c] = "get" /\ cur'[c] = list.root /\ result'[c] = <<>>
  BY <1>1, <1>2 DEF TypeOK, WalkInv, Idle
<1>4. /\ S' = S /\ Listed' /\ MutexInv' /\ OwnerInv' /\ OrderInv'
      /\ \A t \in Thread : t # c => WalkInv(t)'
      /\ \A q \in Producer : HeldInv(q)'
  <2>1. "get" \in Inside /\ "get" \in ConsumerAt /\ pc[c] \in Idle
    BY <1>2 DEF Inside, Idle, ConsumerAt
  <2> QED BY <1>1, <1>2, <2>1, EnterStep, Zenon
<1>5. TypeOK'
  <2>1. list.root \in Pointer
    BY <1>1, ListFields, Zenon DEF TypeOK
  <2>2. cur' \in [Thread -> Pointer]
    BY <1>1, <1>2, <2>1, Zenon DEF TypeOK
  <2>3. pc' \in [Thread -> Idle \cup Inside]
    BY <1>1, <1>2 DEF TypeOK, Inside
  <2>4. owner' \in Thread \cup {NoThread}
    BY <1>1, <1>2 DEF Lock
  <2> QED BY <1>1, <1>2, <2>2, <2>3, <2>4, Zenon DEF TypeOK
<1>6. WalkInv(c)'
  <2>1. Len(S) \in Nat /\ list.root = At(S, 1)
    <3>1. S \in Seq(Item) /\ Linked(list, S)
      BY <1>1, Zenon DEF Listed, Represents
    <3> QED BY <3>1, LinkedAt, SeqFacts, Zenon
  <2>2. GetAt(c, 1)'
    BY <1>3, <1>4, <2>1 DEF GetAt
  <2>3. 1 \in 1..(Len(S) + 1)
    BY <2>1
  <2>4. \E k \in 1..(Len(S') + 1) : GetAt(c, k)'
    BY <1>4, <2>2, <2>3, Zenon
  <2> QED BY <1>3, <2>4 DEF WalkInv, Idle
<1> QED BY <1>4, <1>5, <1>6, Zenon DEF Inv

(* One event of GetTimeEvents.                                             *)
LEMMA GetStepKeeps ==
    ASSUME Inv, NEW c \in Consumer, GetStep(c)
    PROVE  Inv' /\ S' = S
<1>1. /\ TypeOK /\ Listed /\ WalkInv(c) /\ c \in Thread
      /\ c \notin Producer /\ c \notin Expirer
  BY ThreadAssumption, Zenon DEF Inv, Thread
<1>2. /\ pc[c] = "get" /\ cur[c] # NULL
      /\ result' = [result EXCEPT ![c] = Append(@, cur[c])]
      /\ cur' = [cur EXCEPT ![c] = list.next[cur[c]]]
      /\ UNCHANGED <<heap, queued, nextId, id, time, duration, triggered, list,
                     owner, pc, ev, arg, old, due>>
  BY Zenon DEF GetStep, eventVars, poolVars
<1>3. /\ cur'[c] = list.next[cur[c]] /\ cur[c] \in Item
      /\ result[c] \in Seq(Item) /\ result'[c] = Append(result[c], cur[c])
  BY <1>1, <1>2 DEF TypeOK, Pointer
<1>4. PICK k \in 1..(Len(S) + 1) : GetAt(c, k)
  BY <1>1, <1>2, Zenon DEF WalkInv
<1>5. /\ cur[c] = At(S, k) /\ Len(result[c]) = k - 1
      /\ \A i \in 1..Len(S) : i < k => result[c][i] = S[i]
  BY <1>4, Zenon DEF GetAt
<1>6. /\ Len(S) \in Nat /\ S \in Seq(Item)
      /\ \A i \in 1..Len(S) : list.next[S[i]] = At(S, i + 1) /\ S[i] \in Item
  <2>1. S \in Seq(Item) /\ Linked(list, S)
    BY <1>1, Zenon DEF Listed, Represents
  <2> QED BY <2>1, LinkedAt
<1>7. k \in 1..Len(S) /\ cur[c] = S[k]
  <2>1. cur[c] # NULL
    BY <1>2, Zenon
  <2> QED BY <1>5, <2>1, Zenon DEF At
<1>8. cur'[c] = At(S, k + 1) /\ k + 1 \in 1..(Len(S) + 1)
  BY <1>3, <1>6, <1>7
<1>9. /\ S' = S /\ Listed' /\ MutexInv' /\ OwnerInv' /\ OrderInv'
      /\ \A t \in Thread : t # c => WalkInv(t)'
      /\ \A q \in Producer : HeldInv(q)'
  <2>1. pc[c] \in Inside /\ pc[c] \in ConsumerAt
    BY <1>2, Zenon DEF Inside, ConsumerAt
  <2>2. pc' = [pc EXCEPT ![c] = pc[c]]
    BY <1>1, <1>2 DEF TypeOK
  <2>3. \A q \in Producer : ev[q] # NULL => Kept(ev[q])
    BY <1>2, Zenon DEF Kept
  <2>4. \A t \in Thread : t # c => result'[t] = result[t]
    BY <1>1, <1>2, Zenon DEF TypeOK
  <2> QED BY <1>1, <1>2, <2>1, <2>2, <2>3, <2>4, InsideStep, Zenon
<1>10. TypeOK'
  <2>1. list.next[cur[c]] \in Pointer
    <3>1. list \in ListType
      BY <1>1, Zenon DEF TypeOK
    <3>2. list.next \in [Item -> Pointer]
      BY <3>1, ListFields, Zenon
    <3> QED BY <1>3, <3>2, Zenon
  <2>2. cur' \in [Thread -> Pointer]
    BY <1>1, <1>2, <2>1, Zenon DEF TypeOK
  <2>3. Append(result[c], cur[c]) \in Seq(Item)
    BY <1>3
  <2>4. result' \in [Thread -> Seq(Item)]
    BY <1>1, <1>2, <2>3, Zenon DEF TypeOK
  <2> QED BY <1>1, <1>2, <2>2, <2>4, Zenon DEF TypeOK
<1>11. WalkInv(c)'
  <2>1. /\ Len(result'[c]) = (k + 1) - 1
        /\ \A i \in 1..Len(S) : i < k + 1 => result'[c][i] = S[i]
    <3>1. /\ Len(result'[c]) = Len(result[c]) + 1
          /\ result'[c][Len(result[c]) + 1] = S[k]
          /\ \A i \in 1..Len(result[c]) : result'[c][i] = result[c][i]
      <4> DEFINE r == result[c]
                 x == cur[c]
      <4>1. r \in Seq(Item) /\ x \in Item /\ result'[c] = Append(r, x) /\ x = S[k]
        BY <1>3, <1>7, Zenon
      <4> HIDE DEF r, x
      <4>2. /\ Len(Append(r, x)) = Len(r) + 1 /\ Append(r, x)[Len(r) + 1] = x
            /\ \A i \in 1..Len(r) : Append(r, x)[i] = r[i]
        BY <4>1
      <4> QED BY <4>1, <4>2, Zenon DEF r
    <3>2. ASSUME NEW i \in 1..Len(S), i < k + 1 PROVE result'[c][i] = S[i]
      <4>1. CASE i = k
        BY <1>5, <3>1, <4>1
      <4>2. CASE i # k
        <5>1. i \in 1..Len(result[c]) /\ i < k
          BY <1>5, <1>6, <3>2, <4>2
        <5> QED BY <1>5, <3>1, <5>1, Zenon
      <4> QED BY <4>1, <4>2, ZenonT(30)
    <3>3. Len(result'[c]) = (k + 1) - 1
      BY <1>5, <1>6, <3>1
    <3> QED BY <3>2, <3>3
  <2>2. GetAt(c, k + 1)'
    BY <1>8, <1>9, <2>1, Zenon DEF GetAt
  <2>3. \E n \in 1..(Len(S') + 1) : GetAt(c, n)'
    BY <1>8, <1>9, <2>2, Zenon
  <2>4. pc'[c] = "get"
    BY <1>2, Zenon
  <2> QED BY <2>3, <2>4, Zenon DEF WalkInv, Idle
<1> QED BY <1>9, <1>10, <1>11, Zenon DEF Inv

(* The end of GetTimeEvents' loop.                                         *)
LEMMA GetDoneKeeps ==
    ASSUME Inv, NEW c \in Consumer, GetDone(c)
    PROVE  Inv' /\ S' = S
<1>1. /\ TypeOK /\ Listed /\ WalkInv(c) /\ c \in Thread
      /\ c \notin Producer /\ c \notin Expirer
  BY ThreadAssumption, Zenon DEF Inv, Thread
<1>2. /\ pc[c] = "get" /\ cur[c] = NULL /\ pc' = [pc EXCEPT ![c] = "listed"]
      /\ UNCHANGED <<heap, queued, nextId, id, time, duration, triggered, list,
                     owner, ev, cur, arg, old, result, due>>
  BY Zenon DEF GetDone, Goto, eventVars, poolVars, localVars
<1>3. pc'[c] = "listed" /\ result[c] \in Seq(Item)
  BY <1>1, <1>2, ZenonT(30) DEF TypeOK
<1>4. /\ S' = S /\ Listed' /\ MutexInv' /\ OwnerInv' /\ OrderInv'
      /\ \A t \in Thread : t # c => WalkInv(t)'
      /\ \A q \in Producer : HeldInv(q)'
  <2>1. "listed" \in Inside /\ pc[c] \in Inside /\ "listed" \in ConsumerAt
    BY <1>2, Zenon DEF Inside, ConsumerAt
  <2>2. \A q \in Producer : ev[q] # NULL => Kept(ev[q])
    BY <1>2, Zenon DEF Kept
  <2>3. \A t \in Thread : t # c => result'[t] = result[t]
    BY <1>2, Zenon
  <2> QED BY <1>1, <1>2, <2>1, <2>2, <2>3, InsideStep, Zenon
<1>5. TypeOK'
  <2>1. pc' \in [Thread -> Idle \cup Inside]
    BY <1>1, <1>2 DEF TypeOK, Inside
  <2> QED BY <1>1, <1>2, <2>1, Zenon DEF TypeOK
<1>6. result[c] = S
  <2>1. PICK k \in 1..(Len(S) + 1) : GetAt(c, k)
    BY <1>1, <1>2, Zenon DEF WalkInv
  <2>2. /\ cur[c] = At(S, k) /\ Len(result[c]) = k - 1
        /\ \A i \in 1..Len(S) : i < k => result[c][i] = S[i]
    BY <2>1, Zenon DEF GetAt
  <2>3. S \in Seq(Item) /\ Len(S) \in Nat /\ \A i \in 1..Len(S) : S[i] # NULL
    BY <1>1, AtType, Zenon DEF Listed
  <2>4. k = Len(S) + 1
    <3>1. k \in 1..Len(S) => cur[c] = S[k]
      BY <2>2, Zenon DEF At
    <3>2. k \notin 1..Len(S)
      BY <1>2, <2>3, <3>1, Zenon
    <3> QED BY <2>3, <3>2
  <2>5. Len(result[c]) = Len(S) /\ \A i \in 1..Len(S) : result[c][i] = S[i]
    BY <2>2, <2>3, <2>4
  <2> QED BY <1>3, <2>3, <2>5, SameSeq, Zenon
<1>7. WalkInv(c)'
  BY <1>2, <1>3, <1>4, <1>6, Zenon DEF WalkInv, Idle
<1> QED BY <1>4, <1>5, <1>7, Zenon DEF Inv

(* ExpireEvents starts at the root.                                        *)
LEMMA ExpireLockKeeps ==
    ASSUME Inv, NEW e \in Expirer, ExpireLock(e)
    PROVE  Inv' /\ S' = S
<1>1. /\ TypeOK /\ Listed /\ WalkInv(e) /\ e \in Thread
      /\ e \notin Producer /\ e \notin Consumer
  BY ThreadAssumption, Zenon DEF Inv, Thread
<1>2. /\ pc[e] = "idle" /\ pc' = [pc EXCEPT ![e] = "expire"]
      /\ Lock(e) /\ cur' = [cur EXCEPT ![e] = list.root]
      /\ UNCHANGED <<heap, queued, nextId, id, time, duration, triggered, list,
                     ev, result, due>>
  BY DEF ExpireLock, Goto, eventVars, poolVars
<1>3. PICK startTime \in Clock : arg' = [arg EXCEPT ![e] = startTime]
  BY Zenon DEF ExpireLock
<1>4. PICK secondsOld \in SecondsOld : old' = [old EXCEPT ![e] = secondsOld]
  BY Zenon DEF ExpireLock
<1>5. pc'[e] = "expire" /\ cur'[e] = list.root
  BY <1>1, <1>2 DEF TypeOK
<1>6. /\ S' = S /\ Listed' /\ MutexInv' /\ OwnerInv' /\ OrderInv'
      /\ \A t \in Thread : t # e => WalkInv(t)'
      /\ \A q \in Producer : HeldInv(q)'
  <2>1. "expire" \in Inside /\ "expire" \in ExpirerAt /\ pc[e] \in Idle
    BY <1>2 DEF Inside, Idle, ExpirerAt
  <2>2. /\ e \in Thread /\ Lock(e) /\ pc' = [pc EXCEPT ![e] = "expire"]
        /\ e \in Producer => pc[e] = "store" /\ "expire" = "storeWalk"
        /\ e \in Consumer => "expire" \in ConsumerAt
    BY <1>1, <1>2, Zenon
  <2>3. /\ list' = list /\ heap' = heap /\ queued' = queued
        /\ time' = time /\ triggered' = triggered /\ duration' = duration
        /\ ev' = ev /\ result' = result
    BY <1>2, Zenon
  <2> QED BY <2>1, <2>2, <2>3, EnterStep, Zenon
<1>7. TypeOK'
  <2>1. list.root \in Pointer
    BY <1>1, ListFields, Zenon DEF TypeOK
  <2>2. cur' \in [Thread -> Pointer]
    BY <1>1, <1>2, <2>1, Zenon DEF TypeOK
  <2>3. pc' \in [Thread -> Idle \cup Inside]
    BY <1>1, <1>2 DEF TypeOK, Inside
  <2>4. owner' \in Thread \cup {NoThread}
    BY <1>1, <1>2 DEF Lock
  <2>5. arg' \in [Thread -> Nat] /\ old' \in [Thread -> Nat]
    BY <1>1, <1>3, <1>4, TimeAssumption DEF TypeOK
  <2> QED BY <1>1, <1>2, <2>2, <2>3, <2>4, <2>5, Zenon DEF TypeOK
<1>8. WalkInv(e)'
  <2>1. Len(S) \in Nat /\ list.root = At(S, 1)
    BY <1>1, LinkedAt, AtType, Zenon DEF Listed, Represents
  <2>2. ExpireAt(e, 1)'
    BY <1>5, <1>6, <2>1 DEF ExpireAt
  <2>3. 1 \in 1..(Len(S) + 1)
    BY <2>1
  <2>4. \E k \in 1..(Len(S') + 1) : ExpireAt(e, k)'
    BY <1>6, <2>2, <2>3, Zenon
  <2> QED BY <1>5, <2>4, Zenon DEF WalkInv, Idle
<1> QED BY <1>6, <1>7, <1>8, Zenon DEF Inv

(* It steps over an event that is neither too old nor recent.              *)
LEMMA ExpireStepKeeps ==
    ASSUME Inv, NEW e \in Expirer, ExpireStep(e)
    PROVE  Inv' /\ S' = S
<1>1. /\ TypeOK /\ Listed /\ WalkInv(e) /\ e \in Thread
      /\ e \notin Producer /\ e \notin Consumer
  BY ThreadAssumption, Zenon DEF Inv, Thread
<1>2. /\ pc[e] = "expire" /\ cur[e] # NULL /\ ~TooOld(e, cur[e])
      /\ cur' = [cur EXCEPT ![e] = list.next[cur[e]]]
      /\ UNCHANGED <<heap, queued, nextId, id, time, duration, triggered, list,
                     owner, pc, ev, arg, old, result, due>>
  BY Zenon DEF ExpireStep, eventVars, poolVars
<1>3. cur'[e] = list.next[cur[e]] /\ cur[e] \in Item
  BY <1>1, <1>2, Zenon DEF TypeOK, Pointer
<1>4. PICK k \in 1..(Len(S) + 1) : ExpireAt(e, k)
  BY <1>1, <1>2, Zenon DEF WalkInv
<1>5. cur[e] = At(S, k) /\ \A j \in 1..Len(S) : j < k => ~TooOld(e, S[j])
  BY <1>4, Zenon DEF ExpireAt
<1>6. /\ Len(S) \in Nat /\ S \in Seq(Item)
      /\ \A i \in 1..Len(S) : list.next[S[i]] = At(S, i + 1) /\ S[i] \in Item
  <2>1. S \in Seq(Item) /\ Linked(list, S)
    BY <1>1, Zenon DEF Listed, Represents
  <2> QED BY <2>1, LinkedAt
<1>7. k \in 1..Len(S) /\ cur[e] = S[k]
  BY <1>2, <1>5, <1>6, Zenon DEF At
<1>8. cur'[e] = At(S, k + 1) /\ k + 1 \in 1..(Len(S) + 1)
  BY <1>3, <1>6, <1>7
<1>9. /\ S' = S /\ Listed' /\ MutexInv' /\ OwnerInv' /\ OrderInv'
      /\ \A t \in Thread : t # e => WalkInv(t)'
      /\ \A q \in Producer : HeldInv(q)'
  <2>1. pc[e] \in Inside /\ pc[e] \in ExpirerAt
    BY <1>2, Zenon DEF Inside, ExpirerAt
  <2>2. pc' = [pc EXCEPT ![e] = pc[e]]
    BY <1>1, <1>2, Zenon DEF TypeOK
  <2>3. \A q \in Producer : ev[q] # NULL => Kept(ev[q])
    BY <1>2, Zenon DEF Kept
  <2>4. \A t \in Thread : t # e => result'[t] = result[t]
    BY <1>2, Zenon
  <2> QED BY <1>1, <1>2, <2>1, <2>2, <2>3, <2>4, InsideStep, Zenon
<1>10. TypeOK'
  <2>1. list.next[cur[e]] \in Pointer
    <3>1. list \in ListType
      BY <1>1, Zenon DEF TypeOK
    <3>2. list.next \in [Item -> Pointer]
      BY <3>1, ListFields, Zenon
    <3> QED BY <1>3, <3>2, Zenon
  <2>2. cur' \in [Thread -> Pointer]
    BY <1>1, <1>2, <2>1, Zenon DEF TypeOK
  <2> QED BY <1>1, <1>2, <2>2, Zenon DEF TypeOK
<1>11. WalkInv(e)'
  <2>1. \A j \in 1..Len(S) : j < k + 1 => j < k \/ j = k
    BY <1>6, <1>7
  <2>2. \A j \in 1..Len(S) : j < k + 1 => ~TooOld(e, S[j])
    BY <1>2, <1>5, <1>7, <2>1, Zenon
  <2>3. \A j \in 1..Len(S) : TooOld(e, S[j])' <=> TooOld(e, S[j])
    BY <1>2, <1>9, Zenon DEF TooOld
  <2>4. ExpireAt(e, k + 1)'
    BY <1>8, <1>9, <2>2, <2>3, Zenon DEF ExpireAt
  <2>5. \E n \in 1..(Len(S') + 1) : ExpireAt(e, n)'
    BY <1>8, <1>9, <2>4, Zenon
  <2>6. pc'[e] = "expire"
    BY <1>2, Zenon
  <2> QED BY <2>5, <2>6, Zenon DEF WalkInv, Idle
<1> QED BY <1>9, <1>10, <1>11, Zenon DEF Inv

(* ExpireEvents leaves its loop at the end, or at a recent event.          *)
LEMMA ExpireDoneKeeps ==
    ASSUME Inv, NEW e \in Expirer, ExpireDone(e)
    PROVE  Inv' /\ S' = S
<1>1. /\ TypeOK /\ Listed /\ OrderInv /\ WalkInv(e) /\ e \in Thread
      /\ e \notin Producer /\ e \notin Consumer
  BY ThreadAssumption, Zenon DEF Inv, Thread
<1>2. /\ pc[e] = "expire" /\ pc' = [pc EXCEPT ![e] = "expired"]
      /\ cur[e] # NULL => ~TooOld(e, cur[e]) /\ Recent(e, cur[e])
      /\ cur' = [cur EXCEPT ![e] = NULL]
      /\ UNCHANGED <<heap, queued, nextId, id, time, duration, triggered, list,
                     owner, ev, arg, old, result, due>>
  BY DEF ExpireDone, Goto, eventVars, poolVars
<1>3. pc'[e] = "expired"
  BY <1>1, <1>2 DEF TypeOK
<1>4. /\ S' = S /\ Listed' /\ MutexInv' /\ OwnerInv' /\ OrderInv'
      /\ \A t \in Thread : t # e => WalkInv(t)'
      /\ \A q \in Producer : HeldInv(q)'
  <2>1. "expired" \in Inside /\ pc[e] \in Inside /\ "expired" \in ExpirerAt
    BY <1>2, Zenon DEF Inside, ExpirerAt
  <2>2. \A q \in Producer : ev[q] # NULL => Kept(ev[q])
    BY <1>2, Zenon DEF Kept
  <2>3. \A t \in Thread : t # e => result'[t] = result[t]
    BY <1>2, Zenon
  <2> QED BY <1>1, <1>2, <2>1, <2>2, <2>3, InsideStep, Zenon
<1>5. TypeOK'
  <2>1. cur' \in [Thread -> Pointer]
    BY <1>1, <1>2 DEF TypeOK, Pointer
  <2>2. pc' \in [Thread -> Idle \cup Inside]
    BY <1>1, <1>2 DEF TypeOK, Inside
  <2> QED BY <1>1, <1>2, <2>1, <2>2, Zenon DEF TypeOK
<1>6. PICK k \in 1..(Len(S) + 1) : StoppedAt(e, k)
  <2>1. PICK k \in 1..(Len(S) + 1) : ExpireAt(e, k)
    BY <1>1, <1>2, Zenon DEF WalkInv
  <2>2. cur[e] = At(S, k) /\ \A i \in 1..Len(S) : i < k => ~TooOld(e, S[i])
    BY <2>1, Zenon DEF ExpireAt
  <2>3. ASSUME k \in 1..Len(S) PROVE ~TooOld(e, S[k]) /\ Recent(e, S[k])
    <3>1. S[k] \in Item
      BY <1>1, <2>3, AtType DEF Listed
    <3>2. cur[e] = S[k] /\ cur[e] # NULL
      BY <2>2, <2>3, <3>1, NullAssumption, Zenon DEF At
    <3> QED BY <1>2, <3>2, Zenon
  <2> QED BY <2>2, <2>3, Zenon DEF StoppedAt
<1>7. WalkInv(e)'
  <2>1. /\ \A j \in 1..Len(S) : TooOld(e, S[j])' <=> TooOld(e, S[j])
        /\ \A j \in 1..Len(S) : Recent(e, S[j])' <=> Recent(e, S[j])
    BY <1>2, <1>4, Zenon DEF TooOld, Recent
  <2>2. StoppedAt(e, k)'
    BY <1>4, <1>6, <2>1, Zenon DEF StoppedAt
  <2>3. \E n \in 1..(Len(S') + 1) : StoppedAt(e, n)'
    BY <1>4, <2>2, Zenon
  <2> QED BY <1>3, <2>3 DEF WalkInv, Idle
<1> QED BY <1>4, <1>5, <1>7, Zenon DEF Inv

(* ExpireEvents gives an event back to the pool.                           *)
LEMMA ExpireVictimKeeps ==
    ASSUME ChainRight, Inv, NEW e \in Expirer, ExpireVictim(e)
    PROVE  Inv' /\ \E k \in 1..Len(S) : S' = Without(S, k)
<1>1. /\ TypeOK /\ Listed /\ MutexInv /\ OwnerInv /\ OrderInv /\ e \in Thread
      /\ WalkInv(e) /\ Producer \subseteq Thread
      /\ e \notin Consumer /\ e \notin Producer
      /\ \A q \in Producer : HeldInv(q)
      /\ \A t \in Thread : WalkInv(t)
  BY ThreadAssumption, Zenon DEF Inv, Thread
<1>2. /\ pc[e] = "expire" /\ cur[e] # NULL
      /\ list' = Disconnect(Disconnect(list, cur[e]), cur[e])
      /\ queued' = [queued EXCEPT ![cur[e]] = @ + 1]
      /\ cur' = [cur EXCEPT ![e] = list.next[cur[e]]]
      /\ UNCHANGED <<heap, nextId, id, time, duration, triggered, owner, pc, ev,
                     arg, old, result, due>>
  BY Zenon DEF ExpireVictim, eventVars
<1>3. cur'[e] = list.next[cur[e]] /\ cur[e] \in Item
  BY <1>1, <1>2, Zenon DEF TypeOK, Pointer
<1>4. PICK k \in 1..(Len(S) + 1) : ExpireAt(e, k)
  BY <1>1, <1>2, Zenon DEF WalkInv
<1>5. cur[e] = At(S, k) /\ \A j \in 1..Len(S) : j < k => ~TooOld(e, S[j])
  BY <1>4, Zenon DEF ExpireAt
<1>6. /\ Len(S) \in Nat /\ S \in Seq(Item) /\ Distinct(S)
      /\ \A i \in 1..Len(S) : list.next[S[i]] = At(S, i + 1) /\ S[i] \in Item
  <2>1. S \in Seq(Item) /\ Linked(list, S)
    BY <1>1, Zenon DEF Listed, Represents
  <2> QED BY <2>1, LinkedAt
<1>7. k \in 1..Len(S) /\ cur[e] = S[k]
  BY <1>2, <1>5, <1>6, Zenon DEF At
<1> DEFINE x == S[k]
           w == Without(S, k)
<1>8. Len(w) = Len(S) - 1 /\ w \in Seq(Item)
  BY <1>6, <1>7, WithoutType, Zenon
<1>9. ASSUME NEW i \in 1..Len(w)
      PROVE  \/ i < k /\ i \in 1..Len(S) /\ w[i] = S[i]
             \/ k <= i /\ i + 1 \in 1..Len(S) /\ w[i] = S[i + 1]
  BY <1>6, <1>7, WithoutItems, Zenon
<1>10. \A i, j \in 1..Len(w) : i < j => time[w[i]] <= time[w[j]]
  <2>1. \A i, j \in 1..Len(S) : i < j => time[S[i]] <= time[S[j]]
    BY <1>1, Zenon DEF OrderInv
  <2>2. time \in [Item -> Nat]
    BY <1>1, Zenon DEF TypeOK
  <2> QED BY <1>6, <1>7, <2>1, <2>2, WithoutOrdered, Zenon
<1>11. /\ Disconnect(list, x) \in ListType
       /\ Represents(Disconnect(list, x), w)
  <2>1. list \in ListType /\ Represents(list, S)
    BY <1>1, Zenon DEF TypeOK, Listed
  <2> QED BY <1>6, <1>7, <2>1, DisconnectKeeps, Zenon
<1>12. \A i \in 1..Len(w) : /\ \E j \in 1..Len(S) : w[i] = S[j]
                            /\ w[i] # x
  BY <1>6, <1>7, WithoutOthers, Zenon
<1> HIDE DEF w
<1>13. list' \in ListType /\ Represents(list', w) /\ S' = w
  <2>1. Disconnect(Disconnect(list, x), x) = Disconnect(list, x)
    BY <1>6, <1>7, <1>8, <1>11, <1>12, DisconnectOutside, Zenon
  <2>2. list' = Disconnect(list, x)
    BY <1>2, <1>7, <2>1, Zenon
  <2>3. Chain(list') = w
    BY <1>8, <1>11, <2>2, Zenon DEF Represents, ChainRight
  <2> QED BY <1>11, <2>2, <2>3, Zenon DEF S
<1>14. Listed'
  BY <1>8, <1>13, Zenon DEF Listed
<1>15. /\ queued[x] = 0 /\ queued'[x] = 1 /\ x \in heap /\ x \in Item
       /\ \A y \in Item : y # x => queued'[y] = queued[y]
  <2>1. x \in Item /\ x \in heap
    BY <1>1, <1>6, <1>7, Zenon DEF OwnerInv
  <2>2. queued[x] = 0
    BY <1>1, <1>7, <2>1, Zenon DEF OwnerInv
  <2>3. queued \in [Item -> Nat] /\ queued' = [queued EXCEPT ![x] = @ + 1]
    BY <1>1, <1>2, <1>7, Zenon DEF TypeOK
  <2> HIDE DEF x
  <2>4. queued'[x] = 1
    BY <2>1, <2>2, <2>3
  <2>5. \A y \in Item : y # x => queued'[y] = queued[y]
    BY <2>3, Zenon
  <2> QED BY <2>1, <2>2, <2>4, <2>5
<1>16. TypeOK'
  <2>1. list.next[cur[e]] \in Pointer
    <3>1. list \in ListType
      BY <1>1, Zenon DEF TypeOK
    <3>2. list.next \in [Item -> Pointer]
      BY <3>1, ListFields, Zenon
    <3> QED BY <1>3, <3>2, Zenon
  <2>2. cur' \in [Thread -> Pointer]
    BY <1>1, <1>2, <2>1, Zenon DEF TypeOK
  <2>3. queued' \in [Item -> Nat]
    <3>1. queued[cur[e]] \in Nat
      BY <1>1, <1>3, Zenon DEF TypeOK
    <3>2. queued[cur[e]] + 1 \in Nat
      BY <3>1, NatSucc, Zenon
    <3> QED BY <1>1, <1>2, <3>2, Zenon DEF TypeOK
  <2> QED BY <1>1, <1>2, <1>13, <2>2, <2>3, Zenon DEF TypeOK
<1>17. MutexInv'
  BY <1>1, <1>2, Zenon DEF MutexInv
<1>0. \A q \in Producer : HeldInv(q)'
  BY <1>1, <1>2, HeldFrame, Zenon DEF Kept
<1>19. OrderInv'
  BY <1>2, <1>10, <1>13, Zenon DEF OrderInv
<1> HIDE DEF x
<1>20. OwnerInv'
  <2>1. ASSUME NEW y \in Item, queued'[y] # 0
        PROVE  queued'[y] = 1 /\ y \in heap /\ \A i \in 1..Len(w) : w[i] # y
    <3>1. CASE y = x
      BY <1>12, <1>15, <3>1, Zenon
    <3>2. CASE y # x
      <4>1. queued'[y] = queued[y]
        BY <1>15, <3>2, Zenon
      <4>2. queued[y] = 1 /\ y \in heap /\ \A i \in 1..Len(S) : S[i] # y
        BY <1>1, <2>1, <4>1, Zenon DEF OwnerInv
      <4> QED BY <1>12, <4>1, <4>2, Zenon
    <3> QED BY <3>1, <3>2, Zenon
  <2>2. \A i \in 1..Len(w) : w[i] \in heap
    <3>1. \A i \in 1..Len(S) : S[i] \in heap
      BY <1>1, Zenon DEF OwnerInv
    <3> QED BY <1>12, <3>1, Zenon
  <2>3. ASSUME NEW q \in Producer, ev[q] # NULL
        PROVE  /\ ev[q] \in heap /\ queued'[ev[q]] = 0
               /\ \A i \in 1..Len(w) : w[i] # ev[q]
               /\ \A r \in Producer : ev[r] = ev[q] => r = q
    <3>1. /\ ev[q] \in heap /\ queued[ev[q]] = 0
          /\ \A i \in 1..Len(S) : S[i] # ev[q]
          /\ \A r \in Producer : ev[r] = ev[q] => r = q
      BY <1>1, <2>3, Zenon DEF OwnerInv
    <3>2. ev[q] # x /\ ev[q] \in Item
      BY <1>1, <1>7, <2>3, <3>1 DEF x, TypeOK, Pointer
    <3>3. ASSUME NEW i \in 1..Len(w) PROVE w[i] # ev[q]
      <4>1. PICK j \in 1..Len(S) : w[i] = S[j]
        BY <1>12, Zenon
      <4> QED BY <3>1, <4>1, Zenon
    <3> QED BY <1>15, <3>1, <3>2, <3>3, Zenon
  <2> QED BY <1>2, <1>13, <2>1, <2>2, <2>3, Zenon DEF OwnerInv
<1>21. WalkInv(e)'
  <2>1. cur'[e] = At(w, k)
    <3>1. cur'[e] = At(S, k + 1)
      BY <1>3, <1>6, <1>7
    <3>2. CASE k = Len(S)
      BY <1>6, <1>8, <3>1, <3>2 DEF At
    <3>3. CASE k # Len(S)
      <4>1. k \in 1..Len(w) /\ ~(k < k) /\ k + 1 \in 1..Len(S)
        BY <1>6, <1>7, <1>8, <3>3
      <4>2. w[k] = S[k + 1]
        BY <1>9, <4>1
      <4> QED BY <3>1, <4>1, <4>2, Zenon DEF At
    <3> QED BY <3>2, <3>3
  <2>2. \A j \in 1..Len(w) : j < k => ~TooOld(e, w[j])
    <3> TAKE j \in 1..Len(w)
    <3>1. j < k => w[j] = S[j] /\ j \in 1..Len(S)
      BY <1>9
    <3> QED BY <1>5, <3>1, Zenon
  <2>4. ExpireAt(e, k)'
    BY <1>2, <1>13, <2>1, <2>2, Zenon DEF ExpireAt, TooOld
  <2>5. k \in 1..(Len(w) + 1)
    BY <1>6, <1>7, <1>8
  <2>6. \E n \in 1..(Len(S') + 1) : ExpireAt(e, n)'
    BY <1>13, <2>4, <2>5, Zenon
  <2>7. pc'[e] = "expire"
    BY <1>2
  <2> QED BY <2>6, <2>7 DEF WalkInv, Idle
<1>22. ASSUME NEW t \in Thread, t # e PROVE WalkInv(t)'
  <2>1. owner = e
    BY <1>1, <1>2 DEF MutexInv, Inside
  <2>2. pc[t] \in Idle
    BY <1>1, <1>22, <2>1, OthersIdle, Zenon
  <2> QED BY <1>1, <1>2, <1>22, <2>2, IdleFrame, Zenon
<1>23. Inv'
  BY <1>14, <1>16, <1>17, <1>0, <1>19, <1>20, <1>21, <1>22, Zenon DEF Inv
<1> QED BY <1>7, <1>13, <1>23, Zenon DEF w

-----------------------------------------------------------------------------
(* The empty list stands for the empty sequence.                           *)
LEMMA EmptyListed ==
    ASSUME ChainRight
    PROVE  EmptyList \in ListType /\ Represents(EmptyList, <<>>) /\ Chain(EmptyList) = <<>>
<1>1. EmptyList \in ListType
  BY DEF EmptyList, ListType, Pointer
<1>2. Represents(EmptyList, <<>>)
  BY DEF Represents, Linked, Isolated, EmptyList
<1>3. <<>> \in Seq(Item)
  OBVIOUS
<1> QED BY <1>1, <1>2, <1>3, Zenon DEF Represents, ChainRight

(* The timeline as it is constructed.                                      *)
LEMMA InitInv == ChainRight /\ Init => Inv
<1> SUFFICES ASSUME ChainRight, Init PROVE Inv
  OBVIOUS
<1>1. PICK x \in Item : /\ heap = {x}
                       /\ queued = [y \in Item |-> IF y = x THEN 1 ELSE 0]
  BY Zenon DEF Init
<1>2. /\ list = EmptyList /\ owner = NoThread /\ pc = [t \in Thread |-> "idle"]
      /\ ev = [t \in Thread |-> NULL] /\ cur = [t \in Thread |-> NULL]
      /\ arg = [t \in Thread |-> 0] /\ old = [t \in Thread |-> 0]
      /\ result = [t \in Thread |-> <<>>] /\ due = [t \in Thread |-> {}]
      /\ nextId = InitialSize /\ id = [y \in Item |-> InitialSize - 1]
      /\ time = [y \in Item |-> 0] /\ duration = [y \in Item |-> 0]
      /\ triggered = [y \in Item |-> FALSE]
  BY Zenon DEF Init
<1>3. S = <<>> /\ Listed /\ Len(S) = 0
  <2>1. S = <<>>
    BY <1>2, EmptyListed, Zenon DEF S
  <2>2. <<>> \in Seq(Item) /\ Len(<<>>) = 0
    OBVIOUS
  <2> QED BY <1>2, <2>1, <2>2, EmptyListed, Zenon DEF Listed
<1>4. TypeOK
  <2>1. /\ heap \subseteq Item /\ queued \in [Item -> Nat]
        /\ time \in [Item -> Nat] /\ duration \in [Item -> Nat]
        /\ arg \in [Thread -> Nat] /\ old \in [Thread -> Nat]
    BY <1>1, <1>2
  <2>2. nextId \in Nat /\ id \in [Item -> Nat]
    BY <1>2, TimeAssumption
  <2>3. triggered \in [Item -> BOOLEAN]
    BY <1>2, Zenon
  <2>4. list \in ListType
    BY <1>2, EmptyListed, Zenon
  <2>5. owner \in Thread \cup {NoThread} /\ pc \in [Thread -> Idle \cup Inside]
    BY <1>2 DEF Idle
  <2>6. ev \in [Thread -> Pointer] /\ cur \in [Thread -> Pointer]
    BY <1>2 DEF Pointer
  <2>7. result \in [Thread -> Seq(Item)] /\ due \in [Thread -> SUBSET Item]
    BY <1>2
  <2> QED BY <2>1, <2>2, <2>3, <2>4, <2>5, <2>6, <2>7, Zenon DEF TypeOK
<1>5. MutexInv
  BY <1>2, ThreadAssumption
     DEF MutexInv, Thread, Inside, ProducerAt, ConsumerAt, ExpirerAt
<1>6. \A p \in Producer : HeldInv(p)
  BY <1>2 DEF HeldInv, Holding, Thread
<1>7. OwnerInv
  <2>1. \A p \in Producer : ev[p] = NULL
    BY <1>2 DEF Thread
  <2>2. \A y \in Item : queued[y] # 0 => queued[y] = 1 /\ y \in heap
    BY <1>1
  <2>3. \A i \in 1..Len(S) : FALSE
    BY <1>3
  <2> QED BY <2>1, <2>2, <2>3, Zenon DEF OwnerInv
<1>8. OrderInv
  BY <1>3 DEF OrderInv
<1>9. \A t \in Thread : WalkInv(t)
  BY <1>2 DEF WalkInv
<1> QED BY <1>3, <1>4, <1>5, <1>6, <1>7, <1>8, <1>9, Zenon DEF Inv

(* Every step of every thread preserves the invariant.                     *)
LEMMA NextInv == ChainRight /\ Inv /\ [Next]_vars => Inv'
<1> SUFFICES ASSUME ChainRight, Inv, [Next]_vars PROVE Inv'
  OBVIOUS
<1>1. ASSUME NEW p \in Producer, ProducerStep(p) PROVE Inv'
  BY <1>1, AllocItemKeeps, AllocReadIdKeeps, AllocInitKeeps, SetTimeKeeps,
     StoreLockKeeps, StoreWalkKeeps, StoreInsertKeeps, Zenon DEF ProducerStep
<1>2. ASSUME NEW c \in Consumer, ConsumerStep(c) PROVE Inv'
  BY <1>2, DequeLockKeeps, DequeStepKeeps, DequeDoneKeeps,
     GetLockKeeps, GetStepKeeps, GetDoneKeeps, Zenon DEF ConsumerStep
<1>3. ASSUME NEW e \in Expirer, ExpirerStep(e) PROVE Inv'
  BY <1>3, ExpireLockKeeps, ExpireVictimKeeps, ExpireStepKeeps,
     ExpireDoneKeeps, Zenon DEF ExpirerStep
<1>4. CASE UNCHANGED vars
  <2>1. UNCHANGED <<heap, queued, nextId, id, time, duration, triggered, list,
                    owner, pc, ev, cur, arg, old, result, due>>
    BY <1>4 DEF vars, poolVars, eventVars, localVars
  <2>2. S' = S
    BY <2>1 DEF S
  <2>3. TypeOK'
    BY <2>1, Zenon DEF Inv, TypeOK
  <2>4. Listed' /\ OwnerInv' /\ OrderInv'
    BY <2>1, ListedFrame, OwnerFrame, OrderFrame, Zenon DEF Inv
  <2>5. MutexInv'
    BY <2>1, Zenon DEF Inv, MutexInv
  <2>6. \A p \in Producer : HeldInv(p)'
    BY <2>1, HeldFrame, Zenon DEF Inv, Kept
  <2>7. \A t \in Thread : WalkInv(t)'
    BY <2>1, WalkFrame, Zenon DEF Inv, Kept, Same
  <2> QED BY <2>3, <2>4, <2>5, <2>6, <2>7, Zenon DEF Inv
<1> QED BY <1>1, <1>2, <1>3, <1>4, UnlockKeeps, ClearStepKeeps, Zenon DEF Next

=============================================================================
