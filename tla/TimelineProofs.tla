--------------------------- MODULE TimelineProofs ---------------------------
(***************************************************************************)
(* The inductive invariant of Timeline, for any threads, events, times and *)
(* pool size, and that the steps of the producers and of ClearEvents keep  *)
(* it.  (TimelineReaders has the other steps, TimelineTheorems the         *)
(* theorems.)                                                              *)
(*                                                                         *)
(* What is to be shown is about the pointers, so the invariant says which  *)
(* sequence the pointers stand for, and where in it each walk is.          *)
(***************************************************************************)
EXTENDS Timeline, ListProofs

(* The stored events, in the order of the list.                            *)
S == Chain(list)

Listed == S \in Seq(Item) /\ Represents(list, S)

ProducerAt == {"idle", "readId", "writeId", "allocated", "store", "storeWalk", "stored"}
ConsumerAt == {"idle", "deque", "dequed", "scan", "scanned", "get", "listed"}
ExpirerAt == {"idle", "expire", "expired"}

(* A thread is inside its loop exactly while it owns the mutex.            *)
MutexInv ==
    /\ \A t \in Thread : pc[t] \in Inside <=> owner = t
    /\ \A p \in Producer : pc[p] \in ProducerAt
    /\ \A c \in Consumer : pc[c] \in ConsumerAt
    /\ \A e \in Expirer : pc[e] \in ExpirerAt

(* A producer has an event from Alloc until StoreTimeEvent has linked it;  *)
(* its m_triggered is clear once Init() ran, and its time is set.          *)
Holding == {"readId", "writeId", "allocated", "store", "storeWalk"}

HeldInv(p) ==
    /\ ev[p] # NULL <=> pc[p] \in Holding
    /\ pc[p] \in {"allocated", "store", "storeWalk"} => ~triggered[ev[p]]
    /\ pc[p] \in {"store", "storeWalk"} => time[ev[p]] \in Time

(* OneOwner by places in the list.                                         *)
OwnerInv ==
    /\ \A x \in Item : queued[x] # 0 =>
          queued[x] = 1 /\ x \in heap /\ \A i \in 1..Len(S) : S[i] # x
    /\ \A i \in 1..Len(S) : S[i] \in heap
    /\ \A p \in Producer : ev[p] # NULL =>
          /\ ev[p] \in heap /\ queued[ev[p]] = 0
          /\ \A i \in 1..Len(S) : S[i] # ev[p]
          /\ \A q \in Producer : ev[q] = ev[p] => q = p

OrderInv == \A i, j \in 1..Len(S) : i < j => time[S[i]] <= time[S[j]]

(* StoreTimeEvent at the k-th event: the ones behind it are later.         *)
StoreAt(p, k) ==
    /\ cur[p] = At(S, k)
    /\ \A j \in 1..Len(S) : j > k => time[ev[p]] < time[S[j]]

(* What DequeTimeEvents has put into its result is due and in order.       *)
Taken(c) ==
    \A i \in 1..Len(result[c]) :
        /\ \E j \in 1..Len(S) : result[c][i] = S[j]
        /\ time[result[c][i]] <= arg[c]
        /\ \A j \in 1..i : time[result[c][j]] <= time[result[c][i]]
        /\ \A j \in 1..Len(result[c]) : result[c][j] = result[c][i] => j = i

(* An event is in the result, or is still to be taken.                     *)
InResult(c, x) == \E i \in 1..Len(result[c]) : result[c][i] = x
Awaits(c, x) == \E j \in 1..Len(S) : S[j] = x /\ time[x] <= arg[c] /\ ~triggered[x]

(* What was due when DequeTimeEvents took the mutex is one or the other,   *)
(* and nothing else is.                                                    *)
DueInv(c) == \A x \in Item : x \in due[c] <=> InResult(c, x) \/ Awaits(c, x)

(* With another type it leaves alone what was due.                         *)
ScanInv(c) ==
    /\ result[c] = <<>>
    /\ \A x \in due[c] : (\E j \in 1..Len(S) : S[j] = x) /\ ~triggered[x]

(* DequeTimeEvents at the k-th event: the ones in front of it have fired   *)
(* and what it took is among them.                                         *)
DequeAt(c, k) ==
    /\ cur[c] = At(S, k)
    /\ pc[c] = "deque" =>
          /\ \A j \in 1..Len(S) : j < k => triggered[S[j]]
          /\ \A i \in 1..Len(result[c]) :
                \E j \in 1..Len(S) : j < k /\ result[c][i] = S[j]
          /\ Taken(c)

(* GetTimeEvents at the k-th event: it has the ones in front of it.        *)
GetAt(c, k) ==
    /\ cur[c] = At(S, k)
    /\ Len(result[c]) = k - 1
    /\ \A i \in 1..Len(S) : i < k => result[c][i] = S[i]

(* ExpireEvents at the k-th event: none in front of it is too old.         *)
ExpireAt(e, k) ==
    /\ cur[e] = At(S, k)
    /\ \A j \in 1..Len(S) : j < k => ~TooOld(e, S[j])

(* ExpireEvents has stopped at the k-th event: none in front of it is too  *)
(* old, and it is recent and not too old itself, or the list ends there.   *)
StoppedAt(e, k) ==
    /\ \A j \in 1..Len(S) : j < k => ~TooOld(e, S[j])
    /\ k \in 1..Len(S) => ~TooOld(e, S[k]) /\ Recent(e, S[k])

(* Where each call is, and what it has done when it is through its loop.   *)
WalkInv(t) ==
    /\ pc[t] \in Idle => result[t] = <<>>
    /\ pc[t] = "storeWalk" => \E k \in 0..Len(S) : StoreAt(t, k)
    /\ pc[t] \in {"deque", "scan"} => \E k \in 1..(Len(S) + 1) : DequeAt(t, k)
    /\ pc[t] = "dequed" =>
          /\ \A j \in 1..Len(S) : time[S[j]] <= arg[t] => triggered[S[j]]
          /\ Taken(t)
    /\ pc[t] = "get" => \E k \in 1..(Len(S) + 1) : GetAt(t, k)
    /\ pc[t] = "listed" => result[t] = S
    /\ pc[t] = "expire" => \E k \in 1..(Len(S) + 1) : ExpireAt(t, k)
    /\ pc[t] = "expired" => \E k \in 1..(Len(S) + 1) : StoppedAt(t, k)
    /\ pc[t] \in {"deque", "dequed"} => DueInv(t)
    /\ pc[t] \in {"scan", "scanned"} => ScanInv(t)

Inv ==
    /\ TypeOK
    /\ Listed
    /\ MutexInv
    /\ \A p \in Producer : HeldInv(p)
    /\ OwnerInv
    /\ OrderInv
    /\ \A t \in Thread : WalkInv(t)

-----------------------------------------------------------------------------
(* What a step leaves alone.                                               *)

(* The locals of thread t.                                                 *)
Same(t) ==
    /\ pc'[t] = pc[t] /\ ev'[t] = ev[t] /\ cur'[t] = cur[t]
    /\ arg'[t] = arg[t] /\ old'[t] = old[t]
    /\ result'[t] = result[t] /\ due'[t] = due[t]

(* The fields of event x.                                                  *)
Kept(x) ==
    /\ time'[x] = time[x] /\ duration'[x] = duration[x]
    /\ triggered'[x] = triggered[x]

(* A step that leaves the list alone leaves the sequence alone.            *)
LEMMA ListedFrame ==
    ASSUME Listed, list' = list
    PROVE  S' = S /\ Listed'
BY DEF Listed, S

(* The owners depend on the pool, the list and the producers' events.      *)
LEMMA OwnerFrame ==
    ASSUME OwnerInv, list' = list, heap' = heap, queued' = queued, ev' = ev
    PROVE  OwnerInv'
<1>1. S' = S
  BY DEF S
<1> QED BY <1>1, Zenon DEF OwnerInv

(* The order depends on the times of the stored events.                    *)
LEMMA OrderFrame ==
    ASSUME OrderInv, list' = list, \A i \in 1..Len(S) : time'[S[i]] = time[S[i]]
    PROVE  OrderInv'
<1>1. S' = S
  BY DEF S
<1> QED BY <1>1, Zenon DEF OrderInv

(* What is known of a producer depends on its own state and its event.     *)
LEMMA HeldFrame ==
    ASSUME NEW p \in Producer, HeldInv(p), pc'[p] = pc[p], ev'[p] = ev[p],
           ev[p] # NULL => Kept(ev[p])
    PROVE  HeldInv(p)'
BY Zenon DEF HeldInv, Holding, Kept

(* A thread outside the mutex has an empty result and no place in the list.*)
LEMMA IdleFrame ==
    ASSUME NEW t \in Thread, WalkInv(t), pc[t] \in Idle, pc'[t] = pc[t],
           result'[t] = result[t]
    PROVE  WalkInv(t)'
<1>1. pc'[t] \in Idle /\ result'[t] = <<>>
  BY Zenon DEF WalkInv
<1> QED BY <1>1 DEF WalkInv, Idle

(* A walk depends on the thread's locals, the list, the stored events and  *)
(* the event being stored.                                                 *)
LEMMA WalkFrame ==
    ASSUME NEW t \in Thread, WalkInv(t), Same(t), list' = list,
           \A i \in 1..Len(S) : Kept(S[i]),
           pc[t] = "storeWalk" => Kept(ev[t])
    PROVE  WalkInv(t)'
<1>1. S' = S
  BY DEF S
<1>2. /\ pc'[t] = pc[t] /\ ev'[t] = ev[t] /\ cur'[t] = cur[t]
      /\ arg'[t] = arg[t] /\ old'[t] = old[t]
      /\ result'[t] = result[t] /\ due'[t] = due[t]
  BY Zenon DEF Same
<1>3. \A i \in 1..Len(S) : /\ time'[S[i]] = time[S[i]]
                          /\ duration'[S[i]] = duration[S[i]]
                          /\ triggered'[S[i]] = triggered[S[i]]
  BY Zenon DEF Kept
<1>4. pc[t] = "storeWalk" => time'[ev[t]] = time[ev[t]]
  BY Zenon DEF Kept
<1>5. ASSUME NEW k, pc[t] = "storeWalk", StoreAt(t, k) PROVE StoreAt(t, k)'
  BY <1>1, <1>2, <1>3, <1>4, <1>5, Zenon DEF StoreAt
<1>6. Taken(t) => Taken(t)'
  <2> HAVE Taken(t)
  <2>1. \A n \in 1..Len(result[t]) : time'[result[t][n]] = time[result[t][n]]
    <3> TAKE n \in 1..Len(result[t])
    <3>1. PICK j \in 1..Len(S) : result[t][n] = S[j]
      BY Zenon DEF Taken
    <3>2. time'[S[j]] = time[S[j]]
      BY <1>3, Zenon
    <3> QED BY <3>1, <3>2
  <2>2. \A i \in 1..Len(result[t]) : \A j \in 1..i : j \in 1..Len(result[t])
    OBVIOUS
  <2>3. \A i \in 1..Len(result[t]) :
           /\ \E j \in 1..Len(S) : result[t][i] = S[j]
           /\ time'[result[t][i]] <= arg[t]
           /\ \A j \in 1..i : time'[result[t][j]] <= time'[result[t][i]]
           /\ \A j \in 1..Len(result[t]) : result[t][j] = result[t][i] => j = i
    BY <2>1, <2>2, Zenon DEF Taken
  <2>4. S' = S /\ result'[t] = result[t] /\ arg'[t] = arg[t]
    BY <1>1, <1>2, Zenon
  <2> DEFINE r == result[t]
  <2>5. ASSUME NEW i \in 1..Len(r)
        PROVE  /\ \E j \in 1..Len(S') : r[i] = S'[j]
               /\ time'[r[i]] <= arg'[t]
               /\ \A j \in 1..i : time'[r[j]] <= time'[r[i]]
               /\ \A j \in 1..Len(r) : r[j] = r[i] => j = i
    <3>1. PICK j \in 1..Len(S) : r[i] = S[j]
      BY <2>3, Zenon
    <3>2. j \in 1..Len(S') /\ r[i] = S'[j]
      BY <2>4, <3>1, Zenon
    <3>3. time'[r[i]] <= arg'[t]
      BY <2>3, <2>4, Zenon
    <3> QED BY <2>3, <3>2, <3>3, Zenon
  <2>6. result'[t] = r
    BY <2>4, Zenon
  <2> HIDE DEF r
  <2> QED BY <2>5, <2>6, Zenon DEF Taken
<1>7. ASSUME NEW k, DequeAt(t, k) PROVE DequeAt(t, k)'
  <2>1. cur'[t] = At(S', k)
    BY <1>1, <1>2, <1>7, Zenon DEF DequeAt
  <2>2. ASSUME pc[t] = "deque"
        PROVE  /\ \A j \in 1..Len(S') : j < k => triggered'[S'[j]]
               /\ \A i \in 1..Len(result'[t]) :
                     \E j \in 1..Len(S') : j < k /\ result'[t][i] = S'[j]
               /\ Taken(t)'
    <3>1. /\ \A j \in 1..Len(S) : j < k => triggered[S[j]]
          /\ \A i \in 1..Len(result[t]) :
                \E j \in 1..Len(S) : j < k /\ result[t][i] = S[j]
          /\ Taken(t)
      BY <1>7, <2>2, Zenon DEF DequeAt
    <3>2. \A j \in 1..Len(S) : j < k => triggered'[S[j]]
      BY <1>3, <3>1, Zenon
    <3> QED BY <1>1, <1>2, <1>6, <3>1, <3>2, Zenon
  <2> QED BY <1>2, <2>1, <2>2, Zenon DEF DequeAt
<1>8. ASSUME NEW k, GetAt(t, k) PROVE GetAt(t, k)'
  BY <1>1, <1>2, <1>8, Zenon DEF GetAt
<1>9. \A j \in 1..Len(S) : TooOld(t, S[j])' <=> TooOld(t, S[j])
  BY <1>1, <1>2, <1>3, Zenon DEF TooOld
<1>10. ASSUME NEW k, ExpireAt(t, k) PROVE ExpireAt(t, k)'
  BY <1>1, <1>2, <1>9, <1>10, Zenon DEF ExpireAt
<1>15. \A j \in 1..Len(S) : Recent(t, S[j])' <=> Recent(t, S[j])
  BY <1>1, <1>2, <1>3, Zenon DEF Recent
<1>16. ASSUME NEW k, StoppedAt(t, k) PROVE StoppedAt(t, k)'
  BY <1>1, <1>2, <1>9, <1>15, <1>16, Zenon DEF StoppedAt
<1>17. pc[t] = "expired" => \E k \in 1..(Len(S) + 1) : StoppedAt(t, k)'
  BY <1>16, Zenon DEF WalkInv
<1>18. DueInv(t) => DueInv(t)'
  <2>1. ASSUME NEW x PROVE InResult(t, x)' <=> InResult(t, x)
    BY <1>2, Zenon DEF InResult
  <2>2. ASSUME NEW x PROVE Awaits(t, x)' <=> Awaits(t, x)
    BY <1>1, <1>2, <1>3, Zenon DEF Awaits
  <2> QED BY <1>2, <2>1, <2>2, Zenon DEF DueInv
<1>19. ScanInv(t) => ScanInv(t)'
  BY <1>1, <1>2, <1>3, Zenon DEF ScanInv
<1>11. pc[t] = "storeWalk" => \E k \in 0..Len(S) : StoreAt(t, k)'
  BY <1>5, Zenon DEF WalkInv
<1>12. pc[t] \in {"deque", "scan"} => \E k \in 1..(Len(S) + 1) : DequeAt(t, k)'
  BY <1>7, Zenon DEF WalkInv
<1>13. pc[t] = "get" => \E k \in 1..(Len(S) + 1) : GetAt(t, k)'
  BY <1>8, Zenon DEF WalkInv
<1>14. pc[t] = "expire" => \E k \in 1..(Len(S) + 1) : ExpireAt(t, k)'
  BY <1>10, Zenon DEF WalkInv
<1> QED BY <1>1, <1>2, <1>3, <1>6, <1>11, <1>12, <1>13, <1>14, <1>17, <1>18, <1>19, Zenon
        DEF WalkInv

(* The threads outside the mutex are the ones that are not the owner.      *)
LEMMA OthersIdle ==
    ASSUME TypeOK, MutexInv, NEW u \in Thread, owner = u \/ owner = NoThread,
           NEW t \in Thread, t # u
    PROVE  pc[t] \in Idle
<1>1. pc[t] \in Idle \cup Inside
  BY Zenon DEF TypeOK
<1>2. owner # t
  BY ThreadAssumption
<1> QED BY <1>1, <1>2, Zenon DEF MutexInv

(* A thread moves on without entering or leaving the mutex.                *)
LEMMA MutexMove ==
    ASSUME TypeOK, MutexInv, NEW u \in Thread, NEW to,
           pc' = [pc EXCEPT ![u] = to], owner' = owner,
           pc[u] \in Inside <=> to \in Inside,
           u \in Producer => to \in ProducerAt,
           u \in Consumer => to \in ConsumerAt,
           u \in Expirer => to \in ExpirerAt
    PROVE  MutexInv'
<1>1. pc'[u] = to /\ \A t \in Thread : t # u => pc'[t] = pc[t]
  BY DEF TypeOK
<1>2. Producer \subseteq Thread /\ Consumer \subseteq Thread /\ Expirer \subseteq Thread
  BY DEF Thread
<1>3. \A t \in Thread : pc'[t] \in Inside <=> owner' = t
  BY <1>1, Zenon DEF MutexInv
<1>4. \A p \in Producer : pc'[p] \in ProducerAt
  BY <1>1, <1>2, Zenon DEF MutexInv
<1>5. \A c \in Consumer : pc'[c] \in ConsumerAt
  BY <1>1, <1>2, Zenon DEF MutexInv
<1>6. \A e \in Expirer : pc'[e] \in ExpirerAt
  BY <1>1, <1>2, Zenon DEF MutexInv
<1> QED BY <1>3, <1>4, <1>5, <1>6, Zenon DEF MutexInv

(* A thread takes the mutex and enters its loop.                           *)
LEMMA MutexEnter ==
    ASSUME TypeOK, MutexInv, NEW u \in Thread, NEW to,
           pc' = [pc EXCEPT ![u] = to], Lock(u), to \in Inside,
           u \in Producer => to \in ProducerAt,
           u \in Consumer => to \in ConsumerAt,
           u \in Expirer => to \in ExpirerAt
    PROVE  MutexInv'
<1>1. pc'[u] = to /\ \A t \in Thread : t # u => pc'[t] = pc[t]
  BY DEF TypeOK
<1>2. Producer \subseteq Thread /\ Consumer \subseteq Thread /\ Expirer \subseteq Thread
  BY DEF Thread
<1>3. ASSUME NEW t \in Thread PROVE pc'[t] \in Inside <=> owner' = t
  <2>1. owner = NoThread /\ owner' = u /\ owner # t
    BY ThreadAssumption DEF Lock
  <2> QED BY <1>1, <2>1, Zenon DEF MutexInv
<1>4. \A p \in Producer : pc'[p] \in ProducerAt
  BY <1>1, <1>2, Zenon DEF MutexInv
<1>5. \A c \in Consumer : pc'[c] \in ConsumerAt
  BY <1>1, <1>2, Zenon DEF MutexInv
<1>6. \A e \in Expirer : pc'[e] \in ExpirerAt
  BY <1>1, <1>2, Zenon DEF MutexInv
<1> QED BY <1>3, <1>4, <1>5, <1>6, Zenon DEF MutexInv

-----------------------------------------------------------------------------
(* Most steps touch few of the invariants: what holds after a step of each *)
(* kind, besides what the action itself is about.                          *)

(* A producer outside the mutex, which changes no event but its own.       *)
LEMMA OutsideStep ==
    ASSUME Inv, NEW p \in Producer, NEW to \in ProducerAt \cap Idle,
           pc[p] \in Idle, pc' = [pc EXCEPT ![p] = to],
           list' = list, owner' = owner,
           result' = result, cur' = cur, old' = old, due' = due,
           \A t \in Thread : t # p => ev'[t] = ev[t] /\ arg'[t] = arg[t],
           \A x \in Item : x # ev[p] => Kept(x)
    PROVE  /\ S' = S /\ Listed' /\ MutexInv' /\ OrderInv'
           /\ \A t \in Thread : WalkInv(t)'
           /\ \A q \in Producer : q # p => HeldInv(q)'
<1>1. /\ TypeOK /\ Listed /\ MutexInv /\ OwnerInv /\ OrderInv
      /\ \A q \in Producer : HeldInv(q)
      /\ \A t \in Thread : WalkInv(t)
  BY Zenon DEF Inv
<1>2. /\ Producer \subseteq Thread
      /\ p \in Thread /\ p \notin Consumer /\ p \notin Expirer
  BY ThreadAssumption DEF Thread
<1>3. pc'[p] = to /\ \A t \in Thread : t # p => pc'[t] = pc[t]
  BY <1>1, <1>2 DEF TypeOK
<1>4. \A i \in 1..Len(S) : S[i] \in Item
  BY <1>1, AtType DEF Listed
<1>5. S' = S /\ Listed'
  BY <1>1, ListedFrame, Zenon
<1>6. MutexInv'
  <2>1. pc[p] \notin Inside /\ to \notin Inside
    BY DEF Idle, Inside
  <2>2. to \in ProducerAt
    OBVIOUS
  <2> QED BY <1>1, <1>2, <2>1, <2>2, MutexMove, Zenon
<1>7. \A i \in 1..Len(S) : Kept(S[i])
  <2> TAKE i \in 1..Len(S)
  <2>1. S[i] # ev[p]
    <3>1. CASE ev[p] = NULL
      BY <1>4, <3>1, NullAssumption
    <3>2. CASE ev[p] # NULL
      BY <1>1, <3>2, Zenon DEF OwnerInv
    <3> QED BY <3>1, <3>2, Zenon
  <2> QED BY <1>4, <2>1, Zenon
<1>8. OrderInv'
  BY <1>1, <1>7, OrderFrame, Zenon DEF Kept
<1>9. ASSUME NEW q \in Producer, q # p, ev[q] # NULL PROVE Kept(ev[q])
  <2>1. ev[q] \in Item /\ ev[p] \in Pointer
    BY <1>1, <1>2, <1>9 DEF TypeOK, Pointer
  <2>2. ev[q] # ev[p]
    BY <1>1, <1>9, Zenon DEF OwnerInv
  <2> QED BY <2>1, <2>2, Zenon
<1>10. \A q \in Producer : q # p => HeldInv(q)'
  BY <1>1, <1>2, <1>3, <1>9, HeldFrame, Zenon
<1>11. ASSUME NEW t \in Thread PROVE WalkInv(t)'
  <2>1. CASE t = p
    <3>1. pc'[p] \in Idle /\ result'[p] = <<>>
      BY <1>1, <1>2, <1>3, Zenon DEF WalkInv
    <3> QED BY <2>1, <3>1 DEF WalkInv, Idle
  <2>2. CASE t # p
    <3>1. Same(t)
      BY <1>3, <2>2, Zenon DEF Same
    <3>2. pc[t] = "storeWalk" => Kept(ev[t])
      <4> SUFFICES ASSUME pc[t] = "storeWalk" PROVE Kept(ev[t])
        OBVIOUS
      <4>1. t \in Producer
        BY <1>1 DEF MutexInv, ConsumerAt, ExpirerAt, Thread
      <4>2. ev[t] # NULL
        BY <1>1, <4>1, Zenon DEF HeldInv, Holding
      <4> QED BY <1>9, <2>2, <4>1, <4>2, Zenon
    <3> QED BY <1>1, <1>7, <3>1, <3>2, WalkFrame, Zenon
  <2> QED BY <2>1, <2>2, Zenon
<1> QED BY <1>5, <1>6, <1>8, <1>10, <1>11, Zenon

(* A thread inside the mutex, in a step that leaves the list, the pool and *)
(* the producers' events alone.                                            *)
LEMMA InsideStep ==
    ASSUME Inv, NEW u \in Thread, NEW to \in Inside,
           pc[u] \in Inside, pc' = [pc EXCEPT ![u] = to],
           u \in Producer => to = pc[u],
           u \in Consumer => to \in ConsumerAt,
           u \in Expirer => to \in ExpirerAt,
           list' = list, heap' = heap, queued' = queued, owner' = owner,
           time' = time, ev' = ev,
           \A t \in Thread : t # u => result'[t] = result[t],
           \A q \in Producer : ev[q] # NULL => Kept(ev[q])
    PROVE  /\ S' = S /\ Listed' /\ MutexInv' /\ OwnerInv' /\ OrderInv'
           /\ \A t \in Thread : t # u => WalkInv(t)'
           /\ \A q \in Producer : HeldInv(q)'
<1>1. /\ TypeOK /\ Listed /\ MutexInv /\ OwnerInv /\ OrderInv
      /\ \A q \in Producer : HeldInv(q)
      /\ \A t \in Thread : WalkInv(t)
  BY Zenon DEF Inv
<1>2. Producer \subseteq Thread
  BY DEF Thread
<1>3. pc'[u] = to /\ \A t \in Thread : t # u => pc'[t] = pc[t]
  BY <1>1 DEF TypeOK
<1>4. S' = S /\ Listed'
  BY <1>1, ListedFrame, Zenon
<1>5. MutexInv'
  <2>1. u \in Producer => to \in ProducerAt
    BY <1>1, Zenon DEF MutexInv
  <2> QED BY <1>1, <2>1, MutexMove, Zenon
<1>6. OwnerInv' /\ OrderInv'
  BY <1>1, OwnerFrame, OrderFrame, Zenon
<1>7. \A q \in Producer : HeldInv(q)'
  BY <1>1, <1>2, <1>3, HeldFrame, Zenon
<1>8. ASSUME NEW t \in Thread, t # u PROVE WalkInv(t)'
  <2>1. owner = u
    BY <1>1, Zenon DEF MutexInv
  <2>2. pc[t] \in Idle
    BY <1>1, <1>8, <2>1, OthersIdle, Zenon
  <2> QED BY <1>1, <1>3, <1>8, <2>2, IdleFrame, Zenon
<1> QED BY <1>4, <1>5, <1>6, <1>7, <1>8, Zenon

(* A thread takes the mutex.                                               *)
LEMMA EnterStep ==
    ASSUME Inv, NEW u \in Thread, NEW to \in Inside,
           Lock(u), pc[u] \in Idle, pc' = [pc EXCEPT ![u] = to],
           u \in Producer => pc[u] = "store" /\ to = "storeWalk",
           u \in Consumer => to \in ConsumerAt,
           u \in Expirer => to \in ExpirerAt,
           list' = list, heap' = heap, queued' = queued,
           time' = time, triggered' = triggered, duration' = duration,
           ev' = ev, result' = result
    PROVE  /\ S' = S /\ Listed' /\ MutexInv' /\ OwnerInv' /\ OrderInv'
           /\ \A t \in Thread : t # u => WalkInv(t)'
           /\ \A q \in Producer : HeldInv(q)'
<1>1. /\ TypeOK /\ Listed /\ MutexInv /\ OwnerInv /\ OrderInv
      /\ \A q \in Producer : HeldInv(q)
      /\ \A t \in Thread : WalkInv(t)
  BY Zenon DEF Inv
<1>2. Producer \subseteq Thread
  BY DEF Thread
<1>3. pc'[u] = to /\ \A t \in Thread : t # u => pc'[t] = pc[t]
  BY <1>1 DEF TypeOK
<1>4. S' = S /\ Listed'
  BY <1>1, ListedFrame, Zenon
<1>5. MutexInv'
  <2>1. u \in Producer => to \in ProducerAt
    BY Zenon DEF ProducerAt
  <2> QED BY <1>1, <2>1, MutexEnter, Zenon
<1>6. OwnerInv' /\ OrderInv'
  BY <1>1, OwnerFrame, OrderFrame, Zenon
<1>7. ASSUME NEW q \in Producer PROVE HeldInv(q)'
  <2>1. CASE q # u
    BY <1>1, <1>2, <1>3, <2>1, HeldFrame, Zenon DEF Kept
  <2>2. CASE q = u
    <3>1. pc[q] = "store" /\ pc'[q] = "storeWalk" /\ HeldInv(q)
      BY <1>1, <1>3, <2>2, Zenon
    <3> QED BY <3>1 DEF HeldInv, Holding
  <2> QED BY <2>1, <2>2, Zenon
<1>8. ASSUME NEW t \in Thread, t # u PROVE WalkInv(t)'
  <2>1. owner = NoThread
    BY Zenon DEF Lock
  <2>2. pc[t] \in Idle
    BY <1>1, <1>8, <2>1, OthersIdle, Zenon
  <2> QED BY <1>1, <1>3, <1>8, <2>2, IdleFrame, Zenon
<1> QED BY <1>4, <1>5, <1>6, <1>7, <1>8, Zenon

-----------------------------------------------------------------------------
(* One lemma for each action.                                              *)

(* TSMemoryPool::Alloc takes an event that nobody has.                     *)
LEMMA AllocItemKeeps ==
    ASSUME Inv, NEW p \in Producer, AllocItem(p)
    PROVE  Inv'
<1>1. /\ TypeOK /\ OwnerInv /\ HeldInv(p) /\ Listed
      /\ p \in Thread /\ Producer \subseteq Thread
  BY Zenon DEF Inv, Thread
<1>2. /\ pc[p] = "idle" /\ pc' = [pc EXCEPT ![p] = "readId"]
      /\ UNCHANGED <<nextId, id, time, duration, triggered, list, owner,
                     cur, arg, old, result, due>>
  BY DEF AllocItem, Goto, eventVars
<1>3. PICK x \in Item :
        /\ \/ queued[x] > 0 /\ queued' = [queued EXCEPT ![x] = @ - 1] /\ heap' = heap
           \/ x \notin heap /\ heap' = heap \cup {x} /\ queued' = queued
        /\ ev' = [ev EXCEPT ![p] = x]
  BY Zenon DEF AllocItem
<1>4. /\ ev'[p] = x /\ \A t \in Thread : t # p => ev'[t] = ev[t]
      /\ pc'[p] = "readId"
  BY <1>1, <1>2, <1>3 DEF TypeOK
<1>5. /\ S' = S /\ Listed' /\ MutexInv' /\ OrderInv'
      /\ \A t \in Thread : WalkInv(t)'
      /\ \A q \in Producer : q # p => HeldInv(q)'
  <2>1. "readId" \in ProducerAt \cap Idle /\ pc[p] \in Idle
    BY <1>2 DEF ProducerAt, Idle
  <2>2. \A y \in Item : Kept(y)
    BY <1>2, Zenon DEF Kept
  <2> QED BY <1>2, <1>4, <2>1, <2>2, OutsideStep, Zenon
<1>6. TypeOK'
  <2>1. heap' \subseteq Item
    BY <1>1, <1>3 DEF TypeOK
  <2>2. queued' \in [Item -> Nat]
    <3>1. queued \in [Item -> Nat]
      BY <1>1, Zenon DEF TypeOK
    <3>2. CASE queued[x] > 0 /\ queued' = [queued EXCEPT ![x] = @ - 1]
      <4>1. queued[x] - 1 \in Nat
        BY <3>1, <3>2
      <4> QED BY <3>1, <3>2, <4>1, Zenon
    <3> QED BY <1>3, <3>1, <3>2
  <2>3. ev' \in [Thread -> Pointer]
    BY <1>1, <1>3 DEF TypeOK, Pointer
  <2>4. pc' \in [Thread -> Idle \cup Inside]
    BY <1>1, <1>2 DEF TypeOK, Idle
  <2> QED BY <1>1, <1>2, <2>1, <2>2, <2>3, <2>4, Zenon DEF TypeOK
<1>7. HeldInv(p)'
  <2>1. ev'[p] # NULL
    BY <1>4, NullAssumption
  <2> QED BY <1>4, <2>1 DEF HeldInv, Holding
<1>8. OwnerInv'
  <2>1. /\ x \in heap' /\ heap \subseteq heap' /\ queued'[x] = 0
        /\ \A y \in Item : y # x => queued'[y] = queued[y]
        /\ queued[x] > 0 \/ x \notin heap
    <3>1. CASE queued[x] > 0 /\ queued' = [queued EXCEPT ![x] = @ - 1] /\ heap' = heap
      <4>1. queued[x] # 0
        BY <3>1
      <4>2. queued[x] = 1 /\ x \in heap
        BY <1>1, <4>1, Zenon DEF OwnerInv
      <4> QED BY <1>1, <3>1, <4>2 DEF TypeOK
    <3>2. CASE x \notin heap /\ heap' = heap \cup {x} /\ queued' = queued
      <4>1. queued[x] = 0
        BY <1>1, <3>2, Zenon DEF OwnerInv
      <4> QED BY <3>2, <4>1
    <3> QED BY <1>3, <3>1, <3>2
  <2>2. queued[x] # 0 \/ x \notin heap
    BY <2>1
  <2>3. \A i \in 1..Len(S) : S[i] # x
    BY <1>1, <2>2, Zenon DEF OwnerInv
  <2>4. \A q \in Producer : ev[q] # x
    <3>1. x # NULL
      BY NullAssumption
    <3> QED BY <1>1, <2>2, <3>1, Zenon DEF OwnerInv
  <2>5. ASSUME NEW y \in Item, queued'[y] # 0
        PROVE  queued'[y] = 1 /\ y \in heap' /\ \A i \in 1..Len(S) : S[i] # y
    BY <1>1, <2>1, <2>5 DEF OwnerInv
  <2>6. \A i \in 1..Len(S) : S[i] \in heap'
    BY <1>1, <2>1, Zenon DEF OwnerInv
  <2>7. ASSUME NEW q \in Producer, ev'[q] # NULL
        PROVE  /\ ev'[q] \in heap' /\ queued'[ev'[q]] = 0
               /\ \A i \in 1..Len(S) : S[i] # ev'[q]
               /\ \A r \in Producer : ev'[r] = ev'[q] => r = q
    <3>1. CASE q = p
      BY <1>1, <1>4, <2>1, <2>3, <2>4, <3>1, ZenonT(30)
    <3>2. CASE q # p
      <4>1. ev'[q] = ev[q] /\ ev[q] \in Item /\ ev[q] # x
        BY <1>1, <1>4, <2>4, <2>7, <3>2, ZenonT(30) DEF TypeOK, Pointer
      <4>2. /\ ev[q] \in heap /\ queued[ev[q]] = 0
            /\ \A i \in 1..Len(S) : S[i] # ev[q]
            /\ \A r \in Producer : ev[r] = ev[q] => r = q
        BY <1>1, <2>7, <4>1, Zenon DEF OwnerInv
      <4> QED BY <1>1, <1>4, <2>1, <4>1, <4>2, ZenonT(30)
    <3> QED BY <3>1, <3>2
  <2> QED BY <1>5, <2>5, <2>6, <2>7, Zenon DEF OwnerInv
<1>9. \A q \in Producer : HeldInv(q)'
  BY <1>5, <1>7, Zenon
<1> QED BY <1>5, <1>6, <1>8, <1>9, Zenon DEF Inv

(* The read of m_nextId.                                                   *)
LEMMA AllocReadIdKeeps ==
    ASSUME Inv, NEW p \in Producer, AllocReadId(p)
    PROVE  Inv'
<1>1. /\ TypeOK /\ OwnerInv /\ HeldInv(p)
      /\ p \in Thread /\ Producer \subseteq Thread
  BY Zenon DEF Inv, Thread
<1>2. /\ pc[p] = "readId" /\ pc' = [pc EXCEPT ![p] = "writeId"]
      /\ arg' = [arg EXCEPT ![p] = nextId]
      /\ UNCHANGED <<heap, queued, nextId, id, time, duration, triggered, list,
                     owner, ev, cur, old, result, due>>
  BY DEF AllocReadId, Goto, eventVars, poolVars
<1>3. pc'[p] = "writeId" /\ \A t \in Thread : t # p => arg'[t] = arg[t]
  BY <1>1, <1>2 DEF TypeOK
<1>4. /\ Listed' /\ MutexInv' /\ OrderInv'
      /\ \A t \in Thread : WalkInv(t)'
      /\ \A q \in Producer : q # p => HeldInv(q)'
  <2>1. "writeId" \in ProducerAt \cap Idle /\ pc[p] \in Idle
    BY <1>2 DEF ProducerAt, Idle
  <2>2. \A y \in Item : Kept(y)
    BY <1>2, Zenon DEF Kept
  <2> QED BY <1>2, <1>3, <2>1, <2>2, OutsideStep, Zenon
<1>5. TypeOK'
  <2>1. arg' \in [Thread -> Nat]
    BY <1>1, <1>2 DEF TypeOK
  <2>2. pc' \in [Thread -> Idle \cup Inside]
    BY <1>1, <1>2 DEF TypeOK, Idle
  <2> QED BY <1>1, <1>2, <2>1, <2>2, Zenon DEF TypeOK
<1>6. HeldInv(p)'
  BY <1>1, <1>2, <1>3 DEF HeldInv, Holding
<1>7. OwnerInv'
  BY <1>1, <1>2, OwnerFrame, Zenon
<1>8. \A q \in Producer : HeldInv(q)'
  BY <1>4, <1>6, Zenon
<1> QED BY <1>4, <1>5, <1>7, <1>8, Zenon DEF Inv

(* The write of m_nextId, and Init() of the event.                         *)
LEMMA AllocInitKeeps ==
    ASSUME Inv, NEW p \in Producer, AllocInit(p)
    PROVE  Inv'
<1>1. /\ TypeOK /\ OwnerInv /\ HeldInv(p)
      /\ p \in Thread /\ Producer \subseteq Thread
  BY Zenon DEF Inv, Thread
<1>2. /\ pc[p] = "writeId" /\ pc' = [pc EXCEPT ![p] = "allocated"]
      /\ nextId' = arg[p] + 1
      /\ id' = [id EXCEPT ![ev[p]] = arg[p]]
      /\ triggered' = [triggered EXCEPT ![ev[p]] = FALSE]
      /\ arg' = [arg EXCEPT ![p] = 0]
      /\ UNCHANGED <<heap, queued, time, duration, list, owner, ev, cur, old, result, due>>
  BY DEF AllocInit, Goto
<1>3. pc'[p] = "allocated" /\ \A t \in Thread : t # p => arg'[t] = arg[t]
  BY <1>1, <1>2 DEF TypeOK
<1>4. ev[p] \in Item
  <2>1. ev[p] # NULL
    BY <1>1, <1>2 DEF HeldInv, Holding
  <2> QED BY <1>1, <2>1 DEF TypeOK, Pointer
<1>5. /\ Listed' /\ MutexInv' /\ OrderInv'
      /\ \A t \in Thread : WalkInv(t)'
      /\ \A q \in Producer : q # p => HeldInv(q)'
  <2>1. "allocated" \in ProducerAt \cap Idle /\ pc[p] \in Idle
    BY <1>2 DEF ProducerAt, Idle
  <2>2. \A y \in Item : y # ev[p] => Kept(y)
    <3>1. triggered \in [Item -> BOOLEAN]
      BY <1>1, Zenon DEF TypeOK
    <3> QED BY <1>2, <3>1, Zenon DEF Kept
  <2> QED BY <1>2, <1>3, <2>1, <2>2, OutsideStep, Zenon
<1>6. TypeOK'
  <2>1. arg' \in [Thread -> Nat] /\ nextId' \in Nat
    BY <1>1, <1>2 DEF TypeOK
  <2>2. pc' \in [Thread -> Idle \cup Inside]
    BY <1>1, <1>2 DEF TypeOK, Idle
  <2>3. id' \in [Item -> Nat]
    BY <1>1, <1>2, Zenon DEF TypeOK
  <2>4. triggered' \in [Item -> BOOLEAN]
    BY <1>1, <1>2, Zenon DEF TypeOK
  <2> QED BY <1>1, <1>2, <2>1, <2>2, <2>3, <2>4, Zenon DEF TypeOK
<1>7. HeldInv(p)'
  <2>1. ~triggered'[ev[p]]
    BY <1>1, <1>2, <1>4, Zenon DEF TypeOK
  <2>2. ev'[p] = ev[p] /\ ev[p] # NULL
    BY <1>2, <1>4, NullAssumption
  <2> QED BY <1>3, <2>1, <2>2 DEF HeldInv, Holding
<1>8. OwnerInv'
  BY <1>1, <1>2, OwnerFrame, Zenon
<1>9. \A q \in Producer : HeldInv(q)'
  BY <1>5, <1>7, Zenon
<1> QED BY <1>5, <1>6, <1>8, <1>9, Zenon DEF Inv

(* SetTime, on an event that is not stored.                                *)
LEMMA SetTimeKeeps ==
    ASSUME Inv, NEW p \in Producer, SetTime(p)
    PROVE  Inv'
<1>1. /\ TypeOK /\ OwnerInv /\ HeldInv(p)
      /\ p \in Thread /\ Producer \subseteq Thread
  BY Zenon DEF Inv, Thread
<1>2. PICK tm \in Time, d \in Duration :
        /\ time' = [time EXCEPT ![ev[p]] = tm]
        /\ duration' = [duration EXCEPT ![ev[p]] = d]
  BY Zenon DEF SetTime
<1>3. /\ pc[p] = "allocated" /\ pc' = [pc EXCEPT ![p] = "store"]
      /\ UNCHANGED <<heap, queued, nextId, id, triggered, list, owner,
                     ev, cur, arg, old, result, due>>
  BY DEF SetTime, Goto, poolVars, localVars
<1>4. /\ pc'[p] = "store" /\ tm \in Nat /\ d \in Nat
  BY <1>1, <1>3, TimeAssumption DEF TypeOK
<1>5. ev[p] \in Item
  <2>1. ev[p] # NULL
    BY <1>1, <1>3 DEF HeldInv, Holding
  <2> QED BY <1>1, <2>1 DEF TypeOK, Pointer
<1>6. time \in [Item -> Nat] /\ duration \in [Item -> Nat]
  BY <1>1, Zenon DEF TypeOK
<1>7. /\ Listed' /\ MutexInv' /\ OrderInv'
      /\ \A t \in Thread : WalkInv(t)'
      /\ \A q \in Producer : q # p => HeldInv(q)'
  <2>1. "store" \in ProducerAt \cap Idle /\ pc[p] \in Idle
    BY <1>3 DEF ProducerAt, Idle
  <2>2. \A y \in Item : y # ev[p] => Kept(y)
    BY <1>2, <1>3, <1>6, Zenon DEF Kept
  <2> QED BY <1>3, <2>1, <2>2, OutsideStep, Zenon
<1>8. TypeOK'
  <2>1. time' \in [Item -> Nat] /\ duration' \in [Item -> Nat]
    BY <1>2, <1>4, <1>6, Zenon
  <2>2. pc' \in [Thread -> Idle \cup Inside]
    BY <1>1, <1>3 DEF TypeOK, Idle
  <2> QED BY <1>1, <1>3, <2>1, <2>2, Zenon DEF TypeOK
<1>9. HeldInv(p)'
  <2>1. time'[ev[p]] \in Time
    BY <1>2, <1>5, <1>6
  <2>2. ~triggered[ev[p]] /\ ev[p] # NULL
    BY <1>1, <1>3, Zenon DEF HeldInv, Holding
  <2> QED BY <1>3, <1>4, <2>1, <2>2 DEF HeldInv, Holding
<1>10. OwnerInv'
  BY <1>1, <1>3, OwnerFrame, Zenon
<1>11. \A q \in Producer : HeldInv(q)'
  BY <1>7, <1>9, Zenon
<1> QED BY <1>7, <1>8, <1>10, <1>11, Zenon DEF Inv

(* StoreTimeEvent starts behind the last event.                            *)
LEMMA StoreLockKeeps ==
    ASSUME Inv, NEW p \in Producer, StoreLock(p)
    PROVE  Inv'
<1>1. /\ TypeOK /\ Listed /\ p \in Thread /\ p \notin Consumer /\ p \notin Expirer
  BY ThreadAssumption, Zenon DEF Inv, Thread
<1>2. /\ pc[p] = "store" /\ pc' = [pc EXCEPT ![p] = "storeWalk"]
      /\ Lock(p) /\ cur' = [cur EXCEPT ![p] = list.last]
      /\ UNCHANGED <<heap, queued, nextId, id, time, duration, triggered, list,
                     ev, arg, old, result, due>>
  BY DEF StoreLock, Goto, eventVars, poolVars
<1>3. pc'[p] = "storeWalk" /\ cur'[p] = list.last
  BY <1>1, <1>2 DEF TypeOK
<1>4. /\ S' = S /\ Listed' /\ MutexInv' /\ OwnerInv' /\ OrderInv'
      /\ \A t \in Thread : t # p => WalkInv(t)'
      /\ \A q \in Producer : HeldInv(q)'
  <2>1. "storeWalk" \in Inside /\ pc[p] \in Idle
    BY <1>2 DEF Inside, Idle
  <2> QED BY <1>1, <1>2, <2>1, EnterStep, Zenon
<1>5. TypeOK'
  <2>1. list.last \in Pointer
    BY <1>1, ListFields, Zenon DEF TypeOK
  <2>2. cur' \in [Thread -> Pointer]
    BY <1>1, <1>2, <2>1, Zenon DEF TypeOK
  <2>3. pc' \in [Thread -> Idle \cup Inside]
    BY <1>1, <1>2 DEF TypeOK, Inside
  <2>4. owner' \in Thread \cup {NoThread}
    BY <1>1, <1>2, ZenonT(30) DEF Lock
  <2> QED BY <1>1, <1>2, <2>2, <2>3, <2>4, Zenon DEF TypeOK
<1>6. WalkInv(p)'
  <2>1. Len(S) \in Nat /\ list.last = At(S, Len(S))
    BY <1>1, LinkedAt DEF Listed, Represents
  <2>2. StoreAt(p, Len(S))'
    BY <1>3, <1>4, <2>1 DEF StoreAt
  <2>3. Len(S) \in 0..Len(S)
    BY <2>1
  <2>4. \E k \in 0..Len(S') : StoreAt(p, k)'
    BY <1>4, <2>2, <2>3, Zenon
  <2> QED BY <1>3, <2>4 DEF WalkInv, Idle
<1> QED BY <1>4, <1>5, <1>6, Zenon DEF Inv

(* It walks back over an event that is later.                              *)
LEMMA StoreWalkKeeps ==
    ASSUME Inv, NEW p \in Producer, StoreWalk(p)
    PROVE  Inv'
<1>1. /\ TypeOK /\ Listed /\ OrderInv /\ WalkInv(p) /\ p \in Thread
      /\ p \notin Consumer /\ p \notin Expirer
  BY ThreadAssumption, Zenon DEF Inv, Thread
<1>2. /\ pc[p] = "storeWalk" /\ cur[p] # NULL /\ time[ev[p]] < time[cur[p]]
      /\ cur' = [cur EXCEPT ![p] = list.prev[cur[p]]]
      /\ UNCHANGED <<heap, queued, nextId, id, time, duration, triggered, list,
                     owner, pc, ev, arg, old, result, due>>
  BY DEF StoreWalk, Later, eventVars, poolVars
<1>3. cur'[p] = list.prev[cur[p]] /\ cur[p] \in Item
  BY <1>1, <1>2 DEF TypeOK, Pointer
<1>4. /\ S' = S /\ Listed' /\ MutexInv' /\ OwnerInv' /\ OrderInv'
      /\ \A t \in Thread : t # p => WalkInv(t)'
      /\ \A q \in Producer : HeldInv(q)'
  <2>1. pc[p] \in Inside
    BY <1>2, ZenonT(30) DEF Inside
  <2>2. pc' = [pc EXCEPT ![p] = pc[p]]
    BY <1>1, <1>2 DEF TypeOK
  <2>3. \A q \in Producer : ev[q] # NULL => Kept(ev[q])
    BY <1>2, Zenon DEF Kept
  <2>4. result' = result
    BY <1>2
  <2> QED BY <1>1, <1>2, <2>1, <2>2, <2>3, <2>4, InsideStep, Zenon
<1>5. TypeOK'
  <2>1. list.prev[cur[p]] \in Pointer
    <3>1. list \in ListType
      BY <1>1, Zenon DEF TypeOK
    <3>2. list.prev \in [Item -> Pointer]
      BY <3>1, ListFields, Zenon
    <3> QED BY <1>3, <3>2, Zenon
  <2>2. cur' \in [Thread -> Pointer]
    BY <1>1, <1>2, <2>1, Zenon DEF TypeOK
  <2> QED BY <1>1, <1>2, <2>2, Zenon DEF TypeOK
<1>6. WalkInv(p)'
  <2>1. PICK k \in 0..Len(S) : StoreAt(p, k)
    BY <1>1, <1>2, Zenon DEF WalkInv
  <2>2. Len(S) \in Nat /\ \A i \in 1..Len(S) : list.prev[S[i]] = At(S, i - 1)
    BY <1>1, LinkedAt DEF Listed, Represents
  <2>3. cur[p] = At(S, k) /\ \A j \in 1..Len(S) : j > k => time[ev[p]] < time[S[j]]
    BY <2>1, Zenon DEF StoreAt
  <2>4. k \in 1..Len(S) /\ cur[p] = S[k]
    BY <1>2, <2>2, <2>3, ZenonT(30) DEF At
  <2>5. cur'[p] = At(S, k - 1) /\ k - 1 \in 0..Len(S)
    BY <1>3, <2>2, <2>4
  <2>6. \A j \in 1..Len(S) : j > k - 1 => time[ev[p]] < time[S[j]]
    <3> TAKE j \in 1..Len(S)
    <3>1. CASE j = k
      BY <1>2, <2>4, <3>1, ZenonT(30)
    <3>2. CASE j # k
      BY <2>2, <2>3, <3>2
    <3> QED BY <3>1, <3>2
  <2>7. StoreAt(p, k - 1)'
    BY <1>2, <1>4, <2>5, <2>6, Zenon DEF StoreAt
  <2>8. \E n \in 0..Len(S') : StoreAt(p, n)'
    BY <1>4, <2>5, <2>7, Zenon
  <2>9. pc'[p] = "storeWalk"
    BY <1>2
  <2> QED BY <2>8, <2>9 DEF WalkInv, Idle
<1> QED BY <1>4, <1>5, <1>6, Zenon DEF Inv

(* It links the event in behind the last one that is not later.            *)
LEMMA StoreInsertKeeps ==
    ASSUME ChainRight, Inv, NEW p \in Producer, StoreInsert(p)
    PROVE  /\ Inv'
           /\ \E k \in 0..Len(S) :
                 /\ S' = With(S, k, ev[p])
                 /\ ev[p] \in Item /\ \A i \in 1..Len(S) : S[i] # ev[p]
                 /\ \A i \in 1..Len(S) : i <= k <=> time[S[i]] <= time[ev[p]]
<1>1. /\ TypeOK /\ Listed /\ MutexInv /\ OwnerInv /\ OrderInv /\ p \in Thread
      /\ HeldInv(p) /\ WalkInv(p)
      /\ p \notin Consumer /\ p \notin Expirer /\ Producer \subseteq Thread
      /\ \A q \in Producer : HeldInv(q)
      /\ \A t \in Thread : WalkInv(t)
  BY ThreadAssumption, Zenon DEF Inv, Thread
<1>2. /\ pc[p] = "storeWalk" /\ pc' = [pc EXCEPT ![p] = "stored"]
      /\ cur[p] = NULL \/ ~(time[ev[p]] < time[cur[p]])
      /\ list' = InsertAfter(list, cur[p], ev[p])
      /\ ev' = [ev EXCEPT ![p] = NULL] /\ cur' = [cur EXCEPT ![p] = NULL]
      /\ UNCHANGED <<heap, queued, nextId, id, time, duration, triggered, owner,
                     arg, old, result, due>>
  BY DEF StoreInsert, Later, Goto, eventVars, poolVars
<1> DEFINE x == ev[p]
<1>3. /\ x # NULL /\ x \in Item /\ x \in heap /\ queued[x] = 0
      /\ \A i \in 1..Len(S) : S[i] # x
      /\ \A q \in Producer : ev[q] = x => q = p
  <2>1. x # NULL
    BY <1>1, <1>2 DEF HeldInv, Holding
  <2>2. x \in Item
    BY <1>1, <2>1, ZenonT(30) DEF TypeOK, Pointer
  <2> QED BY <1>1, <2>1, <2>2, Zenon DEF OwnerInv
<1>4. /\ pc'[p] = "stored" /\ ev'[p] = NULL
      /\ \A t \in Thread : t # p => pc'[t] = pc[t] /\ ev'[t] = ev[t]
  BY <1>1, <1>2 DEF TypeOK
<1> HIDE DEF x
<1>5. PICK k \in 0..Len(S) :
        /\ cur[p] = At(S, k)
        /\ \A j \in 1..Len(S) : j > k => time[x] < time[S[j]]
  BY <1>1, <1>2, Zenon DEF WalkInv, StoreAt, x
<1>6. /\ Len(S) \in Nat /\ S \in Seq(Item)
      /\ \A i \in 1..Len(S) : S[i] \in Item /\ time[S[i]] \in Nat
      /\ time \in [Item -> Nat] /\ time[x] \in Nat
  <2>1. S \in Seq(Item) /\ time \in [Item -> Nat]
    BY <1>1, Zenon DEF Listed, TypeOK
  <2>2. Len(S) \in Nat /\ \A i \in 1..Len(S) : S[i] \in Item
    BY <2>1, AtType, Zenon
  <2> QED BY <1>3, <2>1, <2>2
<1>7. \A i \in 1..Len(S) : i <= k => time[S[i]] <= time[x]
  <2> SUFFICES ASSUME NEW i \in 1..Len(S), i <= k PROVE time[S[i]] <= time[x]
    OBVIOUS
  <2>1. k \in 1..Len(S) /\ At(S, k) = S[k] /\ S[k] # NULL
    BY <1>6, NullAssumption DEF At
  <2>2. time[S[k]] <= time[x]
    BY <1>2, <1>5, <1>6, <2>1 DEF x
  <2>3. CASE i = k
    BY <2>2, <2>3
  <2>4. CASE i # k
    <3>1. i < k
      BY <2>4
    <3>2. time[S[i]] <= time[S[k]]
      BY <1>1, <2>1, <3>1, Zenon DEF OrderInv
    <3> QED BY <1>6, <2>1, <2>2, <3>2
  <2> QED BY <2>3, <2>4, ZenonT(30)
<1>8. \A i \in 1..Len(S) : i <= k <=> time[S[i]] <= time[x]
  <2> TAKE i \in 1..Len(S)
  <2>1. time[S[i]] \in Nat /\ time[x] \in Nat /\ i \in Nat /\ k \in Nat
    BY <1>6
  <2>2. (i <= k => time[S[i]] <= time[x]) /\ (i > k => time[x] < time[S[i]])
    BY <1>5, <1>7, Zenon
  <2> QED BY <2>1, <2>2
<1> DEFINE w == With(S, k, x)
<1>9. list' \in ListType /\ Represents(list', w) /\ w \in Seq(Item) /\ S' = w
  <2>1. list \in ListType /\ Represents(list, S)
    BY <1>1, Zenon DEF TypeOK, Listed
  <2>2. list' = InsertAfter(list, At(S, k), x)
    BY <1>2, <1>5 DEF x
  <2>3. list' \in ListType /\ Represents(list', w)
    BY <1>3, <1>6, <2>1, <2>2, InsertKeeps, Zenon
  <2>4. w \in Seq(Item)
    BY <1>3, <1>6, WithType, Zenon
  <2> HIDE DEF w
  <2>5. Chain(list') = w
    BY <2>3, <2>4, Zenon DEF Represents, ChainRight
  <2> QED BY <2>3, <2>4, <2>5, Zenon DEF S
<1>10. Listed'
  BY <1>9, Zenon DEF Listed
<1>11. TypeOK'
  <2>1. ev' \in [Thread -> Pointer] /\ cur' \in [Thread -> Pointer]
    <3>1. NULL \in Pointer
      BY DEF Pointer
    <3> QED BY <1>1, <1>2, <3>1, Zenon DEF TypeOK
  <2>2. pc' \in [Thread -> Idle \cup Inside]
    BY <1>1, <1>2 DEF TypeOK, Inside
  <2> HIDE DEF w
  <2> QED BY <1>1, <1>2, <1>9, <2>1, <2>2, Zenon DEF TypeOK
<1>12. MutexInv'
  <2>1. pc[p] \in Inside /\ "stored" \in Inside /\ "stored" \in ProducerAt
    BY <1>2 DEF Inside, ProducerAt
  <2> QED BY <1>1, <1>2, <2>1, MutexMove, Zenon
<1>13. ASSUME NEW q \in Producer PROVE HeldInv(q)'
  <2>1. CASE q = p
    BY <1>4, <2>1 DEF HeldInv, Holding
  <2>2. CASE q # p
    BY <1>1, <1>2, <1>4, <2>2, HeldFrame, Zenon DEF Kept
  <2> QED BY <2>1, <2>2, Zenon
<1>14. \A i \in 1..Len(w) : w[i] = x \/ \E j \in 1..Len(S) : w[i] = S[j]
  <2> TAKE i \in 1..Len(w)
  <2>1. \/ i <= k /\ i \in 1..Len(S) /\ w[i] = S[i]
        \/ i = k + 1 /\ w[i] = x
        \/ i > k + 1 /\ i - 1 \in 1..Len(S) /\ w[i] = S[i - 1]
    BY <1>3, <1>6, WithItems, Zenon
  <2> HIDE DEF w
  <2> QED BY <2>1, Zenon
<1>15. OrderInv'
  <2>1. \A i, j \in 1..Len(w) : i < j => time[w[i]] <= time[w[j]]
    <3>1. \A i, j \in 1..Len(S) : i < j => time[S[i]] <= time[S[j]]
      BY <1>1, Zenon DEF OrderInv
    <3> QED BY <1>3, <1>5, <1>6, <1>7, <3>1, WithOrdered, Zenon
  <2> QED BY <1>2, <1>9, <2>1, Zenon DEF OrderInv
<1> HIDE DEF w
<1>16. OwnerInv'
  <2>1. ASSUME NEW y \in Item, queued[y] # 0
        PROVE  queued[y] = 1 /\ y \in heap /\ \A i \in 1..Len(w) : w[i] # y
    <3>1. queued[y] = 1 /\ y \in heap /\ \A i \in 1..Len(S) : S[i] # y
      BY <1>1, <2>1, Zenon DEF OwnerInv
    <3>2. y # x
      BY <1>3, <2>1
    <3> QED BY <1>14, <3>1, <3>2, Zenon
  <2>2. \A i \in 1..Len(w) : w[i] \in heap
    <3>1. \A i \in 1..Len(S) : S[i] \in heap
      BY <1>1, Zenon DEF OwnerInv
    <3> QED BY <1>3, <1>14, <3>1, Zenon
  <2>3. ASSUME NEW q \in Producer, ev'[q] # NULL
        PROVE  /\ ev'[q] \in heap /\ queued[ev'[q]] = 0
               /\ \A i \in 1..Len(w) : w[i] # ev'[q]
               /\ \A r \in Producer : ev'[r] = ev'[q] => r = q
    <3>1. q # p /\ ev'[q] = ev[q] /\ ev[q] # NULL /\ ev[q] # x
      BY <1>1, <1>3, <1>4, <2>3, Zenon
    <3>2. /\ ev[q] \in heap /\ queued[ev[q]] = 0
          /\ \A i \in 1..Len(S) : S[i] # ev[q]
          /\ \A r \in Producer : ev[r] = ev[q] => r = q
      BY <1>1, <3>1, Zenon DEF OwnerInv
    <3>3. \A i \in 1..Len(w) : w[i] # ev[q]
      BY <1>14, <3>1, <3>2, Zenon
    <3>4. \A r \in Producer : ev'[r] = ev[q] => r = q
      <4> SUFFICES ASSUME NEW r \in Producer, ev'[r] = ev[q] PROVE r = q
        OBVIOUS
      <4>1. r # p
        BY <1>4, <3>1
      <4> QED BY <1>1, <1>4, <3>2, <4>1, Zenon
    <3> QED BY <3>1, <3>2, <3>3, <3>4, Zenon
  <2> QED BY <1>2, <1>9, <2>1, <2>2, <2>3, Zenon DEF OwnerInv
<1>17. ASSUME NEW t \in Thread PROVE WalkInv(t)'
  <2>1. CASE t = p
    BY <1>4, <2>1 DEF WalkInv, Idle
  <2>2. CASE t # p
    <3>1. owner = p
      BY <1>1, <1>2 DEF MutexInv, Inside
    <3>2. pc[t] \in Idle
      BY <1>1, <2>2, <3>1, OthersIdle, Zenon
    <3> QED BY <1>1, <1>2, <1>4, <2>2, <3>2, IdleFrame, ZenonT(30)
  <2> QED BY <2>1, <2>2, Zenon
<1>0. Inv'
  BY <1>10, <1>11, <1>12, <1>13, <1>15, <1>16, <1>17, Zenon DEF Inv
<1> QED BY <1>3, <1>8, <1>9, <1>0, Zenon DEF x, w

(* The end of a call, whichever it is.                                     *)
LEMMA UnlockKeeps ==
    ASSUME Inv, NEW u \in Thread, Unlock(u)
    PROVE  Inv' /\ S' = S
<1>1. /\ TypeOK /\ Listed /\ MutexInv /\ OwnerInv /\ OrderInv
      /\ Producer \subseteq Thread
      /\ \A q \in Producer : HeldInv(q)
      /\ \A t \in Thread : WalkInv(t)
  BY Zenon DEF Inv, Thread
<1>2. /\ pc[u] \in {"stored", "dequed", "scanned", "listed", "expired"}
      /\ pc' = [pc EXCEPT ![u] = "idle"] /\ owner' = NoThread
      /\ arg' = [arg EXCEPT ![u] = 0] /\ old' = [old EXCEPT ![u] = 0]
      /\ result' = [result EXCEPT ![u] = <<>>] /\ due' = [due EXCEPT ![u] = {}]
      /\ UNCHANGED <<heap, queued, nextId, id, time, duration, triggered, list,
                     ev, cur>>
  BY DEF Unlock, eventVars, poolVars
<1>3. /\ pc'[u] = "idle" /\ result'[u] = <<>>
      /\ \A t \in Thread : t # u => pc'[t] = pc[t] /\ result'[t] = result[t]
  BY <1>1, <1>2 DEF TypeOK
<1>4. pc[u] \in Inside /\ owner = u
  BY <1>1, <1>2 DEF MutexInv, Inside
<1>5. TypeOK'
  <2>1. arg' \in [Thread -> Nat] /\ old' \in [Thread -> Nat]
    BY <1>1, <1>2 DEF TypeOK
  <2>2. result' \in [Thread -> Seq(Item)]
    <3>1. <<>> \in Seq(Item)
      OBVIOUS
    <3> QED BY <1>1, <1>2, <3>1, Zenon DEF TypeOK
  <2>3. pc' \in [Thread -> Idle \cup Inside]
    BY <1>1, <1>2 DEF TypeOK, Idle
  <2>4. due' \in [Thread -> SUBSET Item]
    <3>1. {} \in SUBSET Item
      OBVIOUS
    <3> QED BY <1>1, <1>2, <3>1, Zenon DEF TypeOK
  <2> QED BY <1>1, <1>2, <2>1, <2>2, <2>3, <2>4, Zenon DEF TypeOK
<1>6. S' = S /\ Listed' /\ OwnerInv' /\ OrderInv'
  BY <1>1, <1>2, ListedFrame, OwnerFrame, OrderFrame, Zenon
<1>7. MutexInv'
  <2>1. ASSUME NEW t \in Thread PROVE pc'[t] \in Inside <=> owner' = t
    <3>1. t # NoThread
      BY ThreadAssumption
    <3>2. CASE t = u
      BY <1>2, <1>3, <3>1, <3>2 DEF Inside
    <3>3. CASE t # u
      BY <1>1, <1>2, <1>3, <1>4, <3>1, <3>3, Zenon DEF MutexInv
    <3> QED BY <3>2, <3>3, Zenon
  <2>2. "idle" \in ProducerAt /\ "idle" \in ConsumerAt /\ "idle" \in ExpirerAt
    BY DEF ProducerAt, ConsumerAt, ExpirerAt
  <2>3. Consumer \subseteq Thread /\ Expirer \subseteq Thread
    BY DEF Thread
  <2> QED BY <1>1, <1>3, <2>1, <2>2, <2>3, Zenon DEF MutexInv
<1>8. ASSUME NEW q \in Producer PROVE HeldInv(q)'
  <2>1. CASE q # u
    BY <1>1, <1>2, <1>3, <2>1, HeldFrame, Zenon DEF Kept
  <2>2. CASE q = u
    <3>1. ev[q] = NULL
      BY <1>1, <1>2, <2>2 DEF HeldInv, Holding
    <3> QED BY <1>2, <1>3, <2>2, <3>1, ZenonT(30) DEF HeldInv, Holding
  <2> QED BY <2>1, <2>2, Zenon
<1>9. ASSUME NEW t \in Thread PROVE WalkInv(t)'
  <2>1. CASE t = u
    BY <1>3, <2>1, Zenon DEF WalkInv
  <2>2. CASE t # u
    <3>1. pc[t] \in Idle
      BY <1>1, <1>4, <2>2, OthersIdle, Zenon
    <3> QED BY <1>1, <1>3, <2>2, <3>1, IdleFrame, Zenon
  <2> QED BY <2>1, <2>2, Zenon
<1> QED BY <1>5, <1>6, <1>7, <1>8, <1>9, Zenon DEF Inv

(* TSMemoryPool::Clear deletes an event that is free.                      *)
LEMMA ClearStepKeeps ==
    ASSUME Inv, NEW x \in Item, ClearStep(x)
    PROVE  Inv' /\ S' = S
<1>1. /\ TypeOK /\ Listed /\ MutexInv /\ OwnerInv /\ OrderInv
      /\ Producer \subseteq Thread
      /\ \A q \in Producer : HeldInv(q)
      /\ \A t \in Thread : WalkInv(t)
  BY Zenon DEF Inv, Thread
<1>2. /\ queued[x] > 0 /\ queued' = [queued EXCEPT ![x] = @ - 1]
      /\ heap' = heap \ {x}
      /\ UNCHANGED <<nextId, id, time, duration, triggered, list, owner, pc,
                     ev, cur, arg, old, result, due>>
  BY DEF ClearStep, eventVars, localVars
<1>3. queued[x] = 1 /\ x \in heap /\ \A i \in 1..Len(S) : S[i] # x
  <2>1. queued[x] # 0
    BY <1>2
  <2> QED BY <1>1, <2>1, Zenon DEF OwnerInv
<1>4. queued'[x] = 0 /\ \A y \in Item : y # x => queued'[y] = queued[y]
  BY <1>1, <1>2, <1>3 DEF TypeOK
<1>5. TypeOK'
  <2>1. heap' \subseteq Item
    BY <1>1, <1>2, Zenon DEF TypeOK
  <2>2. queued' \in [Item -> Nat]
    <3>1. queued \in [Item -> Nat]
      BY <1>1, Zenon DEF TypeOK
    <3>2. queued[x] - 1 \in Nat
      BY <1>3
    <3> QED BY <1>2, <3>1, <3>2, Zenon
  <2> QED BY <1>1, <1>2, <2>1, <2>2, Zenon DEF TypeOK
<1>6. S' = S /\ Listed' /\ OrderInv'
  BY <1>1, <1>2, ListedFrame, OrderFrame, Zenon
<1>7. MutexInv'
  BY <1>1, <1>2, Zenon DEF MutexInv
<1>8. \A q \in Producer : HeldInv(q)'
  BY <1>1, <1>2, HeldFrame, Zenon DEF Kept
<1>9. \A t \in Thread : WalkInv(t)'
  BY <1>1, <1>2, WalkFrame, Zenon DEF Kept, Same
<1>10. OwnerInv'
  <2>1. ASSUME NEW y \in Item, queued'[y] # 0
        PROVE  queued'[y] = 1 /\ y \in heap' /\ \A i \in 1..Len(S) : S[i] # y
    <3>1. y # x
      BY <1>4, <2>1
    <3>2. queued[y] = 1 /\ y \in heap /\ \A i \in 1..Len(S) : S[i] # y
      BY <1>1, <1>4, <2>1, <3>1, Zenon DEF OwnerInv
    <3> QED BY <1>2, <1>4, <3>1, <3>2, ZenonT(30)
  <2>2. \A i \in 1..Len(S) : S[i] \in heap'
    BY <1>1, <1>2, <1>3, Zenon DEF OwnerInv
  <2>3. ASSUME NEW q \in Producer, ev[q] # NULL
        PROVE  /\ ev[q] \in heap' /\ queued'[ev[q]] = 0
               /\ \A i \in 1..Len(S) : S[i] # ev[q]
               /\ \A r \in Producer : ev[r] = ev[q] => r = q
    <3>1. /\ ev[q] \in heap /\ queued[ev[q]] = 0
          /\ \A i \in 1..Len(S) : S[i] # ev[q]
          /\ \A r \in Producer : ev[r] = ev[q] => r = q
      BY <1>1, <2>3, Zenon DEF OwnerInv
    <3>2. ev[q] # x
      BY <1>3, <3>1
    <3>3. ev[q] \in Item
      BY <1>1, <2>3 DEF TypeOK, Pointer
    <3> QED BY <1>2, <1>4, <3>1, <3>2, <3>3, ZenonT(30)
  <2> QED BY <1>2, <1>6, <2>1, <2>2, <2>3, Zenon DEF OwnerInv
<1> QED BY <1>5, <1>6, <1>7, <1>8, <1>9, <1>10, Zenon DEF Inv

=============================================================================
