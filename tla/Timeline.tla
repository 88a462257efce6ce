------------------------------ MODULE Timeline ------------------------------
(***************************************************************************)
(* Timeline<T> of include/mutils/time/timeline.h over TSMemoryPool<T> of   *)
(* include/mutils/thread/mempool.h.  Producers take an event from the      *)
(* pool, give it a time and store it; consumers deque the events that are  *)
(* due or list all of them; expirers give old events back to the pool.     *)
(*                                                                         *)
(* The list is used under the timeline's audio_spin_mutex, taken here in   *)
(* one step (module SpinMutex shows why); the pool is used without it.     *)
(* One loop iteration of the code is one action, so a thread can be        *)
(* overtaken between any two of them.  Now() reads a clock that may be     *)
(* set, so a call may see any time.                                        *)
(***************************************************************************)
EXTENDS ListOps

CONSTANTS
    Producer, Consumer, Expirer,  \* the threads, by what they call
    NoThread,      \* nobody owns the mutex
    Time,          \* the times an event can have
    Duration,      \* the durations an event can have
    Clock,         \* the times that Now() can return and upTo can have
    SecondsOld,    \* the ages that ExpireEvents is called with
    RecentWindow,  \* the 16 seconds of ExpireEvents
    InitialSize,   \* the size the pool is constructed with: 1000
    MaxAllocs      \* bound: m_nextId is incremented this often

Thread == Producer \cup Consumer \cup Expirer

ASSUME ThreadAssumption ==
    /\ NoThread \notin Thread
    /\ Producer \cap Consumer = {}
    /\ Producer \cap Expirer = {}
    /\ Consumer \cap Expirer = {}

ASSUME TimeAssumption ==
    /\ Time \subseteq Nat /\ Duration \subseteq Nat /\ Clock \subseteq Nat
    /\ SecondsOld \subseteq Nat
    /\ RecentWindow \in Nat /\ InitialSize \in Nat \ {0} /\ MaxAllocs \in Nat

VARIABLES
    heap,        \* the addresses where an event lives (new without delete)
    queued,      \* m_freeItems: how often each address is in the queue
    nextId,      \* m_nextId
    id, time, duration, triggered,  \* the fields of each event
    list,        \* the pool's list: the stored events
    owner,       \* who holds m_mutex
    pc,          \* what each thread is doing
    ev,          \* the event a producer has in its hands
    cur,         \* pCurrent, in each thread's loop
    arg,         \* the value a call was made with or has read: the id being
                 \* assigned, upTo, startTime
    old,         \* secondsOld of the running ExpireEvents
    result,      \* the vector that DequeTimeEvents and GetTimeEvents fill
    due          \* history: the events that were due, and not yet handed
                 \* out, when DequeTimeEvents took the mutex

poolVars == <<heap, queued, nextId>>
eventVars == <<id, time, duration, triggered>>
localVars == <<ev, cur, arg, old, result, due>>
vars == <<poolVars, eventVars, list, owner, pc, localVars>>

(* The pool's constructor leaves one free item behind and has used         *)
(* InitialSize ids for it (Construct of module MemPool).                   *)
Init ==
    /\ \E x \in Item :
          /\ heap = {x}
          /\ queued = [y \in Item |-> IF y = x THEN 1 ELSE 0]
    /\ nextId = InitialSize
    /\ id = [x \in Item |-> InitialSize - 1]
    /\ time = [x \in Item |-> 0] /\ duration = [x \in Item |-> 0]
    /\ triggered = [x \in Item |-> FALSE]
    /\ list = EmptyList
    /\ owner = NoThread
    /\ pc = [t \in Thread |-> "idle"]
    /\ ev = [t \in Thread |-> NULL] /\ cur = [t \in Thread |-> NULL]
    /\ arg = [t \in Thread |-> 0] /\ old = [t \in Thread |-> 0]
    /\ result = [t \in Thread |-> <<>>] /\ due = [t \in Thread |-> {}]

Goto(t, from, to) == pc[t] = from /\ pc' = [pc EXCEPT ![t] = to]

-----------------------------------------------------------------------------
(* TSMemoryPool::Alloc, and SetTime by the producer that called it.        *)

(* Mutant: the item that is handed out stays in m_freeItems.               *)
AllocItemShared(p) ==
    /\ nextId < InitialSize + MaxAllocs
    /\ Goto(p, "idle", "readId")
    /\ \E x \in Item :
          /\ \/ queued[x] > 0 /\ UNCHANGED heap
             \/ x \notin heap /\ heap' = heap \cup {x}
          /\ ev' = [ev EXCEPT ![p] = x]
    /\ UNCHANGED <<queued, nextId, eventVars, list, owner, cur, arg, old, result, due>>

(* try_dequeue returns some free item, or fails (it may miss an item that  *)
(* is being enqueued) and a new one is made.                               *)
AllocItem(p) ==
    /\ nextId < InitialSize + MaxAllocs
    /\ Goto(p, "idle", "readId")
    /\ \E x \in Item :
          /\ \/ /\ queued[x] > 0
                /\ queued' = [queued EXCEPT ![x] = @ - 1]
                /\ UNCHANGED heap
             \/ /\ x \notin heap
                /\ heap' = heap \cup {x}
                /\ UNCHANGED queued
          /\ ev' = [ev EXCEPT ![p] = x]
    /\ UNCHANGED <<nextId, eventVars, list, owner, cur, arg, old, result, due>>

(* m_nextId++ on a plain integer: the read ...                             *)
AllocReadId(p) ==
    /\ Goto(p, "readId", "writeId")
    /\ arg' = [arg EXCEPT ![p] = nextId]
    /\ UNCHANGED <<poolVars, eventVars, list, owner, ev, cur, old, result, due>>

(* ... and the write; then m_id is set and Init() clears m_triggered.      *)
AllocInit(p) ==
    /\ Goto(p, "writeId", "allocated")
    /\ nextId' = arg[p] + 1
    /\ id' = [id EXCEPT ![ev[p]] = arg[p]]
    /\ triggered' = [triggered EXCEPT ![ev[p]] = FALSE]
    /\ arg' = [arg EXCEPT ![p] = 0]
    /\ UNCHANGED <<heap, queued, time, duration, list, owner, ev, cur, old, result, due>>

SetTime(p) ==
    /\ Goto(p, "allocated", "store")
    /\ \E tm \in Time, d \in Duration :
          /\ time' = [time EXCEPT ![ev[p]] = tm]
          /\ duration' = [duration EXCEPT ![ev[p]] = d]
    /\ UNCHANGED <<poolVars, id, triggered, list, owner, localVars>>

(* Timeline::Free: one iteration of the loop in TSMemoryPool::Clear, which *)
(* may run while others allocate.                                          *)
ClearStep(x) ==
    /\ queued[x] > 0
    /\ queued' = [queued EXCEPT ![x] = @ - 1]
    /\ heap' = heap \ {x}
    /\ UNCHANGED <<nextId, eventVars, list, owner, pc, localVars>>

-----------------------------------------------------------------------------
(* Mutant: the mutex keeps nobody out.                                     *)
LockIgnored(t) == owner' = t

Lock(t) == owner = NoThread /\ owner' = t

(* The destructor of the lock guard, at the end of every call.             *)
Unlock(t) ==
    /\ pc[t] \in {"stored", "dequed", "scanned", "listed", "expired"}
    /\ pc' = [pc EXCEPT ![t] = "idle"]
    /\ owner' = NoThread
    /\ arg' = [arg EXCEPT ![t] = 0]
    /\ old' = [old EXCEPT ![t] = 0]
    /\ result' = [result EXCEPT ![t] = <<>>]
    /\ due' = [due EXCEPT ![t] = {}]
    /\ UNCHANGED <<poolVars, eventVars, list, ev, cur>>

(* Mutant: the walk starts at the root.                                    *)
StoreLockFromRoot(p) ==
    /\ Goto(p, "store", "storeWalk")
    /\ Lock(p)
    /\ cur' = [cur EXCEPT ![p] = list.root]
    /\ UNCHANGED <<poolVars, eventVars, list, ev, arg, old, result, due>>

(* StoreTimeEvent: walk back from the last event over the later ones.      *)
StoreLock(p) ==
    /\ Goto(p, "store", "storeWalk")
    /\ Lock(p)
    /\ cur' = [cur EXCEPT ![p] = list.last]
    /\ UNCHANGED <<poolVars, eventVars, list, ev, arg, old, result, due>>

(* Mutant: walk over events of the same time.                              *)
LaterOrEqual(p) == cur[p] # NULL /\ time[ev[p]] <= time[cur[p]]

Later(p) == cur[p] # NULL /\ time[ev[p]] < time[cur[p]]

StoreWalk(p) ==
    /\ pc[p] = "storeWalk"
    /\ Later(p)
    /\ cur' = [cur EXCEPT ![p] = list.prev[cur[p]]]
    /\ UNCHANGED <<poolVars, eventVars, list, owner, pc, ev, arg, old, result, due>>

StoreInsert(p) ==
    /\ Goto(p, "storeWalk", "stored")
    /\ ~Later(p)
    /\ list' = InsertAfter(list, cur[p], ev[p])
    /\ ev' = [ev EXCEPT ![p] = NULL]
    /\ cur' = [cur EXCEPT ![p] = NULL]
    /\ UNCHANGED <<poolVars, eventVars, owner, arg, old, result, due>>

Stored(x) == list.root = x \/ list.prev[x] # NULL

(* DequeTimeEvents(ev, type, upTo), called with the type of the pool's     *)
(* events ("deque") or with another type ("scan").                         *)
DequeLock(c) ==
    /\ \E loop \in {"deque", "scan"} : Goto(c, "idle", loop)
    /\ Lock(c)
    /\ \E upTo \in Clock :
          /\ arg' = [arg EXCEPT ![c] = upTo]
          /\ due' = [due EXCEPT ![c] =
                {x \in Item : Stored(x) /\ time[x] <= upTo /\ ~triggered[x]}]
    /\ cur' = [cur EXCEPT ![c] = list.root]
    /\ UNCHANGED <<poolVars, eventVars, list, ev, old, result>>

(* Mutant: an event that was handed out is not skipped.                    *)
SkippedNever(c) == FALSE

Skipped(c) == triggered[cur[c]]

Due(c) == time[cur[c]] <= arg[c]

(* Mutant: pCurrent is not advanced past a triggered event.                *)
DequeStepStuck(c) ==
    /\ pc[c] \in {"deque", "scan"}
    /\ cur[c] # NULL
    /\ Skipped(c) \/ Due(c)
    /\ LET take == pc[c] = "deque" /\ ~Skipped(c)
       IN  /\ triggered' = [triggered EXCEPT ![cur[c]] = @ \/ take]
           /\ result' = [result EXCEPT ![c] = IF take THEN Append(@, cur[c]) ELSE @]
    /\ cur' = [cur EXCEPT ![c] = IF Skipped(c) THEN @ ELSE list.next[@]]
    /\ UNCHANGED <<poolVars, id, time, duration, list, owner, pc, ev, arg, old, due>>

DequeStep(c) ==
    /\ pc[c] \in {"deque", "scan"}
    /\ cur[c] # NULL
    /\ Skipped(c) \/ Due(c)
    /\ LET take == pc[c] = "deque" /\ ~Skipped(c)
       IN  /\ triggered' = [triggered EXCEPT ![cur[c]] = @ \/ take]
           /\ result' = [result EXCEPT ![c] = IF take THEN Append(@, cur[c]) ELSE @]
    /\ cur' = [cur EXCEPT ![c] = list.next[cur[c]]]
    /\ UNCHANGED <<poolVars, id, time, duration, list, owner, pc, ev, arg, old, due>>

DequeDone(c) ==
    /\ pc[c] \in {"deque", "scan"}
    /\ cur[c] # NULL => ~Skipped(c) /\ ~Due(c)
    /\ pc' = [pc EXCEPT ![c] = IF @ = "deque" THEN "dequed" ELSE "scanned"]
    /\ cur' = [cur EXCEPT ![c] = NULL]
    /\ UNCHANGED <<poolVars, eventVars, list, owner, ev, arg, old, result, due>>

(* GetTimeEvents: every stored event, in the order of the list.            *)
GetLock(c) ==
    /\ Goto(c, "idle", "get")
    /\ Lock(c)
    /\ cur' = [cur EXCEPT ![c] = list.root]
    /\ UNCHANGED <<poolVars, eventVars, list, ev, arg, old, result, due>>

GetStep(c) ==
    /\ pc[c] = "get"
    /\ cur[c] # NULL
    /\ result' = [result EXCEPT ![c] = Append(@, cur[c])]
    /\ cur' = [cur EXCEPT ![c] = list.next[cur[c]]]
    /\ UNCHANGED <<poolVars, eventVars, list, owner, pc, ev, arg, old, due>>

GetDone(c) ==
    /\ Goto(c, "get", "listed")
    /\ cur[c] = NULL
    /\ UNCHANGED <<poolVars, eventVars, list, owner, localVars>>

(* ExpireEvents(secondsOld), from the root on.                             *)
ExpireLock(e) ==
    /\ Goto(e, "idle", "expire")
    /\ Lock(e)
    /\ \E startTime \in Clock : arg' = [arg EXCEPT ![e] = startTime]
    /\ \E secondsOld \in SecondsOld : old' = [old EXCEPT ![e] = secondsOld]
    /\ cur' = [cur EXCEPT ![e] = list.root]
    /\ UNCHANGED <<poolVars, eventVars, list, ev, result, due>>

(* The event ended more than secondsOld before startTime.                  *)
TooOld(e, x) == arg[e] > time[x] + duration[x] + old[e]

(* The event started less than 16 seconds before startTime.                *)
Recent(e, x) == arg[e] < time[x] + RecentWindow

(* list_disconnect, then pVictim->Free(), which disconnects it once more   *)
(* and enqueues it.                                                        *)
ExpireVictim(e) ==
    /\ pc[e] = "expire"
    /\ cur[e] # NULL /\ TooOld(e, cur[e])
    /\ list' = Disconnect(Disconnect(list, cur[e]), cur[e])
    /\ queued' = [queued EXCEPT ![cur[e]] = @ + 1]
    /\ cur' = [cur EXCEPT ![e] = list.next[cur[e]]]
    /\ UNCHANGED <<heap, nextId, eventVars, owner, pc, ev, arg, old, result, due>>

ExpireStep(e) ==
    /\ pc[e] = "expire"
    /\ cur[e] # NULL /\ ~TooOld(e, cur[e]) /\ ~Recent(e, cur[e])
    /\ cur' = [cur EXCEPT ![e] = list.next[cur[e]]]
    /\ UNCHANGED <<poolVars, eventVars, list, owner, pc, ev, arg, old, result, due>>

(* Mutant: stop at the first event that is not too old.                    *)
ExpireDoneEarly(e) ==
    /\ Goto(e, "expire", "expired")
    /\ cur[e] # NULL => ~TooOld(e, cur[e])
    /\ cur' = [cur EXCEPT ![e] = NULL]
    /\ UNCHANGED <<poolVars, eventVars, list, owner, ev, arg, old, result, due>>

ExpireDone(e) ==
    /\ Goto(e, "expire", "expired")
    /\ cur[e] # NULL => ~TooOld(e, cur[e]) /\ Recent(e, cur[e])
    /\ cur' = [cur EXCEPT ![e] = NULL]
    /\ UNCHANGED <<poolVars, eventVars, list, owner, ev, arg, old, result, due>>

-----------------------------------------------------------------------------
ProducerStep(p) ==
    \/ AllocItem(p) \/ AllocReadId(p) \/ AllocInit(p) \/ SetTime(p)
    \/ StoreLock(p) \/ StoreWalk(p) \/ StoreInsert(p)

ConsumerStep(c) ==
    \/ DequeLock(c) \/ DequeStep(c) \/ DequeDone(c)
    \/ GetLock(c) \/ GetStep(c) \/ GetDone(c)

ExpirerStep(e) ==
    ExpireLock(e) \/ ExpireVictim(e) \/ ExpireStep(e) \/ ExpireDone(e)

Next ==
    \/ \E p \in Producer : ProducerStep(p)
    \/ \E c \in Consumer : ConsumerStep(c)
    \/ \E e \in Expirer : ExpirerStep(e)
    \/ \E t \in Thread : Unlock(t)
    \/ \E x \in Item : ClearStep(x)

Spec == Init /\ [][Next]_vars

(* The thread inside the mutex keeps running (there is only one, so one    *)
(* fairness condition is enough); nothing says that a thread calls, or     *)
(* that it ever wins the race for the mutex.                               *)
Running(t) ==
    \/ StoreWalk(t) \/ StoreInsert(t)
    \/ DequeStep(t) \/ DequeDone(t) \/ GetStep(t) \/ GetDone(t)
    \/ ExpireVictim(t) \/ ExpireStep(t) \/ ExpireDone(t)
    \/ Unlock(t)

FairSpec == Spec /\ WF_vars(\E t \in Thread : Running(t))

-----------------------------------------------------------------------------
Idle == {"idle", "readId", "writeId", "allocated", "store"}
Inside == {"storeWalk", "stored", "deque", "dequed", "scan", "scanned",
           "get", "listed", "expire", "expired"}

(* Every variable has its type.                                            *)
TypeOK ==
    /\ heap \subseteq Item
    /\ queued \in [Item -> Nat]
    /\ nextId \in Nat /\ id \in [Item -> Nat]
    /\ time \in [Item -> Nat] /\ duration \in [Item -> Nat]
    /\ triggered \in [Item -> BOOLEAN]
    /\ list \in ListType
    /\ owner \in Thread \cup {NoThread}
    /\ pc \in [Thread -> Idle \cup Inside]
    /\ ev \in [Thread -> Pointer] /\ cur \in [Thread -> Pointer]
    /\ arg \in [Thread -> Nat] /\ old \in [Thread -> Nat]
    /\ result \in [Thread -> Seq(Item)] /\ due \in [Thread -> SUBSET Item]

(* The list of stored events: linked both ways from m_pRoot to m_pLast,    *)
(* without a cycle, whoever is in the middle of a walk, and an event that  *)
(* is not stored carries no pointer (what StoreTimeEvent asserts).         *)
ListWellFormed == TypeOK /\ Represents(list, Chain(list))

(* At any time an event is in one place: in m_freeItems, once, or in the   *)
(* hands of one producer, or stored.  So Alloc never hands out an event    *)
(* that another producer has, that is stored or that was deleted.          *)
OneOwner ==
    /\ \A x \in Item : queued[x] > 0 => queued[x] = 1 /\ x \in heap /\ ~Stored(x)
    /\ \A x \in Item : Stored(x) => x \in heap
    /\ \A p \in Producer : ev[p] # NULL =>
          /\ ev[p] \in heap /\ queued[ev[p]] = 0 /\ ~Stored(ev[p])
          /\ \A q \in Producer : ev[q] = ev[p] => q = p

(* StoreTimeEvent, "keep events ordered in time": the list is sorted after *)
(* every step of every thread.                                             *)
TimeOrdered ==
    LET s == Chain(list)
    IN  \A i, j \in DOMAIN s : i < j => time[s[i]] <= time[s[j]]

(* DequeTimeEvents returns exactly the stored events up to upTo that no    *)
(* call has returned before, each once and in time order, although it      *)
(* stops at the first event after upTo; they are triggered then.  Called   *)
(* with another type it returns and triggers nothing.  GetTimeEvents       *)
(* returns exactly the stored events.                                      *)
ResultsComplete ==
    \A c \in Consumer :
        /\ pc[c] = "dequed" =>
              /\ due[c] = {result[c][i] : i \in DOMAIN result[c]}
              /\ \A i, j \in DOMAIN result[c] : i < j =>
                    result[c][i] # result[c][j] /\ time[result[c][i]] <= time[result[c][j]]
              /\ \A x \in Item : Stored(x) /\ time[x] <= arg[c] => triggered[x]
        /\ pc[c] = "scanned" => result[c] = <<>> /\ \A x \in due[c] : ~triggered[x]
        /\ pc[c] = "listed" => result[c] = Chain(list)

(* "this is broken if the duration is long": what ExpireEvents leaves      *)
(* behind.  An event that is too old stays only if it started within the   *)
(* last 16 seconds, and then only behind an event that started no later,   *)
(* ends later and is not too old itself.  So nothing stays when all events *)
(* last equally long, and nothing when it is called with 16 or more.       *)
ExpireComplete ==
    \A e \in Expirer : pc[e] = "expired" =>
        \A x \in Item : Stored(x) /\ TooOld(e, x) =>
            /\ Recent(e, x)
            /\ \E y \in Item :
                  /\ Stored(y) /\ ~TooOld(e, y) /\ Recent(e, y)
                  /\ time[y] <= time[x] /\ time[x] + duration[x] < time[y] + duration[y]

(* The id that TSMemoryPool gives an event is its own among all the events *)
(* that are stored.  Two producers break it: m_nextId++ is not atomic.     *)
StoredIdsUnique ==
    \A x, y \in Item : Stored(x) /\ Stored(y) /\ id[x] = id[y] => x = y

(* Every walk under the mutex ends, so the mutex is always released.       *)
MutexReleased == \A t \in Thread : owner = t ~> owner # t

(* The refinement mapping: the queue that the linked events stand for.     *)
Entry(x) == [item |-> x, time |-> time[x], fired |-> triggered[x]]
Events == LET s == Chain(list) IN [i \in DOMAIN s |-> Entry(s[i])]

Q == INSTANCE EventQueue WITH events <- Events

(* The pointers, flags and loops of Timeline implement the queue of events *)
(* in time order.                                                          *)
ImplementsEventQueue == Q!QueueSpec
=============================================================================
