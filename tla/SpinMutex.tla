----------------------------- MODULE SpinMutex -----------------------------
(***************************************************************************)
(* audio_spin_mutex of include/mutils/thread/thread_utils.h: a             *)
(* test-and-set lock whose lock() tries Iterations[1] times back to back,  *)
(* then Iterations[2] times with a pause, then for ever in rounds of       *)
(* Iterations[3] tries, yielding the processor after each round.           *)
(***************************************************************************)
EXTENDS Naturals

CONSTANTS
    Thread,      \* the threads that use the lock
    NoThread,    \* nobody owns the lock
    Iterations,  \* the constexpr array of lock(): <<5, 10, 3000>> in the code
    MaxCalls     \* bound: lock() and try_lock() calls one thread makes

ASSUME ThreadAssumption == NoThread \notin Thread
ASSUME IterationsAssumption == Iterations \in [1..3 -> Nat \ {0}]
ASSUME MaxCallsAssumption == MaxCalls \in Nat

VARIABLES
    flag,    \* the std::atomic_flag
    pc,      \* where each thread is
    i,       \* the loop counter of the round a thread is spinning in
    calls    \* calls made by each thread, for the bound MaxCalls

vars == <<flag, pc, i, calls>>

(* The three loops of lock(), and how often each one tries.                *)
Spinning == {"spin1", "spin2", "spin3"}

Limit(l) ==
    Iterations[CASE l = "spin1" -> 1 [] l = "spin2" -> 2 [] l = "spin3" -> 3]

(* Mutant: lock() returns without the lock after its last loop.            *)
AfterGivesUp(l) ==
    CASE l = "spin1" -> "spin2" [] l = "spin2" -> "spin3" [] l = "spin3" -> "idle"

(* Where a thread goes once a loop is exhausted.                           *)
After(l) ==
    CASE l = "spin1" -> "spin2" [] l = "spin2" -> "spin3" [] l = "spin3" -> "yield"

Init ==
    /\ flag = FALSE
    /\ pc = [t \in Thread |-> "idle"]
    /\ i = [t \in Thread |-> 0]
    /\ calls = [t \in Thread |-> 0]

Lock(t) ==
    /\ pc[t] = "idle"
    /\ calls[t] < MaxCalls
    /\ pc' = [pc EXCEPT ![t] = "spin1"]
    /\ calls' = [calls EXCEPT ![t] = @ + 1]
    /\ UNCHANGED <<flag, i>>

(* Mutant: the test and the set are not one operation.                     *)
TestAndSetTorn(taken) ==
    /\ taken \in BOOLEAN
    /\ flag' = TRUE

(* flag.test_and_set leaves the flag set; the lock was taken if it was     *)
(* clear.                                                                  *)
TestAndSet(taken) ==
    /\ taken = ~flag
    /\ flag' = TRUE

SpinTaken(t) ==
    /\ pc[t] \in Spinning
    /\ TestAndSet(TRUE)
    /\ pc' = [pc EXCEPT ![t] = "crit"]
    /\ i' = [i EXCEPT ![t] = 0]
    /\ UNCHANGED calls

SpinFailed(t) ==
    /\ pc[t] \in Spinning
    /\ TestAndSet(FALSE)
    /\ LET again == i[t] + 1 < Limit(pc[t])
       IN  /\ i' = [i EXCEPT ![t] = IF again THEN @ + 1 ELSE 0]
           /\ pc' = [pc EXCEPT ![t] = IF again THEN @ ELSE After(@)]
    /\ UNCHANGED calls

(* Mutant: no new round after the yield.                                   *)
YieldForever(t) == pc[t] = "yield" /\ UNCHANGED vars

(* std::this_thread::yield, then the while (true) loop starts a new round. *)
Yield(t) ==
    /\ pc[t] = "yield"
    /\ pc' = [pc EXCEPT ![t] = "spin3"]
    /\ UNCHANGED <<flag, i, calls>>

(* A caller that uses try_lock() directly enters or goes its way.          *)
TryLock(t) ==
    /\ pc[t] = "idle"
    /\ calls[t] < MaxCalls
    /\ \E taken \in BOOLEAN :
          /\ TestAndSet(taken)
          /\ pc' = [pc EXCEPT ![t] = IF taken THEN "crit" ELSE "idle"]
    /\ calls' = [calls EXCEPT ![t] = @ + 1]
    /\ UNCHANGED i

(* flag.clear, by the thread that leaves the critical section.             *)
Unlock(t) ==
    /\ pc[t] = "crit"
    /\ flag' = FALSE
    /\ pc' = [pc EXCEPT ![t] = "idle"]
    /\ UNCHANGED <<i, calls>>

Spin(t) == SpinTaken(t) \/ SpinFailed(t) \/ Yield(t)

Next ==
    \E t \in Thread : Lock(t) \/ TryLock(t) \/ Spin(t) \/ Unlock(t)

Spec == Init /\ [][Next]_vars

(* Every thread inside lock() keeps being scheduled and every critical     *)
(* section ends.  Nothing is assumed about WHEN a thread tries: it may     *)
(* always find the flag set by somebody else.                              *)
FairSpec ==
    /\ Spec
    /\ \A t \in Thread : WF_vars(Spin(t)) /\ WF_vars(Unlock(t))

-----------------------------------------------------------------------------
(* Every variable has its type, and a loop counter never runs past the     *)
(* iteration limit of the loop the thread is in.                           *)
TypeOK ==
    /\ flag \in BOOLEAN
    /\ pc \in [Thread -> Spinning \cup {"idle", "yield", "crit"}]
    /\ i \in [Thread -> Nat]
    /\ \A t \in Thread : IF pc[t] \in Spinning
                         THEN i[t] < Limit(pc[t])
                         ELSE i[t] = 0
    /\ calls \in [Thread -> 0..MaxCalls]

(* lock()/try_lock()/unlock(): no two threads are between a successful     *)
(* test_and_set and their clear, and the flag is set exactly while one is. *)
MutualExclusion ==
    /\ \A t, u \in Thread : pc[t] = "crit" /\ pc[u] = "crit" => t = u
    /\ flag <=> \E t \in Thread : pc[t] = "crit"

(* Refinement: the owner is the thread in its critical section, the        *)
(* waiters are the threads inside lock().                                  *)
Owner ==
    IF \E t \in Thread : pc[t] = "crit"
    THEN CHOOSE t \in Thread : pc[t] = "crit"
    ELSE NoThread

Waiting == {t \in Thread : pc[t] \in Spinning \cup {"yield"}}

M == INSTANCE Mutex WITH owner <- Owner, waiting <- Waiting

(* The spin loops implement the abstract lock: each test_and_set that      *)
(* finds the flag clear is the Acquire of a thread that waits.             *)
ImplementsMutex == M!MutexSpec

(* The three-stage back-off of lock() loses no wake-up: as long as the     *)
(* other threads take the lock only finitely often, every lock() returns.  *)
LockReturns ==
    \A t \in Thread : pc[t] = "spin1" ~> pc[t] = "crit"
=============================================================================
