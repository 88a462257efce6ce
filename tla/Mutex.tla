------------------------------- MODULE Mutex -------------------------------
(***************************************************************************)
(* What a mutual-exclusion lock promises its callers: at most one thread   *)
(* owns it, a thread that asked for it is waiting until it owns it, and    *)
(* only its owner gives it back.  SpinMutex is shown to implement this     *)
(* module, which is why the modules of the lock's users (Timeline,         *)
(* TimeProvider) take it in one step, when nobody owns it.                 *)
(***************************************************************************)
CONSTANTS Thread, NoThread

VARIABLES owner, waiting

mutexVars == <<owner, waiting>>

MutexInit ==
    /\ owner = NoThread
    /\ waiting = {}

Request(t) ==
    /\ t \notin waiting /\ owner # t
    /\ waiting' = waiting \cup {t}
    /\ UNCHANGED owner

Acquire(t) ==
    /\ owner = NoThread
    /\ t \in waiting
    /\ owner' = t
    /\ waiting' = waiting \ {t}

(* try_lock: the lock is taken without waiting, or the call returns.       *)
TryAcquire(t) ==
    /\ owner = NoThread
    /\ t \notin waiting
    /\ owner' = t
    /\ UNCHANGED waiting

Release(t) ==
    /\ owner = t
    /\ owner' = NoThread
    /\ UNCHANGED waiting

MutexNext ==
    \E t \in Thread : Request(t) \/ Acquire(t) \/ TryAcquire(t) \/ Release(t)

MutexSpec == MutexInit /\ [][MutexNext]_mutexVars
=============================================================================
