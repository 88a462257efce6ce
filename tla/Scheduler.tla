----------------------------- MODULE Scheduler -----------------------------
(***************************************************************************)
(* The scheduler of src/callback/callback.cpp: one callback, called by the *)
(* first scheduler_update that comes at least timeout after the start.     *)
(* The callback may itself start, stop and update the scheduler.           *)
(***************************************************************************)
EXTENDS Integers

CONSTANTS
    Timeouts,     \* timeouts for scheduler_start
    MaxStarts,    \* bound: scheduler_start calls
    MaxDepth      \* bound: callbacks inside each other

ASSUME TimeoutAssumption ==
    Timeouts \subseteq Nat /\ MaxStarts \in Nat /\ MaxDepth \in Nat \ {0}

VARIABLES
    state,      \* Off, Started or Triggered
    timeout,
    elapsed,    \* time since timer_start, counted up to the timeout
    owed,       \* history: a start that was neither answered nor stopped,
                \*   made "outside" or "inside" the callback, or "none"
    depth,      \* callbacks that have been called and not returned
    starts      \* starts so far, for the bound MaxStarts

schedulerVars == <<state, timeout, elapsed, owed, depth, starts>>

SchedulerInit ==
    /\ state = "Off"
    /\ timeout \in Timeouts
    /\ elapsed = 0 /\ owed = "none" /\ depth = 0 /\ starts = 0

SchedulerStart(seconds) ==
    /\ starts < MaxStarts
    /\ state' = "Started" /\ timeout' = seconds /\ elapsed' = 0
    /\ owed' = (IF depth > 0 THEN "inside" ELSE "outside")
    /\ starts' = starts + 1
    /\ UNCHANGED depth

SchedulerStop ==
    /\ state' = "Off"
    /\ owed' = "none"
    /\ UNCHANGED <<timeout, elapsed, depth, starts>>

Tick ==
    /\ elapsed < timeout
    /\ elapsed' = elapsed + 1
    /\ UNCHANGED <<state, timeout, owed, depth, starts>>

(* scheduler_update calls the callback, or returns at once.  The state is  *)
(* still Started in the callback.                                          *)
Due == state = "Started" /\ elapsed >= timeout
CallbackBegins ==
    /\ Due /\ depth < MaxDepth
    /\ owed' = "none" /\ depth' = depth + 1
    /\ UNCHANGED <<state, timeout, elapsed, starts>>
NotDue == ~Due /\ UNCHANGED schedulerVars

(* Mutant: the state is left alone.                                        *)
CallbackReturnsStarted ==
    depth' = depth - 1 /\ UNCHANGED <<state, timeout, elapsed, owed, starts>>

(* What the callback did to the state is overwritten when it returns.      *)
CallbackReturns ==
    /\ state' = "Triggered" /\ depth' = depth - 1
    /\ UNCHANGED <<timeout, elapsed, owed, starts>>
=============================================================================
