----------------------------- MODULE ThreadPool -----------------------------
(***************************************************************************)
(* TPool of m3rdparty/threadpool/threadpool.h, the original library as     *)
(* modified for MUtils: a queue of tasks under a mutex, workers that wait  *)
(* on a condition variable, and StopAll, which sets an atomic flag without *)
(* taking the mutex.  A task is the number of its enqueue call.            *)
(***************************************************************************)
EXTENDS Naturals, Sequences, FiniteSets

CONSTANTS
    Worker,       \* threads the constructor may start
    Client,       \* threads that call enqueue
    Owner,        \* the thread that calls StopAll and the destructor
    MaxTasks,     \* bound: enqueue calls
    MaxSpurious   \* bound: wake-ups without a notification

ASSUME ThreadAssumption ==
    Worker \cap Client = {} /\ Owner \notin Worker \cup Client
ASSUME BoundAssumption == MaxTasks \in Nat /\ MaxSpurious \in Nat

VARIABLES
    workers,    \* the threads started by the constructor
    tasks,      \* the queue
    stop,       \* the atomic flag
    pc,         \* where each thread is
    task,       \* the task a worker runs, or 0
    joined,     \* StopAll has joined the workers
    dying,      \* the destructor has been called
    started,    \* history: tasks in the order in which they were started
    done,       \* history: tasks that have returned
    late,       \* history: tasks pushed by a client after stop was set
    missed,     \* history: workers between test and wait at the notify_all
    spurious    \* wake-ups so far, for the bound MaxSpurious

vars == <<workers, tasks, stop, pc, task, joined, dying,
          started, done, late, missed, spurious>>

Thread == Worker \cup Client \cup {Owner}
Count == Len(started) + Len(tasks)
At(t, l) == pc' = [pc EXCEPT ![t] = l]

(* queue_mutex is held from one step to the next only by a worker that has *)
(* found nothing to do and is about to wait.                               *)
Locked == \E w \in workers : pc[w] = "block"

(* The constructor starts threads_n workers, or none when threads_n < 2.   *)
Init ==
    /\ workers \in {W \in SUBSET Worker : Cardinality(W) # 1}
    /\ tasks = <<>> /\ started = <<>>
    /\ stop = FALSE /\ joined = FALSE /\ dying = FALSE
    /\ pc = [t \in Thread |-> IF t \in Worker THEN "start" ELSE "idle"]
    /\ task = [w \in Worker |-> 0]
    /\ done = {} /\ late = {} /\ missed = {} /\ spurious = 0

-----------------------------------------------------------------------------
(* Mutant: the task is copied and not popped.                              *)
TakeWithoutPop(w) ==
    /\ pc[w] = "start" /\ ~Locked
    /\ tasks # <<>> /\ Count < 2 * MaxTasks
    /\ task' = [task EXCEPT ![w] = Head(tasks)]
    /\ started' = Append(started, Head(tasks))
    /\ At(w, "run")
    /\ UNCHANGED <<workers, tasks, stop, joined, dying, done, late, missed, spurious>>

(* The worker gets the mutex, finds the predicate true because of a task   *)
(* and takes it.                                                           *)
Take(w) ==
    /\ pc[w] = "start" /\ ~Locked
    /\ tasks # <<>>
    /\ task' = [task EXCEPT ![w] = Head(tasks)]
    /\ tasks' = Tail(tasks)
    /\ started' = Append(started, Head(tasks))
    /\ At(w, "run")
    /\ UNCHANGED <<workers, stop, joined, dying, done, late, missed, spurious>>

(* Mutant: the flag ends a worker whatever is still queued.                *)
ExitOnStop(w) ==
    /\ pc[w] = "start" /\ ~Locked
    /\ stop
    /\ At(w, "exited")
    /\ UNCHANGED <<workers, tasks, stop, task, joined, dying,
                   started, done, late, missed, spurious>>

(* The predicate is true because of the flag alone.                        *)
Exit(w) ==
    /\ pc[w] = "start" /\ ~Locked
    /\ tasks = <<>> /\ stop
    /\ At(w, "exited")
    /\ UNCHANGED <<workers, tasks, stop, task, joined, dying,
                   started, done, late, missed, spurious>>

(* The predicate is false; the worker still holds the mutex.               *)
FindNothing(w) ==
    /\ pc[w] = "start" /\ ~Locked
    /\ tasks = <<>> /\ ~stop
    /\ At(w, "block")
    /\ UNCHANGED <<workers, tasks, stop, task, joined, dying,
                   started, done, late, missed, spurious>>

(* condition.wait releases the mutex and blocks, in one step.              *)
Block(w) ==
    /\ pc[w] = "block"
    /\ At(w, "waiting")
    /\ UNCHANGED <<workers, tasks, stop, task, joined, dying,
                   started, done, late, missed, spurious>>

(* condition.wait may return without a notification.                       *)
WakeSpuriously(w) ==
    /\ pc[w] = "waiting" /\ spurious < MaxSpurious
    /\ At(w, "start")
    /\ spurious' = spurious + 1
    /\ UNCHANGED <<workers, tasks, stop, task, joined, dying,
                   started, done, late, missed>>

(* task() returns; an exception ends up in the future.                     *)
Finish(w) ==
    /\ pc[w] = "run"
    /\ done' = done \cup {task[w]}
    /\ task' = [task EXCEPT ![w] = 0]
    /\ At(w, "start")
    /\ UNCHANGED <<workers, tasks, stop, joined, dying,
                   started, late, missed, spurious>>

-----------------------------------------------------------------------------
(* enqueue is called by a client, or by a task that runs on a worker.      *)
Calls(t) ==
    /\ Count < MaxTasks
    /\ \/ t \in Client /\ pc[t] = "idle" /\ ~dying
       \/ t \in workers /\ pc[t] = "run"

(* Without workers enqueue runs the task itself before it returns.         *)
EnqueueRuns(t) ==
    /\ Calls(t)
    /\ workers = {}
    /\ started' = Append(started, Count + 1)
    /\ done' = done \cup {Count + 1}
    /\ UNCHANGED <<workers, tasks, stop, pc, task, joined, dying,
                   late, missed, spurious>>

(* Mutant: enqueue notifies nobody.                                        *)
EnqueuePushesSilently(t) ==
    /\ Calls(t)
    /\ workers # {} /\ ~Locked
    /\ tasks' = Append(tasks, Count + 1)
    /\ late' = IF stop /\ t \in Client THEN late \cup {Count + 1} ELSE late
    /\ UNCHANGED <<workers, stop, pc, task, joined, dying,
                   started, done, missed, spurious>>

(* The task is pushed under the mutex.                                     *)
EnqueuePushes(t) ==
    /\ Calls(t)
    /\ workers # {} /\ ~Locked
    /\ tasks' = Append(tasks, Count + 1)
    /\ late' = IF stop /\ t \in Client THEN late \cup {Count + 1} ELSE late
    /\ At(t, IF t \in Client THEN "notify" ELSE "runNotify")
    /\ UNCHANGED <<workers, stop, task, joined, dying,
                   started, done, missed, spurious>>

(* condition.notify_one, after the mutex: it wakes one waiting worker, if  *)
(* there is one, and is forgotten otherwise.                               *)
NotifyOne(t) ==
    /\ pc[t] \in {"notify", "runNotify"}
    /\ LET back == [pc EXCEPT ![t] = IF t \in Client THEN "idle" ELSE "run"]
           waiting == {w \in workers : pc[w] = "waiting"}
       IN  \/ waiting = {} /\ pc' = back
           \/ \E w \in waiting : pc' = [back EXCEPT ![w] = "start"]
    /\ UNCHANGED <<workers, tasks, stop, task, joined, dying,
                   started, done, late, missed, spurious>>

-----------------------------------------------------------------------------
(* StopAll, called by the destructor when d.  No other thread is in a call *)
(* when the destructor starts.  It sets the flag without the mutex.        *)
StopAll(d) ==
    /\ pc[Owner] \in {"idle", "stopped"}
    /\ d => \A c \in Client : pc[c] = "idle"
    /\ stop' = TRUE /\ dying' = d
    /\ At(Owner, "notifyAll")
    /\ UNCHANGED <<workers, tasks, task, joined,
                   started, done, late, missed, spurious>>

(* Mutant: notify_one in place of notify_all.                              *)
NotifyAllWakesOne ==
    /\ pc[Owner] = "notifyAll"
    /\ pc' = [t \in Thread |->
                IF t = Owner THEN "join"
                ELSE IF /\ t \in workers /\ pc[t] = "waiting"
                        /\ t = CHOOSE w \in workers : pc[w] = "waiting"
                THEN "start" ELSE pc[t]]
    /\ missed' = {w \in workers : pc[w] = "block"}
    /\ UNCHANGED <<workers, tasks, stop, task, joined, dying,
                   started, done, late, spurious>>

(* condition.notify_all wakes the workers that wait.  One that has tested  *)
(* the predicate and does not wait yet is not among them.                  *)
NotifyAll ==
    /\ pc[Owner] = "notifyAll"
    /\ pc' = [t \in Thread |->
                IF t = Owner THEN "join"
                ELSE IF t \in workers /\ pc[t] = "waiting" THEN "start"
                ELSE pc[t]]
    /\ missed' = {w \in workers : pc[w] = "block"}
    /\ UNCHANGED <<workers, tasks, stop, task, joined, dying,
                   started, done, late, spurious>>

(* join returns when the worker has exited.  A second join on the same     *)
(* thread throws std::system_error.                                        *)
Join ==
    /\ pc[Owner] = "join"
    /\ \A w \in workers : pc[w] = "exited"
    /\ joined' = TRUE
    /\ At(Owner, IF joined /\ workers # {} THEN "threw"
                 ELSE IF dying THEN "destroyed" ELSE "stopped")
    /\ UNCHANGED <<workers, tasks, stop, task, dying,
                   started, done, late, missed, spurious>>

WorkerStep(w) == Take(w) \/ Exit(w) \/ FindNothing(w) \/ Block(w) \/ Finish(w)
Enqueue(t) == EnqueueRuns(t) \/ EnqueuePushes(t)

Next ==
    \/ \E w \in workers : WorkerStep(w) \/ WakeSpuriously(w)
    \/ \E t \in Client \cup workers : Enqueue(t) \/ NotifyOne(t)
    \/ \E d \in BOOLEAN : StopAll(d)
    \/ NotifyAll
    \/ Join

Spec == Init /\ [][Next]_vars

(* A worker that is not blocked keeps running and its tasks return; a call *)
(* that has begun goes on.  Nobody has to call enqueue or StopAll.         *)
Fairness ==
    /\ \A w \in Worker : WF_vars(w \in workers /\ WorkerStep(w))
    /\ \A t \in Client \cup Worker : WF_vars(NotifyOne(t))
    /\ WF_vars(NotifyAll) /\ WF_vars(Join)

FairSpec == Spec /\ Fairness

-----------------------------------------------------------------------------
WorkerPc == {"start", "block", "waiting", "run", "runNotify", "exited"}
OwnerPc == {"idle", "notifyAll", "join", "stopped", "destroyed", "threw"}

TypeOK ==
    /\ workers \subseteq Worker
    /\ tasks \in Seq(1..MaxTasks) /\ started \in Seq(1..MaxTasks)
    /\ stop \in BOOLEAN /\ joined \in BOOLEAN /\ dying \in BOOLEAN
    /\ pc \in [Thread -> WorkerPc \cup {"idle", "notify"} \cup OwnerPc]
    /\ pc[Owner] \in OwnerPc /\ \A c \in Client : pc[c] \in {"idle", "notify"}
    /\ task \in [Worker -> 0..MaxTasks]
    /\ \A w \in Worker : /\ pc[w] \in WorkerPc
                         /\ task[w] # 0 <=> pc[w] \in {"run", "runNotify"}
    /\ done \subseteq 1..MaxTasks /\ late \subseteq 1..MaxTasks
    /\ missed \subseteq workers
    /\ spurious \in 0..MaxSpurious

(* Tasks are started in the order of the enqueue calls, each of them once, *)
(* none forgotten: what was started, then what is queued, is every call so *)
(* far in order.                                                           *)
StartedInOrder == started \o tasks = [i \in 1..Count |-> i]

(* When StopAll has joined the workers ("the destructor joins all          *)
(* threads"), every task has returned that was enqueued before the call,   *)
(* or enqueued by a task at any time; only a client that comes late can    *)
(* leave a task in the queue that nobody will run.                         *)
JoinedMeansDrained ==
    joined => \A n \in 1..Count : n \in done \cup late

(* A queued task is started, or the pool is stopped around it.             *)
QueuedStarts ==
    \A n \in 1..MaxTasks :
        n \in {tasks[i] : i \in 1..Len(tasks)}
            ~> (n \in {started[i] : i \in 1..Len(started)} \/ joined)

(* StopAll returns when its notify_all found no worker between the test of *)
(* the predicate and the wait.                                             *)
StopReturnsIfHeard ==
    (pc[Owner] = "join" /\ missed = {}) ~> joined

(* StopAll returns: "the destructor joins all threads" (threadpool.h:124). *)
StopReturns == (pc[Owner] = "notifyAll") ~> joined
=============================================================================
