----------------------------- MODULE PartsProofs -----------------------------
(***************************************************************************)
(* Parts of the library that share no state with one another, for any      *)
(* constants: the thread pool starts its tasks in order and leaves none    *)
(* behind, file_gather_files finds what can be reached, each file once, a  *)
(* frame of the profiler draws the sections that ran in it, and the        *)
(* indexer shares vertices without changing what is drawn.                 *)
(***************************************************************************)
EXTENDS ThreadPool, FileTree, SectionView, GeometryIndex, TLAPS

(* Types, and what the threads' places say: a worker at its loop holds no  *)
(* task, one that exited saw the flag, and no task waits without workers.  *)
PoolInv ==
    /\ workers \subseteq Worker
    /\ tasks \in Seq(Nat) /\ started \in Seq(Nat)
    /\ DOMAIN pc = Thread
    /\ task \in [Worker -> Nat]
    /\ \A w \in workers : pc[w] \notin {"run", "runNotify"} => task[w] = 0
    /\ \A w \in workers : pc[w] \notin {"idle", "notify"}
    /\ \A w \in workers : pc[w] = "exited" => stop
    /\ workers = {} => tasks = <<>>
    /\ joined => \A w \in workers : pc[w] = "exited"

(* Every step keeps it.                                                    *)
LEMMA PoolStep ==
    ASSUME PoolInv, [Next]_vars
    PROVE  PoolInv'
<1> USE ThreadAssumption
<1>0. workers \subseteq Thread
  BY DEF PoolInv, Thread
<1>1. ASSUME NEW w \in workers, Take(w) PROVE PoolInv'
  <2>1. Head(tasks) \in Nat /\ Tail(tasks) \in Seq(Nat) /\ w \in Worker
    BY <1>1 DEF PoolInv, Take
  <2> QED BY <1>0, <1>1, <2>1 DEF PoolInv, Take, At
<1>2. ASSUME NEW w \in workers, Exit(w) \/ FindNothing(w) \/ Block(w) PROVE PoolInv'
  BY <1>0, <1>2 DEF PoolInv, Exit, FindNothing, Block, At
<1>3. ASSUME NEW w \in workers, Finish(w) PROVE PoolInv'
  BY <1>0, <1>3 DEF PoolInv, Finish, At
<1>4. ASSUME NEW w \in workers, WakeSpuriously(w) PROVE PoolInv'
  BY <1>0, <1>4 DEF PoolInv, WakeSpuriously, At
<1>5. ASSUME NEW t \in Client \cup workers, EnqueueRuns(t) PROVE PoolInv'
  <2>1. Count + 1 \in Nat
    BY DEF PoolInv, Count
  <2> QED BY <1>5, <2>1 DEF PoolInv, EnqueueRuns
<1>6. ASSUME NEW t \in Client \cup workers, EnqueuePushes(t) PROVE PoolInv'
  <2>1. Count + 1 \in Nat
    BY DEF PoolInv, Count
  <2>2. t \in Client => t \notin workers
    BY DEF PoolInv
  <2>3. t \notin Client => t \in workers /\ pc[t] = "run"
    BY <1>6, <2>2 DEF EnqueuePushes, Calls
  <2> QED BY <1>0, <1>6, <2>1, <2>2, <2>3 DEF PoolInv, EnqueuePushes, At
<1>7. ASSUME NEW t \in Client \cup workers, NotifyOne(t) PROVE PoolInv'
  <2>1. t \in Client => t \notin workers
    BY DEF PoolInv
  <2>2. t \notin Client => t \in workers
    BY <1>7
  <2>3. DOMAIN pc' = Thread
    BY <1>7 DEF PoolInv, NotifyOne
  <2>4. \A w \in workers : \/ pc'[w] = pc[w]
                           \/ pc[w] = "runNotify" /\ pc'[w] = "run"
                           \/ pc[w] = "waiting" /\ pc'[w] = "start"
    BY <1>0, <1>7, <2>1, <2>2 DEF PoolInv, NotifyOne
  <2> QED BY <1>7, <2>3, <2>4, ZenonT(20) DEF PoolInv, NotifyOne
<1>8. ASSUME NEW d \in BOOLEAN, StopAll(d) PROVE PoolInv'
  BY <1>0, <1>8 DEF PoolInv, StopAll, At
<1>9. CASE NotifyAll
  BY <1>0, <1>9 DEF PoolInv, NotifyAll
<1>10. CASE Join
  BY <1>0, <1>10 DEF PoolInv, Join, At
<1>11. CASE UNCHANGED vars
  BY <1>11 DEF PoolInv, vars
<1> QED BY <1>1, <1>2, <1>3, <1>4, <1>5, <1>6, <1>7, <1>8, <1>9, <1>10, <1>11
        DEF Next, WorkerStep, Enqueue

(* It holds before the constructor has started a worker.                   *)
LEMMA PoolInit == ASSUME Init PROVE PoolInv
BY DEF Init, PoolInv, Thread

-----------------------------------------------------------------------------
(* StartedInOrder by places: a task has the number of its enqueue call.    *)
Numbered ==
    /\ \A k \in 1..Len(started) : started[k] = k
    /\ \A k \in 1..Len(tasks) : tasks[k] = Len(started) + k

(* A sequence with one more element at its end.                            *)
LEMMA AppendIs ==
    ASSUME NEW s \in Seq(Nat), NEW n \in Nat
    PROVE  /\ Len(Append(s, n)) = Len(s) + 1 /\ Len(s) \in Nat
           /\ \A k \in 1..(Len(s) + 1) :
                 Append(s, n)[k] = IF k <= Len(s) THEN s[k] ELSE n
OBVIOUS

(* A sequence without its first element.                                   *)
LEMMA TailIs ==
    ASSUME NEW t \in Seq(Nat), t # <<>>
    PROVE  /\ Len(Tail(t)) = Len(t) - 1 /\ Len(t) \in Nat \ {0}
           /\ Head(t) = t[1] /\ Head(t) \in Nat
           /\ \A k \in 1..(Len(t) - 1) : Tail(t)[k] = t[k + 1]
OBVIOUS

(* The elements of two sequences together.                                 *)
LEMMA JoinIs ==
    ASSUME NEW s \in Seq(Nat), NEW t \in Seq(Nat)
    PROVE  /\ s \o t \in Seq(Nat) /\ Len(s \o t) = Len(s) + Len(t)
           /\ \A k \in 1..(Len(s) + Len(t)) :
                 (s \o t)[k] = IF k <= Len(s) THEN s[k] ELSE t[k - Len(s)]
OBVIOUS

(* The sequence 1, 2, ... of a length, and the only one with its elements. *)
LEMMA CountingIs ==
    ASSUME NEW n \in Nat, NEW s \in Seq(Nat), Len(s) = n,
           \A k \in 1..n : s[k] = k
    PROVE  s = [i \in 1..n |-> i]
OBVIOUS

(* Put together, the started and the queued tasks are 1, 2, ...            *)
LEMMA NumberedInOrder ==
    ASSUME tasks \in Seq(Nat), started \in Seq(Nat), Numbered
    PROVE  StartedInOrder
<1>1. Len(started) \in Nat /\ Len(tasks) \in Nat /\ Len(started) + Len(tasks) \in Nat
  OBVIOUS
<1>2. ASSUME NEW k \in 1..(Len(started) + Len(tasks))
      PROVE  (started \o tasks)[k] = k
  <2>0. (started \o tasks)[k] = IF k <= Len(started) THEN started[k]
                                                     ELSE tasks[k - Len(started)]
    BY JoinIs, Zenon
  <2>1. CASE k <= Len(started)
    <3>1. k \in 1..Len(started)
      BY <1>1, <2>1
    <3> QED BY <2>0, <2>1, <3>1, Zenon DEF Numbered
  <2>2. CASE ~(k <= Len(started))
    <3>1. k - Len(started) \in 1..Len(tasks) /\ Len(started) + (k - Len(started)) = k
      BY <1>1, <2>2
    <3>2. tasks[k - Len(started)] = Len(started) + (k - Len(started))
      BY <3>1, Zenon DEF Numbered
    <3> QED BY <2>0, <2>2, <3>1, <3>2, Zenon
  <2> QED BY <2>1, <2>2
<1>3. \A k \in 1..(Len(started) + Len(tasks)) : (started \o tasks)[k] = k
  BY <1>2, Zenon
<1> QED BY <1>1, <1>3, JoinIs, CountingIs, Zenon DEF StartedInOrder, Count

(* Steps that are not a Take or an enqueue leave both sequences alone.     *)
LEMMA QueueSteps ==
    ASSUME [Next]_vars
    PROVE  \/ \E w \in workers : Take(w)
           \/ \E t \in Client \cup workers : Enqueue(t)
           \/ UNCHANGED <<tasks, started>>
BY DEF Next, WorkerStep, vars, Exit, FindNothing, Block, Finish, WakeSpuriously,
       NotifyOne, StopAll, NotifyAll, Join

(* The tasks are started in the order of the enqueue calls, each once and  *)
(* none left out.                                                          *)
THEOREM InOrder == Spec => []StartedInOrder
<1>1. Init => PoolInv /\ Numbered
  <2>1. Init => tasks = <<>> /\ started = <<>>
    BY Zenon DEF Init
  <2> QED BY <2>1, PoolInit DEF Numbered
<1>2. PoolInv /\ Numbered /\ [Next]_vars => PoolInv' /\ Numbered'
  <2> SUFFICES ASSUME PoolInv, Numbered, [Next]_vars PROVE Numbered'
    BY PoolStep, Zenon
  <2>0. /\ tasks \in Seq(Nat) /\ started \in Seq(Nat)
        /\ Len(started) \in Nat /\ Len(tasks) \in Nat
    BY DEF PoolInv
  <2>1. ASSUME NEW w \in workers, Take(w) PROVE Numbered'
    <3>1. started' = Append(started, Head(tasks)) /\ tasks' = Tail(tasks) /\ tasks # <<>>
      BY <2>1 DEF Take
    <3>2. /\ Len(tasks') = Len(tasks) - 1 /\ Len(tasks) \in Nat \ {0}
          /\ Head(tasks) = tasks[1] /\ Head(tasks) \in Nat
          /\ \A k \in 1..(Len(tasks) - 1) : tasks'[k] = tasks[k + 1]
      BY <2>0, <3>1, TailIs, Zenon
    <3>3. /\ Len(started') = Len(started) + 1
          /\ \A k \in 1..(Len(started) + 1) :
                started'[k] = IF k <= Len(started) THEN started[k] ELSE Head(tasks)
      BY <2>0, <3>1, <3>2, AppendIs, Zenon
    <3>4. Head(tasks) = Len(started) + 1
      BY <2>0, <3>2 DEF Numbered
    <3>5. ASSUME NEW k \in 1..Len(started') PROVE started'[k] = k
      BY <2>0, <3>3, <3>4 DEF Numbered
    <3>6. ASSUME NEW k \in 1..Len(tasks') PROVE tasks'[k] = Len(started') + k
      <4>1. k \in 1..(Len(tasks) - 1) /\ k + 1 \in 1..Len(tasks)
        BY <2>0, <3>2
      <4>2. tasks'[k] = Len(started) + (k + 1)
        BY <3>2, <4>1, Zenon DEF Numbered
      <4> QED BY <2>0, <3>3, <4>1, <4>2
    <3> QED BY <3>5, <3>6, Zenon DEF Numbered
  <2>2. ASSUME NEW t \in Client \cup workers, Enqueue(t) PROVE Numbered'
    <3> DEFINE n == Count + 1
    <3>0. n \in Nat /\ n = Len(started) + (Len(tasks) + 1)
      BY <2>0 DEF Count
    <3> HIDE DEF n
    <3>1. CASE EnqueuePushes(t)
      <4>1. tasks' = Append(tasks, n) /\ started' = started
        BY <3>1 DEF EnqueuePushes, n
      <4>2. /\ Len(tasks') = Len(tasks) + 1
            /\ \A k \in 1..(Len(tasks) + 1) :
                  tasks'[k] = IF k <= Len(tasks) THEN tasks[k] ELSE n
        BY <2>0, <3>0, <4>1, AppendIs, Zenon
      <4>3. ASSUME NEW k \in 1..Len(tasks') PROVE tasks'[k] = Len(started) + k
        <5>1. k \in 1..(Len(tasks) + 1)
          BY <4>2
        <5>2. tasks'[k] = IF k <= Len(tasks) THEN tasks[k] ELSE n
          BY <4>2, <5>1, Zenon
        <5>3. CASE k <= Len(tasks)
          <6>1. k \in 1..Len(tasks)
            BY <2>0, <5>1, <5>3
          <6> QED BY <5>2, <5>3, <6>1, Zenon DEF Numbered
        <5>4. CASE ~(k <= Len(tasks))
          <6>1. k = Len(tasks) + 1
            BY <2>0, <5>1, <5>4
          <6> QED BY <3>0, <5>2, <5>4, <6>1, Zenon
        <5> QED BY <5>3, <5>4
      <4> QED BY <4>1, <4>3, Zenon DEF Numbered
    <3>2. CASE EnqueueRuns(t)
      <4>1. tasks = <<>> /\ tasks' = <<>> /\ started' = Append(started, n)
        BY <3>2 DEF EnqueueRuns, PoolInv, n
      <4>2. /\ Len(started') = Len(started) + 1 /\ Len(tasks) = 0
            /\ \A k \in 1..(Len(started) + 1) :
                  started'[k] = IF k <= Len(started) THEN started[k] ELSE n
        BY <2>0, <3>0, <4>1, AppendIs
      <4> QED BY <2>0, <3>0, <4>1, <4>2 DEF Numbered
    <3> QED BY <2>2, <3>1, <3>2, Zenon DEF Enqueue
  <2>3. CASE UNCHANGED <<tasks, started>>
    BY <2>3 DEF Numbered
  <2> QED BY <2>1, <2>2, <2>3, QueueSteps
<1>3. PoolInv /\ Numbered => StartedInOrder
  BY NumberedInOrder, Zenon DEF PoolInv
<1> QED BY <1>1, <1>2, <1>3, PTL DEF Spec

-----------------------------------------------------------------------------
(* Where a task is: it has returned, came late, is being run, or waits.    *)
Placed(n) ==
    \/ n \in done \cup late
    \/ \E w \in workers : task[w] = n
    \/ \E i \in 1..Len(tasks) : tasks[i] = n

(* Every task is somewhere, and when all workers have exited only late     *)
(* ones wait: the last to exit saw an empty queue.                         *)
DrainInv ==
    /\ PoolInv
    /\ \A n \in 1..Count : Placed(n)
    /\ (\A w \in workers : pc[w] = "exited") => \A i \in 1..Len(tasks) : tasks[i] \in late

(* A worker that takes the first task holds it, and had none before.       *)
LEMMA TakePlaces ==
    ASSUME DrainInv, PoolInv', NEW w \in workers, Take(w)
    PROVE  DrainInv'
<1>1. /\ tasks \in Seq(Nat) /\ tasks # <<>> /\ started \in Seq(Nat)
      /\ w \in Worker /\ DOMAIN task = Worker /\ task[w] = 0
      /\ workers' = workers /\ workers \subseteq Worker
  BY Zenon DEF DrainInv, PoolInv, Take
<1>2. /\ Len(tasks) \in Nat \ {0} /\ Len(tasks') = Len(tasks) - 1
      /\ \A i \in 1..Len(tasks') : tasks'[i] = tasks[i + 1]
      /\ Head(tasks) = tasks[1] /\ Len(started) \in Nat
      /\ Len(started') = Len(started) + 1
  BY <1>1 DEF Take
<1>3. Count' = Count
  BY <1>2 DEF Count
<1>4. task'[w] = tasks[1] /\ \A v \in Worker : v # w => task'[v] = task[v]
  BY <1>1, <1>2 DEF Take
<1>5. UNCHANGED <<done, late>>
  BY DEF Take
<1>6. ASSUME NEW n \in 1..Count, Placed(n) PROVE Placed(n)'
  <2>1. CASE n \in done \cup late
    BY <1>5, <2>1 DEF Placed
  <2>2. ASSUME NEW v \in workers, task[v] = n PROVE Placed(n)'
    <3>1. v # w
      BY <1>1, <2>2
    <3> QED BY <1>1, <1>4, <2>2, <3>1 DEF Placed
  <2>3. ASSUME NEW i \in 1..Len(tasks), tasks[i] = n PROVE Placed(n)'
    <3>1. CASE i = 1
      BY <1>1, <1>4, <2>3, <3>1 DEF Placed
    <3>2. CASE i # 1
      <4>1. i - 1 \in 1..Len(tasks') /\ tasks'[i - 1] = n
        BY <1>2, <2>3, <3>2
      <4> QED BY <4>1 DEF Placed
    <3> QED BY <3>1, <3>2
  <2> QED BY <1>6, <2>1, <2>2, <2>3 DEF Placed
<1>7. pc'[w] = "run"
  BY <1>1 DEF Take, At, DrainInv, PoolInv, Thread
<1> QED BY <1>1, <1>3, <1>6, <1>7 DEF DrainInv

(* A new task is queued, or has returned when there are no workers; with   *)
(* all workers gone only a client calls, and late.                         *)
LEMMA EnqueuePlaces ==
    ASSUME DrainInv, PoolInv', NEW t \in Client \cup workers, Enqueue(t)
    PROVE  DrainInv'
<1>1. /\ tasks \in Seq(Nat) /\ started \in Seq(Nat)
      /\ Len(tasks) \in Nat /\ Len(started) \in Nat /\ Count \in Nat
  BY DEF DrainInv, PoolInv, Count
<1>2. CASE EnqueueRuns(t)
  <2>1. /\ UNCHANGED <<tasks, workers, task, late>> /\ done' = done \cup {Count + 1}
        /\ workers = {} /\ tasks = <<>> /\ Count' = Count + 1
    BY <1>1, <1>2 DEF EnqueueRuns, DrainInv, PoolInv, Count
  <2>2. ASSUME NEW n \in 1..Count' PROVE Placed(n)'
    BY <1>1, <2>1 DEF Placed, DrainInv
  <2> QED BY <2>1, <2>2 DEF DrainInv
<1>3. CASE EnqueuePushes(t)
  <2>1. /\ tasks' = Append(tasks, Count + 1) /\ UNCHANGED <<workers, task, done, started>>
        /\ late' = IF stop /\ t \in Client THEN late \cup {Count + 1} ELSE late
        /\ workers # {}
    BY <1>3 DEF EnqueuePushes
  <2>2. /\ Len(tasks') = Len(tasks) + 1 /\ tasks'[Len(tasks) + 1] = Count + 1
        /\ \A i \in 1..Len(tasks) : tasks'[i] = tasks[i]
    BY <1>1, <2>1
  <2>3. Count' = Count + 1
    BY <1>1, <2>1, <2>2 DEF Count
  <2>4. ASSUME NEW n \in 1..Count' PROVE Placed(n)'
    <3>1. CASE n = Count + 1
      <4>1. Len(tasks) + 1 \in 1..Len(tasks') /\ tasks'[Len(tasks) + 1] = n
        BY <1>1, <2>2, <3>1
      <4> QED BY <4>1 DEF Placed
    <3>2. CASE n # Count + 1
      <4>1. Placed(n)
        BY <1>1, <2>3, <3>2 DEF DrainInv
      <4>2. \A i \in 1..Len(tasks) : i \in 1..Len(tasks')
        BY <1>1, <2>2
      <4> QED BY <2>1, <2>2, <4>1, <4>2 DEF Placed
    <3> QED BY <3>1, <3>2
  <2>5. ASSUME \A w \in workers : pc'[w] = "exited"
        PROVE  \A i \in 1..Len(tasks') : tasks'[i] \in late'
    <3>1. t \notin workers
      BY <1>3, <2>5, ThreadAssumption DEF EnqueuePushes, At, DrainInv, PoolInv, Thread
    <3>2. \A w \in workers : pc[w] = "exited"
      BY <1>3, <2>5, <3>1, ThreadAssumption, ZenonT(30) DEF EnqueuePushes, At, DrainInv, PoolInv, Thread
    <3>3. stop /\ t \in Client
      BY <2>1, <3>1, <3>2 DEF DrainInv, PoolInv
    <3> QED BY <1>1, <2>1, <2>2, <3>2, <3>3 DEF DrainInv
  <2> QED BY <2>1, <2>4, <2>5 DEF DrainInv
<1> QED BY <1>2, <1>3 DEF Enqueue

(* The other steps of workers and owner move no task but one that returns. *)
LEMMA OthersPlace ==
    ASSUME DrainInv, PoolInv', UNCHANGED <<tasks, started, late, workers>>,
           \/ UNCHANGED <<task, done>>
           \/ \E w \in workers : Finish(w),
           tasks = <<>> \/ \A w \in workers : pc'[w] = "exited" => pc[w] = "exited"
    PROVE  DrainInv'
<1>1. Count' = Count
  BY DEF Count
<1>2. ASSUME NEW n \in 1..Count, Placed(n) PROVE Placed(n)'
  <2>1. CASE UNCHANGED <<task, done>>
    BY <1>2, <2>1 DEF Placed
  <2>2. ASSUME NEW w \in workers, Finish(w) PROVE Placed(n)'
    <3>1. done' = done \cup {task[w]} /\ task' = [task EXCEPT ![w] = 0]
      BY <2>2 DEF Finish
    <3>2. \A v \in workers : v # w => task'[v] = task[v]
      BY <3>1 DEF DrainInv, PoolInv
    <3> QED BY <1>2, <3>1, <3>2 DEF Placed
  <2> QED BY <2>1, <2>2
<1>3. (\A w \in workers : pc'[w] = "exited") => \A i \in 1..Len(tasks) : tasks[i] \in late
  <2>1. CASE tasks = <<>>
    BY <2>1
  <2>2. CASE tasks # <<>>
    BY <2>2 DEF DrainInv
  <2> QED BY <2>1, <2>2
<1> QED BY <1>1, <1>2, <1>3 DEF DrainInv

(* When StopAll has joined, every task has returned but those that a       *)
(* client enqueued after the flag was set.                                 *)
THEOREM Drained == Spec => []JoinedMeansDrained
<1>1. Init => DrainInv
  <2> SUFFICES ASSUME Init PROVE DrainInv OBVIOUS
  <2>1. PoolInv /\ tasks = <<>> /\ started = <<>>
    BY PoolInit, ZenonT(20) DEF Init
  <2>2. Len(tasks) = 0 /\ Count = 0
    BY <2>1 DEF Count
  <2> QED BY <2>1, <2>2 DEF DrainInv
<1>2. DrainInv /\ [Next]_vars => DrainInv'
  <2> SUFFICES ASSUME DrainInv, [Next]_vars PROVE DrainInv' OBVIOUS
  <2>0. PoolInv' /\ workers \subseteq Thread /\ DOMAIN pc = Thread
    BY PoolStep DEF DrainInv, PoolInv, Thread
  <2>1. ASSUME NEW w \in workers, Exit(w) PROVE DrainInv'
    BY <2>0, <2>1, OthersPlace, ZenonT(30) DEF Exit
  <2>2. ASSUME NEW w \in workers, FindNothing(w) \/ Block(w) \/ WakeSpuriously(w)
        PROVE  DrainInv'
    <3>0. At(w, "block") \/ At(w, "waiting") \/ At(w, "start")
      BY <2>2, Zenon DEF FindNothing, Block, WakeSpuriously
    <3>1. \A v \in workers : pc'[v] = "exited" => pc[v] = "exited"
      BY <2>0, <3>0 DEF At
    <3> QED BY <2>0, <2>2, <3>1, OthersPlace DEF FindNothing, Block, WakeSpuriously
  <2>3. ASSUME NEW w \in workers, Finish(w) PROVE DrainInv'
    <3>1. \A v \in workers : pc'[v] = "exited" => pc[v] = "exited"
      BY <2>0, <2>3 DEF Finish, At
    <3>2. UNCHANGED <<tasks, started, late, workers>>
      BY <2>3 DEF Finish
    <3> QED BY <2>0, <2>3, <3>1, <3>2, OthersPlace
  <2>4. ASSUME NEW t \in Client \cup workers, NotifyOne(t) PROVE DrainInv'
    <3>1. \A v \in workers : pc'[v] = "exited" => pc[v] = "exited"
      BY <2>0, <2>4, ZenonT(30) DEF NotifyOne
    <3> QED BY <2>0, <2>4, <3>1, OthersPlace DEF NotifyOne
  <2>5. ASSUME NEW d \in BOOLEAN, StopAll(d) PROVE DrainInv'
    <3>1. \A v \in workers : pc'[v] = "exited" => pc[v] = "exited"
      BY <2>0, <2>5 DEF StopAll, At
    <3> QED BY <2>0, <2>5, <3>1, OthersPlace DEF StopAll
  <2>6. CASE NotifyAll
    <3>1. \A v \in workers : pc'[v] = "exited" => pc[v] = "exited"
      BY <2>0, <2>6 DEF NotifyAll
    <3> QED BY <2>0, <2>6, <3>1, OthersPlace DEF NotifyAll
  <2>7. CASE Join
    <3>1. \A v \in workers : pc'[v] = "exited" => pc[v] = "exited"
      BY <2>0, <2>7 DEF Join, At
    <3> QED BY <2>0, <2>7, <3>1, OthersPlace DEF Join
  <2>8. CASE UNCHANGED vars
    BY <2>0, <2>8, OthersPlace DEF vars
  <2> QED BY <2>0, <2>1, <2>2, <2>3, <2>4, <2>5, <2>6, <2>7, <2>8, TakePlaces,
             EnqueuePlaces DEF Next, WorkerStep
<1>3. DrainInv => JoinedMeansDrained
  <2> SUFFICES ASSUME DrainInv, joined, NEW n \in 1..Count PROVE n \in done \cup late
    BY DEF JoinedMeansDrained
  <2>1. \A w \in workers : pc[w] = "exited" /\ task[w] = 0
    BY Zenon DEF DrainInv, PoolInv
  <2>2. \A i \in 1..Len(tasks) : tasks[i] \in late
    BY <2>1 DEF DrainInv
  <2>3. n # 0 /\ Placed(n)
    BY DEF DrainInv
  <2> QED BY <2>1, <2>2, <2>3 DEF Placed
<1> QED BY <1>1, <1>2, <1>3, PTL DEF Spec

-----------------------------------------------------------------------------
(* The walk over a directory tree.                                         *)

TreeType ==
    /\ tree \in [Dir -> SUBSET Entry] /\ opens \subseteq Dir /\ odd \subseteq Dir
    /\ rootOdd \in BOOLEAN /\ walking \in BOOLEAN
    /\ thisDir \in [dir : Dir, odd : BOOLEAN, left : SUBSET Entry]
    /\ dirs \in Seq(Dir) /\ checkedPaths \subseteq Node /\ ret \in Seq(File)

(* The results are the files among the checked paths.                      *)
RetInv == IsInjective(ret) /\ Range(ret) = checkedPaths \cap File

(* Nothing is checked or queued that cannot be reached.                    *)
SoundInv ==
    /\ checkedPaths \subseteq Reached(tree, opens, odd)
    /\ Range(dirs) \subseteq checkedPaths \cap opens
    /\ \A e \in thisDir.left : e.bad \/ thisDir.odd \/ e.to \in Reached(tree, opens, odd)
    /\ ~walking \/ Root \notin opens \/ rootOdd =>
          /\ checkedPaths = {} /\ dirs = <<>>
          /\ thisDir.odd \/ thisDir.left = {}

(* An entry of d was followed or is still to come.                         *)
Followed(d) ==
    \A e \in Listing(tree, d) :
        \/ e.bad \/ e.to \in checkedPaths
        \/ thisDir.dir = d /\ ~thisDir.odd /\ e \in thisDir.left

(* Nothing that can be reached is forgotten: the entries of the root and   *)
(* of every checked directory are followed, or the directory is queued.    *)
CompleteInv ==
    walking /\ Root \in opens /\ ~rootOdd =>
        /\ Followed(Root)
        /\ \A d \in checkedPaths \cap Dir \cap opens :
              d \in odd \/ d \in Range(dirs) \/ Followed(d)

TreeInv == TreeType /\ RetInv /\ SoundInv /\ CompleteInv

-----------------------------------------------------------------------------
(* Entries lead to nodes.                                                  *)
LEMMA ListingType ==
    ASSUME NEW t \in [Dir -> SUBSET Entry], NEW d \in Dir
    PROVE  Listing(t, d) \subseteq Entry /\ Links(t, d) \subseteq Node
<1>1. t[d] \subseteq Entry
  OBVIOUS
<1>2. [to |-> d, bad |-> FALSE] \in Entry
  BY DEF Entry, Node
<1>3. Listing(t, d) \subseteq Entry
  BY <1>1, <1>2, Zenon DEF Listing
<1>4. \A e \in Entry : e.to \in Node
  BY DEF Entry
<1> QED BY <1>3, <1>4, Zenon DEF Links

(* What is reached has the entries of the root and is closed.              *)
LEMMA ReachedClosed ==
    ASSUME NEW t \in [Dir -> SUBSET Entry], NEW o, NEW x
    PROVE  /\ Links(t, Root) \subseteq Reached(t, o, x)
           /\ Closed(t, o, x, Reached(t, o, x))
<1>1. Links(t, Root) \subseteq Reached(t, o, x)
  BY ListingType, TreeAssumption DEF Reached
<1>2. ASSUME NEW d \in Reached(t, o, x) \cap Dir \cap o, d \notin x,
             NEW n \in Links(t, d)
      PROVE  n \in Reached(t, o, x)
  <2>1. n \in Node
    BY <1>2, ListingType
  <2>2. ASSUME NEW S \in SUBSET Node, Links(t, Root) \subseteq S, Closed(t, o, x, S)
        PROVE  n \in S
    <3>1. d \in S
      BY <1>2, <2>2 DEF Reached
    <3> QED BY <1>2, <2>2, <3>1 DEF Closed
  <2> QED BY <2>1, <2>2 DEF Reached
<1> QED BY <1>1, <1>2 DEF Closed

(* Appending a new value keeps a sequence without repetitions.             *)
LEMMA AppendNew ==
    ASSUME NEW T, NEW s \in Seq(T), NEW v \in T
    PROVE  /\ Append(s, v) \in Seq(T)
           /\ Range(Append(s, v)) = Range(s) \cup {v}
           /\ IsInjective(s) /\ v \notin Range(s) => IsInjective(Append(s, v))
<1>1. /\ Append(s, v) \in Seq(T) /\ Len(Append(s, v)) = Len(s) + 1
      /\ \A i \in 1..Len(s) : Append(s, v)[i] = s[i]
      /\ Append(s, v)[Len(s) + 1] = v
  OBVIOUS
<1>2. DOMAIN s = 1..Len(s) /\ DOMAIN Append(s, v) = 1..(Len(s) + 1) /\ Len(s) \in Nat
  OBVIOUS
<1>3. Range(Append(s, v)) = Range(s) \cup {v}
  <2>1. ASSUME NEW w \in Range(Append(s, v)) PROVE w \in Range(s) \cup {v}
    <3>1. PICK i \in 1..(Len(s) + 1) : Append(s, v)[i] = w
      BY <1>2, <2>1 DEF Range
    <3> QED BY <1>1, <1>2, <3>1 DEF Range
  <2>2. v \in Range(Append(s, v))
    BY <1>1, <1>2 DEF Range
  <2>3. ASSUME NEW i \in 1..Len(s) PROVE s[i] \in Range(Append(s, v))
    BY <1>1, <1>2 DEF Range
  <2>4. Range(s) \subseteq Range(Append(s, v))
    BY <1>2, <2>3, Zenon DEF Range
  <2> QED BY <2>1, <2>2, <2>4
<1> QED BY <1>1, <1>2, <1>3 DEF Range, IsInjective

(* Taking the first one of a queue.                                        *)
LEMMA TailRange ==
    ASSUME NEW T, NEW s \in Seq(T), s # <<>>
    PROVE  /\ Head(s) \in T /\ Tail(s) \in Seq(T)
           /\ Range(s) = {Head(s)} \cup Range(Tail(s))
<1>1. /\ Head(s) = s[1] /\ Head(s) \in T /\ Tail(s) \in Seq(T)
      /\ Len(Tail(s)) = Len(s) - 1 /\ Len(s) \in Nat /\ Len(s) > 0
      /\ \A i \in 1..Len(Tail(s)) : Tail(s)[i] = s[i + 1]
  OBVIOUS
<1>2. DOMAIN s = 1..Len(s) /\ DOMAIN Tail(s) = 1..(Len(s) - 1)
  BY <1>1
<1>3. ASSUME NEW i \in 1..Len(s) PROVE s[i] \in {Head(s)} \cup Range(Tail(s))
  <2>1. CASE i = 1
    BY <1>1, <2>1
  <2>2. CASE i # 1
    <3>1. i - 1 \in 1..(Len(s) - 1) /\ s[i] = Tail(s)[i - 1]
      BY <1>1, <2>2
    <3> QED BY <1>2, <3>1, Zenon DEF Range
  <2> QED BY <2>1, <2>2
<1>4. ASSUME NEW i \in 1..(Len(s) - 1) PROVE Tail(s)[i] \in Range(s)
  <2>1. i + 1 \in 1..Len(s) /\ Tail(s)[i] = s[i + 1]
    BY <1>1
  <2> QED BY <1>2, <2>1 DEF Range
<1>5. Head(s) \in Range(s)
  BY <1>1, <1>2 DEF Range
<1>6. Range(s) \subseteq {Head(s)} \cup Range(Tail(s))
  BY <1>2, <1>3, Zenon DEF Range
<1>7. Range(Tail(s)) \subseteq Range(s)
  BY <1>2, <1>4, Zenon DEF Range
<1> QED BY <1>1, <1>5, <1>6, <1>7

-----------------------------------------------------------------------------
(* The call of file_gather_files establishes the invariant for its tree.   *)
LEMMA GatherKeeps ==
    ASSUME TreeInv, NEW t \in Trees, NEW o \in SUBSET Dir, NEW x \in SUBSET Dir,
           NEW given \in BOOLEAN, Gather(t, o, x, given)
    PROVE  TreeInv'
<1> USE DEF Gather
<1>1. t \in [Dir -> SUBSET Entry]
  BY DEF Trees
<1>2. Listing(t, Root) \subseteq Entry
  BY <1>1, ListingType, TreeAssumption
<1>3. TreeType'
  BY <1>1, <1>2, TreeAssumption, ZenonT(30) DEF TreeInv, TreeType
<1>4. checkedPaths = {} /\ dirs = <<>> /\ RetInv'
  BY ZenonT(30) DEF TreeInv, RetInv, SoundInv
<1>5. \A e \in Listing(t, Root) : e.bad \/ e.to \in Reached(t, o, x)
  BY <1>1, ReachedClosed, ZenonT(30) DEF Links
<1>6. SoundInv'
  <2>1. Range(<<>>) = {}
    BY DEF Range
  <2> QED BY <1>4, <1>5, <2>1 DEF SoundInv, TreeInv, TreeType
<1>7. CompleteInv'
  BY <1>4 DEF CompleteInv, Followed, TreeInv, TreeType
<1> QED BY <1>3, <1>4, <1>6, <1>7 DEF TreeInv

(* An entry that is skipped was followed before, or is not to be.          *)
LEMMA SkipKeeps ==
    ASSUME TreeInv, NEW e \in thisDir.left, SkipEntry(e)
    PROVE  TreeInv'
<1> USE DEF SkipEntry
<1>1. TreeType'
  BY DEF TreeInv, TreeType
<1>2. /\ thisDir'.left = thisDir.left \ {e}
      /\ thisDir'.dir = thisDir.dir /\ thisDir'.odd = thisDir.odd
  BY DEF TreeInv, TreeType
<1>3. RetInv' /\ SoundInv'
  BY <1>2 DEF TreeInv, RetInv, SoundInv
<1>4. ASSUME NEW d, Followed(d) PROVE Followed(d)'
  BY <1>2, <1>4 DEF Followed, Ignored, AlreadyChecked
<1>5. CompleteInv'
  BY <1>4 DEF TreeInv, CompleteInv
<1> QED BY <1>1, <1>3, <1>5 DEF TreeInv

(* A path that is checked was reached, and its entries are queued.         *)
LEMMA CheckKeeps ==
    ASSUME TreeInv, NEW e \in thisDir.left, CheckEntry(e)
    PROVE  TreeInv'
<1> USE DEF CheckEntry
<1>1. /\ thisDir'.left = thisDir.left \ {e}
      /\ thisDir'.dir = thisDir.dir /\ thisDir'.odd = thisDir.odd
      /\ thisDir' \in [dir : Dir, odd : BOOLEAN, left : SUBSET Entry]
      /\ e.to \in Node /\ ~e.bad /\ ~thisDir.odd /\ e.to \notin checkedPaths
  BY Zenon DEF TreeInv, TreeType, Entry, Ignored, AlreadyChecked
<1>2. /\ dirs' \in Seq(Dir)
      /\ Range(dirs') = Range(dirs) \cup ({e.to} \cap Dir \cap opens)
  BY <1>1, AppendNew DEF TreeInv, TreeType
<1>3. ret' \in Seq(File) /\ RetInv'
  BY <1>1, AppendNew DEF TreeInv, TreeType, RetInv
<1>4. TreeType'
  BY <1>1, <1>2, <1>3 DEF TreeInv, TreeType
<1>5. SoundInv'
  BY <1>1, <1>2 DEF TreeInv, TreeType, SoundInv
<1>6. ASSUME NEW d, Followed(d) PROVE Followed(d)'
  BY <1>1, <1>6 DEF Followed
<1>7. CompleteInv'
  BY <1>2, <1>6, SMTT(20) DEF TreeInv, TreeType, CompleteInv
<1> QED BY <1>3, <1>4, <1>5, <1>7 DEF TreeInv

(* The next directory has all of its entries still to come.                *)
LEMMA NextDirKeeps ==
    ASSUME TreeInv, NextDir
    PROVE  TreeInv'
<1> USE DEF NextDir
<1>1. /\ Head(dirs) \in Dir /\ dirs' \in Seq(Dir)
      /\ Range(dirs) = {Head(dirs)} \cup Range(dirs')
  BY TailRange DEF TreeInv, TreeType
<1>2. Listing(tree, Head(dirs)) \subseteq Entry
  BY <1>1, ListingType, Zenon DEF TreeInv, TreeType
<1>3. TreeType' /\ RetInv'
  <2>1. TreeType'
    BY <1>1, <1>2 DEF TreeInv, TreeType
  <2>2. RetInv'
    BY Zenon DEF TreeInv, RetInv
  <2> QED BY <2>1, <2>2
<1>4. Head(dirs) \in checkedPaths \cap opens /\ Head(dirs) \in Reached(tree, opens, odd)
  BY <1>1 DEF TreeInv, SoundInv
<1>5. Head(dirs) \in odd \/ Links(tree, Head(dirs)) \subseteq Reached(tree, opens, odd)
  BY <1>1, <1>4, ReachedClosed, ZenonT(30) DEF TreeInv, TreeType, Closed
<1>6. \A e \in Listing(tree, Head(dirs)) :
          e.bad \/ Head(dirs) \in odd \/ e.to \in Reached(tree, opens, odd)
  BY <1>5 DEF Links
<1>7. SoundInv'
  BY <1>1, <1>4, <1>6, Zenon DEF TreeInv, SoundInv
<1>8. ASSUME NEW d, Followed(d) PROVE Followed(d)'
  BY <1>8 DEF Followed
<1>9. ASSUME NEW d, d = Head(dirs), d \notin odd PROVE Followed(d)'
  BY <1>9, Zenon DEF Followed
<1>10. CompleteInv'
  BY <1>1, <1>8, <1>9 DEF TreeInv, TreeType, CompleteInv
<1> QED BY <1>3, <1>7, <1>10, Zenon DEF TreeInv

(* The invariant is inductive.                                             *)
LEMMA TreeInductive == TreeSpec => []TreeInv
<1>1. TreeInit => TreeInv
  <2> SUFFICES ASSUME TreeInit PROVE TreeInv
    OBVIOUS
  <2> USE DEF TreeInit
  <2>1. Range(<<>>) = {} /\ IsInjective(<<>>)
    BY DEF Range, IsInjective
  <2>2. TreeType
    <3>1. tree \in [Dir -> SUBSET Entry]
      OBVIOUS
    <3>2. thisDir \in [dir : Dir, odd : BOOLEAN, left : SUBSET Entry]
      BY TreeAssumption
    <3>3. rootOdd \in BOOLEAN /\ walking \in BOOLEAN
      BY Zenon
    <3>4. dirs \in Seq(Dir) /\ ret \in Seq(File)
      OBVIOUS
    <3> QED BY <3>1, <3>2, <3>3, <3>4, Zenon DEF TreeType
  <2> QED BY <2>1, <2>2 DEF TreeInv, RetInv, SoundInv, CompleteInv
<1>2. TreeInv /\ [TreeNext]_treeVars => TreeInv'
  <2> SUFFICES ASSUME TreeInv, [TreeNext]_treeVars PROVE TreeInv'
    OBVIOUS
  <2>1. CASE UNCHANGED treeVars
    BY <2>1, Zenon DEF treeVars, TreeInv, TreeType, RetInv, SoundInv, CompleteInv, Followed
  <2>2. CASE TreeNext
    BY <2>2, GatherKeeps, SkipKeeps, CheckKeeps, NextDirKeeps, Zenon DEF TreeNext
  <2> QED BY <2>1, <2>2
<1> QED BY <1>1, <1>2, PTL DEF TreeSpec

(* The walk finds exactly the files that can be reached, each of them      *)
(* once, for any directories, files, links, unreadable directories and     *)
(* paths with ".." in them.                                                *)
THEOREM FindsReached == TreeSpec => []GathersReached
<1>1. TreeInv => GathersReached
  <2> SUFFICES ASSUME TreeInv, Done PROVE GathersReached
    BY DEF GathersReached
  <2>1. CASE Root \in opens /\ ~rootOdd
    <3>1. Range(dirs) = {}
      BY DEF Done, Range
    <3>2. /\ \A e \in Listing(tree, Root) : e.bad \/ e.to \in checkedPaths
          /\ \A d \in checkedPaths \cap Dir \cap opens : d \notin odd =>
                \A e \in Listing(tree, d) : e.bad \/ e.to \in checkedPaths
      BY <2>1, <3>1 DEF Done, TreeInv, CompleteInv, Followed
    <3>3. Links(tree, Root) \subseteq checkedPaths /\ Closed(tree, opens, odd, checkedPaths)
      BY <3>2 DEF Links, Closed
    <3>4. checkedPaths = Reached(tree, opens, odd)
      BY <3>3, ZenonT(30) DEF Reached, TreeInv, TreeType, SoundInv
    <3> QED BY <2>1, <3>4 DEF GathersReached, TreeInv, RetInv
  <2>2. CASE ~(Root \in opens /\ ~rootOdd)
    BY <2>2 DEF GathersReached, TreeInv, RetInv, SoundInv
  <2> QED BY <2>1, <2>2
<1> QED BY <1>1, TreeInductive, PTL

(* The walk ends, in the sense that each of its steps is one of the three  *)
(* that bring the end nearer, for any tree.                                *)
THEOREM WalkEnds == TreeSpec => WalkShrinks
<1> DEFINE Shrinks ==
      walking => \/ /\ checkedPaths \subseteq checkedPaths' /\ checkedPaths' # checkedPaths
                    /\ Len(dirs') <= Len(dirs) + 1
                 \/ /\ checkedPaths' = checkedPaths
                    /\ \/ Len(dirs') < Len(dirs)
                       \/ /\ dirs' = dirs
                          /\ thisDir'.left \subseteq thisDir.left
                          /\ thisDir'.left # thisDir.left
<1>1. TreeInv /\ [TreeNext]_treeVars => [Shrinks]_treeVars
  <2> SUFFICES ASSUME TreeInv, TreeNext PROVE Shrinks
    OBVIOUS
  <2>1. ASSUME NEW e \in thisDir.left, SkipEntry(e) PROVE Shrinks
    BY <2>1 DEF SkipEntry, TreeInv, TreeType
  <2>2. ASSUME NEW e \in thisDir.left, CheckEntry(e) PROVE Shrinks
    BY <2>2 DEF CheckEntry, AlreadyChecked, TreeInv, TreeType
  <2>3. CASE NextDir
    BY <2>3 DEF NextDir, TreeInv, TreeType
  <2>4. CASE \E t \in Trees, o, x \in SUBSET Dir, given \in BOOLEAN : Gather(t, o, x, given)
    BY <2>4 DEF Gather
  <2> QED BY <2>1, <2>2, <2>3, <2>4 DEF TreeNext
<1> QED BY <1>1, TreeInductive, PTL DEF TreeSpec, WalkShrinks

-----------------------------------------------------------------------------
(* WFMin stands for an induction over numbers: a set of numbers for which  *)
(* something fails would have a smallest one.                              *)
W == INSTANCE WellFoundedInduction

(* A set of numbers that is not empty has a smallest one.                  *)
LEMMA LeastNumber ==
    ASSUME NEW T, T \subseteq Nat, T # {}
    PROVE  \E n \in T : \A m \in T : n <= m
<1> DEFINE R == {ss \in Nat \X Nat : ss[1] < ss[2]}
<1>1. W!IsWellFoundedOn(R, Nat)
  BY W!NatLessThanWellFounded, Zenon DEF W!OpToRel
<1>2. PICK n \in T : \A m \in T : ~(<<m, n>> \in R)
  <2> HIDE DEF R
  <2> QED BY <1>1, W!WFMin, Zenon
<1>3. ASSUME NEW m \in T PROVE n <= m
  <2>1. ~(<<m, n>> \in R) /\ m \in Nat /\ n \in Nat
    BY <1>2
  <2>2. <<m, n>> \in Nat \X Nat /\ <<m, n>>[1] = m /\ <<m, n>>[2] = n
    BY <2>1
  <2>3. ~(m < n)
    BY <2>1, <2>2
  <2> QED BY <2>1, <2>3
<1> QED BY <1>3

(* What Max picks from a set of numbers up to a bound.                     *)
LEMMA MaxPicks ==
    ASSUME NEW b \in Nat, NEW T, T \subseteq 0..b, T # {}
    PROVE  Max(T) \in T /\ \A m \in T : m <= Max(T)
<1> DEFINE U == {b - m : m \in T}
<1>1. U \subseteq Nat /\ U # {}
  <2>1. \A m \in T : b - m \in Nat
    OBVIOUS
  <2> QED BY <2>1, Zenon
<1>2. PICK u \in U : \A v \in U : u <= v
  <2> HIDE DEF U
  <2> QED BY <1>1, LeastNumber, Zenon
<1>3. PICK n \in T : u = b - n
  BY <1>2
<1>4. \A m \in T : b - m \in U
  BY Zenon
<1>5. \A m \in T : n >= m
  <2> TAKE m \in T
  <2>1. b - n <= b - m /\ m \in Int /\ n \in Int
    BY <1>2, <1>3, <1>4
  <2> QED BY <2>1
<1>6. Max(T) \in T /\ \A m \in T : Max(T) >= m
  BY <1>3, <1>5, Zenon DEF Max
<1> QED BY <1>6

-----------------------------------------------------------------------------
(* The sections of a thread.  Starts go up; a parent comes before its      *)
(* child; and when a section without a parent begins, all before it have   *)
(* ended.                                                                  *)
EntryInv ==
    /\ now \in Nat /\ entries \in Seq([start : Nat, end : Nat, parent : Nat])
    /\ \A j \in 1..Len(entries) : entries[j].start <= now /\ entries[j].parent < j
    /\ \A j, k \in 1..Len(entries) : j < k =>
          /\ entries[j].start <= entries[k].start
          /\ entries[k].parent = 0 => entries[j].end <= entries[k].start

(* What has not ended is in entryStack, and every section that was begun   *)
(* after it has a parent.                                                  *)
OpenInv ==
    /\ stack \in Seq(Nat)
    /\ \A k \in 1..Len(stack) : stack[k] \in 1..Len(entries)
    /\ \A k \in 1..Len(stack), r \in 1..Len(entries) :
          stack[k] < r => entries[r].parent # 0
    /\ \A j \in 1..Len(entries) :
          entries[j].end <= now \/ \E k \in 1..Len(stack) : stack[k] = j

(* The walk up the parents ends.                                           *)
Climbs(up, n) ==
    /\ up \in [1..n -> Nat]
    /\ \A j \in 1..n : up[j] = IF entries[j].parent = 0 THEN j ELSE up[entries[j].parent]

ClimbInv == \E up : Climbs(up, Len(entries))

(* What a frame noted of the thread had begun when the frame began, or is  *)
(* the thread's first section.                                             *)
FrameInv ==
    /\ drawn \in Seq([start : Nat, active : SUBSET Nat])
    /\ noted = NotNoted \/ noted \subseteq 1..Len(entries)
    /\ \A f \in 1..Len(drawn) : \A a \in drawn[f].active :
          /\ a \in 1..Len(entries)
          /\ a = 1 \/ entries[a].start <= drawn[f].start

SectionInv == EntryInv /\ OpenInv /\ ClimbInv /\ FrameInv

(* The places of a sequence and what is there.                             *)
LEMMA PlacesOf ==
    ASSUME NEW V, NEW s \in Seq(V)
    PROVE  Len(s) \in Nat /\ \A k \in 1..Len(s) : s[k] \in V
OBVIOUS

(* A sequence with one more element, one changed, or without its last.     *)
LEMMA WithOneMore ==
    ASSUME NEW V, NEW s \in Seq(V), NEW e \in V
    PROVE  /\ Append(s, e) \in Seq(V) /\ Len(Append(s, e)) = Len(s) + 1
           /\ Append(s, e)[Len(s) + 1] = e
           /\ \A k \in 1..Len(s) : Append(s, e)[k] = s[k]
OBVIOUS

(* A sequence with another element at one place.                           *)
LEMMA WithOneChanged ==
    ASSUME NEW V, NEW s \in Seq(V), NEW t \in 1..Len(s), NEW e \in V
    PROVE  /\ [s EXCEPT ![t] = e] \in Seq(V) /\ Len([s EXCEPT ![t] = e]) = Len(s)
           /\ [s EXCEPT ![t] = e][t] = e
           /\ \A k \in 1..Len(s) : k # t => [s EXCEPT ![t] = e][k] = s[k]
OBVIOUS

(* The first elements of a sequence.                                       *)
LEMMA Beginning ==
    ASSUME NEW V, NEW s \in Seq(V), NEW n \in Nat, n <= Len(s)
    PROVE  /\ SubSeq(s, 1, n) \in Seq(V) /\ Len(SubSeq(s, 1, n)) = n
           /\ \A k \in 1..n : SubSeq(s, 1, n)[k] = s[k]
OBVIOUS

(* A sequence without its last element.                                    *)
LEMMA WithoutLast ==
    ASSUME NEW V, NEW s \in Seq(V), s # <<>>
    PROVE  /\ Len(s) \in Nat \ {0}
           /\ SubSeq(s, 1, Len(s) - 1) \in Seq(V)
           /\ Len(SubSeq(s, 1, Len(s) - 1)) = Len(s) - 1
           /\ \A k \in 1..(Len(s) - 1) : SubSeq(s, 1, Len(s) - 1)[k] = s[k]
<1>1. Len(s) \in Nat \ {0}
  OBVIOUS
<1>2. Len(s) - 1 \in Nat /\ Len(s) - 1 <= Len(s)
  BY <1>1
<1> QED BY <1>1, <1>2, Beginning, Zenon

(* The fields of the sections and of the frames.                           *)
LEMMA EntryTypes ==
    ASSUME entries \in Seq([start : Nat, end : Nat, parent : Nat])
    PROVE  /\ Len(entries) \in Nat
           /\ \A k \in 1..Len(entries) :
                 /\ entries[k].start \in Nat /\ entries[k].end \in Nat
                 /\ entries[k].parent \in Nat
<1> DEFINE V == [start : Nat, end : Nat, parent : Nat]
<1>1. Len(entries) \in Nat /\ \A k \in 1..Len(entries) : entries[k] \in V
  <2> HIDE DEF V
  <2> QED BY PlacesOf, Zenon DEF V
<1>2. \A e \in V : e.start \in Nat /\ e.end \in Nat /\ e.parent \in Nat
  OBVIOUS
<1> HIDE DEF V
<1> QED BY <1>1, <1>2, Zenon

(* The fields of the frames that were drawn.                               *)
LEMMA FrameTypes ==
    ASSUME drawn \in Seq([start : Nat, active : SUBSET Nat])
    PROVE  /\ Len(drawn) \in Nat
           /\ \A f \in 1..Len(drawn) :
                 drawn[f].start \in Nat /\ drawn[f].active \in SUBSET Nat
<1> DEFINE V == [start : Nat, active : SUBSET Nat]
<1>1. Len(drawn) \in Nat /\ \A f \in 1..Len(drawn) : drawn[f] \in V
  <2> HIDE DEF V
  <2> QED BY PlacesOf, Zenon DEF V
<1>2. \A d \in V : d.start \in Nat /\ d.active \in SUBSET Nat
  OBVIOUS
<1> HIDE DEF V
<1> QED BY <1>1, <1>2, Zenon

(* The outermost section comes first and has no parent.                    *)
LEMMA OuterIs ==
    ASSUME EntryInv, ClimbInv, NEW a \in 1..Len(entries)
    PROVE  Outer(a) \in 1..a /\ entries[Outer(a)].parent = 0
<1> DEFINE n == Len(entries)
           F(up) == up = [j \in 1..n |->
                            IF entries[j].parent = 0 THEN j ELSE up[entries[j].parent]]
           f == CHOOSE up : F(up)
<1>1. n \in Nat /\ \A j \in 1..n : entries[j].parent \in Nat /\ entries[j].parent < j
  BY EntryTypes, Zenon DEF EntryInv
<1>2. \E up : F(up)
  <2>1. PICK up : Climbs(up, n)
    BY Zenon DEF ClimbInv
  <2>2. up = [j \in 1..n |-> up[j]]
    BY <2>1, Zenon DEF Climbs
  <2>3. \A j \in 1..n : up[j] = IF entries[j].parent = 0 THEN j ELSE up[entries[j].parent]
    BY <2>1, Zenon DEF Climbs
  <2>4. F(up)
    BY <2>2, <2>3
  <2> QED BY <2>4, Zenon
<1>3. F(f)
  <2> HIDE DEF F
  <2> QED BY <1>2, Zenon
<1>4. \A j \in 1..n : f[j] = IF entries[j].parent = 0 THEN j ELSE f[entries[j].parent]
  <2> HIDE DEF f
  <2> QED BY <1>3, Zenon
<1>5. Outer(a) = f[a]
  BY Zenon DEF Outer
<1> HIDE DEF f, F
<1> DEFINE Right(j) == f[j] \in 1..j /\ entries[f[j]].parent = 0
           T == {j \in 1..n : ~Right(j)}
<1>6. T = {}
  <2> SUFFICES ASSUME T # {} PROVE FALSE
    OBVIOUS
  <2>1. T \subseteq Nat
    BY <1>1
  <2>2. PICK j \in T : \A m \in T : j <= m
    <3> HIDE DEF T
    <3> QED BY <2>1, LeastNumber, Zenon
  <2>3. j \in 1..n /\ ~Right(j)
    BY <2>2, Zenon
  <2>4. CASE entries[j].parent = 0
    <3>1. f[j] = j
      BY <1>4, <2>3, <2>4, Zenon
    <3> QED BY <2>3, <2>4, <3>1
  <2>5. CASE entries[j].parent # 0
    <3> DEFINE p == entries[j].parent
    <3>1. p \in 1..n /\ p < j
      BY <1>1, <2>3, <2>5
    <3>2. f[j] = f[p]
      BY <1>4, <2>3, <2>5, Zenon
    <3>3. p \notin T
      <4>1. ~(j <= p)
        BY <2>3, <3>1
      <4> HIDE DEF T
      <4> QED BY <2>2, <4>1, Zenon
    <3>4. Right(p)
      BY <3>1, <3>3, Zenon
    <3>5. f[j] \in 1..j /\ entries[f[j]].parent = 0
      <4>1. f[p] \in 1..p /\ entries[f[p]].parent = 0
        BY <3>4, Zenon
      <4> HIDE DEF p
      <4> QED BY <2>3, <3>1, <3>2, <4>1
    <3> QED BY <2>3, <3>5, Zenon
  <2> QED BY <2>4, <2>5
<1>7. Right(a)
  BY <1>6, Zenon
<1> QED BY <1>5, <1>7, Zenon

(* A number before one of the first n is one of them.                      *)
LEMMA Before ==
    ASSUME NEW n \in Nat, NEW j \in 1..n, NEW q \in Nat, q < j, q # 0
    PROVE  q \in 1..n
OBVIOUS

(* Times in a circle.                                                      *)
LEMMA NoCircle ==
    ASSUME NEW a \in Nat, NEW b \in Nat, NEW c \in Nat, NEW d \in Nat,
           a <= b, b <= c, c <= d, d < a
    PROVE  FALSE
OBVIOUS

(* A frame draws every section that ran in it.                             *)
LEMMA FrameDraws ==
    ASSUME SectionInv
    PROVE  SectionsDrawn
<1> SUFFICES ASSUME NEW f \in 1..(Len(drawn) - 1), drawn[f].active # {},
                    NEW j \in 1..(Len(entries) - 1),
                    entries[j].start < drawn[f + 1].start,
                    drawn[f].start < entries[j].end
             PROVE  j \in DrawnIn(f)
  BY Zenon DEF SectionsDrawn
<1> DEFINE start == drawn[f].start
           end == drawn[f + 1].start
<1>0. EntryInv
  BY Zenon DEF SectionInv
<1>1. /\ \A g \in 1..Len(drawn) : drawn[g].start \in Nat
      /\ f \in 1..Len(drawn) /\ f + 1 \in 1..Len(drawn)
  <2>1. Len(drawn) \in Nat /\ \A g \in 1..Len(drawn) : drawn[g].start \in Nat
    BY FrameTypes, Zenon DEF SectionInv, FrameInv
  <2> QED BY <2>1
<1>2. start \in Nat /\ end \in Nat
  BY <1>1, Zenon
<1>3. PICK a \in drawn[f].active : a \in 1..Len(entries) /\ (a = 1 \/ entries[a].start <= start)
  BY <1>1, Zenon DEF SectionInv, FrameInv
<1>4. Outer(a) \in 1..a /\ entries[Outer(a)].parent = 0
  BY <1>3, OuterIs, Zenon DEF SectionInv
<1> DEFINE r == Outer(a)
           T == {k \in 1..r : k = 1 \/ entries[k].end <= start}
           first == Max(T)
<1>5. /\ Len(entries) \in Nat /\ j \in 1..Len(entries) /\ r \in 1..Len(entries)
      /\ r <= a /\ r \in Nat /\ a \in Nat
  <2>1. Len(entries) \in Nat
    BY <1>0, EntryTypes, Zenon DEF EntryInv
  <2> HIDE DEF r
  <2> QED BY <1>3, <1>4, <2>1 DEF r
<1>6. /\ \A k \in 1..Len(entries) :
            entries[k].start \in Nat /\ entries[k].end \in Nat
      /\ \A k, m \in 1..Len(entries) : k < m => entries[k].start <= entries[m].start
  BY <1>0, EntryTypes, Zenon DEF EntryInv
<1>7. r <= j
  <2> SUFFICES ASSUME j < r PROVE FALSE
    BY <1>5
  <2>1. entries[j].end <= entries[r].start
    BY <1>4, <1>5, Zenon DEF SectionInv, EntryInv
  <2>2. a # 1
    BY <1>4, <1>5
  <2>3. r = a \/ r < a
    BY <1>5
  <2>4. entries[r].start <= entries[a].start
    <3>1. entries[a].start <= entries[a].start
      BY <1>3, <1>6
    <3> QED BY <1>3, <1>5, <1>6, <2>3, <3>1, Zenon
  <2>5. /\ start < entries[j].end /\ entries[a].start <= start
        /\ entries[j].end \in Nat /\ entries[r].start \in Nat /\ entries[a].start \in Nat
    BY <1>3, <1>5, <1>6, <2>2, Zenon
  <2> HIDE DEF start, r
  <2> QED BY <1>2, <2>1, <2>4, <2>5, NoCircle, Zenon
<1>8. first \in 1..r
  <2>1. T \subseteq 0..r /\ 1 \in T
    BY <1>4, <1>5
  <2>2. first \in T
    <3> HIDE DEF T, r
    <3> QED BY <1>5, <2>1, MaxPicks, Zenon
  <2> QED BY <2>2, Zenon
<1>9. j \in first..(Len(entries) - 1) /\ \A k \in first..j : entries[k].start < end
  <2> HIDE DEF first, r, start, end
  <2>1. first \in Nat /\ first >= 1 /\ j \in first..(Len(entries) - 1)
    BY <1>5, <1>7, <1>8
  <2>2. ASSUME NEW k \in first..j PROVE entries[k].start < end
    <3>1. k \in 1..Len(entries) /\ (k = j \/ k < j)
      BY <1>5, <2>1
    <3>2. entries[k].start <= entries[j].start
      <4>1. entries[j].start <= entries[j].start
        BY <1>5, <1>6
      <4> QED BY <1>5, <1>6, <3>1, <4>1, Zenon
    <3>3. entries[j].start < end
      BY DEF end
    <3>4. entries[j].start \in Nat /\ entries[k].start \in Nat
      BY <1>5, <1>6, <3>1, Zenon
    <3>5. \A x, y, z \in Nat : x <= y /\ y < z => x < z
      BY SMT
    <3> QED BY <1>2, <3>2, <3>3, <3>4, <3>5, Zenon
  <2> QED BY <2>1, <2>2
<1>10. j \in Walked(a, start, end)
  BY <1>9, Zenon DEF Walked
<1> QED BY <1>10, Zenon DEF DrawnIn

(* What the two calls of the thread do to its sections.                    *)
LEMMA PushFacts ==
    ASSUME EntryInv, OpenInv, PushSection
    PROVE  LET n == Len(entries)
               p == IF stack = <<>> THEN 0 ELSE stack[Len(stack)]
           IN  /\ n \in Nat /\ Len(entries') = n + 1 /\ p \in Nat /\ p <= n
               /\ entries' \in Seq([start : Nat, end : Nat, parent : Nat])
               /\ \A k \in 1..n : entries'[k] = entries[k]
               /\ entries'[n + 1].start = now /\ entries'[n + 1].parent = p
               /\ p = 0 => stack = <<>>
               /\ stack' = Append(stack, n + 1) /\ now' = now
<1> DEFINE n == Len(entries)
           p == IF stack = <<>> THEN 0 ELSE stack[Len(stack)]
           e == [start |-> now, end |-> Open, parent |-> p]
           V == [start : Nat, end : Nat, parent : Nat]
<1>1. n \in Nat /\ now \in Nat /\ entries \in Seq(V)
  BY EntryTypes, Zenon DEF EntryInv
<1>2. p \in Nat /\ p <= n /\ (p = 0 => stack = <<>>)
  <2>1. CASE stack = <<>>
    BY <1>1, <2>1
  <2>2. CASE stack # <<>>
    <3>1. Len(stack) \in 1..Len(stack)
      BY <2>2 DEF OpenInv
    <3>2. p \in 1..n
      BY <2>2, <3>1, Zenon DEF OpenInv
    <3> QED BY <1>1, <3>2
  <2> QED BY <2>1, <2>2
<1>3. e \in V
  <2>1. Open \in Nat
    BY SectionAssumption DEF Open
  <2> HIDE DEF p
  <2> QED BY <1>1, <1>2, <2>1
<1>4. entries' = Append(entries, e) /\ now' = now /\ stack' = Append(stack, Len(entries'))
  BY Zenon DEF PushSection
<1>5. e.start = now /\ e.parent = p
  BY Zenon
<1> HIDE DEF e, V, p
<1>6. /\ entries' \in Seq(V) /\ Len(entries') = n + 1
      /\ entries'[n + 1] = e /\ \A k \in 1..n : entries'[k] = entries[k]
  <2>1. /\ Append(entries, e) \in Seq(V) /\ Len(Append(entries, e)) = n + 1
        /\ Append(entries, e)[n + 1] = e
        /\ \A k \in 1..n : Append(entries, e)[k] = entries[k]
    BY <1>1, <1>3, WithOneMore
  <2> QED BY <1>4, <2>1, Zenon
<1> QED BY <1>1, <1>2, <1>4, <1>5, <1>6, Zenon DEF V, p

(* What PopSection does to the entries and to the stack.                   *)
LEMMA PopFacts ==
    ASSUME EntryInv, OpenInv, PopSection
    PROVE  LET n == Len(entries)
               m == Len(stack)
           IN  /\ n \in Nat /\ Len(entries') = n /\ m \in Nat \ {0} /\ now' = now
               /\ entries' \in Seq([start : Nat, end : Nat, parent : Nat])
               /\ \A k \in 1..n : /\ entries'[k].start = entries[k].start
                                  /\ entries'[k].parent = entries[k].parent
                                  /\ k # stack[m] => entries'[k].end = entries[k].end
               /\ stack[m] \in 1..n /\ entries'[stack[m]].end = now
               /\ stack' \in Seq(Nat) /\ Len(stack') = m - 1
               /\ \A k \in 1..(m - 1) : stack'[k] = stack[k]
<1> DEFINE n == Len(entries)
           m == Len(stack)
           t == stack[m]
           V == [start : Nat, end : Nat, parent : Nat]
<1>1. n \in Nat /\ now \in Nat /\ entries \in Seq(V)
  BY EntryTypes, Zenon DEF EntryInv
<1>2. stack \in Seq(Nat) /\ stack # <<>>
  BY Zenon DEF OpenInv, PopSection
<1>3. /\ m \in Nat \ {0} /\ SubSeq(stack, 1, m - 1) \in Seq(Nat)
      /\ Len(SubSeq(stack, 1, m - 1)) = m - 1
      /\ \A k \in 1..(m - 1) : SubSeq(stack, 1, m - 1)[k] = stack[k]
  BY <1>2, WithoutLast, Zenon
<1>4. t \in 1..n
  <2>1. m \in 1..Len(stack)
    BY <1>3
  <2> QED BY <2>1, Zenon DEF OpenInv
<1> DEFINE e == [entries[t] EXCEPT !.end = now]
<1>5. /\ entries' = [entries EXCEPT ![t] = e] /\ now' = now
      /\ stack' = SubSeq(stack, 1, m - 1)
  BY DEF PopSection
<1>6. entries[t] \in V
  <2> HIDE DEF V, t
  <2> QED BY <1>1, <1>4, PlacesOf, Zenon
<1>7. e \in V /\ e.start = entries[t].start /\ e.parent = entries[t].parent /\ e.end = now
  <2> HIDE DEF t
  <2> QED BY <1>1, <1>6, Zenon
<1>8. /\ entries' \in Seq(V) /\ Len(entries') = n /\ entries'[t] = e
      /\ \A k \in 1..n : k # t => entries'[k] = entries[k]
  <2> HIDE DEF V, t, e
  <2> DEFINE new == [entries EXCEPT ![t] = e]
  <2>1. /\ new \in Seq(V) /\ Len(new) = n /\ new[t] = e
        /\ \A k \in 1..n : k # t => new[k] = entries[k]
    BY <1>1, <1>4, <1>7, WithOneChanged
  <2> QED BY <1>5, <2>1, Zenon
<1> HIDE DEF e
<1> QED BY <1>1, <1>2, <1>3, <1>4, <1>5, <1>7, <1>8, Zenon

(* PushSectionBase keeps the invariant.                                    *)
LEMMA PushKeeps ==
    ASSUME SectionInv, PushSection
    PROVE  SectionInv'
<1> DEFINE n == Len(entries)
           p == IF stack = <<>> THEN 0 ELSE stack[Len(stack)]
<1>0. EntryInv /\ OpenInv /\ ClimbInv /\ FrameInv
  BY Zenon DEF SectionInv
<1>1. /\ n \in Nat /\ Len(entries') = n + 1 /\ p \in Nat /\ p <= n
      /\ entries' \in Seq([start : Nat, end : Nat, parent : Nat])
      /\ \A k \in 1..n : entries'[k] = entries[k]
      /\ entries'[n + 1].start = now /\ entries'[n + 1].parent = p
      /\ p = 0 => stack = <<>>
      /\ stack' = Append(stack, n + 1) /\ now' = now
  BY <1>0, PushFacts, Zenon
<1>2. /\ now \in Nat
      /\ \A j \in 1..n : entries[j].start <= now /\ entries[j].parent < j
      /\ \A j, k \in 1..n : j < k =>
            /\ entries[j].start <= entries[k].start
            /\ entries[k].parent = 0 => entries[j].end <= entries[k].start
  BY <1>0, Zenon DEF EntryInv
<1>3. stack \in Seq(Nat) /\ Len(stack) \in Nat
  BY <1>0 DEF OpenInv
<1>4. p = 0 => \A j \in 1..n : entries[j].end <= now
  <2> SUFFICES ASSUME p = 0, NEW j \in 1..n PROVE entries[j].end <= now
    BY Zenon
  <2>1. Len(stack) = 0
    BY <1>1
  <2>2. \A k \in 1..Len(stack) : FALSE
    BY <2>1
  <2> QED BY <1>0, <2>2, Zenon DEF OpenInv
<1> HIDE DEF n, p
<1>5. \A j \in 1..(n + 1) : j = n + 1 \/ j \in 1..n
  BY <1>1
<1>6. ASSUME NEW j \in 1..(n + 1)
      PROVE  entries'[j].start <= now /\ entries'[j].parent < j
  <2>1. CASE j = n + 1
    <3>1. now <= now /\ p < n + 1
      <4>1. now \in Nat /\ n \in Nat /\ p \in Nat /\ p <= n
        BY <1>1, <1>2, Zenon
      <4> QED BY <4>1
    <3> QED BY <1>1, <2>1, <3>1, Zenon
  <2>2. CASE j \in 1..n
    BY <1>1, <1>2, <2>2, Zenon
  <2> QED BY <1>5, <2>1, <2>2, ZenonT(30)
<1>7. ASSUME NEW j \in 1..(n + 1), NEW k \in 1..(n + 1), j < k
      PROVE  /\ entries'[j].start <= entries'[k].start
             /\ entries'[k].parent = 0 => entries'[j].end <= entries'[k].start
  <2>1. j \in 1..n
    BY <1>1, <1>7
  <2>2. CASE k = n + 1
    BY <1>1, <1>2, <1>4, <2>1, <2>2, Zenon
  <2>3. CASE k \in 1..n
    BY <1>1, <1>2, <1>7, <2>1, <2>3, Zenon
  <2> QED BY <1>5, <2>2, <2>3
<1>8. EntryInv'
  BY <1>1, <1>2, <1>6, <1>7, ZenonT(30) DEF EntryInv
<1> DEFINE m == Len(stack)
<1>9. /\ stack' \in Seq(Nat) /\ Len(stack') = m + 1 /\ stack'[m + 1] = n + 1
      /\ \A k \in 1..m : stack'[k] = stack[k]
  <2>1. n + 1 \in Nat
    BY <1>1
  <2> QED BY <1>1, <1>3, <2>1, WithOneMore, SMTT(20)
<1>10. \A k \in 1..(m + 1) : k = m + 1 \/ k \in 1..m
  BY <1>3
<1>11. n + 1 \in 1..(n + 1) /\ m + 1 \in 1..(m + 1) /\ 1..n \subseteq 1..(n + 1)
  BY <1>1, <1>3
<1>12. /\ \A k \in 1..m : stack[k] \in 1..n
       /\ \A k \in 1..m, r \in 1..n : stack[k] < r => entries[r].parent # 0
       /\ \A j \in 1..n : entries[j].end <= now \/ \E k \in 1..m : stack[k] = j
  BY <1>0, Zenon DEF OpenInv, n
<1>13. 1..m \subseteq 1..(m + 1)
  BY <1>3
<1> HIDE DEF m
<1>14. OpenInv'
  <2>1. ASSUME NEW k \in 1..(m + 1) PROVE stack'[k] \in 1..(n + 1)
    BY <1>9, <1>10, <1>11, <1>12, Zenon
  <2>2. ASSUME NEW k \in 1..(m + 1), NEW r \in 1..(n + 1), stack'[k] < r
        PROVE  entries'[r].parent # 0
    <3>1. k \in 1..m
      <4>1. k # m + 1
        BY <1>1, <1>9, <2>2
      <4> QED BY <1>10, <4>1, Zenon
    <3>2. CASE r = n + 1
      <4>1. stack # <<>>
        BY <3>1 DEF m
      <4> QED BY <1>1, <3>2, <4>1, Zenon
    <3>3. CASE r \in 1..n
      BY <1>1, <1>9, <1>12, <2>2, <3>1, <3>3, ZenonT(30)
    <3> QED BY <1>5, <3>2, <3>3
  <2>3. ASSUME NEW j \in 1..(n + 1)
        PROVE  entries'[j].end <= now \/ \E k \in 1..(m + 1) : stack'[k] = j
    <3>1. CASE j = n + 1
      BY <1>9, <1>11, <3>1, Zenon
    <3>2. CASE j \in 1..n
      <4>1. entries'[j].end = entries[j].end
        BY <1>1, <3>2, Zenon
      <4> QED BY <1>9, <1>12, <1>13, <3>2, <4>1, Zenon
    <3> QED BY <1>5, <3>1, <3>2
  <2> QED BY <1>1, <1>9, <2>1, <2>2, <2>3, Zenon DEF OpenInv
<1>15. ClimbInv'
  <2>1. PICK up : Climbs(up, n)
    BY <1>0, Zenon DEF ClimbInv, n
  <2>2. /\ up \in [1..n -> Nat]
        /\ \A j \in 1..n : up[j] = IF entries[j].parent = 0 THEN j ELSE up[entries[j].parent]
    BY <2>1, Zenon DEF Climbs
  <2> DEFINE top == IF p = 0 THEN n + 1 ELSE up[p]
             new == [j \in 1..(n + 1) |-> IF j = n + 1 THEN top ELSE up[j]]
  <2>3. top \in Nat
    <3>1. CASE p = 0
      BY <1>1, <3>1
    <3>2. CASE p # 0
      <4>1. p \in 1..n
        BY <1>1, <3>2, SMTT(20)
      <4> QED BY <2>2, <3>2, <4>1, ZenonT(30)
    <3> QED BY <3>1, <3>2
  <2>4. new[n + 1] = top /\ \A j \in 1..n : new[j] = up[j]
    BY <1>1
  <2>5. new \in [1..(n + 1) -> Nat]
    <3> HIDE DEF top
    <3> QED BY <1>5, <2>2, <2>3, ZenonT(30)
  <2>6. ASSUME NEW j \in 1..(n + 1)
        PROVE  new[j] = IF entries'[j].parent = 0 THEN j ELSE new[entries'[j].parent]
    <3> HIDE DEF new
    <3>1. CASE j = n + 1
      <4>1. p # 0 => p \in 1..n
        BY <1>1
      <4> QED BY <1>1, <2>4, <3>1, <4>1, ZenonT(30)
    <3>2. CASE j \in 1..n
      <4>1. entries'[j].parent = entries[j].parent
        BY <1>1, <3>2, Zenon
      <4>2. entries[j].parent # 0 => entries[j].parent \in 1..n
        <5>1. entries[j].parent \in Nat /\ entries[j].parent < j
          BY <1>0, <1>2, <3>2, EntryTypes, Zenon DEF EntryInv, n
        <5> QED BY <1>1, <3>2, <5>1, Before, Zenon
      <4> QED BY <2>2, <2>4, <3>2, <4>1, <4>2, Zenon
    <3> QED BY <1>5, <3>1, <3>2
  <2> HIDE DEF new
  <2>7. \E z : /\ z \in [1..(n + 1) -> Nat]
               /\ \A j \in 1..(n + 1) :
                     z[j] = IF entries'[j].parent = 0 THEN j ELSE z[entries'[j].parent]
    BY <2>5, <2>6, Zenon
  <2> QED BY <1>1, <2>7, Zenon DEF ClimbInv, Climbs
<1>16. FrameInv'
  <2>1. /\ drawn \in Seq([start : Nat, active : SUBSET Nat])
        /\ noted = NotNoted \/ noted \subseteq 1..n
        /\ \A f \in 1..Len(drawn) : \A a \in drawn[f].active :
              a \in 1..n /\ (a = 1 \/ entries[a].start <= drawn[f].start)
    BY <1>0, Zenon DEF FrameInv, n
  <2>2. noted' = NotNoted \/ noted' \subseteq 1..(n + 1)
    BY <1>11, <2>1, Zenon DEF PushSection
  <2>3. \A f \in 1..Len(drawn) : \A a \in drawn[f].active :
           a \in 1..(n + 1) /\ (a = 1 \/ entries'[a].start <= drawn[f].start)
    BY <1>1, <1>11, <2>1, Zenon
  <2>4. CASE drawn' = drawn
    BY <1>1, <2>1, <2>2, <2>3, <2>4, Zenon DEF FrameInv
  <2>5. CASE drawn # <<>> /\ drawn' = [drawn EXCEPT ![Len(drawn)].active = @ \cup {1}]
    <3> DEFINE g == Len(drawn)
               V == [start : Nat, active : SUBSET Nat]
               d == [drawn[g] EXCEPT !.active = @ \cup {1}]
    <3>1. g \in 1..Len(drawn)
      BY <2>1, <2>5
    <3>2. drawn[g] \in V
      <4> HIDE DEF V
      <4> QED BY <2>1, <3>1, PlacesOf, Zenon DEF V
    <3>3. d \in V /\ d.start = drawn[g].start /\ d.active = drawn[g].active \cup {1}
      BY <3>2
    <3>4. drawn' = [drawn EXCEPT ![g] = d]
      BY <2>5
    <3>5. /\ drawn' \in Seq(V) /\ Len(drawn') = g /\ drawn'[g] = d
          /\ \A f \in 1..g : f # g => drawn'[f] = drawn[f]
      <4> HIDE DEF d, V
      <4>1. drawn \in Seq(V)
        BY <2>1, Zenon DEF V
      <4> QED BY <3>1, <3>3, <3>4, <4>1, WithOneChanged
    <3> HIDE DEF d
    <3>6. 1 \in 1..(n + 1)
      BY <1>1
    <3>7. ASSUME NEW f \in 1..g, NEW a \in drawn'[f].active
          PROVE  a \in 1..(n + 1) /\ (a = 1 \/ entries'[a].start <= drawn'[f].start)
      <4>1. CASE f = g
        BY <2>3, <3>1, <3>3, <3>5, <3>6, <3>7, <4>1, ZenonT(30)
      <4>2. CASE f # g
        BY <2>3, <3>5, <3>7, <4>2, ZenonT(30)
      <4> QED BY <4>1, <4>2
    <3> QED BY <1>1, <2>2, <3>5, <3>7, Zenon DEF FrameInv
  <2> QED BY <2>4, <2>5, Zenon DEF PushSection
<1> QED BY <1>8, <1>14, <1>15, <1>16, Zenon DEF SectionInv

(* So does PopSection.                                                     *)
LEMMA PopKeeps ==
    ASSUME SectionInv, PopSection
    PROVE  SectionInv'
<1> DEFINE n == Len(entries)
           m == Len(stack)
           t == stack[m]
<1>0. EntryInv /\ OpenInv /\ ClimbInv /\ FrameInv
  BY Zenon DEF SectionInv
<1>1. /\ n \in Nat /\ Len(entries') = n /\ m \in Nat \ {0} /\ now' = now
      /\ entries' \in Seq([start : Nat, end : Nat, parent : Nat])
      /\ \A k \in 1..n : /\ entries'[k].start = entries[k].start
                         /\ entries'[k].parent = entries[k].parent
                         /\ k # t => entries'[k].end = entries[k].end
      /\ t \in 1..n /\ entries'[t].end = now
      /\ stack' \in Seq(Nat) /\ Len(stack') = m - 1
      /\ \A k \in 1..(m - 1) : stack'[k] = stack[k]
  BY <1>0, PopFacts, Zenon
<1>2. /\ now \in Nat
      /\ \A j \in 1..n : entries[j].start <= now /\ entries[j].parent < j
      /\ \A j, k \in 1..n : j < k =>
            /\ entries[j].start <= entries[k].start
            /\ entries[k].parent = 0 => entries[j].end <= entries[k].start
  BY <1>0, Zenon DEF EntryInv
<1>3. /\ \A k \in 1..m : stack[k] \in 1..n
      /\ \A k \in 1..m, r \in 1..n : stack[k] < r => entries[r].parent # 0
      /\ \A j \in 1..n : entries[j].end <= now \/ \E k \in 1..m : stack[k] = j
  BY <1>0, Zenon DEF OpenInv
<1>4. m \in 1..m /\ 1..(m - 1) \subseteq 1..m /\ \A k \in 1..m : k = m \/ k \in 1..(m - 1)
  <2>1. m \in Nat \ {0}
    BY <1>1, Zenon
  <2> HIDE DEF m
  <2> QED BY <2>1
<1>5. now <= now
  BY <1>2
<1> HIDE DEF n, m
<1>6. ASSUME NEW j \in 1..n, NEW k \in 1..n, j < k, entries'[k].parent = 0
      PROVE  entries'[j].end <= entries'[k].start
  <2>1. j # t
    BY <1>1, <1>3, <1>4, <1>6, ZenonT(30)
  <2> QED BY <1>1, <1>2, <1>6, <2>1, Zenon
<1>7. EntryInv'
  <2>1. /\ \A j \in 1..n : entries'[j].start <= now /\ entries'[j].parent < j
        /\ \A j, k \in 1..n : j < k => entries'[j].start <= entries'[k].start
    BY <1>1, <1>2, Zenon
  <2> QED BY <1>1, <1>2, <1>6, <2>1, Zenon DEF EntryInv
<1>8. OpenInv'
  <2>1. ASSUME NEW k \in 1..(m - 1)
        PROVE  /\ stack'[k] \in 1..n
               /\ \A r \in 1..n : stack'[k] < r => entries'[r].parent # 0
    BY <1>1, <1>3, <1>4, ZenonT(30)
  <2>2. ASSUME NEW j \in 1..n
        PROVE  entries'[j].end <= now \/ \E k \in 1..(m - 1) : stack'[k] = j
    <3>1. CASE j = t
      BY <1>1, <1>5, <3>1, Zenon
    <3>2. CASE j # t
      <4>1. entries'[j].end = entries[j].end
        BY <1>1, <3>2, Zenon
      <4> QED BY <1>1, <1>3, <1>4, <3>2, <4>1, ZenonT(30)
    <3> QED BY <3>1, <3>2
  <2> QED BY <1>1, <2>1, <2>2, Zenon DEF OpenInv
<1>9. ClimbInv'
  <2>1. PICK up : Climbs(up, n)
    BY <1>0, Zenon DEF ClimbInv, n
  <2>2. /\ up \in [1..n -> Nat]
        /\ \A j \in 1..n :
              up[j] = IF entries'[j].parent = 0 THEN j ELSE up[entries'[j].parent]
    BY <1>1, <2>1, ZenonT(30) DEF Climbs
  <2> QED BY <1>1, <2>2, ZenonT(30) DEF ClimbInv, Climbs
<1>10. FrameInv'
  <2>1. drawn' = drawn /\ noted' = noted
    BY Zenon DEF PopSection
  <2> QED BY <1>0, <1>1, <2>1, ZenonT(30) DEF FrameInv, n
<1> QED BY <1>7, <1>8, <1>9, <1>10, Zenon DEF SectionInv

(* NewFrame leaves the sections alone.                                     *)
LEMMA NewFrameKeeps ==
    ASSUME SectionInv, NoteActive \/ StampFrame
    PROVE  SectionInv'
<1> DEFINE n == Len(entries)
           V == [start : Nat, active : SUBSET Nat]
<1>0. EntryInv /\ OpenInv /\ ClimbInv /\ FrameInv
  BY Zenon DEF SectionInv
<1>1. entries' = entries /\ stack' = stack /\ now' = now
  BY Zenon DEF NoteActive, StampFrame
<1>2. (EntryInv /\ OpenInv /\ ClimbInv)'
  BY <1>0, <1>1, ZenonT(30) DEF EntryInv, OpenInv, ClimbInv, Climbs
<1>3. n \in Nat /\ now \in Nat /\ \A j \in 1..n : entries[j].start <= now
  BY <1>0, EntryTypes, Zenon DEF EntryInv
<1>4. /\ drawn \in Seq(V)
      /\ noted = NotNoted \/ noted \subseteq 1..n
      /\ \A f \in 1..Len(drawn) : \A a \in drawn[f].active :
            a \in 1..n /\ (a = 1 \/ entries[a].start <= drawn[f].start)
  BY <1>0, Zenon DEF FrameInv
<1>5. CASE NoteActive
  <2>1. drawn' = drawn /\ noted' = IF entries = <<>> THEN {} ELSE {n}
    BY <1>5, Zenon DEF NoteActive
  <2>2. entries # <<>> => n \in 1..n
    BY <1>0 DEF EntryInv
  <2>3. noted' \subseteq 1..n
    BY <2>1, <2>2, Zenon
  <2> QED BY <1>1, <1>2, <1>4, <2>1, <2>3, Zenon DEF SectionInv, FrameInv
<1>6. CASE StampFrame
  <2> DEFINE d == [start |-> now, active |-> noted]
  <2>1. drawn' = Append(drawn, d) /\ noted' = NotNoted /\ noted \subseteq 1..n
    BY <1>4, <1>6, Zenon DEF StampFrame
  <2>2. d \in V /\ d.start = now /\ d.active = noted
    <3>1. noted \in SUBSET Nat
      BY <1>3, <2>1
    <3> QED BY <1>3, <3>1, ZenonT(30)
  <2> HIDE DEF d, V
  <2>3. Len(drawn) \in Nat
    BY <1>4, PlacesOf, ZenonT(30)
  <2>4. /\ drawn' \in Seq(V) /\ Len(drawn') = Len(drawn) + 1
        /\ drawn'[Len(drawn) + 1] = d
        /\ \A k \in 1..Len(drawn) : drawn'[k] = drawn[k]
    BY <1>4, <2>1, <2>2, WithOneMore
  <2>5. \A f \in 1..(Len(drawn) + 1) : f = Len(drawn) + 1 \/ f \in 1..Len(drawn)
    BY <2>3
  <2>6. ASSUME NEW f \in 1..(Len(drawn) + 1), NEW a \in drawn'[f].active
        PROVE  a \in 1..n /\ (a = 1 \/ entries[a].start <= drawn'[f].start)
    <3>1. CASE f = Len(drawn) + 1
      BY <1>3, <2>1, <2>2, <2>4, <2>6, <3>1, Zenon
    <3>2. CASE f \in 1..Len(drawn)
      BY <1>4, <2>4, <2>6, <3>2, Zenon
    <3> QED BY <2>5, <3>1, <3>2
  <2>7. FrameInv'
    BY <1>1, <2>1, <2>4, <2>6, Zenon DEF FrameInv, V
  <2> QED BY <1>2, <2>7, Zenon DEF SectionInv
<1> QED BY <1>5, <1>6

(* Time passes.                                                            *)
LEMMA ElapseKeeps ==
    ASSUME SectionInv, Elapse
    PROVE  SectionInv'
<1>0. EntryInv /\ OpenInv /\ ClimbInv /\ FrameInv
  BY Zenon DEF SectionInv
<1>1. /\ entries' = entries /\ stack' = stack /\ drawn' = drawn /\ noted' = noted
      /\ now' = now + 1
  BY Zenon DEF Elapse
<1>2. now \in Nat /\ now + 1 \in Nat /\ \A k \in Nat : k <= now => k <= now + 1
  BY <1>0 DEF EntryInv
<1>3. \A j \in 1..Len(entries) : entries[j].start \in Nat /\ entries[j].end \in Nat
  BY <1>0, EntryTypes, Zenon DEF EntryInv
<1>4. EntryInv' /\ OpenInv'
  BY <1>0, <1>1, <1>2, <1>3, Zenon DEF EntryInv, OpenInv
<1>5. ClimbInv' /\ FrameInv'
  BY <1>0, <1>1, Zenon DEF ClimbInv, Climbs, FrameInv
<1> QED BY <1>4, <1>5, Zenon DEF SectionInv

(* Every section that ran in a frame is drawn in it.                       *)
THEOREM FramesDrawSections == SectionSpec => []SectionsDrawn
<1>1. SectionInit => SectionInv
  <2> SUFFICES ASSUME SectionInit PROVE SectionInv
    OBVIOUS
  <2>1. entries = <<>> /\ stack = <<>> /\ drawn = <<>> /\ noted = NotNoted /\ now = 0
    BY ZenonT(30) DEF SectionInit
  <2>2. EntryInv /\ OpenInv /\ FrameInv
    BY <2>1 DEF EntryInv, OpenInv, FrameInv
  <2>3. ClimbInv
    <3>1. Len(entries) = 0
      BY <2>1
    <3>2. [j \in 1..0 |-> 0] \in [1..0 -> Nat] /\ \A j \in 1..0 : FALSE
      OBVIOUS
    <3> QED BY <3>1, <3>2, Zenon DEF ClimbInv, Climbs
  <2> QED BY <2>2, <2>3, Zenon DEF SectionInv
<1>2. SectionInv /\ [SectionNext]_sectionVars => SectionInv'
  <2> SUFFICES ASSUME SectionInv, [SectionNext]_sectionVars PROVE SectionInv'
    OBVIOUS
  <2>1. CASE UNCHANGED sectionVars
    BY <2>1, ZenonT(30) DEF sectionVars, SectionInv, EntryInv, OpenInv, ClimbInv, Climbs, FrameInv
  <2> QED BY <2>1, PushKeeps, PopKeeps, NewFrameKeeps, ElapseKeeps, Zenon DEF SectionNext
<1> QED BY <1>1, <1>2, FrameDraws, PTL DEF SectionSpec

-----------------------------------------------------------------------------
(* The indexer.  After some iterations: an index that was given names an   *)
(* output that is the input, and an output that is in the list twice, or   *)
(* of which an input has no index yet, is farthest along the plane.        *)
Farthest(in, v) == \A j \in 1..Len(in) : Distance(in[j]) <= Distance(v)

Partial(in, out, given) ==
    /\ out \in Seq(Vertex) /\ given \in [1..Len(in) -> Nat]
    /\ \A j \in 1..Len(in) : given[j] # 0 =>
          given[j] \in 1..Len(out) /\ out[given[j]] = in[j]
    /\ \A m \in 1..Len(out), j \in 1..Len(in) :
          in[j] = out[m] /\ given[j] = 0 => Farthest(in, out[m])
    /\ \A m, n \in 1..Len(out) : m # n /\ out[m] = out[n] => Farthest(in, out[m])

(* One iteration gives the input an index and takes none away.             *)
LEMMA IterationIndexes ==
    ASSUME NEW in \in Seq(Vertex), NEW acc, NEW i \in 1..Len(in),
           Partial(in, acc.out, acc.given)
    PROVE  LET new == IndexStep(in, acc, i)
           IN  /\ Partial(in, new.out, new.given) /\ new.given[i] # 0
               /\ \A j \in 1..Len(in) : acc.given[j] # 0 => new.given[j] # 0
<1> DEFINE out == acc.out
           given == acc.given
           N == Len(in)
           new == IndexStep(in, acc, i)
<1>0. /\ out \in Seq(Vertex) /\ given \in [1..N -> Nat]
      /\ \A j \in 1..N : given[j] # 0 => given[j] \in 1..Len(out) /\ out[given[j]] = in[j]
      /\ \A m \in 1..Len(out), j \in 1..N :
            in[j] = out[m] /\ given[j] = 0 => Farthest(in, out[m])
      /\ \A m, n \in 1..Len(out) : m # n /\ out[m] = out[n] => Farthest(in, out[m])
  BY Zenon DEF Partial
<1>1. CASE given[i] # 0
  <2>1. new = acc
    BY <1>1, Zenon DEF IndexStep
  <2> QED BY <1>1, <2>1, Zenon
<1>2. CASE given[i] = 0
  <2> DEFINE n == Len(out) + 1
             out2 == Append(out, in[i])
             Gets(j) == j = i \/ (j \in SameAs(in, i) /\ given[j] = 0)
             given2 == [j \in 1..N |-> IF Gets(j) THEN n ELSE given[j]]
  <2>0. DOMAIN in = 1..N /\ N \in Nat /\ in[i] \in Vertex
    OBVIOUS
  <2>1. new = [out |-> out2, given |-> given2]
    BY <1>2, <2>0, Zenon DEF IndexStep
  <2>2. new.out = out2 /\ new.given = given2
    <3> HIDE DEF new, out2, given2
    <3> QED BY <2>1, Zenon
  <2>3. /\ out2 \in Seq(Vertex) /\ Len(out2) = n /\ out2[n] = in[i]
        /\ \A m \in 1..Len(out) : out2[m] = out[m]
    <3>1. out \in Seq(Vertex) /\ in[i] \in Vertex
      BY <1>0, <2>0, Zenon
    <3> HIDE DEF out, N
    <3>2. ASSUME NEW s \in Seq(Vertex), NEW e \in Vertex
          PROVE  /\ Append(s, e) \in Seq(Vertex) /\ Len(Append(s, e)) = Len(s) + 1
                 /\ Append(s, e)[Len(s) + 1] = e
                 /\ \A m \in 1..Len(s) : Append(s, e)[m] = s[m]
      BY SMT
    <3> QED BY <3>1, <3>2, Zenon
  <2>a. Len(out) \in Nat
    <3>1. out \in Seq(Vertex)
      BY <1>0, Zenon
    <3> HIDE DEF out, N
    <3> QED BY <3>1, SMTT(20)
  <2>4. n \in Nat /\ n # 0 /\ n \in 1..n
        /\ \A m \in 1..n : m = n \/ m \in 1..Len(out)
    <3> HIDE DEF out, N
    <3> QED BY <2>a, SMTT(20)
  <2>5. 1..Len(out) \subseteq 1..n
    <3> HIDE DEF out, N
    <3> QED BY <2>a, SMTT(20)
  <2>6. \A j \in 1..N : in[j] = in[i] => j \in SameAs(in, i) \/ Farthest(in, in[i])
    <3> SUFFICES ASSUME NEW j \in 1..N, in[j] = in[i], ~Farthest(in, in[i])
                 PROVE  j \in SameAs(in, i)
      BY Zenon
    <3>1. PICK k \in 1..N : ~(Distance(in[k]) <= Distance(in[i]))
      BY Zenon DEF Farthest
    <3>2. Distance(in[k]) > Distance(in[i])
      BY <3>1 DEF Distance
    <3>3. j \in Find(in, in[i])
      BY <2>0, <3>2, Zenon DEF Find
    <3> QED BY <3>3, Zenon DEF SameAs
  <2>7. \A j \in 1..N : Gets(j) => in[j] = in[i]
    BY Zenon DEF SameAs
  <2> HIDE DEF n, out2, Gets
  <2>8. \A j \in 1..N : given2[j] = IF Gets(j) THEN n ELSE given[j]
    BY Zenon
  <2>9. given2 \in [1..N -> Nat]
    BY <1>0, <2>4, Zenon
  <2> HIDE DEF given2
  <2>10. ASSUME NEW j \in 1..N, given2[j] # 0
         PROVE  given2[j] \in 1..n /\ out2[given2[j]] = in[j]
    <3>1. CASE Gets(j)
      BY <2>3, <2>4, <2>7, <2>8, <3>1, Zenon
    <3>2. CASE ~Gets(j)
      BY <1>0, <2>3, <2>5, <2>8, <2>10, <3>2, Zenon
    <3> QED BY <3>1, <3>2
  <2>11. ASSUME NEW m \in 1..n, NEW j \in 1..N, in[j] = out2[m], given2[j] = 0
         PROVE  Farthest(in, out2[m])
    <3>1. ~Gets(j) /\ given[j] = 0
      BY <2>4, <2>8, <2>11, Zenon
    <3>2. CASE m = n
      BY <2>3, <2>6, <2>11, <3>1, <3>2, Zenon DEF Gets
    <3>3. CASE m \in 1..Len(out)
      BY <1>0, <2>3, <2>11, <3>1, <3>3, Zenon
    <3> QED BY <2>4, <3>2, <3>3
  <2>12. ASSUME NEW m \in 1..n, NEW k \in 1..n, m # k, out2[m] = out2[k]
         PROVE  Farthest(in, out2[m])
    <3>1. ASSUME NEW l \in 1..Len(out), out2[l] = in[i] PROVE Farthest(in, in[i])
      BY <1>0, <1>2, <2>3, <3>1, Zenon
    <3>2. CASE m = n \/ k = n
      BY <2>3, <2>4, <2>12, <3>1, <3>2, Zenon
    <3>3. CASE m \in 1..Len(out) /\ k \in 1..Len(out)
      BY <1>0, <2>3, <2>12, <3>3, Zenon
    <3> QED BY <2>4, <3>2, <3>3
  <2>13. Partial(in, out2, given2)
    BY <2>3, <2>9, <2>10, <2>11, <2>12, Zenon DEF Partial
  <2>14. given2[i] # 0 /\ \A j \in 1..N : given[j] # 0 => given2[j] # 0
    BY <2>4, <2>8, Zenon DEF Gets
  <2> QED BY <2>2, <2>13, <2>14, Zenon
<1> QED BY <1>1, <1>2

(* The states that the loop goes through.                                  *)
Iterates(in, f, n) ==
    /\ f[0] = [out |-> <<>>, given |-> [j \in DOMAIN in |-> 0]]
    /\ \A i \in 1..n : f[i] = IndexStep(in, f[i - 1], i)

(* There are such states, and Indexed is the last of them.                 *)
LEMMA LoopRuns ==
    ASSUME NEW in \in Seq(Vertex)
    PROVE  \E f : /\ Indexed(in) = f[Len(in)] /\ Iterates(in, f, Len(in))
<1> DEFINE N == Len(in)
           start == [out |-> <<>>, given |-> [j \in DOMAIN in |-> 0]]
           F(f, n) == f = [i \in 0..n |-> IF i = 0 THEN start
                                          ELSE IndexStep(in, f[i - 1], i)]
           T == {n \in Nat : ~(\E f : F(f, n))}
<1>1. N \in Nat
  OBVIOUS
<1>2. T = {}
  <2> SUFFICES ASSUME T # {} PROVE FALSE
    OBVIOUS
  <2>1. PICK n \in T : \A m \in T : n <= m
    <3>1. T \subseteq Nat
      BY Zenon
    <3> HIDE DEF T
    <3> QED BY <3>1, LeastNumber, Zenon
  <2>2. n \in Nat /\ ~(\E f : F(f, n))
    BY <2>1, Zenon
  <2>3. n # 0
    <3> SUFFICES ASSUME n = 0 PROVE FALSE
      OBVIOUS
    <3> DEFINE f == [i \in 0..n |-> start]
    <3>1. F(f, n)
      <4> HIDE DEF start
      <4> QED OBVIOUS
    <3> QED BY <2>2, <3>1, Zenon
  <2>4. n - 1 \in Nat /\ ~(n <= n - 1)
    BY <2>2, <2>3
  <2>5. PICK f : F(f, n - 1)
    <3>1. n - 1 \notin T
      BY <2>1, <2>4, Zenon
    <3> QED BY <2>4, <3>1, Zenon
  <2> DEFINE g == [i \in 0..n |-> IF i = n THEN IndexStep(in, f[n - 1], n) ELSE f[i]]
  <2> HIDE DEF start
  <2>6. \A i \in 0..(n - 1) : f[i] = IF i = 0 THEN start ELSE IndexStep(in, f[i - 1], i)
    BY <2>5, Zenon
  <2>7. \A i \in 0..(n - 1) : g[i] = f[i]
    BY <2>2
  <2>8. g[n] = IndexStep(in, f[n - 1], n)
    BY <2>2
  <2>9. n - 1 \in 0..(n - 1)
    BY <2>4
  <2>10. ASSUME NEW i \in 0..n
         PROVE  g[i] = IF i = 0 THEN start ELSE IndexStep(in, g[i - 1], i)
    <3> HIDE DEF g
    <3>1. CASE i = n
      BY <2>3, <2>7, <2>8, <2>9, <3>1, Zenon
    <3>2. CASE i # n
      <4>1. i \in 0..(n - 1) /\ (i # 0 => i - 1 \in 0..(n - 1))
        BY <2>2, <3>2
      <4> QED BY <2>6, <2>7, <4>1, Zenon
    <3> QED BY <3>1, <3>2
  <2>11. g = [i \in 0..n |-> g[i]]
    BY Zenon
  <2>12. F(g, n)
    <3> HIDE DEF g
    <3> QED BY <2>10, <2>11, Zenon
  <2> QED BY <2>2, <2>12, Zenon
<1> DEFINE f == CHOOSE h : F(h, N)
<1>3. F(f, N)
  <2>1. \E h : F(h, N)
    BY <1>1, <1>2, Zenon
  <2> HIDE DEF F
  <2> QED BY <2>1, Zenon
<1>4. Indexed(in) = f[N]
  BY Zenon DEF Indexed
<1> HIDE DEF f
<1>5. Iterates(in, f, N)
  <2> HIDE DEF start
  <2>1. \A i \in 0..N : f[i] = IF i = 0 THEN start ELSE IndexStep(in, f[i - 1], i)
    BY <1>3, Zenon
  <2>2. 0 \in 0..N /\ \A i \in 1..N : i \in 0..N /\ i # 0
    BY <1>1
  <2>3. f[0] = start /\ \A i \in 1..N : f[i] = IndexStep(in, f[i - 1], i)
    BY <2>1, <2>2, Zenon
  <2> QED BY <2>3, Zenon DEF Iterates, start
<1> QED BY <1>4, <1>5, Zenon

(* After the loop every input has an index.                                *)
LEMMA LoopIndexes ==
    ASSUME NEW in \in Seq(Vertex)
    PROVE  /\ Partial(in, Indexed(in).out, Indexed(in).given)
           /\ \A j \in 1..Len(in) : Indexed(in).given[j] # 0
<1> DEFINE N == Len(in)
<1>0. N \in Nat /\ DOMAIN in = 1..N
  OBVIOUS
<1>1. PICK f : Indexed(in) = f[N] /\ Iterates(in, f, N)
  BY LoopRuns, Zenon
<1>2. /\ f[0] = [out |-> <<>>, given |-> [j \in 1..N |-> 0]]
      /\ \A i \in 1..N : f[i] = IndexStep(in, f[i - 1], i)
  BY <1>0, <1>1, Zenon DEF Iterates
<1> DEFINE Good(i) == /\ Partial(in, f[i].out, f[i].given)
                      /\ \A j \in 1..i : f[i].given[j] # 0
           T == {i \in 0..N : ~Good(i)}
<1>3. T = {}
  <2> SUFFICES ASSUME T # {} PROVE FALSE
    BY ZenonT(30)
  <2>1. PICK i \in T : \A m \in T : i <= m
    <3>1. T \subseteq Nat
      BY <1>0
    <3> HIDE DEF T
    <3> QED BY <3>1, LeastNumber, Zenon
  <2>2. i \in 0..N /\ ~Good(i)
    BY <2>1, Zenon
  <2>3. i # 0
    <3>1. f[0].out = <<>> /\ f[0].given = [j \in 1..N |-> 0]
      BY <1>2
    <3>2. [j \in 1..N |-> 0] \in [1..N -> Nat] /\ \A j \in 1..N : [k \in 1..N |-> 0][j] = 0
      BY ZenonT(30)
    <3>3. <<>> \in Seq(Vertex) /\ \A m \in 1..Len(<<>>) : FALSE
      OBVIOUS
    <3>4. Partial(in, <<>>, [j \in 1..N |-> 0])
      BY <3>2, <3>3, Zenon DEF Partial
    <3>5. \A j \in 1..0 : FALSE
      OBVIOUS
    <3>6. Good(0)
      BY <3>1, <3>4, <3>5, Zenon
    <3> QED BY <2>2, <3>6, Zenon
  <2>4. /\ i \in 1..N /\ i - 1 \in 0..N /\ ~(i <= i - 1)
        /\ \A j \in 1..i : j \in 1..N /\ (j = i \/ j \in 1..(i - 1))
    BY <1>0, <2>2, <2>3
  <2>5. Good(i - 1)
    <3>1. i - 1 \notin T
      BY <2>1, <2>4, Zenon
    <3> QED BY <2>4, <3>1, Zenon
  <2> DEFINE acc == f[i - 1]
  <2>6. f[i] = IndexStep(in, acc, i)
    BY <1>2, <2>4, Zenon
  <2>7. Partial(in, acc.out, acc.given) /\ \A j \in 1..(i - 1) : acc.given[j] # 0
    BY <2>5, Zenon
  <2> HIDE DEF acc
  <2>8. /\ Partial(in, f[i].out, f[i].given) /\ f[i].given[i] # 0
        /\ \A j \in 1..N : acc.given[j] # 0 => f[i].given[j] # 0
    <3>1. /\ Partial(in, IndexStep(in, acc, i).out, IndexStep(in, acc, i).given)
          /\ IndexStep(in, acc, i).given[i] # 0
          /\ \A j \in 1..N : acc.given[j] # 0 => IndexStep(in, acc, i).given[j] # 0
      BY <2>4, <2>7, IterationIndexes, ZenonT(30)
    <3> QED BY <2>6, <3>1, ZenonT(30)
  <2> QED BY <2>2, <2>4, <2>7, <2>8, Zenon
<1>4. Good(N)
  <2>1. N \in 0..N
    BY <1>0
  <2> QED BY <1>3, <2>1, Zenon
<1> QED BY <1>1, <1>4, Zenon

(* The output with its indices is the input, shared where it can be.       *)
THEOREM IndexingIsRight == GeometrySpec => []IndexRight
<1>1. GeometryInit => IndexRight
  <2> SUFFICES ASSUME GeometryInit PROVE IndexRight
    OBVIOUS
  <2>1. indexed.in = <<>> /\ indexed.out = <<>> /\ indexed.indices = <<>>
    BY DEF GeometryInit
  <2>2. DOMAIN <<>> = {}
    OBVIOUS
  <2> QED BY <2>1, <2>2, Zenon DEF IndexRight
<1>2. IndexRight /\ [GeometryNext]_indexed => IndexRight'
  <2> SUFFICES ASSUME IndexRight, [GeometryNext]_indexed PROVE IndexRight'
    OBVIOUS
  <2>1. CASE UNCHANGED indexed
    BY <2>1, Zenon DEF IndexRight
  <2>2. CASE GeometryNext
    <3>1. PICK n \in 0..MaxVertices : \E in \in [1..n -> Vertex] : CallIndex(in)
      BY <2>2, Zenon DEF GeometryNext
    <3>2. PICK in \in [1..n -> Vertex] : CallIndex(in)
      BY <3>1, Zenon
    <3>3. in \in Seq(Vertex)
      BY <3>1
    <3> DEFINE out == Indexed(in).out
               given == Indexed(in).given
               N == Len(in)
    <3>4. DOMAIN in = 1..N
      BY <3>3
    <3>5. Partial(in, out, given) /\ \A j \in 1..N : given[j] # 0
      BY <3>3, LoopIndexes, Zenon
    <3>6. indexed'.in = in /\ indexed'.out = out /\ indexed'.indices = given
      BY <3>2, Zenon DEF CallIndex
    <3> HIDE DEF out, given
    <3>7. out \in Seq(Vertex) /\ given \in [1..N -> Nat]
      BY <3>5, Zenon DEF Partial
    <3>8. DOMAIN out = 1..Len(out) /\ DOMAIN given = 1..N
      BY <3>7
    <3>9. /\ \A j \in 1..N : given[j] \in 1..Len(out) /\ out[given[j]] = in[j]
          /\ \A m, k \in 1..Len(out) : m # k /\ out[m] = out[k] =>
                \A j \in 1..N : Distance(in[j]) <= Distance(out[m])
      BY <3>5, Zenon DEF Partial, Farthest
    <3> QED BY <3>4, <3>6, <3>8, <3>9, Zenon DEF IndexRight
  <2> QED BY <2>1, <2>2
<1> QED BY <1>1, <1>2, PTL DEF GeometrySpec
=============================================================================
