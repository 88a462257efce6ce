--------------------------- MODULE ProfilerProofs ---------------------------
(***************************************************************************)
(* Proofs about Profiler, for any threads, settings and number of resets:  *)
(* a slot has one thread and is not overrun, a call stack is the scopes    *)
(* its thread is in, sections nest, and a frame shows what was written     *)
(* unless threads raced for a place of it.                                 *)
(*                                                                         *)
(* The inductive invariant, RecordInv, says what is in a slot apart from   *)
(* how it belongs to the thread that has it, because a call that a Reset   *)
(* overtook goes on in a slot that by then is another thread's (stray).    *)
(***************************************************************************)
EXTENDS Profiler, TLAPS

(* What is in a slot and in a frame.                                       *)
Entry == [parent : Nat, open : BOOLEAN]
Info == [threadIndex : Slot, activeEntry : Nat]

(* Every variable has its type.                                            *)
TypeInv ==
    /\ gPaused \in BOOLEAN /\ gRequestPause \in BOOLEAN /\ gRestarting \in BOOLEAN
    /\ gProfilerGeneration \in 0..MaxRuns
    /\ gCurrentFrame \in 0..MaxFrames /\ gCurrentRegion \in 0..MaxRegions
    /\ initialized \in [Slot -> BOOLEAN]
    /\ entries \in [Slot -> Seq(Entry)]
    /\ entryStack \in [Slot -> Seq(Nat)]
    /\ frameThreads \in [1..MaxFrames -> Seq(Info)]
    /\ gThreadIndexTLS \in [Thread -> 0..MaxThreads]
    /\ gGenerationTLS \in [Thread -> 0..MaxRuns]
    /\ pc \in [Thread -> Step]
    /\ place \in [Thread -> [frame : 0..MaxFrames, index : Nat]]
    /\ scopes \in [Thread -> Seq(Nat)]
    /\ stray \subseteq Slot /\ raced \subseteq 1..MaxFrames

(* The calls that write what they have a slot for.                         *)
Calls == {"push", "write", "first", "place", "pop", "close"}

(* Who has which slot.  A call that is under way has a slot of this run,   *)
(* or one that is stray; nothing runs before the first Reset.              *)
ThreadRun(t) ==
    /\ gGenerationTLS[t] <= gProfilerGeneration
    /\ pc[t] # "idle" => gThreadIndexTLS[t] # 0
    /\ pc[t] = "frame" => t = UI /\ gCurrentFrame < MaxFrames
    /\ pc[t] \in {"begin", "end", "region"} => t = Audio
    /\ pc[t] = "region" => gCurrentRegion < MaxRegions
    /\ pc[t] \in Calls => HasSlot(t) \/ gThreadIndexTLS[t] \in stray
    /\ HasSlot(t) => initialized[gThreadIndexTLS[t]]

RunInv ==
    /\ gProfilerGeneration = 0 => gPaused /\ \A t \in Thread : pc[t] = "idle"
    /\ gProfilerGeneration # 0 => gThreadIndexTLS[UI] # 0 /\ initialized[1]
    /\ \A t \in Thread : ThreadRun(t)
    /\ \A t, u \in Thread :
          t # u /\ HasSlot(t) /\ HasSlot(u) => gThreadIndexTLS[t] # gThreadIndexTLS[u]

(* The scopes sc of a thread that is at at.  A thread that has no slot in  *)
(* this run has recorded none of them.                                     *)
ScopesRight(sc, at, has) ==
    /\ Len(sc) <= MaxCallStack
    /\ at \in {"push", "write", "pop", "close"} => sc # <<>>
    /\ at \in {"push", "write"} => sc[Len(sc)] = 0
    /\ ~has => \A i \in 1..Len(sc) : sc[i] = 0

ThreadScopes(t) == ScopesRight(scopes[t], pc[t], HasSlot(t))

ScopeInv == \A t \in Thread : ThreadScopes(t)

(* The call stack st of a slot with the entries es: its entries are nested *)
(* in each other, and no others are open.                                  *)
Nested(es, st) ==
    /\ \A k \in 1..Len(st) :
          /\ st[k] \in 1..Len(es)
          /\ es[st[k]].open
          /\ es[st[k]].parent = IF k = 1 THEN 0 ELSE st[k - 1]
          /\ \A j \in 1..(k - 1) : st[j] < st[k]
    /\ \A e \in 1..Len(es) :
          /\ es[e].parent < e
          /\ es[e].open => \E k \in 1..Len(st) : st[k] = e

(* What is in the slots that no overtaken call can write to.               *)
SlotRight(s) ==
    /\ Nested(entries[s], entryStack[s])
    /\ Len(entries[s]) <= MaxEntries /\ Len(entryStack[s]) <= MaxCallStack
    /\ ~initialized[s] => entries[s] = <<>> /\ entryStack[s] = <<>>

SlotInv == \A s \in Slot \ stray : SlotRight(s)

(* How the entries es and the call stack st of a slot belong to the thread *)
(* that has the slot, is at at and in the scopes sc.  A call that is under *)
(* way goes on with the scopes it found, although the profiler is paused.  *)
StackRight(es, st, sc, at, paused, restarting) ==
    /\ ~paused \/ at # "idle" => Recorded(sc, st, at \in {"push", "write"})
    /\ st # <<>> /\ at \notin {"first", "place"} => ~restarting
    /\ at \in {"first", "place"} => es # <<>>
    /\ at = "write" => Len(es) < MaxEntries

Own(t) == HasSlot(t) /\ gThreadIndexTLS[t] \notin stray

ThreadStack(t) ==
    LET s == gThreadIndexTLS[t]
    IN  StackRight(entries[s], entryStack[s], scopes[t], pc[t], gPaused, gRestarting)

StackInv == \A t \in Thread : Own(t) => ThreadStack(t)

(* The place that a thread is about to write is a place of a frame.  If no *)
(* other thread raced for the frame it is the next one, and not another's. *)
PlaceRight(t) ==
    LET f == place[t].frame
    IN  /\ f \in 1..MaxFrames /\ place[t].index \in Nat \ {0}
        /\ f \notin raced =>
              /\ f <= gCurrentFrame
              /\ place[t].index = Len(frameThreads[f]) + 1
              /\ \A u \in Thread : u # t /\ pc[u] = "place" => place[u].frame # f

PlaceInv == \A t \in Thread : pc[t] = "place" => PlaceRight(t)

RecordInv ==
    /\ TypeInv /\ RunInv /\ ScopeInv /\ SlotInv /\ StackInv
    /\ PlaceInv /\ ShownThreadsInitialized

-----------------------------------------------------------------------------
(* The places of a sequence and what is there.                             *)
LEMMA SeqFacts ==
    ASSUME NEW S, NEW seq \in Seq(S)
    PROVE  /\ Len(seq) \in Nat /\ seq \in [1..Len(seq) -> S] /\ DOMAIN seq = 1..Len(seq)
           /\ \A i \in 1..Len(seq) : seq[i] \in S
           /\ seq = <<>> <=> Len(seq) = 0
OBVIOUS

(* A sequence with an element appended to it.                              *)
LEMMA AppendFacts ==
    ASSUME NEW S, NEW seq \in Seq(S), NEW x \in S
    PROVE  /\ Append(seq, x) \in Seq(S) /\ Append(seq, x) # <<>>
           /\ Len(Append(seq, x)) = Len(seq) + 1 /\ Append(seq, x)[Len(seq) + 1] = x
           /\ \A i \in 1..Len(seq) : Append(seq, x)[i] = seq[i]
OBVIOUS

(* A function on the first n numbers is a sequence of length n.            *)
LEMMA FunctionSeq ==
    ASSUME NEW S, NEW n \in Nat, NEW f \in [1..n -> S]
    PROVE  f \in Seq(S) /\ Len(f) = n
OBVIOUS

(* The first n elements of a sequence.                                     *)
LEMMA PrefixFacts ==
    ASSUME NEW S, NEW seq \in Seq(S), NEW n \in Nat, n <= Len(seq)
    PROVE  /\ SubSeq(seq, 1, n) \in Seq(S) /\ Len(SubSeq(seq, 1, n)) = n
           /\ \A i \in 1..n : SubSeq(seq, 1, n)[i] = seq[i]
OBVIOUS

(* A sequence without its last element.                                    *)
LEMMA FrontIs ==
    ASSUME NEW S, NEW seq \in Seq(S), seq # <<>>
    PROVE  /\ Len(seq) \in Nat \ {0} /\ seq[Len(seq)] \in S
           /\ SubSeq(seq, 1, Len(seq) - 1) \in Seq(S)
           /\ Len(SubSeq(seq, 1, Len(seq) - 1)) = Len(seq) - 1
           /\ \A i \in 1..(Len(seq) - 1) : SubSeq(seq, 1, Len(seq) - 1)[i] = seq[i]
<1>1. Len(seq) \in Nat \ {0} /\ \A i \in 1..Len(seq) : seq[i] \in S
  BY SeqFacts
<1>2. Len(seq) - 1 \in Nat /\ Len(seq) - 1 <= Len(seq) /\ Len(seq) \in 1..Len(seq)
  BY <1>1
<1> QED BY <1>1, <1>2, PrefixFacts, Zenon

-----------------------------------------------------------------------------
(* The scopes and the call stack.  Nothing is recorded of scopes that are  *)
(* all from before this run ...                                            *)
LEMMA NoneRecorded ==
    ASSUME NEW sc \in Seq(Nat), \A i \in 1..Len(sc) : sc[i] = 0
    PROVE  Recorded(sc, <<>>, FALSE)
BY DEF Recorded

(* ... a scope that begins is not recorded yet ...                         *)
LEMMA ScopeAdded ==
    ASSUME NEW sc \in Seq(Nat)
    PROVE  /\ Append(sc, 0) \in Seq(Nat) /\ Append(sc, 0) # <<>>
           /\ Len(Append(sc, 0)) = Len(sc) + 1 /\ Append(sc, 0)[Len(Append(sc, 0))] = 0
           /\ \A st \in Seq(Nat) : Recorded(sc, st, FALSE) => Recorded(Append(sc, 0), st, TRUE)
<1> DEFINE new == Append(sc, 0)
<1>1. /\ new \in Seq(Nat) /\ new # <<>> /\ Len(new) = Len(sc) + 1 /\ Len(sc) \in Nat
      /\ \A i \in 1..Len(sc) : new[i] = sc[i]
      /\ new[Len(sc) + 1] = 0
  BY AppendFacts
<1> HIDE DEF new
<1>2. Len(new) - 1 = Len(sc)
  BY <1>1
<1>3. ASSUME NEW st \in Seq(Nat), Recorded(sc, st, FALSE) PROVE Recorded(new, st, TRUE)
  BY <1>1, <1>2, <1>3, ZenonT(30) DEF Recorded
<1> QED BY <1>1, <1>3, Zenon DEF new

(* ... once its entry is written it is recorded, on top of the stack ...   *)
LEMMA ScopeRecorded ==
    ASSUME NEW sc \in Seq(Nat), sc # <<>>, NEW e \in Nat
    PROVE  LET new == [sc EXCEPT ![Len(sc)] = e]
           IN  /\ new \in Seq(Nat) /\ Len(new) = Len(sc)
               /\ \A i \in 1..Len(sc) : i # Len(sc) => new[i] = sc[i]
               /\ new[Len(sc)] = e
               /\ \A st \in Seq(Nat) : Recorded(sc, st, TRUE) => Recorded(new, Append(st, e), FALSE)
<1> DEFINE n == Len(sc)
           new == [sc EXCEPT ![n] = e]
<1>1. sc \in [1..n -> Nat] /\ n \in 1..n /\ n \in Nat
  BY SeqFacts
<1>2. new \in [1..n -> Nat] /\ new[n] = e /\ \A i \in 1..n : i # n => new[i] = sc[i]
  BY <1>1, Zenon
<1> HIDE DEF new, n
<1>3. new \in Seq(Nat) /\ Len(new) = n
  BY <1>1, <1>2, FunctionSeq, Zenon
<1>4. ASSUME NEW st \in Seq(Nat), Recorded(sc, st, TRUE) PROVE Recorded(new, Append(st, e), FALSE)
  <2> DEFINE d == Len(st)
             app == Append(st, e)
  <2>1. /\ d \in Nat /\ Len(app) = d + 1 /\ app[d + 1] = e /\ \A i \in 1..d : app[i] = st[i]
    BY AppendFacts, SeqFacts
  <2>2. /\ d <= n - 1
        /\ \A k \in 1..(n - 1) : sc[k] = IF k <= (n - 1) - d THEN 0 ELSE st[k - ((n - 1) - d)]
    BY <1>4 DEF Recorded, n
  <2> HIDE DEF d, app
  <2>3. n - (d + 1) = (n - 1) - d /\ d + 1 <= n
    BY <1>1, <2>1, <2>2
  <2>4. ASSUME NEW k \in 1..n
        PROVE  new[k] = IF k <= (n - 1) - d THEN 0 ELSE app[k - ((n - 1) - d)]
    <3>1. CASE k = n
      <4>1. ~(k <= (n - 1) - d) /\ k - ((n - 1) - d) = d + 1
        BY <1>1, <2>1, <2>2, <3>1
      <4> QED BY <1>2, <2>1, <3>1, <4>1
    <3>2. CASE k # n
      <4>1. k \in 1..(n - 1) /\ new[k] = sc[k]
        BY <1>1, <1>2, <3>2
      <4>2. ~(k <= (n - 1) - d) => k - ((n - 1) - d) \in 1..d
        BY <1>1, <2>1, <2>2, <4>1
      <4> QED BY <2>1, <2>2, <4>1, <4>2, Zenon
    <3> QED BY <3>1, <3>2
  <2> QED BY <1>3, <2>1, <2>3, <2>4, Zenon DEF Recorded, app
<1> QED BY <1>2, <1>3, <1>4, Zenon DEF new, n

(* ... and a scope that ends takes its entry off the stack, if it has one. *)
LEMMA ScopeEnded ==
    ASSUME NEW sc \in Seq(Nat), sc # <<>>, NEW st \in Seq(Nat), Recorded(sc, st, FALSE)
    PROVE  LET front == SubSeq(sc, 1, Len(sc) - 1)
           IN  IF st = <<>> THEN Recorded(front, st, FALSE)
               ELSE Recorded(front, SubSeq(st, 1, Len(st) - 1), FALSE)
<1> DEFINE n == Len(sc)
           d == Len(st)
           front == SubSeq(sc, 1, n - 1)
<1>1. n \in Nat \ {0} /\ Len(front) = n - 1 /\ \A i \in 1..(n - 1) : front[i] = sc[i]
  BY FrontIs
<1>2. d \in Nat /\ (st = <<>> <=> d = 0)
  BY SeqFacts
<1>3. d <= n /\ \A k \in 1..n : sc[k] = IF k <= n - d THEN 0 ELSE st[k - (n - d)]
  BY DEF Recorded
<1>4. CASE st = <<>>
  <2> HIDE DEF front, n, d
  <2>1. d = 0 /\ d <= n - 1 /\ \A k \in 1..(n - 1) : k \in 1..n /\ k <= n - d /\ k <= (n - 1) - d
    BY <1>1, <1>2, <1>4
  <2>2. \A k \in 1..(n - 1) : front[k] = 0
    BY <1>1, <1>3, <2>1, ZenonT(30)
  <2> QED BY <1>1, <1>4, <2>1, <2>2 DEF Recorded, front, n, d
<1>5. CASE st # <<>>
  <2> DEFINE top == SubSeq(st, 1, d - 1)
  <2>1. d \in Nat \ {0} /\ Len(top) = d - 1 /\ \A i \in 1..(d - 1) : top[i] = st[i]
    BY <1>5, FrontIs
  <2> HIDE DEF front, n, d, top
  <2>2. (n - 1) - (d - 1) = n - d /\ d - 1 <= n - 1
    BY <1>1, <1>3, <2>1
  <2>3. ASSUME NEW k \in 1..(n - 1) PROVE front[k] = IF k <= n - d THEN 0 ELSE top[k - (n - d)]
    <3>1. k \in 1..n /\ front[k] = sc[k]
      BY <1>1
    <3>2. ~(k <= n - d) => k - (n - d) \in 1..(d - 1)
      BY <1>1, <1>3, <2>1
    <3> QED BY <1>3, <2>1, <3>1, <3>2, Zenon
  <2>4. Recorded(front, top, FALSE)
    BY <1>1, <2>1, <2>2, <2>3 DEF Recorded
  <2> QED BY <1>5, <2>4, Zenon DEF front, n, top, d
<1> QED BY <1>4, <1>5, Zenon

-----------------------------------------------------------------------------
(* An entry that PushSectionBase writes goes on top of the stack.          *)
LEMMA NestedPush ==
    ASSUME NEW es \in Seq(Entry), NEW st \in Seq(Nat), Nested(es, st)
    PROVE  LET parent == IF Len(st) > 0 THEN st[Len(st)] ELSE 0
           IN  Nested(Append(es, [parent |-> parent, open |-> TRUE]), Append(st, Len(es) + 1))
<1> DEFINE parent == IF Len(st) > 0 THEN st[Len(st)] ELSE 0
           new == [parent |-> parent, open |-> TRUE]
           n == Len(es)
           d == Len(st)
           es2 == Append(es, new)
           st2 == Append(st, n + 1)
<1>1. /\ n \in Nat /\ d \in Nat /\ \A k \in 1..d : st[k] \in Nat
      /\ \A e \in 1..n : es[e].parent \in Nat
  <2>1. n \in Nat /\ d \in Nat /\ (\A k \in 1..d : st[k] \in Nat) /\ \A e \in 1..n : es[e] \in Entry
    BY SeqFacts
  <2> QED BY <2>1 DEF Entry
<1>2. parent \in Nat /\ parent < n + 1 /\ new \in Entry /\ new.parent = parent /\ new.open
  BY <1>1 DEF Nested, Entry
<1>3. /\ Len(es2) = n + 1 /\ es2[n + 1] = new /\ \A e \in 1..n : es2[e] = es[e]
      /\ Len(st2) = d + 1 /\ st2[d + 1] = n + 1 /\ \A k \in 1..d : st2[k] = st[k]
  <2> HIDE DEF new
  <2> QED BY <1>1, <1>2, AppendFacts
<1> HIDE DEF es2, st2, new
<1>4. ASSUME NEW k \in 1..(d + 1)
      PROVE  /\ st2[k] \in 1..(n + 1) /\ es2[st2[k]].open
             /\ es2[st2[k]].parent = IF k = 1 THEN 0 ELSE st2[k - 1]
             /\ \A j \in 1..(k - 1) : st2[j] < st2[k]
  <2>1. CASE k \in 1..d
    <3>1. /\ st[k] \in 1..n /\ es[st[k]].open
          /\ es[st[k]].parent = IF k = 1 THEN 0 ELSE st[k - 1]
          /\ \A j \in 1..(k - 1) : st[j] < st[k]
      BY <2>1, ZenonT(30) DEF Nested
    <3>2. st2[k] = st[k] /\ es2[st[k]] = es[st[k]]
      BY <1>3, <2>1, <3>1, Zenon
    <3>3. k # 1 => k - 1 \in 1..d
      BY <1>1, <2>1
    <3>4. k # 1 => st2[k - 1] = st[k - 1]
      BY <1>3, <3>3, Zenon
    <3>5. st[k] \in 1..(n + 1)
      BY <1>1, <3>1
    <3>6. \A j \in 1..(k - 1) : j \in 1..d
      BY <1>1, <2>1
    <3>7. \A j \in 1..(k - 1) : st2[j] < st2[k]
      BY <1>3, <3>1, <3>2, <3>6
    <3> QED BY <3>1, <3>2, <3>4, <3>5, <3>7
  <2>2. CASE k = d + 1
    <3>1. k # 1 => d > 0 /\ k - 1 = d /\ st2[k - 1] = st[d] /\ st[d] \in 1..n
      BY <1>1, <1>3, <2>2 DEF Nested
    <3>2. st2[k] = n + 1 /\ es2[st2[k]] = new
      BY <1>3, <2>2
    <3>3. parent = IF k = 1 THEN 0 ELSE st2[k - 1]
      BY <1>1, <2>2, <3>1
    <3>4. n + 1 \in 1..(n + 1)
      BY <1>1
    <3>5. ASSUME NEW j \in 1..(k - 1) PROVE st2[j] < n + 1
      <4>1. j \in 1..d /\ st[j] \in 1..n
        BY <1>1, <2>2 DEF Nested
      <4> QED BY <1>1, <1>3, <4>1
    <3> QED BY <1>2, <3>2, <3>3, <3>4, <3>5
  <2>3. k \in 1..d \/ k = d + 1
    BY <1>1
  <2> QED BY <2>1, <2>2, <2>3, Zenon
<1>5. ASSUME NEW e \in 1..(n + 1)
      PROVE  es2[e].parent < e /\ (es2[e].open => \E k \in 1..(d + 1) : st2[k] = e)
  <2>1. CASE e \in 1..n
    <3>1. es[e].parent < e /\ (es[e].open => \E k \in 1..d : st[k] = e)
      BY <2>1 DEF Nested
    <3>2. es2[e] = es[e]
      BY <1>3, <2>1, Zenon
    <3>3. ASSUME NEW k \in 1..d, st[k] = e PROVE k \in 1..(d + 1) /\ st2[k] = e
      BY <1>1, <1>3, <3>3
    <3> QED BY <3>1, <3>2, <3>3, Zenon
  <2>2. CASE e = n + 1
    <3>1. es2[e].parent < e
      BY <1>2, <1>3, <2>2
    <3>2. d + 1 \in 1..(d + 1) /\ st2[d + 1] = e
      BY <1>1, <1>3, <2>2
    <3> QED BY <3>1, <3>2
  <2>3. e \in 1..n \/ e = n + 1
    BY <1>1
  <2> QED BY <2>1, <2>2, <2>3, Zenon
<1>6. Nested(es2, st2)
  BY <1>3, <1>4, <1>5 DEF Nested
<1> QED BY <1>6, Zenon DEF es2, st2, new

(* PopSection closes the entry on top of the stack.                        *)
LEMMA NestedPop ==
    ASSUME NEW es \in Seq(Entry), NEW st \in Seq(Nat), Nested(es, st), Len(st) # 0
    PROVE  Nested([es EXCEPT ![st[Len(st)]].open = FALSE], SubSeq(st, 1, Len(st) - 1))
<1> DEFINE n == Len(es)
           d == Len(st)
           top == st[d]
           es2 == [es EXCEPT ![top].open = FALSE]
           st2 == SubSeq(st, 1, d - 1)
<1>1. /\ n \in Nat /\ d \in Nat \ {0} /\ top \in 1..n /\ \A k \in 1..d : st[k] \in Nat
      /\ es \in [1..n -> Entry]
  BY SeqFacts DEF Nested
<1>2. /\ Len(es2) = n /\ \A e \in 1..n : e # top => es2[e] = es[e]
      /\ es2[top].parent = es[top].parent /\ es2[top].open = FALSE
  <2>1. es[top] \in Entry
    BY <1>1
  <2>2. [es[top] EXCEPT !.open = FALSE] \in Entry
    BY <2>1, Zenon DEF Entry
  <2>3. es2 \in [1..n -> Entry]
    <3> DEFINE x == [es[top] EXCEPT !.open = FALSE]
    <3>1. es2 = [es EXCEPT ![top] = x]
      BY Zenon
    <3> HIDE DEF x, es2
    <3>2. x \in Entry
      BY <2>2 DEF x
    <3> QED BY <1>1, <3>1, <3>2
  <2>4. es2 \in Seq(Entry) /\ Len(es2) = n
    <3> HIDE DEF es2, n
    <3>1. n \in Nat
      BY <1>1
    <3> QED BY <2>3, <3>1, FunctionSeq, Zenon
  <2>5. es2[top] = [es[top] EXCEPT !.open = FALSE]
    BY <1>1, Zenon
  <2>6. es2[top].parent = es[top].parent /\ es2[top].open = FALSE
    BY <2>1, <2>5 DEF Entry
  <2> QED BY <1>1, <2>4, <2>6
<1>3. Len(st2) = d - 1 /\ \A k \in 1..(d - 1) : st2[k] = st[k]
  <2>1. st # <<>>
    BY <1>1
  <2> QED BY <2>1, FrontIs, Zenon
<1>4. \A k \in 1..(d - 1) : st[k] < top
  <2>1. d \in 1..Len(st)
    BY <1>1
  <2>2. \A j \in 1..(d - 1) : st[j] < st[d]
    BY <2>1, Zenon DEF Nested
  <2> QED BY <2>2, Zenon
<1> HIDE DEF es2, st2, top, d, n
<1>5. ASSUME NEW k \in 1..(d - 1)
      PROVE  /\ st2[k] \in 1..n /\ es2[st2[k]].open
             /\ es2[st2[k]].parent = IF k = 1 THEN 0 ELSE st2[k - 1]
             /\ \A j \in 1..(k - 1) : st2[j] < st2[k]
  <2>1. /\ st[k] \in 1..n /\ es[st[k]].open
        /\ es[st[k]].parent = IF k = 1 THEN 0 ELSE st[k - 1]
        /\ \A j \in 1..(k - 1) : st[j] < st[k]
    BY <1>1 DEF Nested, n, d
  <2>2. /\ st2[k] = st[k] /\ (k # 1 => st2[k - 1] = st[k - 1]) /\ st[k] # top
        /\ \A j \in 1..(k - 1) : st2[j] = st[j]
    BY <1>1, <1>3, <1>4
  <2>3. es2[st[k]] = es[st[k]]
    BY <1>2, <2>1, <2>2
  <2> QED BY <2>1, <2>2, <2>3
<1>6. ASSUME NEW e \in 1..n
      PROVE  es2[e].parent < e /\ (es2[e].open => \E k \in 1..(d - 1) : st2[k] = e)
  <2>1. es[e].parent < e /\ (es[e].open => \E k \in 1..d : st[k] = e)
    BY DEF Nested, n, d
  <2>2. CASE e = top
    BY <1>2, <2>1, <2>2
  <2>3. CASE e # top
    <3>1. es2[e] = es[e]
      BY <1>2, <2>3
    <3>2. ASSUME es[e].open PROVE \E k \in 1..(d - 1) : st2[k] = e
      <4>1. PICK k \in 1..d : st[k] = e
        BY <2>1, <3>2
      <4>2. k # d
        BY <2>3, <4>1 DEF top
      <4>3. k \in 1..(d - 1)
        BY <1>1, <4>2
      <4> QED BY <1>3, <4>1, <4>3
    <3> QED BY <2>1, <3>1, <3>2
  <2> QED BY <2>2, <2>3
<1>7. Nested(es2, st2)
  BY <1>2, <1>3, <1>5, <1>6 DEF Nested
<1> QED BY <1>7 DEF es2, st2, top, d

-----------------------------------------------------------------------------
(* A pause, and the end of the restart, take nothing away from a stack.    *)
LEMMA StackStays ==
    ASSUME NEW es, NEW st, NEW sc, NEW at, NEW p, NEW q, NEW p2, NEW q2,
           StackRight(es, st, sc, at, p, q), p => p2, q2 => q
    PROVE  StackRight(es, st, sc, at, p2, q2)
BY Zenon DEF StackRight

(* A step of thread t: the other threads keep their slots and what is in   *)
(* them, and go on from where they were.                                   *)
ThreadStep(t) ==
    /\ UNCHANGED <<gProfilerGeneration, stray>>
    /\ \A u \in Thread : u # t =>
          /\ pc'[u] = pc[u] /\ scopes'[u] = scopes[u]
          /\ gThreadIndexTLS'[u] = gThreadIndexTLS[u] /\ gGenerationTLS'[u] = gGenerationTLS[u]
          /\ HasSlot(u) /\ HasSlot(t)' => gThreadIndexTLS[u] # gThreadIndexTLS'[t]
          /\ Own(u) => /\ entries'[gThreadIndexTLS[u]] = entries[gThreadIndexTLS[u]]
                       /\ entryStack'[gThreadIndexTLS[u]] = entryStack[gThreadIndexTLS[u]]
    /\ \A s \in Slot : initialized[s] => initialized'[s]
    /\ gPaused => gPaused'
    /\ gRestarting' => gRestarting
    /\ gThreadIndexTLS[t] # 0 => gThreadIndexTLS'[t] # 0
    /\ t # UI => gCurrentFrame' = gCurrentFrame
    /\ t # Audio => gCurrentRegion' = gCurrentRegion
    /\ gProfilerGeneration = 0 => pc'[t] = "idle"

(* After such a step it is enough to look at thread t, the slots and the   *)
(* frames.                                                                 *)
LEMMA StepKeeps ==
    ASSUME RecordInv, NEW t \in Thread, ThreadStep(t),
           TypeInv', ThreadRun(t)', ThreadScopes(t)', Own(t)' => ThreadStack(t)',
           SlotInv', PlaceInv', ShownThreadsInitialized'
    PROVE  RecordInv'
<1>1. ASSUME NEW u \in Thread, u # t
      PROVE  /\ pc'[u] = pc[u] /\ scopes'[u] = scopes[u]
             /\ gThreadIndexTLS'[u] = gThreadIndexTLS[u] /\ gGenerationTLS'[u] = gGenerationTLS[u]
             /\ HasSlot(u) /\ HasSlot(t)' => gThreadIndexTLS[u] # gThreadIndexTLS'[t]
             /\ Own(u) => /\ entries'[gThreadIndexTLS[u]] = entries[gThreadIndexTLS[u]]
                          /\ entryStack'[gThreadIndexTLS[u]] = entryStack[gThreadIndexTLS[u]]
  BY <1>1, Zenon DEF ThreadStep
<1>2. /\ gProfilerGeneration' = gProfilerGeneration /\ stray' = stray
      /\ \A s \in Slot : initialized[s] => initialized'[s]
      /\ (gPaused => gPaused') /\ (gRestarting' => gRestarting)
      /\ gThreadIndexTLS[t] # 0 => gThreadIndexTLS'[t] # 0
      /\ t # UI => gCurrentFrame' = gCurrentFrame
      /\ t # Audio => gCurrentRegion' = gCurrentRegion
      /\ gProfilerGeneration = 0 => pc'[t] = "idle"
  BY Zenon DEF ThreadStep
<1>3. ASSUME NEW u \in Thread, u # t
      PROVE  (HasSlot(u)' <=> HasSlot(u)) /\ (Own(u)' <=> Own(u))
  <2>1. HasSlot(u)' <=> HasSlot(u)
    BY <1>1, <1>2, <1>3, Zenon DEF HasSlot
  <2> QED BY <1>1, <1>2, <1>3, <2>1, Zenon DEF Own
<1>4. ASSUME NEW u \in Thread PROVE ThreadRun(u)'
  <2>1. CASE u = t
    BY <2>1, Zenon
  <2>2. CASE u # t
    <3>1. ThreadRun(u)
      BY Zenon DEF RecordInv, RunInv
    <3>2. HasSlot(u) => initialized'[gThreadIndexTLS[u]]
      <4>1. HasSlot(u) => gThreadIndexTLS[u] \in Slot
        <5>1. gThreadIndexTLS[u] \in 0..MaxThreads
          BY Zenon DEF RecordInv, TypeInv
        <5> QED BY <5>1, SettingsAssumption DEF HasSlot, Slot
      <4> QED BY <1>2, <3>1, <4>1, Zenon DEF ThreadRun
    <3>3. (pc[u] = "frame" => gCurrentFrame' = gCurrentFrame)
            /\ (pc[u] = "region" => gCurrentRegion' = gCurrentRegion)
      BY <1>2, <2>2, <3>1, Zenon DEF ThreadRun
    <3>4. /\ pc'[u] = pc[u] /\ gThreadIndexTLS'[u] = gThreadIndexTLS[u]
          /\ gGenerationTLS'[u] = gGenerationTLS[u] /\ (HasSlot(u)' <=> HasSlot(u))
      BY <1>1, <1>3, <2>2, Zenon
    <3>5. /\ pc'[u] = "frame" => u = UI /\ gCurrentFrame' < MaxFrames
          /\ pc'[u] \in {"begin", "end", "region"} => u = Audio
          /\ pc'[u] = "region" => gCurrentRegion' < MaxRegions
      BY <3>1, <3>3, <3>4, Zenon DEF ThreadRun
    <3>6. /\ gGenerationTLS'[u] <= gProfilerGeneration'
          /\ pc'[u] # "idle" => gThreadIndexTLS'[u] # 0
          /\ pc'[u] \in Calls => HasSlot(u)' \/ gThreadIndexTLS'[u] \in stray'
          /\ HasSlot(u)' => initialized'[gThreadIndexTLS'[u]]
      BY <1>2, <3>1, <3>2, <3>4, Zenon DEF ThreadRun
    <3> QED BY <3>5, <3>6, Zenon DEF ThreadRun
  <2> QED BY <2>1, <2>2, Zenon
<1>5. RunInv'
  <2>1. gProfilerGeneration' = 0 => gPaused' /\ \A u \in Thread : pc'[u] = "idle"
    BY <1>1, <1>2, Zenon DEF RecordInv, RunInv
  <2>2. gProfilerGeneration' # 0 => gThreadIndexTLS'[UI] # 0 /\ initialized'[1]
    <3>1. 1 \in Slot
      BY SettingsAssumption DEF Slot
    <3> QED BY <1>1, <1>2, <3>1, ThreadAssumption, Zenon DEF RecordInv, RunInv
  <2>3. ASSUME NEW u \in Thread, NEW v \in Thread, u # v, HasSlot(u)', HasSlot(v)'
        PROVE  gThreadIndexTLS'[u] # gThreadIndexTLS'[v]
    <3>1. CASE u = t
      BY <1>1, <1>3, <2>3, <3>1, Zenon
    <3>2. CASE v = t
      BY <1>1, <1>3, <2>3, <3>2, Zenon
    <3>3. CASE u # t /\ v # t
      <4>1. HasSlot(u) /\ HasSlot(v)
        BY <1>3, <2>3, <3>3, Zenon
      <4>2. gThreadIndexTLS[u] # gThreadIndexTLS[v]
        BY <2>3, <4>1, Zenon DEF RecordInv, RunInv
      <4> QED BY <1>1, <3>3, <4>2, Zenon
    <3> QED BY <3>1, <3>2, <3>3, Zenon
  <2> QED BY <1>4, <2>1, <2>2, <2>3, Zenon DEF RunInv
<1>6. ASSUME NEW u \in Thread PROVE ThreadScopes(u)'
  <2>1. CASE u = t
    BY <2>1, Zenon
  <2>2. CASE u # t
    <3>1. ScopesRight(scopes[u], pc[u], HasSlot(u))
      BY Zenon DEF RecordInv, ScopeInv, ThreadScopes
    <3>2. scopes'[u] = scopes[u] /\ pc'[u] = pc[u] /\ (HasSlot(u)' <=> HasSlot(u))
      BY <1>1, <1>3, <2>2, Zenon
    <3> QED BY <3>1, <3>2, Zenon DEF ThreadScopes, ScopesRight
  <2> QED BY <2>1, <2>2, Zenon
<1>7. ASSUME NEW u \in Thread, Own(u)' PROVE ThreadStack(u)'
  <2>1. CASE u = t
    BY <1>7, <2>1, Zenon
  <2>2. CASE u # t
    <3> DEFINE s == gThreadIndexTLS[u]
    <3>1. Own(u)
      BY <1>3, <1>7, <2>2, Zenon
    <3>2. StackRight(entries[s], entryStack[s], scopes[u], pc[u], gPaused, gRestarting)
      BY <3>1, Zenon DEF RecordInv, StackInv, ThreadStack
    <3>3. StackRight(entries[s], entryStack[s], scopes[u], pc[u], gPaused', gRestarting')
      BY <1>2, <3>2, StackStays, Zenon
    <3>4. /\ gThreadIndexTLS'[u] = s /\ scopes'[u] = scopes[u] /\ pc'[u] = pc[u]
          /\ entries'[s] = entries[s] /\ entryStack'[s] = entryStack[s]
      BY <1>1, <2>2, <3>1, Zenon
    <3> QED BY <3>3, <3>4, Zenon DEF ThreadStack
  <2> QED BY <2>1, <2>2, Zenon
<1>8. ScopeInv' /\ StackInv'
  BY <1>6, <1>7, Zenon DEF ScopeInv, StackInv
<1> QED BY <1>5, <1>8, Zenon DEF RecordInv

(* A call that is not overtaken writes to its own slot.                    *)
LEMMA CallSlot ==
    ASSUME RecordInv, NEW t \in Thread, pc[t] \in Calls
    PROVE  /\ gThreadIndexTLS[t] \in Slot /\ gProfilerGeneration # 0
           /\ gThreadIndexTLS[t] \notin stray => Own(t)
           /\ \A u \in Thread : u # t /\ Own(u) => gThreadIndexTLS[u] # gThreadIndexTLS[t]
<1>1. /\ ThreadRun(t) /\ pc[t] # "idle" /\ gThreadIndexTLS[t] \in 0..MaxThreads
      /\ gProfilerGeneration # 0
  BY Zenon DEF RecordInv, RunInv, TypeInv, Calls
<1>2. gThreadIndexTLS[t] # 0 /\ (HasSlot(t) \/ gThreadIndexTLS[t] \in stray)
  BY <1>1, Zenon DEF ThreadRun
<1>3. gThreadIndexTLS[t] \in Slot
  BY <1>1, <1>2, SettingsAssumption DEF Slot
<1>4. ASSUME NEW u \in Thread, u # t, Own(u) PROVE gThreadIndexTLS[u] # gThreadIndexTLS[t]
  BY <1>2, <1>4, Zenon DEF Own, RecordInv, RunInv
<1> QED BY <1>1, <1>2, <1>3, <1>4, Zenon DEF Own

(* The slot that a thread has in this run.                                 *)
LEMMA OwnSlot ==
    ASSUME RecordInv, NEW t \in Thread, HasSlot(t)
    PROVE  gThreadIndexTLS[t] \in Slot /\ initialized[gThreadIndexTLS[t]]
<1>1. gThreadIndexTLS[t] \in 0..MaxThreads /\ ThreadRun(t)
  BY Zenon DEF RecordInv, RunInv, TypeInv
<1> QED BY <1>1, SettingsAssumption DEF HasSlot, ThreadRun, Slot

(* The places that threads are about to write, when no thread gets or      *)
(* writes one.                                                             *)
LEMMA PlaceStays ==
    ASSUME PlaceInv, UNCHANGED frameVars, gCurrentFrame' = gCurrentFrame,
           \A u \in Thread : pc'[u] = "place" <=> pc[u] = "place"
    PROVE  PlaceInv'
<1>1. frameThreads' = frameThreads /\ place' = place /\ raced' = raced
  BY Zenon DEF frameVars
<1>2. ASSUME NEW t \in Thread, pc'[t] = "place" PROVE PlaceRight(t)'
  <2>1. PlaceRight(t)
    BY <1>2, Zenon DEF PlaceInv
  <2> QED BY <1>1, <2>1, Zenon DEF PlaceRight
<1> QED BY <1>2, Zenon DEF PlaceInv

(* What the frames show is still there when slots keep their entries.      *)
LEMMA ShownStays ==
    ASSUME RecordInv, frameThreads' = frameThreads, raced \subseteq raced', stray' = stray,
           \A s \in Slot : initialized[s] =>
              initialized'[s] /\ DOMAIN entries[s] \subseteq DOMAIN entries'[s]
    PROVE  ShownThreadsInitialized'
<1> SUFFICES ASSUME NEW f \in 1..MaxFrames, NEW i \in DOMAIN frameThreads[f],
                    frameThreads[f][i].threadIndex \notin stray
             PROVE  /\ initialized'[frameThreads[f][i].threadIndex]
                    /\ f \notin raced' => frameThreads[f][i].activeEntry
                                            \in DOMAIN entries'[frameThreads[f][i].threadIndex]
  BY Zenon DEF ShownThreadsInitialized
<1> DEFINE r == frameThreads[f][i].threadIndex
<1>1. /\ initialized[r]
      /\ f \notin raced => frameThreads[f][i].activeEntry \in DOMAIN entries[r]
  BY Zenon DEF RecordInv, ShownThreadsInitialized
<1>2. r \in Slot
  <2>1. frameThreads[f] \in Seq(Info)
    BY Zenon DEF RecordInv, TypeInv
  <2>2. frameThreads[f][i] \in Info
    BY <2>1, SeqFacts
  <2> QED BY <2>2 DEF Info
<1> QED BY <1>1, <1>2, Zenon

(* The same when nothing is written at all.                                *)
LEMMA ShownSame ==
    ASSUME RecordInv, frameThreads' = frameThreads, raced \subseteq raced', stray' = stray,
           UNCHANGED <<initialized, entries>>
    PROVE  ShownThreadsInitialized'
BY ShownStays, Zenon

-----------------------------------------------------------------------------
(* A step of thread t that changes no more than the flags, where t is and  *)
(* the scopes it is in.                                                    *)
MoveStep(t, to, sc) ==
    /\ gPaused' \in BOOLEAN /\ gRequestPause' \in BOOLEAN /\ (gPaused => gPaused')
    /\ UNCHANGED <<gRestarting, countVars, slotVars, frameVars, tlsVars, stray>>
    /\ pc' = [pc EXCEPT ![t] = to] /\ scopes' = [scopes EXCEPT ![t] = sc]
    /\ pc[t] # "place"
    /\ \/ to = "idle"
       \/ to \in {"write", "close"} /\ pc[t] \in Calls
       \/ to = "region" /\ t = Audio /\ pc[t] # "idle" /\ gCurrentRegion < MaxRegions
    /\ sc \in Seq(Nat) /\ ScopesRight(sc, to, HasSlot(t))
    /\ Own(t) => LET s == gThreadIndexTLS[t]
                 IN  StackRight(entries[s], entryStack[s], sc, to, gPaused', gRestarting)

LEMMA MoveKeeps ==
    ASSUME RecordInv, NEW t \in Thread, NEW to, NEW sc, MoveStep(t, to, sc)
    PROVE  RecordInv'
<1>1. /\ UNCHANGED <<gRestarting, gProfilerGeneration, gCurrentFrame, gCurrentRegion>>
      /\ UNCHANGED <<initialized, entries, entryStack, frameThreads, place, raced>>
      /\ UNCHANGED <<gThreadIndexTLS, gGenerationTLS, stray>>
      /\ gPaused' \in BOOLEAN /\ gRequestPause' \in BOOLEAN /\ (gPaused => gPaused')
      /\ pc' = [pc EXCEPT ![t] = to] /\ scopes' = [scopes EXCEPT ![t] = sc]
  BY Zenon DEF MoveStep, countVars, slotVars, frameVars, tlsVars
<1>2. /\ pc[t] # "place"
      /\ \/ to = "idle"
         \/ to \in {"write", "close"} /\ pc[t] \in Calls
         \/ to = "region" /\ t = Audio /\ pc[t] # "idle" /\ gCurrentRegion < MaxRegions
      /\ sc \in Seq(Nat) /\ ScopesRight(sc, to, HasSlot(t))
      /\ Own(t) => StackRight(entries[gThreadIndexTLS[t]], entryStack[gThreadIndexTLS[t]],
                              sc, to, gPaused', gRestarting)
  BY Zenon DEF MoveStep
<1>3. to \in Step /\ to \in {"idle", "write", "close", "region"}
  BY <1>2, Zenon DEF Step
<1>4. pc \in [Thread -> Step] /\ scopes \in [Thread -> Seq(Nat)]
  BY Zenon DEF RecordInv, TypeInv
<1>5. /\ pc'[t] = to /\ scopes'[t] = sc
      /\ \A u \in Thread : u # t => pc'[u] = pc[u] /\ scopes'[u] = scopes[u]
      /\ pc' \in [Thread -> Step] /\ scopes' \in [Thread -> Seq(Nat)]
  BY <1>1, <1>2, <1>3, <1>4, Zenon
<1>6. \A u \in Thread : (HasSlot(u)' <=> HasSlot(u)) /\ (Own(u)' <=> Own(u))
  BY <1>1, Zenon DEF HasSlot, Own
<1>7. TypeInv'
  BY <1>1, <1>5, Zenon DEF RecordInv, TypeInv
<1>8. ThreadRun(t) /\ gThreadIndexTLS[t] \in 0..MaxThreads
  BY Zenon DEF RecordInv, RunInv, TypeInv
<1>9. ThreadRun(t)'
  <2>1. to \in Calls => HasSlot(t) \/ gThreadIndexTLS[t] \in stray
    BY <1>2, <1>8, Zenon DEF ThreadRun, Calls
  <2>2. to # "idle" => pc[t] # "idle"
    BY <1>2, Zenon DEF Calls
  <2>3. /\ to = "frame" => t = UI /\ gCurrentFrame < MaxFrames
        /\ to \in {"begin", "end", "region"} => t = Audio
        /\ to = "region" => gCurrentRegion < MaxRegions
    BY <1>2, Zenon
  <2> QED BY <1>1, <1>5, <1>6, <1>8, <2>1, <2>2, <2>3, Zenon DEF ThreadRun
<1>10. ThreadScopes(t)'
  BY <1>2, <1>5, <1>6, Zenon DEF ThreadScopes, ScopesRight
<1>11. Own(t)' => ThreadStack(t)'
  BY <1>1, <1>2, <1>5, <1>6, Zenon DEF ThreadStack
<1>12. SlotInv'
  BY <1>1, Zenon DEF RecordInv, SlotInv, SlotRight
<1>13. PlaceInv'
  <2>1. ASSUME NEW u \in Thread PROVE pc'[u] = "place" <=> pc[u] = "place"
    BY <1>2, <1>3, <1>5, Zenon
  <2> QED BY <1>1, <2>1, PlaceStays, Zenon DEF RecordInv, frameVars
<1>14. ShownThreadsInitialized'
  BY <1>1, ShownSame, Zenon
<1>15. ThreadStep(t)
  <2>1. ASSUME NEW u \in Thread, u # t, HasSlot(u), HasSlot(t)'
        PROVE  gThreadIndexTLS[u] # gThreadIndexTLS'[t]
    BY <1>1, <1>6, <2>1, Zenon DEF RecordInv, RunInv
  <2>2. gProfilerGeneration = 0 => pc'[t] = "idle"
    <3>1. gProfilerGeneration = 0 => pc[t] = "idle"
      BY Zenon DEF RecordInv, RunInv
    <3> QED BY <1>2, <1>5, <3>1, Zenon DEF Calls
  <2> QED BY <1>1, <1>5, <2>1, <2>2, Zenon DEF ThreadStep
<1> QED BY <1>7, <1>9, <1>10, <1>11, <1>12, <1>13, <1>14, <1>15, StepKeeps, Zenon

(* Nothing but the flags changes.                                          *)
LEMMA FlagsKeep ==
    ASSUME RecordInv, gPaused' \in BOOLEAN, gRequestPause' \in BOOLEAN, gPaused => gPaused',
           UNCHANGED <<gRestarting, countVars, slotVars, frameVars, tlsVars, pc, scopes, stray>>
    PROVE  RecordInv'
<1>1. /\ UNCHANGED <<gRestarting, gProfilerGeneration, gCurrentFrame, gCurrentRegion>>
      /\ UNCHANGED <<initialized, entries, entryStack, frameThreads, place, raced>>
      /\ UNCHANGED <<gThreadIndexTLS, gGenerationTLS, pc, scopes, stray>>
  BY Zenon DEF countVars, slotVars, frameVars, tlsVars
<1>2. UI \in Thread
  BY ThreadAssumption
<1>3. TypeInv' /\ SlotInv'
  BY <1>1, Zenon DEF RecordInv, TypeInv, SlotInv, SlotRight
<1>4. \A t \in Thread : (HasSlot(t)' <=> HasSlot(t)) /\ (Own(t)' <=> Own(t))
  BY <1>1, Zenon DEF HasSlot, Own
<1>5. ThreadRun(UI)' /\ ThreadScopes(UI)'
  <2>1. ThreadRun(UI) /\ ThreadScopes(UI)
    BY <1>2, Zenon DEF RecordInv, RunInv, ScopeInv
  <2> QED BY <1>1, <1>2, <1>4, <2>1, Zenon DEF ThreadRun, ThreadScopes, ScopesRight
<1>6. Own(UI)' => ThreadStack(UI)'
  <2> DEFINE s == gThreadIndexTLS[UI]
  <2>1. Own(UI) => StackRight(entries[s], entryStack[s], scopes[UI], pc[UI], gPaused, gRestarting)
    BY <1>2, Zenon DEF RecordInv, StackInv, ThreadStack
  <2>2. Own(UI) => StackRight(entries[s], entryStack[s], scopes[UI], pc[UI], gPaused', gRestarting)
    BY <2>1, Zenon DEF StackRight
  <2> QED BY <1>1, <1>2, <1>4, <2>2, Zenon DEF ThreadStack
<1>7. PlaceInv' /\ ShownThreadsInitialized'
  <2>1. \A u \in Thread : pc'[u] = "place" <=> pc[u] = "place"
    BY <1>1, Zenon
  <2>2. PlaceInv'
    BY <1>1, <2>1, PlaceStays, Zenon DEF RecordInv, frameVars
  <2> QED BY <1>1, <2>2, ShownSame, Zenon
<1>8. ThreadStep(UI)
  <2>1. ASSUME NEW u \in Thread, u # UI, HasSlot(u), HasSlot(UI)'
        PROVE  gThreadIndexTLS[u] # gThreadIndexTLS'[UI]
    BY <1>1, <1>2, <1>4, <2>1, Zenon DEF RecordInv, RunInv
  <2>2. gProfilerGeneration = 0 => pc'[UI] = "idle"
    BY <1>1, <1>2, Zenon DEF RecordInv, RunInv
  <2>3. /\ \A s \in Slot : initialized[s] => initialized'[s]
        /\ gThreadIndexTLS[UI] # 0 => gThreadIndexTLS'[UI] # 0
    BY <1>1, Zenon
  <2>4. ASSUME NEW u \in Thread
        PROVE  /\ pc'[u] = pc[u] /\ scopes'[u] = scopes[u]
               /\ gThreadIndexTLS'[u] = gThreadIndexTLS[u] /\ gGenerationTLS'[u] = gGenerationTLS[u]
               /\ entries'[gThreadIndexTLS[u]] = entries[gThreadIndexTLS[u]]
               /\ entryStack'[gThreadIndexTLS[u]] = entryStack[gThreadIndexTLS[u]]
    BY <1>1, Zenon
  <2>5. UNCHANGED <<gProfilerGeneration, stray, gRestarting, gCurrentFrame, gCurrentRegion>>
    BY <1>1, Zenon
  <2> QED BY <2>1, <2>2, <2>3, <2>4, <2>5 DEF ThreadStep
<1> QED BY <1>2, <1>3, <1>5, <1>6, <1>7, <1>8, StepKeeps, Zenon

(* Reset begins a run in which no thread has a slot.                       *)
LEMMA ResetKeeps ==
    ASSUME RecordInv, Reset, pc[UI] = "idle", pc' = pc,
           gPaused' \in BOOLEAN, gRequestPause' \in BOOLEAN
    PROVE  RecordInv'
<1>1. /\ gProfilerGeneration < MaxRuns /\ gProfilerGeneration' = gProfilerGeneration + 1
      /\ initialized' = [s \in Slot |-> s = 1]
      /\ entries' = [s \in Slot |-> <<>>] /\ entryStack' = [s \in Slot |-> <<>>]
      /\ frameThreads' = [f \in 1..MaxFrames |-> <<>>] /\ place' = place
      /\ gThreadIndexTLS' = [gThreadIndexTLS EXCEPT ![UI] = 1]
      /\ gGenerationTLS' = [gGenerationTLS EXCEPT ![UI] = 0]
      /\ gRestarting' = TRUE /\ gCurrentFrame' = 0 /\ gCurrentRegion' = 0
      /\ scopes' = [t \in Thread |-> [i \in DOMAIN scopes[t] |-> 0]]
      /\ stray' = {gThreadIndexTLS[t] : t \in {u \in Thread : pc[u] # "idle"}}
      /\ raced' = {place[t].frame : t \in {u \in Thread : pc[u] = "place"}}
  BY Zenon DEF Reset, NewRun
<1>2. /\ gThreadIndexTLS \in [Thread -> 0..MaxThreads] /\ gGenerationTLS \in [Thread -> 0..MaxRuns]
      /\ scopes \in [Thread -> Seq(Nat)] /\ pc \in [Thread -> Step]
      /\ place \in [Thread -> [frame : 0..MaxFrames, index : Nat]]
      /\ gProfilerGeneration \in 0..MaxRuns
      /\ UI \in Thread /\ \A t \in Thread : ThreadRun(t) /\ ThreadScopes(t)
  BY ThreadAssumption, Zenon DEF RecordInv, TypeInv, RunInv, ScopeInv
<1>3. /\ gProfilerGeneration \in Nat /\ gProfilerGeneration' \in 0..MaxRuns
      /\ gProfilerGeneration' # 0
  BY <1>1, <1>2, SettingsAssumption
<1>4. stray' \subseteq Slot
  <2>1. ASSUME NEW t \in Thread, pc[t] # "idle" PROVE gThreadIndexTLS[t] \in Slot
    <3>1. gThreadIndexTLS[t] \in 0..MaxThreads /\ gThreadIndexTLS[t] # 0
      BY <1>2, <2>1, Zenon DEF ThreadRun
    <3> QED BY <3>1, SettingsAssumption DEF Slot
  <2> QED BY <1>1, <2>1, Zenon
<1>5. raced' \subseteq 1..MaxFrames
  <2>1. ASSUME NEW t \in Thread, pc[t] = "place" PROVE place[t].frame \in 1..MaxFrames
    BY <2>1, Zenon DEF RecordInv, PlaceInv, PlaceRight
  <2> QED BY <1>1, <2>1, Zenon
<1>6. \A t \in Thread : /\ scopes'[t] \in Seq(Nat) /\ Len(scopes'[t]) = Len(scopes[t])
                        /\ \A i \in 1..Len(scopes[t]) : scopes'[t][i] = 0
  <2> TAKE t \in Thread
  <2>1. scopes[t] \in Seq(Nat)
    BY <1>2, Zenon
  <2>2. Len(scopes[t]) \in Nat /\ DOMAIN scopes[t] = 1..Len(scopes[t])
    BY <2>1, SeqFacts
  <2>3. scopes'[t] = [i \in 1..Len(scopes[t]) |-> 0]
    BY <1>1, <2>2, Zenon
  <2> QED BY <2>2, <2>3
<1>7. \A t \in Thread : /\ gGenerationTLS'[t] \in 0..MaxRuns /\ gGenerationTLS'[t] < gProfilerGeneration'
                        /\ gThreadIndexTLS'[t] \in 0..MaxThreads
                        /\ t # UI => gThreadIndexTLS'[t] = gThreadIndexTLS[t]
                        /\ ~HasSlot(t)'
  <2> TAKE t \in Thread
  <2>1. gGenerationTLS[t] \in 0..MaxRuns /\ gGenerationTLS[t] <= gProfilerGeneration
    BY <1>2, Zenon DEF ThreadRun
  <2>2. gGenerationTLS'[t] = IF t = UI THEN 0 ELSE gGenerationTLS[t]
    BY <1>1, <1>2
  <2>3. gGenerationTLS'[t] \in 0..MaxRuns /\ gGenerationTLS'[t] < gProfilerGeneration'
    BY <1>1, <1>3, <2>1, <2>2, SettingsAssumption
  <2>4. gThreadIndexTLS'[t] = IF t = UI THEN 1 ELSE gThreadIndexTLS[t]
    BY <1>1, <1>2
  <2>5. gThreadIndexTLS'[t] \in 0..MaxThreads
    BY <1>2, <2>4, SettingsAssumption
  <2>6. ~HasSlot(t)'
    BY <1>3, <2>1, <2>3, SettingsAssumption DEF HasSlot
  <2> QED BY <2>3, <2>4, <2>5, <2>6, Zenon
<1>8. TypeInv'
  <2>1. <<>> \in Seq(Entry) /\ <<>> \in Seq(Nat) /\ <<>> \in Seq(Info)
    OBVIOUS
  <2>2. /\ entries' \in [Slot -> Seq(Entry)] /\ entryStack' \in [Slot -> Seq(Nat)]
        /\ frameThreads' \in [1..MaxFrames -> Seq(Info)]
    BY <1>1, <2>1, Zenon
  <2>3. /\ gThreadIndexTLS' \in [Thread -> 0..MaxThreads]
        /\ gGenerationTLS' \in [Thread -> 0..MaxRuns] /\ scopes' \in [Thread -> Seq(Nat)]
    BY <1>1, <1>2, <1>6, <1>7
  <2>4. initialized' \in [Slot -> BOOLEAN]
    BY <1>1
  <2>5. 0 \in 0..MaxFrames /\ 0 \in 0..MaxRegions
    BY SettingsAssumption
  <2>6. pc' \in [Thread -> Step] /\ place' \in [Thread -> [frame : 0..MaxFrames, index : Nat]]
    BY <1>1, <1>2, Zenon
  <2> QED BY <1>1, <1>3, <1>4, <1>5, <2>2, <2>3, <2>4, <2>5, <2>6, Zenon DEF TypeInv
<1>9. RunInv'
  <2>1. gThreadIndexTLS'[UI] # 0 /\ initialized'[1]
    <3>1. 1 \in Slot /\ 1 # 0
      BY SettingsAssumption DEF Slot
    <3>2. gThreadIndexTLS'[UI] = 1
      BY <1>1, <1>2, Zenon
    <3> QED BY <1>1, <3>1, <3>2, Zenon
  <2>2. 0 < MaxFrames /\ 0 < MaxRegions
    BY SettingsAssumption
  <2>3. ASSUME NEW t \in Thread PROVE ThreadRun(t)'
    <3>1. pc'[t] = "frame" => FALSE
      BY <1>2, Zenon DEF ThreadRun
    <3>2. pc'[t] # "idle" => gThreadIndexTLS'[t] # 0 /\ gThreadIndexTLS'[t] \in stray'
      BY <1>1, <1>2, <1>7, Zenon DEF ThreadRun
    <3>3. gGenerationTLS'[t] <= gProfilerGeneration'
      BY <1>3, <1>7
    <3>4. pc'[t] \in {"begin", "end", "region"} => t = Audio
      BY <1>2, Zenon DEF ThreadRun
    <3> QED BY <1>1, <1>7, <2>2, <3>1, <3>2, <3>3, <3>4, Zenon DEF ThreadRun, Calls
  <2>4. \A t, u \in Thread :
           t # u /\ HasSlot(t)' /\ HasSlot(u)' => gThreadIndexTLS'[t] # gThreadIndexTLS'[u]
    BY <1>7, Zenon
  <2> QED BY <1>3, <2>1, <2>3, <2>4, Zenon DEF RunInv
<1>10. ScopeInv'
  <2>1. ASSUME NEW t \in Thread PROVE ThreadScopes(t)'
    <3>1. ScopesRight(scopes[t], pc[t], HasSlot(t)) /\ scopes[t] \in Seq(Nat)
      BY <1>2, Zenon DEF ThreadScopes
    <3>2. scopes[t] # <<>> => scopes'[t] # <<>> /\ Len(scopes[t]) \in 1..Len(scopes[t])
      <4>1. scopes'[t] \in Seq(Nat) /\ Len(scopes'[t]) = Len(scopes[t])
        BY <1>6, Zenon
      <4> QED BY <3>1, <4>1, SeqFacts
    <3>3. /\ Len(scopes'[t]) = Len(scopes[t])
          /\ \A i \in 1..Len(scopes[t]) : scopes'[t][i] = 0
      BY <1>6, Zenon
    <3> QED BY <3>1, <3>2, <3>3, Zenon DEF ThreadScopes, ScopesRight
  <2> QED BY <2>1, Zenon DEF ScopeInv
<1>11. SlotInv'
  <2>1. ASSUME NEW s \in Slot PROVE SlotRight(s)'
    <3>1. entries'[s] = <<>> /\ entryStack'[s] = <<>>
      BY <1>1, Zenon
    <3>2. Nested(<<>>, <<>>) /\ Len(<<>>) <= MaxEntries /\ Len(<<>>) <= MaxCallStack
      BY SettingsAssumption DEF Nested
    <3> QED BY <3>1, <3>2, Zenon DEF SlotRight
  <2> QED BY <2>1, Zenon DEF SlotInv
<1>12. StackInv'
  BY <1>7, Zenon DEF StackInv, Own
<1>13. PlaceInv'
  <2>1. ASSUME NEW t \in Thread, pc'[t] = "place" PROVE PlaceRight(t)'
    <3>1. place[t].frame \in 1..MaxFrames /\ place[t].index \in Nat \ {0}
      BY <2>1, Zenon DEF RecordInv, PlaceInv, PlaceRight
    <3>2. place[t].frame \in raced'
      BY <1>1, <2>1, Zenon
    <3> QED BY <1>1, <3>1, <3>2, Zenon DEF PlaceRight
  <2> QED BY <2>1, Zenon DEF PlaceInv
<1>14. ShownThreadsInitialized'
  <2>1. DOMAIN <<>> = {}
    OBVIOUS
  <2> QED BY <1>1, <2>1 DEF ShownThreadsInitialized
<1> QED BY <1>8, <1>9, <1>10, <1>11, <1>12, <1>13, <1>14, Zenon DEF RecordInv

-----------------------------------------------------------------------------
(* GetThreadData: every thread keeps its slot, and t has one.              *)
LEMMA ClaimSlot ==
    ASSUME RecordInv, NEW t \in Thread, GetThreadData(t),
           UNCHANGED <<gProfilerGeneration, frameThreads, raced, stray>>
    PROVE  /\ gThreadIndexTLS' \in [Thread -> 0..MaxThreads]
           /\ gGenerationTLS' \in [Thread -> 0..MaxRuns]
           /\ initialized' \in [Slot -> BOOLEAN] /\ entries' \in [Slot -> Seq(Entry)]
           /\ entryStack' = entryStack
           /\ HasSlot(t)' /\ gThreadIndexTLS'[t] \in Slot
           /\ HasSlot(t) => gThreadIndexTLS'[t] = gThreadIndexTLS[t] /\ entries' = entries
           /\ ~HasSlot(t) /\ gThreadIndexTLS'[t] \notin stray => entryStack[gThreadIndexTLS'[t]] = <<>>
           /\ \A u \in Thread : u # t =>
                 /\ gThreadIndexTLS'[u] = gThreadIndexTLS[u]
                 /\ gGenerationTLS'[u] = gGenerationTLS[u]
                 /\ HasSlot(u) => /\ entries'[gThreadIndexTLS[u]] = entries[gThreadIndexTLS[u]]
                                  /\ gThreadIndexTLS[u] # gThreadIndexTLS'[t]
           /\ \A s \in Slot : initialized[s] => initialized'[s]
           /\ initialized'[gThreadIndexTLS'[t]]
           /\ gGenerationTLS'[t] = gProfilerGeneration
           /\ SlotInv' /\ ShownThreadsInitialized'
<1>0. /\ gThreadIndexTLS \in [Thread -> 0..MaxThreads] /\ gGenerationTLS \in [Thread -> 0..MaxRuns]
      /\ gProfilerGeneration \in 0..MaxRuns
      /\ initialized \in [Slot -> BOOLEAN] /\ entries \in [Slot -> Seq(Entry)]
  BY Zenon DEF RecordInv, TypeInv
<1>a. \A u \in Thread : HasSlot(u) => initialized[gThreadIndexTLS[u]] /\ gThreadIndexTLS[u] \in Slot
  BY OwnSlot, Zenon
<1>1. CASE HasSlot(t)
  <2>1. UNCHANGED <<gThreadIndexTLS, gGenerationTLS, initialized, entries, entryStack>>
    BY <1>1, Zenon DEF GetThreadData, tlsVars, slotVars
  <2>2. \A u \in Thread : HasSlot(u)' <=> HasSlot(u)
    BY <2>1, Zenon DEF HasSlot
  <2>3. SlotInv'
    BY <2>1, Zenon DEF RecordInv, SlotInv, SlotRight
  <2>4. ShownThreadsInitialized'
    BY <2>1, ShownSame, Zenon
  <2>5. gGenerationTLS[t] = gProfilerGeneration
    BY <1>1, Zenon DEF HasSlot
  <2>6. \A u \in Thread : u # t /\ HasSlot(u) => gThreadIndexTLS[u] # gThreadIndexTLS[t]
    BY <1>1, Zenon DEF RecordInv, RunInv
  <2>7. initialized[gThreadIndexTLS[t]] /\ gThreadIndexTLS[t] \in Slot
    BY <1>a, <1>1, Zenon
  <2> QED BY <1>0, <1>1, <2>1, <2>2, <2>3, <2>4, <2>5, <2>6, <2>7, Zenon
<1>2. CASE ~HasSlot(t)
  <2>1. PICK s \in FreeSlot :
           /\ gThreadIndexTLS' = [gThreadIndexTLS EXCEPT ![t] = s]
           /\ gGenerationTLS' = [gGenerationTLS EXCEPT ![t] = gProfilerGeneration]
           /\ initialized' = [initialized EXCEPT ![s] = TRUE]
           /\ entries' = [entries EXCEPT ![s] = <<>>]
           /\ entryStack' = entryStack
    BY <1>2, Zenon DEF GetThreadData
  <2>2. s \in Slot /\ ~initialized[s]
    BY Zenon DEF FreeSlot
  <2>3. s \in 0..MaxThreads /\ s # 0
    BY <2>2, SettingsAssumption DEF Slot
  <2>4. /\ gThreadIndexTLS' \in [Thread -> 0..MaxThreads] /\ gThreadIndexTLS'[t] = s
        /\ gGenerationTLS' \in [Thread -> 0..MaxRuns] /\ gGenerationTLS'[t] = gProfilerGeneration
        /\ initialized' \in [Slot -> BOOLEAN]
    BY <1>0, <2>1, <2>2, <2>3
  <2>5. /\ entries' \in [Slot -> Seq(Entry)]
        /\ entries'[s] = <<>> /\ \A r \in Slot : r # s => entries'[r] = entries[r]
    <3>1. <<>> \in Seq(Entry)
      OBVIOUS
    <3> QED BY <1>0, <2>1, <2>2, <3>1, Zenon
  <2>6. HasSlot(t)'
    BY <2>3, <2>4, Zenon DEF HasSlot
  <2>7. /\ \A r \in Slot : initialized[r] => initialized'[r]
        /\ \A r \in Slot : r # s => initialized'[r] = initialized[r]
        /\ initialized'[s]
    BY <1>0, <2>1, <2>2
  <2>8. ASSUME NEW u \in Thread, u # t
        PROVE  /\ gThreadIndexTLS'[u] = gThreadIndexTLS[u] /\ gGenerationTLS'[u] = gGenerationTLS[u]
               /\ HasSlot(u) => /\ entries'[gThreadIndexTLS[u]] = entries[gThreadIndexTLS[u]]
                                /\ gThreadIndexTLS[u] # s
    <3>1. gThreadIndexTLS'[u] = gThreadIndexTLS[u] /\ gGenerationTLS'[u] = gGenerationTLS[u]
      BY <1>0, <2>1, <2>8, Zenon
    <3>2. HasSlot(u) => gThreadIndexTLS[u] # s /\ gThreadIndexTLS[u] \in Slot
      BY <1>a, <2>2, Zenon
    <3> QED BY <2>5, <3>1, <3>2, Zenon
  <2>9. s \notin stray => entries[s] = <<>> /\ entryStack[s] = <<>>
    BY <2>2, Zenon DEF RecordInv, SlotInv, SlotRight
  <2>10. ASSUME NEW r \in Slot, r \notin stray PROVE SlotRight(r)'
    <3>1. SlotRight(r)
      BY <2>10, Zenon DEF RecordInv, SlotInv
    <3>2. entries'[r] = entries[r] /\ entryStack'[r] = entryStack[r]
      BY <2>1, <2>5, <2>9, <2>10, Zenon
    <3>3. initialized[r] => initialized'[r]
      BY <2>7, Zenon
    <3> QED BY <3>1, <3>2, <3>3, Zenon DEF SlotRight
  <2>11. SlotInv'
    BY <2>10, Zenon DEF SlotInv
  <2>12. ShownThreadsInitialized'
    <3>1. ASSUME NEW r \in Slot, initialized[r]
          PROVE  initialized'[r] /\ DOMAIN entries[r] \subseteq DOMAIN entries'[r]
      <4>1. r # s
        BY <2>2, <3>1, Zenon
      <4>2. entries'[r] = entries[r] /\ initialized'[r]
        BY <2>5, <2>7, <3>1, <4>1, Zenon
      <4> QED BY <4>2, Zenon
    <3>2. raced \subseteq raced' /\ frameThreads' = frameThreads /\ stray' = stray
      BY Zenon
    <3> QED BY <3>1, <3>2, ShownStays, Zenon
  <2>13. ~HasSlot(t) /\ gThreadIndexTLS'[t] \notin stray => entryStack[gThreadIndexTLS'[t]] = <<>>
    BY <2>4, <2>9, Zenon
  <2> QED BY <1>2, <2>1, <2>2, <2>4, <2>5, <2>6, <2>7, <2>8, <2>11, <2>12, <2>13, Zenon
<1> QED BY <1>1, <1>2, Zenon

(* A step of thread t that gets a slot, goes to to and has the scopes sc.  *)
ClaimStep(t, to, sc) ==
    /\ GetThreadData(t) /\ pc[t] = "idle" /\ ~gPaused
    /\ UNCHANGED <<flagVars, gRestarting, countVars, frameVars, stray>>
    /\ pc' = [pc EXCEPT ![t] = to] /\ scopes' = [scopes EXCEPT ![t] = sc]
    /\ \/ to = "idle" /\ sc = scopes[t]
       \/ to \in {"begin", "end"} /\ sc = scopes[t] /\ t = Audio
       \/ to = "pop" /\ sc = scopes[t] /\ sc # <<>>
       \/ to = "push" /\ sc = Append(scopes[t], 0) /\ Len(scopes[t]) < MaxCallStack

(* The first half of a push, a pop and a region while recording, and       *)
(* NameThread.                                                             *)
LEMMA ClaimKeeps ==
    ASSUME RecordInv, NEW t \in Thread, NEW to, NEW sc, ClaimStep(t, to, sc)
    PROVE  RecordInv'
<1>1. /\ GetThreadData(t) /\ pc[t] = "idle" /\ ~gPaused
      /\ UNCHANGED <<gPaused, gRequestPause, gRestarting, gProfilerGeneration>>
      /\ UNCHANGED <<gCurrentFrame, gCurrentRegion, frameThreads, place, raced, stray>>
      /\ pc' = [pc EXCEPT ![t] = to] /\ scopes' = [scopes EXCEPT ![t] = sc]
  BY Zenon DEF ClaimStep, flagVars, countVars, frameVars
<1>2. /\ pc \in [Thread -> Step] /\ scopes \in [Thread -> Seq(Nat)] /\ scopes[t] \in Seq(Nat)
      /\ gProfilerGeneration \in 0..MaxRuns /\ gProfilerGeneration # 0
      /\ ScopesRight(scopes[t], pc[t], HasSlot(t))
  BY <1>1, Zenon DEF RecordInv, TypeInv, RunInv, ScopeInv, ThreadScopes
<1>3. /\ gThreadIndexTLS' \in [Thread -> 0..MaxThreads]
      /\ gGenerationTLS' \in [Thread -> 0..MaxRuns]
      /\ initialized' \in [Slot -> BOOLEAN] /\ entries' \in [Slot -> Seq(Entry)]
      /\ entryStack' = entryStack
      /\ HasSlot(t)' /\ gThreadIndexTLS'[t] \in Slot
      /\ HasSlot(t) => gThreadIndexTLS'[t] = gThreadIndexTLS[t] /\ entries' = entries
      /\ ~HasSlot(t) /\ gThreadIndexTLS'[t] \notin stray => entryStack[gThreadIndexTLS'[t]] = <<>>
      /\ \A s \in Slot : initialized[s] => initialized'[s]
      /\ initialized'[gThreadIndexTLS'[t]] /\ gGenerationTLS'[t] = gProfilerGeneration
      /\ SlotInv' /\ ShownThreadsInitialized'
  BY <1>1, ClaimSlot, Zenon
<1>4. \A u \in Thread : u # t =>
         /\ gThreadIndexTLS'[u] = gThreadIndexTLS[u]
         /\ gGenerationTLS'[u] = gGenerationTLS[u]
         /\ HasSlot(u) => /\ entries'[gThreadIndexTLS[u]] = entries[gThreadIndexTLS[u]]
                          /\ gThreadIndexTLS[u] # gThreadIndexTLS'[t]
  BY <1>1, ClaimSlot, Zenon
<1>5. /\ to \in {"idle", "begin", "end", "pop", "push"} /\ to \in Step
      /\ to \in {"begin", "end"} => t = Audio
  BY Zenon DEF ClaimStep, Step
<1>6. /\ sc \in Seq(Nat) /\ ScopesRight(sc, to, TRUE)
      /\ \A st \in Seq(Nat) : Recorded(scopes[t], st, FALSE) => Recorded(sc, st, to \in {"push", "write"})
  <2>1. Len(scopes[t]) \in Nat /\ Len(scopes[t]) <= MaxCallStack
    BY <1>2, SeqFacts DEF ScopesRight
  <2>2. CASE sc = scopes[t] /\ to # "push" /\ (to = "pop" => sc # <<>>)
    <3>1. to # "push" /\ to # "write" /\ to # "close"
      BY <1>5, <2>2, Zenon
    <3>2. (to \in {"push", "write"}) = FALSE
      BY <3>1
    <3>3. ScopesRight(sc, to, TRUE)
      BY <2>1, <2>2, <3>1, Zenon DEF ScopesRight
    <3> QED BY <1>2, <2>2, <3>2, <3>3, Zenon
  <2>3. CASE to = "push" /\ sc = Append(scopes[t], 0) /\ Len(scopes[t]) < MaxCallStack
    <3>1. /\ sc \in Seq(Nat) /\ sc # <<>> /\ Len(sc) = Len(scopes[t]) + 1
          /\ sc[Len(sc)] = 0
          /\ \A st \in Seq(Nat) : Recorded(scopes[t], st, FALSE) => Recorded(sc, st, TRUE)
      BY <1>2, <2>3, ScopeAdded, Zenon
    <3>2. Len(sc) <= MaxCallStack
      BY <2>1, <2>3, <3>1, SettingsAssumption
    <3>3. (to \in {"push", "write"}) = TRUE
      BY <2>3
    <3>4. ScopesRight(sc, to, TRUE)
      BY <3>1, <3>2, Zenon DEF ScopesRight
    <3> QED BY <3>1, <3>3, <3>4, Zenon
  <2>4. (sc = scopes[t] /\ to # "push" /\ (to = "pop" => sc # <<>>))
          \/ (to = "push" /\ sc = Append(scopes[t], 0) /\ Len(scopes[t]) < MaxCallStack)
    BY Zenon DEF ClaimStep
  <2> QED BY <2>2, <2>3, <2>4, Zenon
<1>7. /\ pc'[t] = to /\ scopes'[t] = sc
      /\ \A u \in Thread : u # t => pc'[u] = pc[u] /\ scopes'[u] = scopes[u]
      /\ pc' \in [Thread -> Step] /\ scopes' \in [Thread -> Seq(Nat)]
  BY <1>1, <1>2, <1>5, <1>6, Zenon
<1>8. TypeInv'
  BY <1>1, <1>3, <1>7, Zenon DEF RecordInv, TypeInv
<1>9. ThreadRun(t)'
  <2>1. gThreadIndexTLS'[t] # 0
    BY <1>3, Zenon DEF HasSlot
  <2>2. gGenerationTLS'[t] <= gProfilerGeneration'
    BY <1>1, <1>2, <1>3, SettingsAssumption
  <2>3. to # "frame" /\ to # "region" /\ (to \in {"begin", "end", "region"} => t = Audio)
    BY <1>5, Zenon
  <2> QED BY <1>3, <1>7, <2>1, <2>2, <2>3, Zenon DEF ThreadRun
<1>10. ThreadScopes(t)'
  BY <1>3, <1>6, <1>7, Zenon DEF ThreadScopes, ScopesRight
<1>11. ASSUME Own(t)' PROVE ThreadStack(t)'
  <2> DEFINE s == gThreadIndexTLS'[t]
  <2>1. s \notin stray
    BY <1>1, <1>11, Zenon DEF Own
  <2>2. entryStack[s] \in Seq(Nat)
    BY <1>3, Zenon DEF RecordInv, TypeInv
  <2>3. Recorded(scopes[t], entryStack[s], FALSE) /\ (entryStack[s] # <<>> => ~gRestarting)
    <3>1. CASE HasSlot(t)
      <4>1. Own(t) /\ s = gThreadIndexTLS[t]
        BY <1>3, <2>1, <3>1, Zenon DEF Own
      <4>2. StackRight(entries[s], entryStack[s], scopes[t], pc[t], gPaused, gRestarting)
        BY <4>1, Zenon DEF RecordInv, StackInv, ThreadStack
      <4>3. (pc[t] \in {"push", "write"}) = FALSE
        BY <1>1
      <4> QED BY <1>1, <4>2, <4>3, Zenon DEF StackRight
    <3>2. CASE ~HasSlot(t)
      <4>1. entryStack[s] = <<>> /\ \A i \in 1..Len(scopes[t]) : scopes[t][i] = 0
        BY <1>2, <1>3, <2>1, <3>2, Zenon DEF ScopesRight
      <4> QED BY <1>2, <4>1, NoneRecorded, Zenon
    <3> QED BY <3>1, <3>2, Zenon
  <2>4. Recorded(sc, entryStack[s], to \in {"push", "write"})
    BY <1>6, <2>2, <2>3, Zenon
  <2>5. to # "first" /\ to # "place" /\ to # "write"
    BY <1>5, Zenon
  <2>6. StackRight(entries'[s], entryStack[s], sc, to, gPaused, gRestarting)
    BY <2>3, <2>4, <2>5, Zenon DEF StackRight
  <2> QED BY <1>1, <1>3, <1>7, <2>6, Zenon DEF ThreadStack
<1>12. PlaceInv'
  <2>1. ASSUME NEW u \in Thread PROVE pc'[u] = "place" <=> pc[u] = "place"
    BY <1>1, <1>5, <1>7, Zenon
  <2> QED BY <1>1, <2>1, PlaceStays, Zenon DEF RecordInv, frameVars
<1>13. ThreadStep(t)
  <2>1. ASSUME NEW u \in Thread, u # t, Own(u)
        PROVE  /\ entries'[gThreadIndexTLS[u]] = entries[gThreadIndexTLS[u]]
               /\ entryStack'[gThreadIndexTLS[u]] = entryStack[gThreadIndexTLS[u]]
    BY <1>3, <1>4, <2>1, Zenon DEF Own
  <2>2. gThreadIndexTLS'[t] # 0
    BY <1>3, Zenon DEF HasSlot
  <2> QED BY <1>1, <1>2, <1>3, <1>4, <1>7, <2>1, <2>2, Zenon DEF ThreadStep
<1> QED BY <1>3, <1>8, <1>9, <1>10, <1>11, <1>12, <1>13, StepKeeps, Zenon

-----------------------------------------------------------------------------
(* A step of thread t that writes the entries es and the call stack st to  *)
(* its slot.                                                               *)
WriteStep(t, es, st, sc, to) ==
    LET r == gThreadIndexTLS[t]
    IN  /\ pc[t] \in {"write", "close"} /\ to \in {"idle", "first"}
        /\ UNCHANGED <<flagVars, countVars, initialized, frameVars, tlsVars, stray>>
        /\ gRestarting' \in BOOLEAN /\ (gRestarting' => gRestarting)
        /\ entries' = [entries EXCEPT ![r] = es] /\ entryStack' = [entryStack EXCEPT ![r] = st]
        /\ pc' = [pc EXCEPT ![t] = to] /\ scopes' = [scopes EXCEPT ![t] = sc]

(* What it writes if it is alone in its slot.                              *)
WriteRight(t, es, st, sc, to) ==
    LET r == gThreadIndexTLS[t]
    IN  /\ es \in Seq(Entry) /\ st \in Seq(Nat) /\ sc \in Seq(Nat)
        /\ Len(entries[r]) <= Len(es)
        /\ r \notin stray => Nested(es, st) /\ Len(es) <= MaxEntries /\ Len(st) <= MaxCallStack
        /\ ScopesRight(sc, to, HasSlot(t))
        /\ Own(t) => StackRight(es, st, sc, to, gPaused, gRestarting')

LEMMA WriteKeeps ==
    ASSUME RecordInv, NEW t \in Thread, NEW es, NEW st, NEW sc, NEW to,
           WriteStep(t, es, st, sc, to), WriteRight(t, es, st, sc, to)
    PROVE  RecordInv'
<1> DEFINE r == gThreadIndexTLS[t]
<1>1. /\ pc[t] \in {"write", "close"} /\ to \in {"idle", "first"}
      /\ UNCHANGED <<gPaused, gRequestPause, gProfilerGeneration, gCurrentFrame, gCurrentRegion>>
      /\ UNCHANGED <<initialized, frameThreads, place, raced, gThreadIndexTLS, gGenerationTLS, stray>>
      /\ gRestarting' \in BOOLEAN /\ (gRestarting' => gRestarting)
      /\ entries' = [entries EXCEPT ![r] = es] /\ entryStack' = [entryStack EXCEPT ![r] = st]
      /\ pc' = [pc EXCEPT ![t] = to] /\ scopes' = [scopes EXCEPT ![t] = sc]
  BY Zenon DEF WriteStep, flagVars, countVars, frameVars, tlsVars
<1>2. /\ es \in Seq(Entry) /\ st \in Seq(Nat) /\ sc \in Seq(Nat)
      /\ Len(entries[r]) <= Len(es)
      /\ r \notin stray => Nested(es, st) /\ Len(es) <= MaxEntries /\ Len(st) <= MaxCallStack
      /\ ScopesRight(sc, to, HasSlot(t))
      /\ Own(t) => StackRight(es, st, sc, to, gPaused, gRestarting')
  BY Zenon DEF WriteRight
<1>3. /\ r \in Slot /\ gProfilerGeneration # 0
      /\ r \notin stray => Own(t)
      /\ \A u \in Thread : u # t /\ Own(u) => gThreadIndexTLS[u] # r
  <2>1. pc[t] \in Calls
    BY <1>1, Zenon DEF Calls
  <2> QED BY <2>1, CallSlot, Zenon
<1>4. /\ entries \in [Slot -> Seq(Entry)] /\ entryStack \in [Slot -> Seq(Nat)]
      /\ pc \in [Thread -> Step] /\ scopes \in [Thread -> Seq(Nat)] /\ to \in Step
  BY <1>1, Zenon DEF RecordInv, TypeInv, Step
<1>5. /\ entries'[r] = es /\ entryStack'[r] = st
      /\ \A s \in Slot : s # r => entries'[s] = entries[s] /\ entryStack'[s] = entryStack[s]
      /\ entries' \in [Slot -> Seq(Entry)] /\ entryStack' \in [Slot -> Seq(Nat)]
  BY <1>1, <1>2, <1>3, <1>4, Zenon
<1>6. /\ pc'[t] = to /\ scopes'[t] = sc
      /\ \A u \in Thread : u # t => pc'[u] = pc[u] /\ scopes'[u] = scopes[u]
      /\ pc' \in [Thread -> Step] /\ scopes' \in [Thread -> Seq(Nat)]
  BY <1>1, <1>2, <1>4, Zenon
<1>7. \A u \in Thread : (HasSlot(u)' <=> HasSlot(u)) /\ (Own(u)' <=> Own(u))
  BY <1>1, Zenon DEF HasSlot, Own
<1>8. TypeInv'
  BY <1>1, <1>5, <1>6, Zenon DEF RecordInv, TypeInv
<1>9. ThreadRun(t)'
  <2>1. ThreadRun(t)
    BY Zenon DEF RecordInv, RunInv
  <2>2. /\ r # 0 /\ (HasSlot(t) \/ r \in stray)
        /\ to # "frame" /\ to # "region" /\ to \notin {"begin", "end", "region"}
    BY <1>1, <2>1, Zenon DEF ThreadRun, Calls
  <2> QED BY <1>1, <1>6, <1>7, <2>1, <2>2, Zenon DEF ThreadRun
<1>10. ThreadScopes(t)'
  BY <1>2, <1>6, <1>7, Zenon DEF ThreadScopes, ScopesRight
<1>11. Own(t)' => ThreadStack(t)'
  BY <1>1, <1>2, <1>5, <1>6, <1>7, Zenon DEF ThreadStack
<1>12. SlotInv'
  <2>1. ASSUME NEW s \in Slot, s \notin stray PROVE SlotRight(s)'
    <3>1. SlotRight(s)
      BY <2>1, Zenon DEF RecordInv, SlotInv
    <3>2. CASE s = r
      <4>1. initialized[s]
        BY <1>3, <2>1, <3>2, OwnSlot, Zenon DEF Own
      <4>2. Nested(es, st) /\ Len(es) <= MaxEntries /\ Len(st) <= MaxCallStack
        BY <1>2, <2>1, <3>2, Zenon
      <4> QED BY <1>1, <1>5, <3>2, <4>1, <4>2, Zenon DEF SlotRight
    <3>3. CASE s # r
      BY <1>1, <1>5, <3>1, <3>3, Zenon DEF SlotRight
    <3> QED BY <3>2, <3>3, Zenon
  <2> QED BY <1>1, <2>1, Zenon DEF SlotInv
<1>13. PlaceInv'
  <2>1. ASSUME NEW u \in Thread PROVE pc'[u] = "place" <=> pc[u] = "place"
    BY <1>1, <1>6, Zenon
  <2> QED BY <1>1, <2>1, PlaceStays, Zenon DEF RecordInv, frameVars
<1>14. ShownThreadsInitialized'
  <2>1. DOMAIN entries[r] \subseteq DOMAIN es
    <3>1. entries[r] \in Seq(Entry)
      BY <1>3, <1>4, Zenon
    <3>2. /\ DOMAIN entries[r] = 1..Len(entries[r]) /\ DOMAIN es = 1..Len(es)
          /\ Len(entries[r]) \in Nat /\ Len(es) \in Nat
      BY <1>2, <3>1, SeqFacts, Zenon
    <3>3. 1..Len(entries[r]) \subseteq 1..Len(es)
      BY <1>2, <3>2
    <3> QED BY <3>2, <3>3, Zenon
  <2>2. ASSUME NEW s \in Slot, initialized[s]
        PROVE  initialized'[s] /\ DOMAIN entries[s] \subseteq DOMAIN entries'[s]
    BY <1>1, <1>5, <2>1, <2>2, Zenon
  <2>3. frameThreads' = frameThreads /\ raced \subseteq raced' /\ stray' = stray
    BY <1>1, Zenon
  <2> QED BY <2>2, <2>3, ShownStays, Zenon
<1>15. ThreadStep(t)
  <2>1. ASSUME NEW u \in Thread, u # t, HasSlot(u), HasSlot(t)'
        PROVE  gThreadIndexTLS[u] # gThreadIndexTLS'[t]
    BY <1>1, <1>7, <2>1, Zenon DEF RecordInv, RunInv
  <2>2. ASSUME NEW u \in Thread, u # t, Own(u)
        PROVE  /\ entries'[gThreadIndexTLS[u]] = entries[gThreadIndexTLS[u]]
               /\ entryStack'[gThreadIndexTLS[u]] = entryStack[gThreadIndexTLS[u]]
    BY <1>3, <1>5, <2>2, OwnSlot, Zenon DEF Own
  <2> QED BY <1>1, <1>3, <1>6, <2>1, <2>2, Zenon DEF ThreadStep
<1> QED BY <1>8, <1>9, <1>10, <1>11, <1>12, <1>13, <1>14, <1>15, StepKeeps, Zenon

-----------------------------------------------------------------------------
(* What CheckEndState does to the flags.                                   *)
LEMMA CheckFlags ==
    ASSUME RecordInv, NEW s, CheckEndState(s)
    PROVE  /\ gPaused' \in BOOLEAN /\ gRequestPause' \in BOOLEAN /\ (gPaused => gPaused')
           /\ EndState(s) => gPaused'
<1>1. gPaused \in BOOLEAN /\ gRequestPause \in BOOLEAN
  BY Zenon DEF RecordInv, TypeInv
<1>2. CASE Full(s)
  <2>1. gPaused' = TRUE /\ gRequestPause' = TRUE
    BY <1>2, Zenon DEF CheckEndState
  <2> QED BY <2>1
<1>3. CASE ~Full(s)
  <2>1. gPaused' = gPaused /\ gRequestPause' = gRequestPause
    BY <1>3, Zenon DEF CheckEndState, flagVars
  <2>2. EndState(s) => gPaused
    BY <1>3, Zenon DEF EndState
  <2> QED BY <1>1, <2>1, <2>2
<1> QED BY <1>2, <1>3, Zenon

(* The scopes of a thread that one of them ends.                           *)
LEMMA FrontScopes ==
    ASSUME RecordInv, NEW t \in Thread, scopes[t] # <<>>
    PROVE  LET front == SubSeq(scopes[t], 1, Len(scopes[t]) - 1)
           IN  front \in Seq(Nat) /\ ScopesRight(front, "idle", HasSlot(t))
<1> DEFINE old == scopes[t]
           front == SubSeq(old, 1, Len(old) - 1)
<1>1. old \in Seq(Nat) /\ old # <<>> /\ ScopesRight(old, pc[t], HasSlot(t))
  BY Zenon DEF RecordInv, TypeInv, ScopeInv, ThreadScopes
<1>2. /\ Len(old) \in Nat \ {0} /\ front \in Seq(Nat) /\ Len(front) = Len(old) - 1
      /\ \A i \in 1..(Len(old) - 1) : front[i] = old[i]
  BY <1>1, FrontIs, Zenon
<1>3. Len(old) <= MaxCallStack /\ (~HasSlot(t) => \A i \in 1..Len(old) : old[i] = 0)
  BY <1>1, Zenon DEF ScopesRight
<1> HIDE DEF old, front
<1>4. Len(front) <= MaxCallStack /\ \A i \in 1..Len(front) : i \in 1..Len(old) /\ front[i] = old[i]
  BY <1>2, <1>3, SettingsAssumption
<1>5. ScopesRight(front, "idle", HasSlot(t))
  BY <1>3, <1>4, Zenon DEF ScopesRight
<1> QED BY <1>2, <1>5, Zenon DEF old, front

(* A scope begins or ends while the profiler is paused.                    *)
LEMMA PausedKeeps ==
    ASSUME RecordInv, NEW t \in Thread, gPaused, pc[t] = "idle", NEW sc \in Seq(Nat),
           ScopesRight(sc, "idle", HasSlot(t)), scopes' = [scopes EXCEPT ![t] = sc],
           UNCHANGED <<flagVars, gRestarting, countVars, slotVars, frameVars, tlsVars, pc, stray>>
    PROVE  RecordInv'
<1> DEFINE s == gThreadIndexTLS[t]
<1>1. pc' = [pc EXCEPT ![t] = "idle"]
  BY Zenon DEF RecordInv, TypeInv
<1>2. gPaused' \in BOOLEAN /\ gRequestPause' \in BOOLEAN /\ (gPaused => gPaused') /\ gPaused'
  BY DEF RecordInv, TypeInv, flagVars
<1>3. Own(t) => StackRight(entries[s], entryStack[s], sc, "idle", gPaused', gRestarting)
  <2>1. Own(t) => StackRight(entries[s], entryStack[s], scopes[t], "idle", gPaused, gRestarting)
    BY Zenon DEF RecordInv, StackInv, ThreadStack
  <2> QED BY <1>2, <2>1, Zenon DEF StackRight
<1>4. MoveStep(t, "idle", sc)
  BY <1>1, <1>2, <1>3, Zenon DEF MoveStep
<1> QED BY <1>4, MoveKeeps, Zenon

(* PushSectionBase checks whether there is memory left for an entry.       *)
LEMMA PushCheckKeeps ==
    ASSUME RecordInv, NEW t \in Thread, PushCheck(t)
    PROVE  RecordInv'
<1> DEFINE s == gThreadIndexTLS[t]
           to == IF EndState(s) THEN "idle" ELSE "write"
<1>1. /\ pc[t] = "push" /\ pc' = [pc EXCEPT ![t] = to] /\ CheckEndState(s)
      /\ UNCHANGED <<gRestarting, countVars, slotVars, frameVars, tlsVars, scopes, stray>>
  BY Zenon DEF PushCheck, Goto
<1>2. /\ gPaused' \in BOOLEAN /\ gRequestPause' \in BOOLEAN /\ (gPaused => gPaused')
      /\ EndState(s) => gPaused'
  BY <1>1, CheckFlags, Zenon
<1>3. /\ scopes[t] \in Seq(Nat) /\ scopes \in [Thread -> Seq(Nat)]
      /\ ScopesRight(scopes[t], pc[t], HasSlot(t))
  BY Zenon DEF RecordInv, TypeInv, ScopeInv, ThreadScopes
<1>4. scopes' = [scopes EXCEPT ![t] = scopes[t]]
  BY <1>1, <1>3, Zenon
<1>5. ASSUME Own(t)
      PROVE  StackRight(entries[s], entryStack[s], scopes[t], to, gPaused', gRestarting)
  <2>1. StackRight(entries[s], entryStack[s], scopes[t], "push", gPaused, gRestarting)
    BY <1>1, <1>5, Zenon DEF RecordInv, StackInv, ThreadStack
  <2>2. CASE EndState(s)
    <3>1. to = "idle" /\ gPaused'
      BY <1>2, <2>2, Zenon
    <3> HIDE DEF to
    <3> QED BY <2>1, <3>1, Zenon DEF StackRight
  <2>3. CASE ~EndState(s)
    <3>1. to = "write"
      BY <2>3, Zenon
    <3>2. Len(entries[s]) < MaxEntries
      <4>1. ~(Len(entries[s]) >= MaxEntries)
        BY <2>3, Zenon DEF EndState, Full
      <4>2. entries[s] \in Seq(Entry)
        BY <1>5, OwnSlot, Zenon DEF RecordInv, TypeInv, Own
      <4>3. Len(entries[s]) \in Nat
        BY <4>2, SeqFacts, Zenon
      <4> QED BY <4>1, <4>3, SettingsAssumption
    <3>3. ("push" \in {"push", "write"}) = TRUE /\ ("write" \in {"push", "write"}) = TRUE
      OBVIOUS
    <3>4. Recorded(scopes[t], entryStack[s], "write" \in {"push", "write"})
      BY <2>1, <3>3, Zenon DEF StackRight
    <3> HIDE DEF to
    <3> QED BY <2>1, <3>1, <3>2, <3>4, Zenon DEF StackRight
  <2> QED BY <2>2, <2>3, Zenon
<1>6. ScopesRight(scopes[t], to, HasSlot(t)) /\ (to = "idle" \/ to \in {"write", "close"})
  BY <1>1, <1>3, Zenon DEF ScopesRight
<1>7. pc[t] \in Calls /\ pc[t] # "place"
  BY <1>1, Zenon DEF Calls
<1> HIDE DEF to
<1>8. MoveStep(t, to, scopes[t])
  BY <1>1, <1>2, <1>3, <1>4, <1>5, <1>6, <1>7, Zenon DEF MoveStep
<1> QED BY <1>8, MoveKeeps, Zenon

(* PopSection checks whether there is an entry to close.                   *)
LEMMA PopCheckKeeps ==
    ASSUME RecordInv, NEW t \in Thread, PopCheck(t)
    PROVE  RecordInv'
<1> DEFINE s == gThreadIndexTLS[t]
           front == SubSeq(scopes[t], 1, Len(scopes[t]) - 1)
<1>1. /\ pc[t] = "pop" /\ CheckEndState(s)
      /\ UNCHANGED <<gRestarting, countVars, slotVars, frameVars, tlsVars, stray>>
      /\ IF EndState(s) \/ gRestarting
         THEN pc' = [pc EXCEPT ![t] = "idle"] /\ scopes' = [scopes EXCEPT ![t] = front]
         ELSE pc' = [pc EXCEPT ![t] = "close"] /\ scopes' = scopes
  BY Zenon DEF PopCheck, Goto, PopScope
<1>2. /\ gPaused' \in BOOLEAN /\ gRequestPause' \in BOOLEAN /\ (gPaused => gPaused')
      /\ EndState(s) => gPaused'
  BY <1>1, CheckFlags, Zenon
<1>3. /\ scopes[t] \in Seq(Nat) /\ scopes \in [Thread -> Seq(Nat)]
      /\ ScopesRight(scopes[t], pc[t], HasSlot(t))
  BY Zenon DEF RecordInv, TypeInv, ScopeInv, ThreadScopes
<1>4. scopes[t] # <<>>
  BY <1>1, <1>3, Zenon DEF ScopesRight
<1>5. front \in Seq(Nat) /\ ScopesRight(front, "idle", HasSlot(t))
  BY <1>4, FrontScopes, Zenon
<1>6. ASSUME Own(t)
      PROVE  /\ Recorded(scopes[t], entryStack[s], FALSE)
             /\ entryStack[s] # <<>> => ~gRestarting
             /\ entryStack[s] \in Seq(Nat)
  <2>1. StackRight(entries[s], entryStack[s], scopes[t], "pop", gPaused, gRestarting)
    BY <1>1, <1>6, Zenon DEF RecordInv, StackInv, ThreadStack
  <2>2. ("pop" \in {"push", "write"}) = FALSE
    OBVIOUS
  <2>3. entryStack[s] \in Seq(Nat)
    BY <1>6, OwnSlot, Zenon DEF RecordInv, TypeInv, Own
  <2> QED BY <2>1, <2>2, <2>3, Zenon DEF StackRight
<1>7. pc[t] \in Calls /\ pc[t] # "place"
  BY <1>1, Zenon DEF Calls
<1>8. CASE EndState(s) \/ gRestarting
  <2>1. ASSUME Own(t)
        PROVE  StackRight(entries[s], entryStack[s], front, "idle", gPaused', gRestarting)
    <3>1. ~gPaused' => Recorded(front, entryStack[s], FALSE)
      <4>1. ~gPaused' => entryStack[s] = <<>>
        BY <1>2, <1>6, <1>8, <2>1, Zenon
      <4> QED BY <1>3, <1>4, <1>6, <2>1, <4>1, ScopeEnded, Zenon
    <3>2. ("idle" \in {"push", "write"}) = FALSE
      OBVIOUS
    <3> HIDE DEF front
    <3> QED BY <1>6, <2>1, <3>1, <3>2, Zenon DEF StackRight
  <2> HIDE DEF front
  <2>2. MoveStep(t, "idle", front)
    BY <1>1, <1>2, <1>5, <1>7, <1>8, <2>1, Zenon DEF MoveStep
  <2> QED BY <2>2, MoveKeeps, Zenon
<1>9. CASE ~(EndState(s) \/ gRestarting)
  <2>1. ASSUME Own(t)
        PROVE  StackRight(entries[s], entryStack[s], scopes[t], "close", gPaused', gRestarting)
    <3>1. ("close" \in {"push", "write"}) = FALSE
      OBVIOUS
    <3> QED BY <1>6, <1>9, <2>1, <3>1, Zenon DEF StackRight
  <2>2. scopes' = [scopes EXCEPT ![t] = scopes[t]] /\ pc' = [pc EXCEPT ![t] = "close"]
    BY <1>1, <1>3, <1>9, Zenon
  <2>3. ScopesRight(scopes[t], "close", HasSlot(t))
    BY <1>3, <1>4, Zenon DEF ScopesRight
  <2>4. MoveStep(t, "close", scopes[t])
    BY <1>1, <1>2, <1>3, <1>7, <2>1, <2>2, <2>3, Zenon DEF MoveStep
  <2> QED BY <2>4, MoveKeeps, Zenon
<1> QED BY <1>8, <1>9, Zenon

(* PushSectionBase writes an entry of the memory that was left.            *)
LEMMA PushEntryKeeps ==
    ASSUME RecordInv, NEW t \in Thread, PushEntry(t)
    PROVE  RecordInv'
<1> DEFINE r == gThreadIndexTLS[t]
           oes == entries[r]
           ost == entryStack[r]
           old == scopes[t]
           entry == Len(oes) + 1
           parent == IF Len(ost) > 0 THEN ost[Len(ost)] ELSE 0
           new == [parent |-> parent, open |-> TRUE]
           es == Append(oes, new)
           st == Append(ost, entry)
           e == IF HasSlot(t) THEN entry ELSE 0
           sc == [old EXCEPT ![Len(old)] = e]
           to == IF entry = 1 THEN "first" ELSE "idle"
<1>1. pc[t] = "write" /\ pc[t] \in Calls /\ gRestarting' = (gRestarting /\ entry = 1)
  BY Zenon DEF PushEntry, Goto, Calls
<1>2. gRestarting' \in BOOLEAN /\ (gRestarting' => gRestarting) /\ (entry # 1 => ~gRestarting')
  <2>1. gRestarting \in BOOLEAN
    BY Zenon DEF RecordInv, TypeInv
  <2> HIDE DEF entry
  <2> QED BY <1>1, <2>1, Zenon
<1>3. WriteStep(t, es, st, sc, to)
  <2>1. /\ entries' = [entries EXCEPT ![r] = es] /\ entryStack' = [entryStack EXCEPT ![r] = st]
        /\ pc' = [pc EXCEPT ![t] = to] /\ scopes' = [scopes EXCEPT ![t] = sc]
        /\ UNCHANGED <<flagVars, countVars, initialized, frameVars, tlsVars, stray>>
    BY DEF PushEntry, Goto
  <2>2. to \in {"idle", "first"}
    BY Zenon
  <2> HIDE DEF es, st, sc, to
  <2> QED BY <1>1, <1>2, <2>1, <2>2, Zenon DEF WriteStep
<1>4. /\ r \in Slot /\ (r \notin stray => Own(t))
      /\ oes \in Seq(Entry) /\ ost \in Seq(Nat) /\ old \in Seq(Nat)
      /\ ScopesRight(old, "write", HasSlot(t))
      /\ Own(t) => StackRight(oes, ost, old, "write", gPaused, gRestarting)
  <2>1. r \in Slot /\ (r \notin stray => Own(t))
    BY <1>1, CallSlot, Zenon
  <2>2. Own(t) => StackRight(oes, ost, old, "write", gPaused, gRestarting)
    BY <1>1, Zenon DEF RecordInv, StackInv, ThreadStack
  <2>3. ScopesRight(old, "write", HasSlot(t))
    BY <1>1, Zenon DEF RecordInv, ScopeInv, ThreadScopes
  <2> QED BY <2>1, <2>2, <2>3, Zenon DEF RecordInv, TypeInv
<1>5. /\ old # <<>> /\ Len(old) <= MaxCallStack
      /\ ~HasSlot(t) => \A i \in 1..Len(old) : old[i] = 0
      /\ Own(t) => Recorded(old, ost, TRUE) /\ Len(oes) < MaxEntries
  <2>1. ("write" \in {"push", "write"}) = TRUE
    OBVIOUS
  <2> HIDE DEF oes, ost, old
  <2> QED BY <1>4, <2>1, Zenon DEF ScopesRight, StackRight
<1>6. r \notin stray => Nested(oes, ost)
  BY <1>4, Zenon DEF RecordInv, SlotInv, SlotRight
<1> HIDE DEF oes, ost, old
<1>7. /\ Len(oes) \in Nat /\ Len(ost) \in Nat /\ Len(old) \in Nat
      /\ \A k \in 1..Len(ost) : ost[k] \in Nat
  BY <1>4, SeqFacts, Zenon
<1>8. entry \in Nat /\ entry # 0 /\ e \in Nat
  BY <1>7
<1>9. parent \in Nat
  BY <1>7
<1>10. new \in Entry
  BY <1>9, Zenon DEF Entry
<1>11. r \notin stray => Nested(es, st)
  BY <1>4, <1>6, NestedPush, Zenon
<1> HIDE DEF entry, parent, new, e
<1>12. /\ es \in Seq(Entry) /\ Len(es) = Len(oes) + 1 /\ es # <<>>
       /\ st \in Seq(Nat) /\ Len(st) = Len(ost) + 1
  <2>1. /\ Append(oes, new) \in Seq(Entry) /\ Len(Append(oes, new)) = Len(oes) + 1
        /\ Append(oes, new) # <<>>
    BY <1>4, <1>10, AppendFacts, ZenonT(30)
  <2>2. Append(ost, entry) \in Seq(Nat) /\ Len(Append(ost, entry)) = Len(ost) + 1
    BY <1>4, <1>8, AppendFacts, Zenon
  <2> QED BY <2>1, <2>2, Zenon
<1>13. /\ sc \in Seq(Nat) /\ Len(sc) = Len(old)
       /\ \A i \in 1..Len(old) : i # Len(old) => sc[i] = old[i]
       /\ sc[Len(old)] = e
       /\ \A w \in Seq(Nat) : Recorded(old, w, TRUE) => Recorded(sc, Append(w, e), FALSE)
  BY <1>4, <1>5, <1>8, ScopeRecorded, Zenon
<1>14. ScopesRight(sc, to, HasSlot(t))
  <2>1. ~HasSlot(t) => e = 0
    BY Zenon DEF e
  <2>2. ~HasSlot(t) => \A i \in 1..Len(sc) : sc[i] = 0
    <3> HIDE DEF sc
    <3> QED BY <1>5, <1>13, <2>1, Zenon
  <2>3. to \notin {"push", "write", "pop", "close"}
    BY Zenon
  <2> HIDE DEF sc, to
  <2> QED BY <1>5, <1>13, <2>2, <2>3, Zenon DEF ScopesRight
<1>15. ASSUME Own(t)
       PROVE  /\ Recorded(sc, st, FALSE)
              /\ Len(es) <= MaxEntries /\ Len(st) <= MaxCallStack
  <2>1. e = entry
    BY <1>15, Zenon DEF Own, e
  <2>2. Recorded(sc, st, FALSE)
    BY <1>4, <1>5, <1>13, <1>15, <2>1, Zenon
  <2> HIDE DEF sc, st, es
  <2>3. Len(st) <= Len(sc)
    BY <2>2 DEF Recorded
  <2>4. Len(oes) < MaxEntries
    BY <1>5, <1>15, Zenon
  <2>5. Len(es) <= MaxEntries
    BY <1>7, <1>12, <2>4, SettingsAssumption
  <2>6. Len(st) <= MaxCallStack
    BY <1>5, <1>7, <1>12, <1>13, <2>3, SettingsAssumption
  <2> QED BY <2>2, <2>5, <2>6, Zenon
<1>16. ASSUME Own(t) PROVE StackRight(es, st, sc, to, gPaused, gRestarting')
  <2>1. /\ (to \in {"push", "write"}) = FALSE /\ to # "write"
        /\ to \notin {"first", "place"} => entry # 1
    OBVIOUS
  <2>2. to \notin {"first", "place"} => ~gRestarting'
    BY <1>2, <2>1, Zenon
  <2> HIDE DEF sc, st, es, to
  <2> QED BY <1>12, <1>15, <1>16, <2>1, <2>2, Zenon DEF StackRight
<1>17. Len(oes) <= Len(es)
  BY <1>7, <1>12
<1>18. WriteRight(t, es, st, sc, to)
  <2> HIDE DEF es, st, sc, to
  <2> QED BY <1>4, <1>11, <1>12, <1>13, <1>14, <1>15, <1>16, <1>17, Zenon DEF WriteRight, oes
<1> HIDE DEF es, st, sc, to
<1> QED BY <1>3, <1>18, WriteKeeps, Zenon

(* An entry is closed.                                                     *)
LEMMA EntryClosed ==
    ASSUME NEW es \in Seq(Entry), NEW top
    PROVE  LET new == [es EXCEPT ![top].open = FALSE]
           IN  new \in Seq(Entry) /\ Len(new) = Len(es)
<1> DEFINE n == Len(es)
           new == [es EXCEPT ![top].open = FALSE]
<1>1. es \in [1..n -> Entry] /\ n \in Nat
  BY SeqFacts, Zenon
<1>2. ASSUME NEW k \in 1..n PROVE new[k] \in Entry
  <2>1. es[k] \in Entry
    BY <1>1, Zenon
  <2>2. [es[k] EXCEPT !.open = FALSE] \in Entry
    BY <2>1, Zenon DEF Entry
  <2>3. new[k] = IF k = top THEN [es[k] EXCEPT !.open = FALSE] ELSE es[k]
    BY <1>1, Zenon
  <2> QED BY <2>1, <2>2, <2>3, Zenon
<1>3. new = [k \in 1..n |-> new[k]]
  BY <1>1, Zenon
<1> HIDE DEF new
<1>4. new \in [1..n -> Entry]
  BY <1>2, <1>3, Zenon
<1> QED BY <1>1, <1>4, FunctionSeq, Zenon DEF new

(* PopSection closes the entry on top of the call stack.                   *)
LEMMA PopEntryKeeps ==
    ASSUME RecordInv, NEW t \in Thread, PopEntry(t)
    PROVE  RecordInv'
<1> DEFINE r == gThreadIndexTLS[t]
           oes == entries[r]
           ost == entryStack[r]
           depth == Len(ost)
           old == scopes[t]
           sc == SubSeq(old, 1, Len(old) - 1)
<1>1. /\ pc[t] = "close" /\ pc[t] \in Calls /\ pc' = [pc EXCEPT ![t] = "idle"]
      /\ scopes' = [scopes EXCEPT ![t] = sc]
      /\ UNCHANGED <<flagVars, gRestarting, countVars, frameVars, tlsVars, stray>>
  BY Zenon DEF PopEntry, Goto, PopScope, Calls
<1>2. /\ r \in Slot /\ (r \notin stray => Own(t))
      /\ oes \in Seq(Entry) /\ ost \in Seq(Nat) /\ old \in Seq(Nat)
      /\ ScopesRight(old, "close", HasSlot(t))
      /\ Own(t) => StackRight(oes, ost, old, "close", gPaused, gRestarting)
      /\ gPaused \in BOOLEAN /\ gRequestPause \in BOOLEAN /\ gRestarting \in BOOLEAN
  <2>1. r \in Slot /\ (r \notin stray => Own(t))
    BY <1>1, CallSlot, Zenon
  <2>2. Own(t) => StackRight(oes, ost, old, "close", gPaused, gRestarting)
    BY <1>1, Zenon DEF RecordInv, StackInv, ThreadStack
  <2>3. ScopesRight(old, "close", HasSlot(t))
    BY <1>1, Zenon DEF RecordInv, ScopeInv, ThreadScopes
  <2> QED BY <2>1, <2>2, <2>3, Zenon DEF RecordInv, TypeInv
<1>3. old # <<>>
  BY <1>2, Zenon DEF ScopesRight
<1>4. sc \in Seq(Nat) /\ ScopesRight(sc, "idle", HasSlot(t))
  BY <1>3, FrontScopes, Zenon
<1>5. UNCHANGED <<gPaused, gRequestPause>>
  BY <1>1, Zenon DEF flagVars
<1>6. ASSUME Own(t)
      PROVE  /\ ost # <<>> => ~gRestarting
             /\ IF ost = <<>> THEN Recorded(sc, ost, FALSE)
                ELSE Recorded(sc, SubSeq(ost, 1, depth - 1), FALSE)
  <2>1. ("close" \in {"push", "write"}) = FALSE
    OBVIOUS
  <2>2. Recorded(old, ost, FALSE) /\ (ost # <<>> => ~gRestarting)
    BY <1>2, <1>6, <2>1, Zenon DEF StackRight
  <2> HIDE DEF old, ost
  <2> QED BY <1>2, <1>3, <2>2, ScopeEnded, Zenon
<1>7. ("idle" \in {"push", "write"}) = FALSE
  OBVIOUS
<1>8. CASE depth = 0
  <2>1. UNCHANGED slotVars
    BY <1>8, Zenon DEF PopEntry
  <2>2. ost = <<>>
    <3> HIDE DEF ost
    <3> QED BY <1>2, <1>8
  <2>3. Own(t) => StackRight(oes, ost, sc, "idle", gPaused', gRestarting)
    <3> HIDE DEF sc
    <3> QED BY <1>6, <1>7, <2>2, Zenon DEF StackRight
  <2>4. gPaused' \in BOOLEAN /\ gRequestPause' \in BOOLEAN /\ (gPaused => gPaused')
    BY <1>2, <1>5
  <2> HIDE DEF sc
  <2>5. MoveStep(t, "idle", sc)
    BY <1>1, <1>4, <2>1, <2>3, <2>4, Zenon DEF MoveStep
  <2> QED BY <2>5, MoveKeeps, Zenon
<1>9. CASE depth # 0
  <2> DEFINE top == ost[depth]
             es == [oes EXCEPT ![top].open = FALSE]
             st == SubSeq(ost, 1, depth - 1)
  <2>1. /\ entryStack' = [entryStack EXCEPT ![r] = st] /\ entries' = [entries EXCEPT ![r] = es]
        /\ initialized' = initialized
    BY <1>9, Zenon DEF PopEntry
  <2>2. ost # <<>>
    <3>1. Len(<<>>) = 0
      OBVIOUS
    <3> QED BY <1>9, <3>1, Zenon
  <2>3. depth \in Nat \ {0} /\ st \in Seq(Nat) /\ Len(st) = depth - 1
    BY <1>2, <2>2, FrontIs, Zenon
  <2>4. es \in Seq(Entry) /\ Len(es) = Len(oes)
    BY <1>2, EntryClosed, Zenon
  <2>5. ASSUME r \notin stray
        PROVE  Nested(es, st) /\ Len(es) <= MaxEntries /\ Len(st) <= MaxCallStack
    <3>1. Nested(oes, ost) /\ Len(oes) <= MaxEntries /\ depth <= MaxCallStack
      BY <1>2, <2>5, Zenon DEF RecordInv, SlotInv, SlotRight
    <3>2. Nested(es, st)
      BY <1>2, <1>9, <3>1, NestedPop, Zenon
    <3> HIDE DEF es, st, oes
    <3>3. Len(st) <= MaxCallStack
      BY <2>3, <3>1, SettingsAssumption
    <3> QED BY <2>4, <3>1, <3>2, <3>3, Zenon
  <2>6. Len(oes) <= Len(es)
    <3>1. Len(oes) \in Nat
      BY <1>2, SeqFacts, Zenon
    <3> QED BY <2>4, <3>1
  <2>7. gRestarting' \in BOOLEAN /\ (gRestarting' => gRestarting)
    BY <1>1, <1>2
  <2> HIDE DEF es, sc
  <2>8. WriteStep(t, es, st, sc, "idle")
    BY <1>1, <2>1, <2>7, Zenon DEF WriteStep
  <2>9. Own(t) => StackRight(es, st, sc, "idle", gPaused, gRestarting')
    BY <1>6, <1>7, <2>2, <2>7, Zenon DEF StackRight
  <2>10. WriteRight(t, es, st, sc, "idle")
    BY <1>4, <2>3, <2>4, <2>5, <2>6, <2>9, Zenon DEF WriteRight
  <2> QED BY <2>8, <2>10, WriteKeeps, Zenon
<1> QED BY <1>8, <1>9, Zenon

-----------------------------------------------------------------------------
(* A step of thread t that is about the frames or the regions.             *)
FrameStep(t, to) ==
    /\ UNCHANGED <<flagVars, gProfilerGeneration, slotVars, tlsVars, scopes, stray>>
    /\ gRestarting' \in BOOLEAN /\ (gRestarting' => gRestarting)
    /\ gCurrentFrame' \in 0..MaxFrames /\ gCurrentRegion' \in 0..MaxRegions
    /\ t # UI => gCurrentFrame' = gCurrentFrame
    /\ t # Audio => gCurrentRegion' = gCurrentRegion
    /\ frameThreads' \in [1..MaxFrames -> Seq(Info)] /\ raced' \subseteq 1..MaxFrames
    /\ place' \in [Thread -> [frame : 0..MaxFrames, index : Nat]]
    /\ pc' = [pc EXCEPT ![t] = to]
    /\ \/ pc[t] \in {"frame", "region"} /\ to = "idle"
       \/ pc[t] \in {"first", "place"} /\ to = "idle" /\ ~gRestarting'
       \/ pc[t] = "first" /\ to = "place"
       \/ pc[t] = "idle" /\ ~gPaused /\ to = "frame" /\ t = UI /\ gCurrentFrame' < MaxFrames

LEMMA FrameKeeps ==
    ASSUME RecordInv, NEW t \in Thread, NEW to, FrameStep(t, to),
           PlaceInv', ShownThreadsInitialized'
    PROVE  RecordInv'
<1> DEFINE s == gThreadIndexTLS[t]
<1>1. /\ UNCHANGED <<gPaused, gRequestPause, gProfilerGeneration, initialized, entries, entryStack>>
      /\ UNCHANGED <<gThreadIndexTLS, gGenerationTLS, scopes, stray>>
      /\ gRestarting' \in BOOLEAN /\ (gRestarting' => gRestarting)
      /\ gCurrentFrame' \in 0..MaxFrames /\ gCurrentRegion' \in 0..MaxRegions
      /\ t # UI => gCurrentFrame' = gCurrentFrame
      /\ t # Audio => gCurrentRegion' = gCurrentRegion
      /\ frameThreads' \in [1..MaxFrames -> Seq(Info)] /\ raced' \subseteq 1..MaxFrames
      /\ place' \in [Thread -> [frame : 0..MaxFrames, index : Nat]]
      /\ pc' = [pc EXCEPT ![t] = to]
  BY Zenon DEF FrameStep, flagVars, slotVars, tlsVars
<1>2. \/ pc[t] \in {"frame", "region"} /\ to = "idle"
      \/ pc[t] \in {"first", "place"} /\ to = "idle" /\ ~gRestarting'
      \/ pc[t] = "first" /\ to = "place"
      \/ pc[t] = "idle" /\ ~gPaused /\ to = "frame" /\ t = UI /\ gCurrentFrame' < MaxFrames
  BY Zenon DEF FrameStep
<1>3. to \in Step /\ to \in {"idle", "place", "frame"} /\ pc \in [Thread -> Step]
  BY <1>2, Zenon DEF Step, RecordInv, TypeInv
<1>4. /\ pc'[t] = to /\ pc' \in [Thread -> Step]
      /\ \A u \in Thread : u # t => pc'[u] = pc[u]
  BY <1>1, <1>3, Zenon
<1>5. \A u \in Thread : (HasSlot(u)' <=> HasSlot(u)) /\ (Own(u)' <=> Own(u))
  BY <1>1, Zenon DEF HasSlot, Own
<1>6. gProfilerGeneration # 0 /\ s # 0 /\ ThreadRun(t)
  <2>1. ThreadRun(t) /\ (gProfilerGeneration = 0 => gPaused /\ pc[t] = "idle")
        /\ (gProfilerGeneration # 0 => gThreadIndexTLS[UI] # 0)
    BY Zenon DEF RecordInv, RunInv
  <2>2. gProfilerGeneration # 0
    BY <1>2, <2>1, Zenon
  <2>3. s # 0
    BY <1>2, <2>1, <2>2, Zenon DEF ThreadRun
  <2> QED BY <2>1, <2>2, <2>3
<1>7. TypeInv'
  BY <1>1, <1>4, Zenon DEF RecordInv, TypeInv
<1>8. ThreadRun(t)'
  <2>1. to \in Calls => HasSlot(t) \/ s \in stray
    BY <1>2, <1>6, Zenon DEF ThreadRun, Calls
  <2>2. to = "frame" => t = UI /\ gCurrentFrame' < MaxFrames
    BY <1>2, Zenon
  <2>3. to # "region" /\ to \notin {"begin", "end", "region"}
    BY <1>3, Zenon
  <2> QED BY <1>1, <1>4, <1>5, <1>6, <2>1, <2>2, <2>3, Zenon DEF ThreadRun
<1>9. ThreadScopes(t)'
  <2>1. ScopesRight(scopes[t], pc[t], HasSlot(t))
    BY Zenon DEF RecordInv, ScopeInv, ThreadScopes
  <2>2. to \notin {"push", "write", "pop", "close"}
    BY <1>3, Zenon
  <2> QED BY <1>1, <1>4, <1>5, <2>1, <2>2, Zenon DEF ThreadScopes, ScopesRight
<1>10. ASSUME Own(t) PROVE ThreadStack(t)'
  <2>1. StackRight(entries[s], entryStack[s], scopes[t], pc[t], gPaused, gRestarting)
    BY <1>10, Zenon DEF RecordInv, StackInv, ThreadStack
  <2>2. (pc[t] \in {"push", "write"}) = FALSE /\ (to \in {"push", "write"}) = FALSE
    BY <1>2
  <2>3. Recorded(scopes[t], entryStack[s], to \in {"push", "write"})
    <3>1. ~gPaused \/ pc[t] # "idle"
      BY <1>2, Zenon
    <3> QED BY <2>1, <2>2, <3>1, Zenon DEF StackRight
  <2>4. entryStack[s] # <<>> /\ to \notin {"first", "place"} => ~gRestarting'
    <3>1. to = "place" \/ ~gRestarting' \/ pc[t] \notin {"first", "place"}
      BY <1>2, Zenon
    <3> QED BY <1>1, <2>1, <3>1, Zenon DEF StackRight
  <2>5. (to \in {"first", "place"} => entries[s] # <<>>) /\ to # "write"
    BY <1>2, <2>1, Zenon DEF StackRight
  <2>6. StackRight(entries[s], entryStack[s], scopes[t], to, gPaused, gRestarting')
    BY <2>3, <2>4, <2>5, Zenon DEF StackRight
  <2> QED BY <1>1, <1>4, <2>6, Zenon DEF ThreadStack
<1>11. SlotInv'
  BY <1>1, Zenon DEF RecordInv, SlotInv, SlotRight
<1>12. ThreadStep(t)
  <2>1. ASSUME NEW u \in Thread, u # t, HasSlot(u), HasSlot(t)'
        PROVE  gThreadIndexTLS[u] # gThreadIndexTLS'[t]
    BY <1>1, <1>5, <2>1, Zenon DEF RecordInv, RunInv
  <2> QED BY <1>1, <1>4, <1>6, <2>1, Zenon DEF ThreadStep
<1> QED BY <1>5, <1>7, <1>8, <1>9, <1>10, <1>11, <1>12, StepKeeps, Zenon

(* A thread takes a place of the current frame.                            *)
LEMMA TakePlaceKeeps ==
    ASSUME RecordInv, NEW t \in Thread, TakePlace(t)
    PROVE  RecordInv'
<1> DEFINE f == gCurrentFrame
           taken == \E u \in Thread : pc[u] = "place" /\ place[u].frame = f
           to == IF f = 0 THEN "idle" ELSE "place"
           new == [frame |-> f, index |-> Len(frameThreads[f]) + 1]
<1>1. /\ pc[t] = "first" /\ pc' = [pc EXCEPT ![t] = to]
      /\ gRestarting' = (gRestarting /\ f # 0)
      /\ place' = IF f = 0 THEN place ELSE [place EXCEPT ![t] = new]
      /\ raced' = IF taken THEN raced \cup {f} ELSE raced
      /\ UNCHANGED <<flagVars, gProfilerGeneration, gCurrentFrame, gCurrentRegion, slotVars>>
      /\ UNCHANGED <<frameThreads, tlsVars, scopes, stray>>
  BY Zenon DEF TakePlace, Goto, countVars
<1>2. /\ f \in 0..MaxFrames /\ gCurrentRegion \in 0..MaxRegions /\ gRestarting \in BOOLEAN
      /\ frameThreads \in [1..MaxFrames -> Seq(Info)] /\ raced \subseteq 1..MaxFrames
      /\ place \in [Thread -> [frame : 0..MaxFrames, index : Nat]] /\ pc \in [Thread -> Step]
  BY Zenon DEF RecordInv, TypeInv
<1>3. gRestarting' \in BOOLEAN /\ (gRestarting' => gRestarting) /\ (f = 0 => ~gRestarting')
  BY <1>1, <1>2, Zenon
<1>4. f = 0 => ~taken
  <2>1. ASSUME NEW u \in Thread, pc[u] = "place" PROVE place[u].frame # 0
    <3>1. place[u].frame \in 1..MaxFrames
      BY <2>1, Zenon DEF RecordInv, PlaceInv, PlaceRight
    <3> QED BY <3>1, SettingsAssumption
  <2> QED BY <2>1, Zenon
<1>5. f # 0 => f \in 1..MaxFrames
  BY <1>2, SettingsAssumption
<1>6. f # 0 => Len(frameThreads[f]) \in Nat
  BY <1>2, <1>5, SeqFacts, Zenon
<1>7. f # 0 => new \in [frame : 0..MaxFrames, index : Nat]
  BY <1>2, <1>6
<1>8. raced' \subseteq 1..MaxFrames /\ raced \subseteq raced'
  BY <1>1, <1>2, <1>4, <1>5, Zenon
<1>9. place' \in [Thread -> [frame : 0..MaxFrames, index : Nat]]
  <2> HIDE DEF new, taken
  <2> QED BY <1>1, <1>2, <1>7, Zenon
<1>10. FrameStep(t, to)
  <2>1. (f = 0 /\ to = "idle") \/ (f # 0 /\ to = "place")
    BY Zenon
  <2> HIDE DEF to, new, taken
  <2> QED BY <1>1, <1>2, <1>3, <1>8, <1>9, <2>1, Zenon DEF FrameStep
<1>11. ShownThreadsInitialized'
  BY <1>1, <1>8, ShownSame, Zenon DEF slotVars
<1>12. \A u \in Thread : u # t => pc'[u] = pc[u]
  <2> HIDE DEF to
  <2> QED BY <1>1, <1>2, Zenon
<1>13. PlaceInv'
  <2>1. CASE f = 0
    <3>1. pc'[t] = "idle" /\ place' = place /\ raced' = raced
      BY <1>1, <1>2, <1>4, <2>1, Zenon
    <3>2. \A u \in Thread : pc'[u] = "place" <=> pc[u] = "place"
      BY <1>1, <1>12, <3>1, Zenon
    <3> QED BY <1>1, <3>1, <3>2, PlaceStays, Zenon DEF RecordInv, frameVars
  <2>2. CASE f # 0
    <3>1. /\ place'[t] = new /\ new.frame = f /\ new.index = Len(frameThreads[f]) + 1
          /\ \A u \in Thread : u # t => place'[u] = place[u]
      BY <1>1, <1>2, <2>2, Zenon
    <3>2. PlaceRight(t)'
      <4>1. f <= f /\ Len(frameThreads[f]) + 1 \in Nat \ {0}
        BY <1>2, <1>6, <2>2
      <4>2. f \notin raced' => \A u \in Thread : u # t /\ pc'[u] = "place" => place'[u].frame # f
        BY <1>1, <1>12, <3>1, Zenon
      <4> HIDE DEF new, taken, to
      <4> QED BY <1>1, <1>5, <2>2, <3>1, <4>1, <4>2, Zenon DEF PlaceRight
    <3>3. ASSUME NEW u \in Thread, u # t, pc'[u] = "place" PROVE PlaceRight(u)'
      <4>1. PlaceRight(u) /\ pc[u] = "place" /\ place'[u] = place[u]
        BY <1>12, <3>1, <3>3, Zenon DEF RecordInv, PlaceInv
      <4>2. place[u].frame \notin raced' => place[u].frame # f /\ place[u].frame \notin raced
        BY <1>1, <1>8, <4>1, Zenon
      <4>3. ASSUME place[u].frame \notin raced', NEW v \in Thread, v # u, pc'[v] = "place"
            PROVE  place'[v].frame # place[u].frame
        <5>1. CASE v = t
          BY <3>1, <4>2, <4>3, <5>1, Zenon
        <5>2. CASE v # t
          BY <1>12, <3>1, <4>1, <4>2, <4>3, <5>2, Zenon DEF PlaceRight
        <5> QED BY <5>1, <5>2, Zenon
      <4> HIDE DEF new, taken, to
      <4> QED BY <1>1, <4>1, <4>2, <4>3, Zenon DEF PlaceRight
    <3> QED BY <3>2, <3>3, Zenon DEF PlaceInv
  <2> QED BY <2>1, <2>2, Zenon
<1> HIDE DEF to
<1> QED BY <1>10, <1>11, <1>13, FrameKeeps, Zenon

-----------------------------------------------------------------------------
(* What the frame f may say of a thread, which is ShownThreadsInitialized  *)
(* for one of its places.                                                  *)
Shown(info, f) ==
    /\ info \in Info
    /\ info.threadIndex \notin stray =>
          /\ initialized[info.threadIndex]
          /\ f \notin raced => info.activeEntry \in DOMAIN entries[info.threadIndex]

(* It is enough that every place of a frame is Shown.                      *)
LEMMA AllShown ==
    ASSUME frameThreads' \in [1..MaxFrames -> Seq(Info)],
           UNCHANGED <<initialized, entries, stray, raced>>,
           \A f \in 1..MaxFrames : \A i \in 1..Len(frameThreads'[f]) : Shown(frameThreads'[f][i], f)
    PROVE  ShownThreadsInitialized'
<1>1. ASSUME NEW f \in 1..MaxFrames, NEW i \in DOMAIN frameThreads'[f]
      PROVE  Shown(frameThreads'[f][i], f)
  <2>1. frameThreads'[f] \in Seq(Info)
    BY Zenon
  <2>2. DOMAIN frameThreads'[f] = 1..Len(frameThreads'[f])
    BY <2>1, SeqFacts, Zenon
  <2> QED BY <2>2, Zenon
<1> QED BY <1>1, Zenon DEF ShownThreadsInitialized, Shown

(* The places that there are.                                              *)
LEMMA OldShown ==
    ASSUME RecordInv, NEW f \in 1..MaxFrames
    PROVE  /\ frameThreads[f] \in Seq(Info) /\ Len(frameThreads[f]) \in Nat
           /\ \A i \in 1..Len(frameThreads[f]) : Shown(frameThreads[f][i], f)
<1>1. frameThreads[f] \in Seq(Info)
  BY Zenon DEF RecordInv, TypeInv
<1>2. /\ Len(frameThreads[f]) \in Nat /\ DOMAIN frameThreads[f] = 1..Len(frameThreads[f])
      /\ \A i \in 1..Len(frameThreads[f]) : frameThreads[f][i] \in Info
  BY <1>1, SeqFacts, Zenon
<1> QED BY <1>1, <1>2, Zenon DEF Shown, RecordInv, ShownThreadsInitialized

(* FrameThread of a slot whose first entry is written.                     *)
LEMMA FrameThreadShown ==
    ASSUME RecordInv, NEW f, NEW s \in Slot, s \notin stray => initialized[s] /\ entries[s] # <<>>
    PROVE  FrameThread(s) \in Info /\ Shown(FrameThread(s), f)
<1>1. entries[s] \in Seq(Entry)
  BY Zenon DEF RecordInv, TypeInv
<1>2. /\ Len(entries[s]) \in Nat /\ DOMAIN entries[s] = 1..Len(entries[s])
      /\ entries[s] # <<>> => Len(entries[s]) # 0
  BY <1>1, SeqFacts, Zenon
<1>3. entries[s] # <<>> => Len(entries[s]) \in DOMAIN entries[s]
  BY <1>2
<1>4. /\ FrameThread(s) \in Info /\ FrameThread(s).threadIndex = s
      /\ FrameThread(s).activeEntry = Len(entries[s])
  BY <1>2, Zenon DEF FrameThread, Info
<1> QED BY <1>3, <1>4, Zenon DEF Shown

(* With no other thread racing for the frame, frameThreadCount++ counts    *)
(* the place that is written and no other.                                 *)
LEMMA CountsNext ==
    ASSUME NEW now \in Nat, NEW count \in Counts(now + 1, now)
    PROVE  count = now + 1
BY DEF Counts

(* A thread writes its place of a frame.                                   *)
LEMMA AddToFrameKeeps ==
    ASSUME RecordInv, NEW t \in Thread, AddToFrame(t)
    PROVE  RecordInv'
<1> DEFINE r == gThreadIndexTLS[t]
           f == place[t].frame
           index == place[t].index
           old == frameThreads[f]
<1>1. /\ pc[t] = "place" /\ pc[t] \in Calls /\ pc' = [pc EXCEPT ![t] = "idle"] /\ gRestarting' = FALSE
      /\ place' = [place EXCEPT ![t] = NoPlace]
      /\ UNCHANGED <<flagVars, gProfilerGeneration, gCurrentFrame, gCurrentRegion, slotVars>>
      /\ UNCHANGED <<tlsVars, scopes, stray, raced>>
  BY Zenon DEF AddToFrame, Goto, countVars, Calls
<1>2. PICK count \in Counts(index, Len(old)) :
         frameThreads' = [frameThreads EXCEPT ![f] =
            [k \in 1..count |-> IF k = index THEN FrameThread(r)
                                ELSE IF k <= Len(old) THEN old[k] ELSE Unwritten]]
  BY Zenon DEF AddToFrame
<1> DEFINE new == [k \in 1..count |-> IF k = index THEN FrameThread(r)
                                      ELSE IF k <= Len(old) THEN old[k] ELSE Unwritten]
<1>3. PlaceRight(t)
  BY <1>1, Zenon DEF RecordInv, PlaceInv
<1>4. /\ f \in 1..MaxFrames /\ index \in Nat \ {0}
      /\ f \notin raced => /\ index = Len(old) + 1
                           /\ \A u \in Thread : u # t /\ pc[u] = "place" => place[u].frame # f
  BY <1>3, Zenon DEF PlaceRight
<1>5. /\ gCurrentFrame \in 0..MaxFrames /\ gCurrentRegion \in 0..MaxRegions
      /\ frameThreads \in [1..MaxFrames -> Seq(Info)] /\ raced \subseteq 1..MaxFrames
      /\ place \in [Thread -> [frame : 0..MaxFrames, index : Nat]] /\ pc \in [Thread -> Step]
  BY Zenon DEF RecordInv, TypeInv
<1>6. old \in Seq(Info) /\ Len(old) \in Nat /\ \A i \in 1..Len(old) : Shown(old[i], f)
  BY <1>4, OldShown, Zenon
<1>7. FrameThread(r) \in Info /\ Shown(FrameThread(r), f)
  <2>1. r \in Slot /\ (r \notin stray => Own(t))
    BY <1>1, CallSlot, Zenon
  <2>2. ASSUME Own(t) PROVE initialized[r] /\ entries[r] # <<>>
    <3>1. StackRight(entries[r], entryStack[r], scopes[t], pc[t], gPaused, gRestarting)
      BY <2>2, Zenon DEF RecordInv, StackInv, ThreadStack
    <3> QED BY <1>1, <2>2, <3>1, OwnSlot, Zenon DEF StackRight, Own
  <2> QED BY <2>1, <2>2, FrameThreadShown, Zenon
<1>8. Unwritten \in Info /\ (f \in raced => Shown(Unwritten, f))
  <2>1. 1 \in Slot /\ 1 \in Nat
    BY SettingsAssumption DEF Slot
  <2>2. initialized[1]
    BY <1>1, Zenon DEF RecordInv, RunInv
  <2>3. Unwritten \in Info /\ Unwritten.threadIndex = 1
    BY <2>1, Zenon DEF Unwritten, Info
  <2> QED BY <2>2, <2>3, Zenon DEF Shown
<1>9. count \in Nat /\ (f \notin raced => count = Len(old) + 1)
  <2>1. count \in Nat
    BY <1>2, <1>4, <1>6 DEF Counts
  <2> HIDE DEF old, index, f
  <2>2. f \notin raced => count \in Counts(Len(old) + 1, Len(old))
    BY <1>2, <1>4, Zenon
  <2> QED BY <1>6, <2>1, <2>2, CountsNext, Zenon
<1>10. ASSUME NEW k \in 1..count PROVE new[k] \in Info /\ Shown(new[k], f)
  <2>1. new[k] = IF k = index THEN FrameThread(r) ELSE IF k <= Len(old) THEN old[k] ELSE Unwritten
    BY Zenon
  <2> HIDE DEF new, old, index, f, r
  <2>2. k \in Nat /\ (k <= Len(old) => k \in 1..Len(old))
    BY <1>6, <1>9
  <2>3. f \notin raced /\ k # index => k <= Len(old)
    BY <1>4, <1>6, <1>9, <2>2
  <2> QED BY <1>6, <1>7, <1>8, <2>1, <2>2, <2>3, Zenon DEF Shown
<1>11. new \in Seq(Info) /\ Len(new) = count
  <2>1. new \in [1..count -> Info]
    BY <1>10, Zenon
  <2> HIDE DEF new
  <2> QED BY <1>9, <2>1, FunctionSeq, Zenon
<1>12. frameThreads' = [frameThreads EXCEPT ![f] = new]
  BY <1>2, Zenon
<1> HIDE DEF new
<1>13. /\ frameThreads' \in [1..MaxFrames -> Seq(Info)] /\ frameThreads'[f] = new
       /\ \A g \in 1..MaxFrames : g # f => frameThreads'[g] = frameThreads[g]
  BY <1>4, <1>5, <1>11, <1>12, Zenon
<1>14. ShownThreadsInitialized'
  <2>1. ASSUME NEW g \in 1..MaxFrames, NEW i \in 1..Len(frameThreads'[g])
        PROVE  Shown(frameThreads'[g][i], g)
    <3>1. CASE g = f
      BY <1>10, <1>11, <1>13, <3>1, Zenon
    <3>2. CASE g # f
      BY <1>13, <3>2, OldShown, Zenon
    <3> QED BY <3>1, <3>2, Zenon
  <2> QED BY <1>1, <1>13, <2>1, AllShown, Zenon DEF slotVars
<1>15. \A u \in Thread : pc'[u] = "place" => u # t /\ pc[u] = "place" /\ place'[u] = place[u]
  BY <1>1, <1>5, Zenon
<1>16. PlaceInv'
  <2>1. ASSUME NEW u \in Thread, pc'[u] = "place" PROVE PlaceRight(u)'
    <3>1. u # t /\ PlaceRight(u) /\ place'[u] = place[u]
      BY <1>15, <2>1, Zenon DEF RecordInv, PlaceInv
    <3>2. place[u].frame \in 1..MaxFrames /\ place[u].index \in Nat \ {0}
      BY <3>1, Zenon DEF PlaceRight
    <3>3. ASSUME place[u].frame \notin raced
          PROVE  /\ place[u].frame <= gCurrentFrame
                 /\ place[u].index = Len(frameThreads'[place[u].frame]) + 1
                 /\ \A v \in Thread : v # u /\ pc'[v] = "place" => place'[v].frame # place[u].frame
      <4>1. place[u].frame # f
        BY <1>1, <3>1, <3>3, Zenon DEF PlaceRight
      <4>2. frameThreads'[place[u].frame] = frameThreads[place[u].frame]
        BY <1>13, <3>2, <4>1, Zenon
      <4> QED BY <1>15, <3>1, <3>3, <4>2, Zenon DEF PlaceRight
    <3>4. raced' = raced /\ gCurrentFrame' = gCurrentFrame
      BY <1>1, Zenon
    <3> DEFINE g == place[u].frame
    <3> HIDE DEF g
    <3>5. place'[u].frame = g /\ place[u].frame = g
      BY <3>1, Zenon DEF g
    <3> QED BY <3>1, <3>2, <3>3, <3>4, <3>5, Zenon DEF PlaceRight
  <2> QED BY <2>1, Zenon DEF PlaceInv
<1>17. FrameStep(t, "idle")
  <2>1. NoPlace \in [frame : 0..MaxFrames, index : Nat]
    BY SettingsAssumption DEF NoPlace
  <2>2. place' \in [Thread -> [frame : 0..MaxFrames, index : Nat]]
    BY <1>1, <1>5, <2>1, Zenon
  <2>3. gRestarting' \in BOOLEAN /\ ~gRestarting'
    BY <1>1, Zenon
  <2> QED BY <1>1, <1>5, <1>13, <2>2, <2>3, Zenon DEF FrameStep
<1> QED BY <1>14, <1>16, <1>17, FrameKeeps, Zenon

(* The first half of NewFrame notes every slot that has an entry.          *)
LEMMA NewFrameKeeps ==
    ASSUME RecordInv, NewFrame
    PROVE  RecordInv'
<1> DEFINE used == {r \in Slot : initialized[r] /\ entries[r] # <<>>}
           s == gThreadIndexTLS[UI]
           next == gCurrentFrame + 1
<1>1. /\ pc[UI] = "idle" /\ ~gPaused /\ CheckEndState(s)
      /\ UNCHANGED <<gRestarting, countVars, slotVars, tlsVars, scopes, stray, place, raced>>
      /\ EndState(s) => UNCHANGED <<pc, frameThreads>>
      /\ ~EndState(s) =>
            /\ pc' = [pc EXCEPT ![UI] = "frame"]
            /\ \E order \in Ascending(used) :
                  frameThreads' = [frameThreads EXCEPT ![next] =
                     frameThreads[next] \o [i \in DOMAIN order |-> FrameThread(order[i])]]
  BY Zenon DEF NewFrame
<1>2. CASE EndState(s)
  <2>1. gPaused' \in BOOLEAN /\ gRequestPause' \in BOOLEAN /\ (gPaused => gPaused')
    BY <1>1, CheckFlags, Zenon
  <2>2. UNCHANGED <<gRestarting, countVars, slotVars, frameVars, tlsVars, pc, scopes, stray>>
    BY <1>1, <1>2, Zenon DEF frameVars
  <2> QED BY <2>1, <2>2, FlagsKeep, Zenon
<1>3. CASE ~EndState(s)
  <2>1. UNCHANGED flagVars /\ ~(gCurrentFrame >= MaxFrames)
    BY <1>1, <1>3, Zenon DEF EndState, CheckEndState, Full
  <2>2. /\ gCurrentFrame \in 0..MaxFrames /\ gCurrentRegion \in 0..MaxRegions /\ gRestarting \in BOOLEAN
        /\ frameThreads \in [1..MaxFrames -> Seq(Info)] /\ raced \subseteq 1..MaxFrames
        /\ place \in [Thread -> [frame : 0..MaxFrames, index : Nat]]
        /\ pc \in [Thread -> Step] /\ UI \in Thread
    BY ThreadAssumption, Zenon DEF RecordInv, TypeInv
  <2>3. gCurrentFrame < MaxFrames /\ next \in 1..MaxFrames
    BY <2>1, <2>2, SettingsAssumption
  <2>4. PICK order \in Ascending(used) :
           frameThreads' = [frameThreads EXCEPT ![next] =
              frameThreads[next] \o [i \in DOMAIN order |-> FrameThread(order[i])]]
    BY <1>1, <1>3, Zenon
  <2> DEFINE more == [i \in DOMAIN order |-> FrameThread(order[i])]
             old == frameThreads[next]
  <2>5. PICK n \in 0..MaxThreads : order \in [1..n -> used]
    BY Zenon DEF Ascending
  <2>6. n \in Nat /\ DOMAIN order = 1..n
    BY <2>5
  <2>7. ASSUME NEW i \in 1..n
        PROVE  FrameThread(order[i]) \in Info /\ Shown(FrameThread(order[i]), next)
    <3>1. order[i] \in Slot /\ initialized[order[i]] /\ entries[order[i]] # <<>>
      BY <2>5, Zenon
    <3> QED BY <3>1, FrameThreadShown, Zenon
  <2>8. more \in Seq(Info) /\ Len(more) = n /\ \A i \in 1..n : more[i] = FrameThread(order[i])
    <3>1. more \in [1..n -> Info] /\ \A i \in 1..n : more[i] = FrameThread(order[i])
      BY <2>6, <2>7, Zenon
    <3> HIDE DEF more
    <3> QED BY <2>6, <3>1, FunctionSeq, Zenon
  <2>9. frameThreads' = [frameThreads EXCEPT ![next] = old \o more]
    BY <2>4, Zenon
  <2>10. old \in Seq(Info) /\ Len(old) \in Nat /\ \A i \in 1..Len(old) : Shown(old[i], next)
    BY <2>3, OldShown, Zenon
  <2> HIDE DEF more, old
  <2>11. /\ old \o more \in Seq(Info) /\ Len(old \o more) = Len(old) + n
         /\ \A i \in 1..(Len(old) + n) :
               (old \o more)[i] = IF i <= Len(old) THEN old[i] ELSE more[i - Len(old)]
    BY <2>8, <2>10
  <2>12. ASSUME NEW i \in 1..Len(old \o more) PROVE Shown((old \o more)[i], next)
    <3> DEFINE both == old \o more
    <3> HIDE DEF both, next
    <3>1. i \in 1..(Len(old) + n) /\ both[i] = IF i <= Len(old) THEN old[i] ELSE more[i - Len(old)]
      BY <2>11, Zenon DEF both
    <3>2. (i <= Len(old) => i \in 1..Len(old)) /\ (~(i <= Len(old)) => i - Len(old) \in 1..n)
      BY <2>6, <2>10, <3>1
    <3>3. \A j \in 1..n : Shown(more[j], next)
      BY <2>7, <2>8, Zenon
    <3> QED BY <2>10, <3>1, <3>2, <3>3, Zenon DEF both
  <2>13. /\ frameThreads' \in [1..MaxFrames -> Seq(Info)] /\ frameThreads'[next] = old \o more
         /\ \A f \in 1..MaxFrames : f # next => frameThreads'[f] = frameThreads[f]
    <3> HIDE DEF next
    <3> QED BY <2>2, <2>3, <2>9, <2>11, Zenon
  <2>14. ShownThreadsInitialized'
    <3>1. ASSUME NEW f \in 1..MaxFrames, NEW i \in 1..Len(frameThreads'[f])
          PROVE  Shown(frameThreads'[f][i], f)
      <4> HIDE DEF next
      <4>1. CASE f = next
        BY <2>12, <2>13, <4>1, Zenon
      <4>2. CASE f # next
        BY <2>13, <4>2, OldShown, Zenon
      <4> QED BY <4>1, <4>2, Zenon
    <3> QED BY <1>1, <2>13, <3>1, AllShown, Zenon DEF slotVars
  <2>15. \A u \in Thread : pc'[u] = "place" <=> pc[u] = "place"
    BY <1>1, <1>3, <2>2, Zenon
  <2>16. PlaceInv'
    <3>1. ASSUME NEW u \in Thread, pc'[u] = "place" PROVE PlaceRight(u)'
      <4>1. PlaceRight(u)
        BY <2>15, <3>1, Zenon DEF RecordInv, PlaceInv
      <4> DEFINE f == place[u].frame
      <4>2. f \notin raced => frameThreads'[f] = frameThreads[f]
        <5>1. f \in 1..MaxFrames /\ (f \notin raced => f <= gCurrentFrame)
          BY <4>1, Zenon DEF PlaceRight
        <5>2. f \notin raced => f # next
          BY <2>2, <5>1
        <5> HIDE DEF next
        <5> QED BY <2>13, <5>1, <5>2, Zenon
      <4>3. place' = place /\ raced' = raced /\ gCurrentFrame' = gCurrentFrame
        BY <1>1, Zenon DEF countVars
      <4> QED BY <2>15, <4>1, <4>2, <4>3, Zenon DEF PlaceRight
    <3> QED BY <3>1, Zenon DEF PlaceInv
  <2>17. UNCHANGED <<gProfilerGeneration, gCurrentFrame, gCurrentRegion>>
    BY <1>1, Zenon DEF countVars
  <2>18. FrameStep(UI, "frame")
    BY <1>1, <1>3, <2>1, <2>2, <2>3, <2>13, <2>17, Zenon DEF FrameStep
  <2> QED BY <2>2, <2>14, <2>16, <2>18, FrameKeeps, Zenon
<1> QED BY <1>2, <1>3, Zenon

(* The second half of NewFrame begins the frame, and EndRegion ends a      *)
(* region.                                                                 *)
LEMMA CountKeeps ==
    ASSUME RecordInv, NextFrame \/ NextRegion
    PROVE  RecordInv'
<1>1. /\ gCurrentFrame \in 0..MaxFrames /\ gCurrentRegion \in 0..MaxRegions /\ gRestarting \in BOOLEAN
      /\ frameThreads \in [1..MaxFrames -> Seq(Info)] /\ raced \subseteq 1..MaxFrames
      /\ place \in [Thread -> [frame : 0..MaxFrames, index : Nat]]
      /\ pc \in [Thread -> Step] /\ UI \in Thread /\ Audio \in Thread
  BY ThreadAssumption, Zenon DEF RecordInv, TypeInv
<1>2. ThreadRun(UI) /\ ThreadRun(Audio)
  BY <1>1, Zenon DEF RecordInv, RunInv
<1>3. CASE NextFrame
  <2>1. /\ pc[UI] = "frame" /\ pc' = [pc EXCEPT ![UI] = "idle"] /\ gCurrentFrame' = gCurrentFrame + 1
        /\ UNCHANGED <<flagVars, gRestarting, gProfilerGeneration, gCurrentRegion, slotVars>>
        /\ UNCHANGED <<frameThreads, place, raced, tlsVars, scopes, stray>>
    BY <1>3, Zenon DEF NextFrame, Goto, frameVars
  <2>2. gCurrentFrame < MaxFrames
    BY <1>2, <2>1, Zenon DEF ThreadRun
  <2>3. gCurrentFrame' \in 0..MaxFrames
    BY <1>1, <2>1, <2>2, SettingsAssumption
  <2>4. gRestarting' \in BOOLEAN /\ (gRestarting' => gRestarting)
    BY <1>1, <2>1
  <2>5. FrameStep(UI, "idle")
    BY <1>1, <2>1, <2>3, <2>4, Zenon DEF FrameStep
  <2>6. ShownThreadsInitialized'
    BY <2>1, ShownSame, Zenon DEF slotVars
  <2>7. \A u \in Thread : pc'[u] = "place" => pc[u] = "place"
    BY <1>1, <2>1, Zenon
  <2>8. PlaceInv'
    <3>1. ASSUME NEW u \in Thread, pc'[u] = "place" PROVE PlaceRight(u)'
      <4>1. PlaceRight(u)
        BY <2>7, <3>1, Zenon DEF RecordInv, PlaceInv
      <4>2. place[u].frame \notin raced => place[u].frame <= gCurrentFrame'
        <5>1. /\ place[u].frame \in 1..MaxFrames
              /\ place[u].frame \notin raced => place[u].frame <= gCurrentFrame
          BY <4>1, Zenon DEF PlaceRight
        <5> QED BY <1>1, <2>1, <5>1
      <4> QED BY <2>1, <2>7, <4>1, <4>2, Zenon DEF PlaceRight
    <3> QED BY <3>1, Zenon DEF PlaceInv
  <2> QED BY <1>1, <2>5, <2>6, <2>8, FrameKeeps, Zenon
<1>4. CASE NextRegion
  <2>1. /\ pc[Audio] = "region" /\ pc' = [pc EXCEPT ![Audio] = "idle"]
        /\ gCurrentRegion' = gCurrentRegion + 1
        /\ UNCHANGED <<flagVars, gRestarting, gProfilerGeneration, gCurrentFrame, slotVars>>
        /\ UNCHANGED <<frameThreads, place, raced, tlsVars, scopes, stray>>
    BY <1>4, Zenon DEF NextRegion, Goto, frameVars
  <2>2. gCurrentRegion < MaxRegions
    BY <1>2, <2>1, Zenon DEF ThreadRun
  <2>3. gCurrentRegion' \in 0..MaxRegions
    BY <1>1, <2>1, <2>2, SettingsAssumption
  <2>4. gRestarting' \in BOOLEAN /\ (gRestarting' => gRestarting)
    BY <1>1, <2>1
  <2>5. FrameStep(Audio, "idle")
    BY <1>1, <2>1, <2>3, <2>4, Zenon DEF FrameStep
  <2>6. ShownThreadsInitialized'
    BY <2>1, ShownSame, Zenon DEF slotVars
  <2>7. \A u \in Thread : pc'[u] = "place" <=> pc[u] = "place"
    BY <1>1, <2>1, Zenon
  <2>8. PlaceInv'
    BY <2>1, <2>7, PlaceStays, Zenon DEF RecordInv, frameVars
  <2> QED BY <1>1, <2>5, <2>6, <2>8, FrameKeeps, Zenon
<1> QED BY <1>3, <1>4, Zenon

(* BeginRegion and EndRegion get a slot and check whether there is a       *)
(* region left.                                                            *)
LEMMA RegionKeeps ==
    ASSUME RecordInv, NEW step \in {"begin", "end"}, Region(step) \/ RegionCheck(step)
    PROVE  RecordInv'
<1> DEFINE s == gThreadIndexTLS[Audio]
           to == IF EndState(s) \/ step = "begin" THEN "idle" ELSE "region"
<1>1. /\ Audio \in Thread /\ scopes \in [Thread -> Seq(Nat)] /\ scopes[Audio] \in Seq(Nat)
      /\ gCurrentRegion \in 0..MaxRegions /\ ScopesRight(scopes[Audio], pc[Audio], HasSlot(Audio))
  BY ThreadAssumption, Zenon DEF RecordInv, TypeInv, ScopeInv, ThreadScopes
<1>2. CASE Region(step)
  <2>1. scopes' = [scopes EXCEPT ![Audio] = scopes[Audio]]
    BY <1>1, <1>2, Zenon DEF Region
  <2>2. ClaimStep(Audio, step, scopes[Audio])
    BY <1>2, <2>1, Zenon DEF Region, ClaimStep
  <2> QED BY <1>1, <2>2, ClaimKeeps, Zenon
<1>3. CASE RegionCheck(step)
  <2>1. /\ pc[Audio] = step /\ pc' = [pc EXCEPT ![Audio] = to] /\ CheckEndState(s)
        /\ UNCHANGED <<gRestarting, countVars, slotVars, frameVars, tlsVars, scopes, stray>>
    BY <1>3, Zenon DEF RegionCheck, Goto
  <2>2. /\ gPaused' \in BOOLEAN /\ gRequestPause' \in BOOLEAN /\ (gPaused => gPaused')
    BY <2>1, CheckFlags, Zenon
  <2>3. scopes' = [scopes EXCEPT ![Audio] = scopes[Audio]]
    BY <1>1, <2>1, Zenon
  <2>4. to = "idle" \/ (to = "region" /\ gCurrentRegion < MaxRegions)
    <3>1. ~EndState(s) => ~(gCurrentRegion >= MaxRegions)
      BY Zenon DEF EndState, Full
    <3>2. ~EndState(s) => gCurrentRegion < MaxRegions
      BY <1>1, <3>1, SettingsAssumption
    <3> QED BY <3>2, Zenon
  <2> HIDE DEF to
  <2>5. ScopesRight(scopes[Audio], to, HasSlot(Audio))
    BY <1>1, <2>4, Zenon DEF ScopesRight
  <2>6. ASSUME Own(Audio)
        PROVE  StackRight(entries[s], entryStack[s], scopes[Audio], to, gPaused', gRestarting)
    <3>1. StackRight(entries[s], entryStack[s], scopes[Audio], step, gPaused, gRestarting)
      BY <1>1, <2>1, <2>6, Zenon DEF RecordInv, StackInv, ThreadStack
    <3>2. (step \in {"push", "write"}) = FALSE /\ (to \in {"push", "write"}) = FALSE /\ step # "idle"
      BY <2>4
    <3>3. Recorded(scopes[Audio], entryStack[s], to \in {"push", "write"})
      BY <3>1, <3>2, Zenon DEF StackRight
    <3>4. entryStack[s] # <<>> => ~gRestarting
      <4>1. step \notin {"first", "place"}
        BY Zenon
      <4> QED BY <3>1, <4>1, Zenon DEF StackRight
    <3> QED BY <2>4, <3>3, <3>4, Zenon DEF StackRight
  <2>7. pc[Audio] # "place" /\ pc[Audio] # "idle"
    BY <2>1, Zenon
  <2>8. MoveStep(Audio, to, scopes[Audio])
    BY <1>1, <2>1, <2>2, <2>3, <2>4, <2>5, <2>6, <2>7, Zenon DEF MoveStep
  <2> QED BY <1>1, <2>8, MoveKeeps, Zenon
<1> QED BY <1>2, <1>3, Zenon

-----------------------------------------------------------------------------
(* Nothing is recorded yet.                                                *)
LEMMA RecordInit == Init => RecordInv
<1> SUFFICES ASSUME Init PROVE RecordInv
  OBVIOUS
<1>1. <<>> \in Seq(Entry) /\ <<>> \in Seq(Nat) /\ <<>> \in Seq(Info) /\ Len(<<>>) = 0
  OBVIOUS
<1>2. /\ 0 \in 0..MaxRuns /\ 0 \in 0..MaxFrames /\ 0 \in 0..MaxRegions /\ 0 \in 0..MaxThreads
      /\ 0 <= MaxEntries /\ 0 <= MaxCallStack /\ 0 <= 0 /\ 1..0 = {} /\ 0 \in Nat
  BY SettingsAssumption
<1>3. TypeInv
  <2>1. NoPlace \in [frame : 0..MaxFrames, index : Nat]
    BY <1>2, Zenon DEF NoPlace
  <2>2. "idle" \in Step
    BY Zenon DEF Step
  <2> QED BY <1>1, <1>2, <2>1, <2>2, Zenon DEF Init, TypeInv
<1>4. \A t \in Thread : ~HasSlot(t) /\ pc[t] = "idle" /\ scopes[t] = <<>> /\ gGenerationTLS[t] = 0
  BY Zenon DEF Init, HasSlot
<1>5. RunInv
  BY <1>2, <1>4 DEF Init, RunInv, ThreadRun, Calls
<1>6. ScopeInv
  <2>1. ScopesRight(<<>>, "idle", FALSE)
    BY <1>1, <1>2, Zenon DEF ScopesRight
  <2> QED BY <1>4, <2>1, Zenon DEF ScopeInv, ThreadScopes, ScopesRight
<1>7. SlotInv
  <2>1. Nested(<<>>, <<>>)
    BY <1>1, <1>2, Zenon DEF Nested
  <2> QED BY <1>1, <1>2, <2>1, Zenon DEF Init, SlotInv, SlotRight
<1>8. StackInv
  BY <1>4, Zenon DEF StackInv, Own
<1>9. PlaceInv
  BY <1>4, Zenon DEF PlaceInv
<1>10. ShownThreadsInitialized
  BY DEF Init, ShownThreadsInitialized
<1> QED BY <1>3, <1>5, <1>6, <1>7, <1>8, <1>9, <1>10, Zenon DEF RecordInv

(* The first halves of a push and of a pop, while recording or paused, and *)
(* the calls that only claim a slot.                                       *)
LEMMA CallKeeps ==
    ASSUME RecordInv, NEW t \in Thread, NameThread(t) \/ PushSection(t) \/ PopSection(t)
    PROVE  RecordInv'
<1>1. /\ pc \in [Thread -> Step] /\ scopes \in [Thread -> Seq(Nat)]
      /\ ScopesRight(scopes[t], pc[t], HasSlot(t)) /\ scopes[t] \in Seq(Nat)
  BY Zenon DEF RecordInv, TypeInv, ScopeInv, ThreadScopes
<1>2. CASE NameThread(t)
  <2>1. pc' = [pc EXCEPT ![t] = "idle"] /\ scopes' = [scopes EXCEPT ![t] = scopes[t]]
    BY <1>1, <1>2, Zenon DEF NameThread
  <2>2. ClaimStep(t, "idle", scopes[t])
    BY <1>2, <2>1, Zenon DEF NameThread, ClaimStep
  <2> QED BY <2>2, ClaimKeeps, Zenon
<1>3. CASE PushSection(t) /\ ~gPaused
  <2>1. ClaimStep(t, "push", Append(scopes[t], 0))
    BY <1>3, Zenon DEF PushSection, ClaimStep
  <2> QED BY <2>1, ClaimKeeps, Zenon
<1>4. CASE PushSection(t) /\ gPaused
  <2> DEFINE old == scopes[t]
             sc == Append(old, 0)
  <2>1. /\ sc \in Seq(Nat) /\ Len(sc) = Len(old) + 1 /\ Len(old) \in Nat
        /\ sc[Len(old) + 1] = 0 /\ \A i \in 1..Len(old) : sc[i] = old[i]
    <3>1. 0 \in Nat
      OBVIOUS
    <3>2. old \in Seq(Nat)
      BY <1>1, Zenon
    <3> HIDE DEF old
    <3> QED BY <3>1, <3>2
  <2>2. /\ Len(old) < MaxCallStack /\ pc[t] = "idle" /\ scopes' = [scopes EXCEPT ![t] = sc]
        /\ UNCHANGED <<flagVars, gRestarting, countVars, slotVars, frameVars, tlsVars, pc, stray>>
    BY <1>4, Zenon DEF PushSection
  <2>3. ~HasSlot(t) => \A i \in 1..Len(old) : old[i] = 0
    BY <1>1, Zenon DEF ScopesRight
  <2> HIDE DEF sc, old
  <2>4. Len(sc) <= MaxCallStack /\ \A i \in 1..Len(sc) : i \in 1..Len(old) \/ i = Len(old) + 1
    BY <2>1, <2>2, SettingsAssumption
  <2>5. ScopesRight(sc, "idle", HasSlot(t))
    BY <2>1, <2>3, <2>4, Zenon DEF ScopesRight
  <2> QED BY <1>4, <2>1, <2>2, <2>5, PausedKeeps, Zenon
<1>5. CASE PopSection(t) /\ ~gPaused
  <2>1. scopes' = [scopes EXCEPT ![t] = scopes[t]]
    BY <1>1, <1>5, Zenon DEF PopSection
  <2>2. ClaimStep(t, "pop", scopes[t])
    BY <1>5, <2>1, Zenon DEF PopSection, ClaimStep
  <2> QED BY <2>2, ClaimKeeps, Zenon
<1>6. CASE PopSection(t) /\ gPaused
  <2> DEFINE sc == SubSeq(scopes[t], 1, Len(scopes[t]) - 1)
  <2>1. /\ scopes[t] # <<>> /\ pc[t] = "idle" /\ scopes' = [scopes EXCEPT ![t] = sc]
        /\ UNCHANGED <<flagVars, gRestarting, countVars, slotVars, frameVars, tlsVars, pc, stray>>
    BY <1>6, Zenon DEF PopSection, PopScope
  <2>2. sc \in Seq(Nat) /\ ScopesRight(sc, "idle", HasSlot(t))
    BY <2>1, FrontScopes, Zenon
  <2> HIDE DEF sc
  <2> QED BY <1>6, <2>1, <2>2, PausedKeeps, Zenon
<1> QED BY <1>2, <1>3, <1>4, <1>5, <1>6, Zenon

(* The settings, a pause and ShowProfile.                                  *)
LEMMA SwitchKeeps ==
    ASSUME RecordInv,
           \/ SetProfileSettings
           \/ \E pause \in BOOLEAN : SetPaused(pause)
           \/ \E click \in BOOLEAN : ShowProfile(click)
    PROVE  RecordInv'
<1>1. gPaused \in BOOLEAN /\ gRequestPause \in BOOLEAN
  BY Zenon DEF RecordInv, TypeInv
<1>2. CASE SetProfileSettings
  <2>1. pc[UI] = "idle"
    BY <1>2, ThreadAssumption, Zenon DEF SetProfileSettings, RecordInv, RunInv
  <2>2. Reset /\ pc' = pc /\ gPaused' \in BOOLEAN /\ gRequestPause' \in BOOLEAN
    BY <1>1, <1>2, Zenon DEF SetProfileSettings
  <2> QED BY <2>1, <2>2, ResetKeeps, Zenon
<1>3. ASSUME NEW pause \in BOOLEAN, SetPaused(pause) PROVE RecordInv'
  <2>1. /\ gPaused' \in BOOLEAN /\ gRequestPause' \in BOOLEAN /\ (gPaused => gPaused')
        /\ UNCHANGED <<gRestarting, countVars, slotVars, frameVars, tlsVars, pc, scopes, stray>>
    BY <1>1, <1>3, Zenon DEF SetPaused
  <2> QED BY <2>1, FlagsKeep, Zenon
<1>4. ASSUME NEW click \in BOOLEAN, ShowProfile(click) PROVE RecordInv'
  <2> DEFINE pause == IF click THEN ~gRequestPause ELSE gRequestPause
  <2>1. /\ pc[UI] = "idle" /\ pc' = pc /\ gPaused' = pause /\ gRequestPause' = pause
        /\ pause => UNCHANGED <<gRestarting, countVars, slotVars, frameVars, tlsVars, scopes, stray>>
        /\ ~pause => Reset
    BY <1>4, Zenon DEF ShowProfile
  <2>2. pause \in BOOLEAN
    BY <1>1, Zenon
  <2> HIDE DEF pause
  <2>3. gPaused' \in BOOLEAN /\ gRequestPause' \in BOOLEAN
    BY <2>1, <2>2, Zenon
  <2>4. CASE pause
    <3>1. /\ gPaused => gPaused'
          /\ UNCHANGED <<gRestarting, countVars, slotVars, frameVars, tlsVars, pc, scopes, stray>>
      BY <2>1, <2>4, Zenon
    <3> QED BY <2>3, <3>1, FlagsKeep, Zenon
  <2>5. CASE ~pause
    BY <2>1, <2>3, <2>5, ResetKeeps, Zenon
  <2> QED BY <2>4, <2>5, Zenon
<1> QED BY <1>2, <1>3, <1>4, Zenon

(* A step that changes nothing.                                            *)
LEMMA RecordStutters == RecordInv /\ UNCHANGED vars => RecordInv'
<1> SUFFICES ASSUME RecordInv, UNCHANGED vars PROVE RecordInv'
  OBVIOUS
<1>1. /\ gPaused' \in BOOLEAN /\ gRequestPause' \in BOOLEAN /\ (gPaused => gPaused')
      /\ UNCHANGED <<gRestarting, countVars, slotVars, frameVars, tlsVars, pc, scopes, stray>>
  BY Zenon DEF vars, flagVars, RecordInv, TypeInv
<1> QED BY <1>1, FlagsKeep, Zenon

(* RecordInv is inductive: every call of the profiler keeps it.            *)
LEMMA RecordInvariant == Spec => []RecordInv
<1>1. Init => RecordInv
  BY RecordInit
<1>2. RecordInv /\ [Next]_vars => RecordInv'
  <2> SUFFICES ASSUME RecordInv, [Next]_vars PROVE RecordInv'
    OBVIOUS
  <2>1. CASE \/ SetProfileSettings \/ \E pause \in BOOLEAN : SetPaused(pause)
             \/ \E click \in BOOLEAN : ShowProfile(click)
    BY <2>1, SwitchKeeps, Zenon
  <2>2. CASE NewFrame
    BY <2>2, NewFrameKeeps, Zenon
  <2>3. CASE NextFrame \/ NextRegion
    BY <2>3, CountKeeps, Zenon
  <2>4. ASSUME NEW t \in Thread, NameThread(t) \/ PushSection(t) \/ PopSection(t)
        PROVE  RecordInv'
    BY <2>4, CallKeeps, Zenon
  <2>5. ASSUME NEW t \in Thread, PushCheck(t) \/ PushEntry(t) PROVE RecordInv'
    BY <2>5, PushCheckKeeps, PushEntryKeeps, Zenon
  <2>6. ASSUME NEW t \in Thread, PopCheck(t) \/ PopEntry(t) PROVE RecordInv'
    BY <2>6, PopCheckKeeps, PopEntryKeeps, Zenon
  <2>7. ASSUME NEW t \in Thread, TakePlace(t) \/ AddToFrame(t) PROVE RecordInv'
    BY <2>7, TakePlaceKeeps, AddToFrameKeeps, Zenon
  <2>8. CASE BeginRegion \/ EndRegion
    <3>1. "begin" \in {"begin", "end"} /\ "end" \in {"begin", "end"}
      OBVIOUS
    <3>2. CASE \E step \in {"begin", "end"} : Region(step) \/ RegionCheck(step)
      BY <3>2, RegionKeeps, Zenon
    <3> QED BY <2>3, <2>8, <3>1, <3>2, Zenon DEF BeginRegion, EndRegion
  <2>9. CASE UNCHANGED vars
    BY <2>9, RecordStutters, Zenon
  <2> QED BY <2>1, <2>2, <2>3, <2>4, <2>5, <2>6, <2>7, <2>8, <2>9, Zenon DEF Next
<1> QED BY <1>1, <1>2, PTL DEF Spec

-----------------------------------------------------------------------------
(* InitThread, CheckEndState: for any number of threads and slots, every   *)
(* thread of a run has a slot of its own, whatever the calls that a Reset  *)
(* overtook still do.  A thread that is alone in its slot writes neither   *)
(* past entries nor past entryStack, although other threads run between    *)
(* its check and its write, and the frame and the region that NewFrame and *)
(* EndRegion are about to write exist.                                     *)
THEOREM EverySlotHasOneThread == Spec => []SlotsExclusive
<1>1. RecordInv => SlotsExclusive
  <2> SUFFICES ASSUME RecordInv PROVE SlotsExclusive
    OBVIOUS
  <2>1. TypeOK
    BY Zenon DEF RecordInv, TypeInv, TypeOK
  <2>2. ASSUME NEW s \in Slot \ stray
        PROVE  Len(entries[s]) <= MaxEntries /\ Len(entryStack[s]) <= StackPlaces
    <3>1. SlotRight(s) /\ entryStack[s] \in Seq(Nat)
      BY Zenon DEF RecordInv, TypeInv, SlotInv
    <3>2. /\ Len(entries[s]) <= MaxEntries /\ Len(entryStack[s]) <= MaxCallStack
          /\ Len(entryStack[s]) \in Nat
      BY <3>1, SeqFacts, Zenon DEF SlotRight
    <3>3. MaxCallStack \in Nat /\ MaxCallStack <= StackPlaces /\ StackPlaces \in Nat
      BY SettingsAssumption DEF StackPlaces
    <3> QED BY <3>2, <3>3
  <2>3. \A t \in Thread : ThreadRun(t)
    BY Zenon DEF RecordInv, RunInv
  <2> QED BY <2>1, <2>2, <2>3, Zenon DEF RecordInv, RunInv, ThreadRun, SlotsExclusive
<1> QED BY <1>1, RecordInvariant, PTL

(* PushSectionBase and PopSection: while the profiler runs, the call stack *)
(* of a thread is exactly the entries of the scopes it is in, whatever was *)
(* paused, resumed or cut short before.                                    *)
THEOREM CallStackIsScopes == Spec => []StackMatchesScopes
<1>1. RecordInv => StackMatchesScopes
  BY Zenon DEF RecordInv, StackInv, ThreadStack, StackRight, Own, StackMatchesScopes
<1> QED BY <1>1, RecordInvariant, PTL

(* PushSectionBase: every section lies inside of its parent.               *)
THEOREM SectionsNest == Spec => []ParentsEnclose
<1>1. RecordInv => ParentsEnclose
  <2> SUFFICES ASSUME RecordInv, NEW s \in Slot \ stray, NEW e \in DOMAIN entries[s]
               PROVE  /\ entries[s][e].parent < e
                      /\ entries[s][e].parent # 0 /\ entries[s][e].open => entries[s][entries[s][e].parent].open
    BY Zenon DEF ParentsEnclose
  <2>1. entries[s] \in Seq(Entry) /\ entryStack[s] \in Seq(Nat) /\ Nested(entries[s], entryStack[s])
    BY Zenon DEF RecordInv, TypeInv, SlotInv, SlotRight
  <2> DEFINE es == entries[s]
             st == entryStack[s]
  <2>2. e \in 1..Len(es) /\ Len(st) \in Nat /\ es \in Seq(Entry) /\ st \in Seq(Nat) /\ Nested(es, st)
    BY <2>1, SeqFacts
  <2> HIDE DEF es, st
  <2>3. es[e].parent < e
    BY <2>2, Zenon DEF Nested
  <2>4. ASSUME es[e].parent # 0, es[e].open PROVE es[es[e].parent].open
    <3>1. PICK k \in 1..Len(st) : st[k] = e
      BY <2>2, <2>4, Zenon DEF Nested
    <3>2. es[e].parent = IF k = 1 THEN 0 ELSE st[k - 1]
      BY <2>2, <3>1, Zenon DEF Nested
    <3>3. k - 1 \in 1..Len(st) /\ es[e].parent = st[k - 1]
      BY <2>2, <2>4, <3>1, <3>2
    <3> QED BY <2>2, <3>3, Zenon DEF Nested
  <2> QED BY <2>3, <2>4, Zenon DEF es
<1> QED BY <1>1, RecordInvariant, PTL

(* ShowProfile: what a frame says of a thread is of a slot in use, and an  *)
(* entry that is written unless threads raced for a place of the frame.    *)
THEOREM FramesShowWritten == Spec => []ShownThreadsInitialized
BY RecordInvariant, PTL DEF RecordInv

=============================================================================
