------------------------------ MODULE Profiler ------------------------------
(***************************************************************************)
(* The recording half of src/time/profiler.cpp: threads open and close     *)
(* sections, the UI thread starts frames, pauses and resumes.  A thread    *)
(* records into a slot of gThreadData that it claims, once per run, from   *)
(* InitThread.  Nothing but InitThread and Reset takes gMutex, so a call   *)
(* is cut wherever another thread can interfere: after GetThreadData,      *)
(* after CheckEndState, after the entry is written, after frameThreadCount *)
(* is read, and between the two halves of NewFrame.                        *)
(*                                                                         *)
(* Entries, frames and slots are numbered from 1; the parent 0 stands for  *)
(* 0xFFFFFFFF.  currentEntry is the length of entries, callStackDepth that *)
(* of entryStack, frameThreadCount that of frameThreads.                   *)
(***************************************************************************)
EXTENDS Naturals, Sequences, FiniteSets

CONSTANTS
    Thread, UI,   \* the threads; the one that runs the user interface
    Audio,        \* "You are allowed one secondary region": its thread
    MaxThreads, MaxEntries, MaxFrames, MaxRegions, MaxCallStack,  \* settings
    MaxRuns,      \* bound: how often Reset is called
    MaxBegun      \* bound: how many runs, sections, frames and regions begin

(* The size that Init gives entryStack, whatever MaxCallStack is.          *)
StackPlaces == 50

ASSUME ThreadAssumption == UI \in Thread /\ Audio \in Thread
ASSUME SettingsAssumption ==
    /\ MaxThreads \in Nat \ {0} /\ MaxEntries \in Nat \ {0}
    /\ MaxFrames \in Nat \ {0} /\ MaxRegions \in Nat \ {0}
    /\ MaxCallStack \in 1..StackPlaces /\ MaxRuns \in Nat /\ MaxBegun \in Nat

Slot == 1..MaxThreads

VARIABLES
    gPaused, gRequestPause, gRestarting,
    gProfilerGeneration, gCurrentFrame, gCurrentRegion,
    initialized, entries, entryStack,   \* of each slot of gThreadData
    frameThreads,                       \* of each frame of gFrameData
    gThreadIndexTLS, gGenerationTLS,    \* of each thread; 0: no slot
    pc,       \* what each thread is doing
    place,    \* the place of a frame each thread is about to write
    scopes,   \* history: the ProfileScopes a thread is in, each with the
              \* entry of this run it was recorded as, or 0
    stray,    \* history: the slots that calls begun before the last Reset
              \* went on with after it
    raced,    \* history: the frames that a thread took a place of while
              \* another one was about to write, or before the last Reset
    begun     \* how many runs, sections, frames and regions have begun

flagVars == <<gPaused, gRequestPause>>
countVars == <<gProfilerGeneration, gCurrentFrame, gCurrentRegion>>
slotVars == <<initialized, entries, entryStack>>
frameVars == <<frameThreads, place, raced>>
tlsVars == <<gThreadIndexTLS, gGenerationTLS>>
vars == <<flagVars, gRestarting, countVars, slotVars, frameVars, tlsVars,
          pc, scopes, stray, begun>>

NoPlace == [frame |-> 0, index |-> 0]

(* Before the first Reset.  gGenerationTLS starts as -1, a generation that *)
(* never comes.                                                            *)
Init ==
    /\ gPaused = TRUE /\ gRequestPause = FALSE /\ gRestarting = TRUE
    /\ gProfilerGeneration = 0 /\ gCurrentFrame = 0 /\ gCurrentRegion = 0
    /\ initialized = [s \in Slot |-> FALSE]
    /\ entries = [s \in Slot |-> <<>>] /\ entryStack = [s \in Slot |-> <<>>]
    /\ frameThreads = [f \in 1..MaxFrames |-> <<>>]
    /\ gThreadIndexTLS = [t \in Thread |-> 0]
    /\ gGenerationTLS = [t \in Thread |-> 0]
    /\ pc = [t \in Thread |-> "idle"]
    /\ place = [t \in Thread |-> NoPlace]
    /\ scopes = [t \in Thread |-> <<>>]
    /\ stray = {} /\ raced = {} /\ begun = 0

Goto(t, from, to) == pc[t] = from /\ pc' = [pc EXCEPT ![t] = to]

Begin == begun < MaxBegun /\ begun' = begun + 1

-----------------------------------------------------------------------------
(* What Reset, and the Init it calls, do to all but the call stacks and    *)
(* the frames: every slot is free but the first, and the caller's TLS      *)
(* names the first one, of generation 0.                                   *)
NewRun ==
    /\ gProfilerGeneration < MaxRuns /\ Begin
    /\ gProfilerGeneration' = gProfilerGeneration + 1
    /\ initialized' = [s \in Slot |-> s = 1]
    /\ entries' = [s \in Slot |-> <<>>]
    /\ gThreadIndexTLS' = [gThreadIndexTLS EXCEPT ![UI] = 1]
    /\ gGenerationTLS' = [gGenerationTLS EXCEPT ![UI] = 0]
    /\ gRestarting' = TRUE
    /\ gCurrentFrame' = 0 /\ gCurrentRegion' = 0
    /\ scopes' = [t \in Thread |-> [i \in DOMAIN scopes[t] |-> 0]]
    /\ stray' = {gThreadIndexTLS[t] : t \in {u \in Thread : pc[u] # "idle"}}
    /\ raced' = {place[t].frame : t \in {u \in Thread : pc[u] = "place"}}
    /\ UNCHANGED place

(* Mutant: callStackDepth is not reset.                                    *)
ResetKeepsStacks ==
    /\ NewRun
    /\ frameThreads' = [f \in 1..MaxFrames |-> <<>>]
    /\ UNCHANGED entryStack

(* Mutant: frameThreadCount is not reset.                                  *)
ResetKeepsFrames ==
    /\ NewRun
    /\ entryStack' = [s \in Slot |-> <<>>]
    /\ UNCHANGED frameThreads

(* Reset, by the UI thread.                                                *)
Reset ==
    /\ NewRun
    /\ entryStack' = [s \in Slot |-> <<>>]
    /\ frameThreads' = [f \in 1..MaxFrames |-> <<>>]

(* "call this before doing any profiler calls".                            *)
SetProfileSettings ==
    /\ gProfilerGeneration = 0
    /\ Reset
    /\ gPaused' = FALSE
    /\ UNCHANGED <<gRequestPause, pc>>

SetPaused(pause) ==
    /\ gPaused # pause
    /\ gRequestPause' = pause
    /\ UNCHANGED <<gPaused, gRestarting, countVars, slotVars, frameVars,
                   tlsVars, pc, scopes, stray, begun>>

(* ShowProfile, up to the buttons: a request or a click changes the state. *)
ShowProfile(click) ==
    /\ pc[UI] = "idle"
    /\ LET pause == IF click THEN ~gRequestPause ELSE gRequestPause
       IN  /\ click \/ gPaused # gRequestPause
           /\ gPaused' = pause
           /\ gRequestPause' = pause
           /\ IF pause
              THEN UNCHANGED <<gRestarting, countVars, slotVars, frameVars,
                               tlsVars, scopes, stray, begun>>
              ELSE Reset
    /\ UNCHANGED pc

-----------------------------------------------------------------------------
FreeSlot == {s \in Slot : ~initialized[s]}

HasSlot(t) == gThreadIndexTLS[t] # 0 /\ gGenerationTLS[t] = gProfilerGeneration

(* Mutant: the slot is claimed but not marked.                             *)
GetThreadDataUnmarked(t) ==
    IF HasSlot(t)
    THEN UNCHANGED <<tlsVars, slotVars>>
    ELSE \E s \in FreeSlot :
            /\ \A r \in FreeSlot : s <= r
            /\ gThreadIndexTLS' = [gThreadIndexTLS EXCEPT ![t] = s]
            /\ gGenerationTLS' = [gGenerationTLS EXCEPT ![t] = gProfilerGeneration]
            /\ entries' = [entries EXCEPT ![s] = <<>>]
            /\ UNCHANGED <<initialized, entryStack>>

(* GetThreadData and InitThread: keep the slot of this generation or claim *)
(* the first free one.  With no slot free the assertion in InitThread      *)
(* fails and the call does not return.                                     *)
GetThreadData(t) ==
    IF HasSlot(t)
    THEN UNCHANGED <<tlsVars, slotVars>>
    ELSE \E s \in FreeSlot :
            /\ \A r \in FreeSlot : s <= r
            /\ gThreadIndexTLS' = [gThreadIndexTLS EXCEPT ![t] = s]
            /\ gGenerationTLS' = [gGenerationTLS EXCEPT ![t] = gProfilerGeneration]
            /\ initialized' = [initialized EXCEPT ![s] = TRUE]
            /\ entries' = [entries EXCEPT ![s] = <<>>]
            /\ UNCHANGED entryStack

(* CheckEndState: pause when something is full; TRUE when paused.          *)
Full(s) ==
    \/ Len(entries[s]) >= MaxEntries
    \/ gCurrentFrame >= MaxFrames
    \/ gCurrentRegion >= MaxRegions

EndState(s) == gPaused \/ Full(s)

CheckEndState(s) ==
    IF Full(s) THEN gPaused' = TRUE /\ gRequestPause' = TRUE ELSE UNCHANGED flagVars

(* NameThread and HideThread claim a slot and change how it is shown.      *)
NameThread(t) ==
    /\ pc[t] = "idle" /\ ~gPaused
    /\ ~HasSlot(t)
    /\ GetThreadData(t)
    /\ UNCHANGED <<flagVars, gRestarting, countVars, frameVars, pc, scopes, stray, begun>>

-----------------------------------------------------------------------------
(* A ProfileScope begins: PushSectionBase gets a slot, ...                 *)
PushSection(t) ==
    /\ pc[t] = "idle" /\ Begin
    /\ Len(scopes[t]) < MaxCallStack
    /\ scopes' = [scopes EXCEPT ![t] = Append(@, 0)]
    /\ IF gPaused
       THEN UNCHANGED <<pc, tlsVars, slotVars>>
       ELSE pc' = [pc EXCEPT ![t] = "push"] /\ GetThreadData(t)
    /\ UNCHANGED <<flagVars, gRestarting, countVars, frameVars, stray>>

(* ... returns when the profiler is paused or something is full, ...       *)
PushCheck(t) ==
    LET s == gThreadIndexTLS[t]
    IN  /\ Goto(t, "push", IF EndState(s) THEN "idle" ELSE "write")
        /\ CheckEndState(s)
        /\ UNCHANGED <<gRestarting, countVars, slotVars, frameVars, tlsVars, scopes, stray, begun>>

(* ... and writes and pushes the entry whatever has happened since.  The   *)
(* thread's first one is also added to the frame.                          *)
PushEntry(t) ==
    LET s == gThreadIndexTLS[t]
        entry == Len(entries[s]) + 1
        depth == Len(entryStack[s])
        parent == IF depth > 0 THEN entryStack[s][depth] ELSE 0
    IN  /\ Goto(t, "write", IF entry = 1 THEN "first" ELSE "idle")
        /\ entries' = [entries EXCEPT ![s] = Append(@, [parent |-> parent, open |-> TRUE])]
        /\ entryStack' = [entryStack EXCEPT ![s] = Append(@, entry)]
        /\ scopes' = [scopes EXCEPT ![t][Len(scopes[t])] = IF HasSlot(t) THEN entry ELSE 0]
        /\ gRestarting' = (gRestarting /\ entry = 1)
        /\ UNCHANGED <<flagVars, countVars, initialized, frameVars, tlsVars, stray, begun>>

(* The current frame, if there is one, and its first place that is free.   *)
TakePlace(t) ==
    LET f == gCurrentFrame
        taken == \E u \in Thread : pc[u] = "place" /\ place[u].frame = f
    IN  /\ Goto(t, "first", IF f = 0 THEN "idle" ELSE "place")
        /\ gRestarting' = (gRestarting /\ f # 0)
        /\ place' = IF f = 0 THEN place
                    ELSE [place EXCEPT ![t] =
                             [frame |-> f, index |-> Len(frameThreads[f]) + 1]]
        /\ raced' = IF taken THEN raced \cup {f} ELSE raced
        /\ UNCHANGED <<flagVars, countVars, slotVars, frameThreads, tlsVars, scopes, stray, begun>>

FrameThread(s) == [threadIndex |-> s, activeEntry |-> Len(entries[s])]

(* A place of a frame as Init leaves it: thread 0, entry 0.                *)
Unwritten == [threadIndex |-> 1, activeEntry |-> 1]

(* What frameThreadCount can be after frameThreadCount++: one more than it *)
(* was when the place was taken, is now, or was in between.                *)
Counts(index, now) ==
    {n \in 1..(index + now + 1) :
        (index <= n /\ n <= now + 1) \/ (now + 1 <= n /\ n <= index)}

(* The place is written, and the count incremented.                        *)
AddToFrame(t) ==
    LET f == place[t].frame
        index == place[t].index
        old == frameThreads[f]
    IN  /\ Goto(t, "place", "idle")
        /\ \E count \in Counts(index, Len(old)) :
              frameThreads' = [frameThreads EXCEPT ![f] =
                 [k \in 1..count |->
                    IF k = index THEN FrameThread(gThreadIndexTLS[t])
                    ELSE IF k <= Len(old) THEN old[k] ELSE Unwritten]]
        /\ place' = [place EXCEPT ![t] = NoPlace]
        /\ gRestarting' = FALSE
        /\ UNCHANGED <<flagVars, countVars, slotVars, tlsVars, scopes, stray, begun, raced>>

(* The ProfileScope ends: PopSection gets a slot, ...                      *)
PopScope(t) == scopes' = [scopes EXCEPT ![t] = SubSeq(@, 1, Len(@) - 1)]

PopSection(t) ==
    /\ pc[t] = "idle"
    /\ scopes[t] # <<>>
    /\ IF gPaused
       THEN PopScope(t) /\ UNCHANGED <<pc, tlsVars, slotVars>>
       ELSE pc' = [pc EXCEPT ![t] = "pop"] /\ GetThreadData(t) /\ UNCHANGED scopes
    /\ UNCHANGED <<flagVars, gRestarting, countVars, frameVars, stray, begun>>

(* ... returns when the run is at its end or at its very beginning, ...    *)
PopCheck(t) ==
    LET s == gThreadIndexTLS[t]
        return == EndState(s) \/ gRestarting
    IN  /\ Goto(t, "pop", IF return THEN "idle" ELSE "close")
        /\ CheckEndState(s)
        /\ IF return THEN PopScope(t) ELSE UNCHANGED scopes
        /\ UNCHANGED <<gRestarting, countVars, slotVars, frameVars, tlsVars, stray, begun>>

(* Mutant: the entry at the bottom of the call stack is closed.            *)
PopEntryBottom(t) ==
    LET s == gThreadIndexTLS[t]
        depth == Len(entryStack[s])
    IN  /\ Goto(t, "close", "idle")
        /\ IF depth = 0
           THEN UNCHANGED slotVars
           ELSE /\ entryStack' = [entryStack EXCEPT ![s] = SubSeq(@, 1, depth - 1)]
                /\ entries' = [entries EXCEPT ![s][entryStack[s][1]].open = FALSE]
                /\ UNCHANGED initialized
        /\ PopScope(t)
        /\ UNCHANGED <<flagVars, gRestarting, countVars, frameVars, tlsVars, stray, begun>>

(* ... and closes the entry on top of the call stack, if there is one.     *)
PopEntry(t) ==
    LET s == gThreadIndexTLS[t]
        depth == Len(entryStack[s])
    IN  /\ Goto(t, "close", "idle")
        /\ IF depth = 0
           THEN UNCHANGED slotVars
           ELSE /\ entryStack' = [entryStack EXCEPT ![s] = SubSeq(@, 1, depth - 1)]
                /\ entries' = [entries EXCEPT ![s][entryStack[s][depth]].open = FALSE]
                /\ UNCHANGED initialized
        /\ PopScope(t)
        /\ UNCHANGED <<flagVars, gRestarting, countVars, frameVars, tlsVars, stray, begun>>

-----------------------------------------------------------------------------
(* The slots of the set S, in ascending order.                             *)
Ascending(S) ==
    {order \in UNION {[1..n -> S] : n \in 0..MaxThreads} :
        /\ \A i, j \in DOMAIN order : i < j => order[i] < order[j]
        /\ \A r \in S : \E i \in DOMAIN order : order[i] = r}

(* NewFrame: note which entry every thread is in ...                       *)
NewFrame ==
    LET s == gThreadIndexTLS[UI]
        used == {r \in Slot : initialized[r] /\ entries[r] # <<>>}
    IN  /\ pc[UI] = "idle" /\ ~gPaused
        /\ CheckEndState(s)
        /\ IF EndState(s)
           THEN UNCHANGED <<pc, frameThreads>>
           ELSE /\ pc' = [pc EXCEPT ![UI] = "frame"]
                /\ \E order \in Ascending(used) :
                      frameThreads' = [frameThreads EXCEPT ![gCurrentFrame + 1] =
                                          @ \o [i \in DOMAIN order |-> FrameThread(order[i])]]
        /\ UNCHANGED <<gRestarting, countVars, slotVars, tlsVars, scopes, stray, begun, place, raced>>

(* ... then the frame begins.                                              *)
NextFrame ==
    /\ Goto(UI, "frame", "idle") /\ Begin
    /\ gCurrentFrame' = gCurrentFrame + 1
    /\ UNCHANGED <<flagVars, gRestarting, gProfilerGeneration, gCurrentRegion,
                   slotVars, frameVars, tlsVars, scopes, stray>>

(* BeginRegion and EndRegion get a slot, ...                               *)
Region(step) ==
    /\ pc[Audio] = "idle" /\ ~gPaused
    /\ pc' = [pc EXCEPT ![Audio] = step]
    /\ GetThreadData(Audio)
    /\ UNCHANGED <<flagVars, gRestarting, countVars, frameVars, scopes, stray, begun>>

(* ... return when something is full; otherwise BeginRegion notes the time *)
(* in the region gCurrentRegion, ...                                       *)
RegionCheck(step) ==
    LET s == gThreadIndexTLS[Audio]
    IN  /\ Goto(Audio, step, IF EndState(s) \/ step = "begin" THEN "idle" ELSE "region")
        /\ CheckEndState(s)
        /\ UNCHANGED <<gRestarting, countVars, slotVars, frameVars, tlsVars, scopes, stray, begun>>

(* ... and EndRegion ends that region.                                     *)
NextRegion ==
    /\ Goto(Audio, "region", "idle") /\ Begin
    /\ gCurrentRegion' = gCurrentRegion + 1
    /\ UNCHANGED <<flagVars, gRestarting, gProfilerGeneration, gCurrentFrame,
                   slotVars, frameVars, tlsVars, scopes, stray>>

BeginRegion == Region("begin") \/ RegionCheck("begin")
EndRegion == Region("end") \/ RegionCheck("end") \/ NextRegion

Next ==
    \/ SetProfileSettings \/ NewFrame \/ NextFrame
    \/ BeginRegion \/ EndRegion
    \/ \E pause \in BOOLEAN : SetPaused(pause)
    \/ \E click \in BOOLEAN : ShowProfile(click)
    \/ \E t \in Thread :
          \/ NameThread(t)
          \/ PushSection(t) \/ PushCheck(t) \/ PushEntry(t)
          \/ TakePlace(t) \/ AddToFrame(t)
          \/ PopSection(t) \/ PopCheck(t) \/ PopEntry(t)

Spec == Init /\ [][Next]_vars

-----------------------------------------------------------------------------
Step == {"idle", "push", "write", "first", "place", "pop", "close", "frame",
         "begin", "end", "region"}

(* Every variable has its type; what is in the slots and frames of calls   *)
(* that race is not bounded.                                               *)
TypeOK ==
    /\ gPaused \in BOOLEAN /\ gRequestPause \in BOOLEAN /\ gRestarting \in BOOLEAN
    /\ gProfilerGeneration \in 0..MaxRuns
    /\ gCurrentFrame \in 0..MaxFrames /\ gCurrentRegion \in 0..MaxRegions
    /\ initialized \in [Slot -> BOOLEAN]
    /\ stray \subseteq Slot /\ raced \subseteq 1..MaxFrames
    /\ gThreadIndexTLS \in [Thread -> 0..MaxThreads]
    /\ gGenerationTLS \in [Thread -> 0..MaxRuns]
    /\ pc \in [Thread -> Step]

(* InitThread gives every thread of a run a slot of its own, whatever the  *)
(* calls that a Reset overtook still do.  A thread that is alone in its    *)
(* slot writes neither past entries nor past the 50 places of entryStack,  *)
(* although its check and its write are two steps; and the frame and the   *)
(* region that NewFrame and EndRegion are about to write exist.            *)
SlotsExclusive ==
    /\ TypeOK
    /\ \A t, u \in Thread :
        /\ HasSlot(t) => initialized[gThreadIndexTLS[t]]
        /\ t # u /\ HasSlot(t) /\ HasSlot(u) => gThreadIndexTLS[t] # gThreadIndexTLS[u]
    /\ \A s \in Slot \ stray :
        Len(entries[s]) <= MaxEntries /\ Len(entryStack[s]) <= StackPlaces
    /\ \A t \in Thread :
        /\ pc[t] = "frame" => gCurrentFrame < MaxFrames
        /\ pc[t] = "region" => gCurrentRegion < MaxRegions

(* The call stack st of a thread that is in the scopes sc: first come the  *)
(* scopes that are not recorded in this run, then exactly the entries of   *)
(* the call stack, and last the scope whose push is not through yet.       *)
Recorded(sc, st, pushing) ==
    LET n == IF pushing THEN Len(sc) - 1 ELSE Len(sc)
        unrecorded == n - Len(st)
    IN  /\ Len(st) <= n
        /\ \A k \in 1..n : sc[k] = IF k <= unrecorded THEN 0 ELSE st[k - unrecorded]

(* Scopes that a pause, a resume or the end of the memory cut open never   *)
(* shift the others: while the profiler runs, the call stack of a thread   *)
(* is exactly the entries of the scopes it is in, so PopSection closes the *)
(* entry that the matching PushSectionBase wrote, or none.  A call that a  *)
(* Reset overtook spoils this only for the thread that now has its slot.   *)
StackMatchesScopes ==
    \A t \in Thread : ~gPaused /\ HasSlot(t) /\ gThreadIndexTLS[t] \notin stray =>
        Recorded(scopes[t], entryStack[gThreadIndexTLS[t]], pc[t] \in {"push", "write"})

(* A section lies inside its parent: the parent is an earlier entry (which *)
(* PushSectionBase asserts) and is not closed before its children, except  *)
(* in the slots of calls that a Reset overtook.                            *)
ParentsEnclose ==
    \A s \in Slot \ stray : \A e \in DOMAIN entries[s] :
        LET parent == entries[s][e].parent
        IN  /\ parent < e
            /\ parent # 0 /\ entries[s][e].open => entries[s][parent].open

(* What ShowProfile relies on when it reads the threads of a frame: the    *)
(* slot is in use, which it asserts, and the entry is written, except in   *)
(* the slots of calls that a Reset overtook.  Threads whose first sections *)
(* race for a place of a frame may leave one of its places unwritten; it   *)
(* names the slot of the UI thread then, and an entry that need not exist. *)
ShownThreadsInitialized ==
    \A f \in 1..MaxFrames : \A i \in DOMAIN frameThreads[f] :
        LET info == frameThreads[f][i]
        IN  info.threadIndex \notin stray =>
               /\ initialized[info.threadIndex]
               /\ f \notin raced => info.activeEntry \in DOMAIN entries[info.threadIndex]

(* "assert(threadData.initialized)": what ShowProfile asserts of every     *)
(* thread of a frame.                                                      *)
ShownAssert ==
    \A f \in 1..MaxFrames : \A i \in DOMAIN frameThreads[f] :
        initialized[frameThreads[f][i].threadIndex]

(* "All memory allocation is up-front": frameThreads has MaxThreads places,*)
(* and the place that a thread is about to write is one of them.           *)
FrameThreadsFit ==
    /\ \A f \in 1..MaxFrames : Len(frameThreads[f]) <= MaxThreads
    /\ \A t \in Thread : place[t].index <= MaxThreads
=============================================================================
