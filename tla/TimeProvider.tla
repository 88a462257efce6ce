---------------------------- MODULE TimeProvider ----------------------------
(***************************************************************************)
(* TimeProvider of src/time/time_provider.cpp: a thread that ticks the     *)
(* registered consumers once per beat, and the calls other threads make    *)
(* while it runs.                                                          *)
(*                                                                         *)
(* The tick thread holds m_spin_mutex while it calls the consumers.  A     *)
(* call of another thread that takes the mutex makes its change in one     *)
(* step, when the tick thread does not hold it.  StartThread and EndThread *)
(* are called by one controlling thread, as std::thread requires.          *)
(***************************************************************************)
EXTENDS Naturals

CONSTANTS
    Consumer,     \* the ITimeConsumer objects
    BeatModulus,  \* bound: m_beat is counted modulo this
    FrameModulus, \* m_frame is a uint32_t: 2^32 in the code
    BeatLength    \* the values SetTempo can give m_timePerBeat

ASSUME ModulusAssumption ==
    /\ BeatModulus \in Nat /\ BeatModulus > 1
    /\ FrameModulus \in Nat /\ FrameModulus > 1
    /\ BeatLength \subseteq Nat /\ BeatLength # {}

Beat == 0..(BeatModulus - 1)
Frame == 0..(FrameModulus - 1)

VARIABLES
    consumers,               \* m_consumers
    quit,                    \* m_quitTimer
    beat, frame, lastBeat,   \* m_beat, m_frame, m_lastBeat
    timePerBeat,             \* m_timePerBeat
    joinable,                \* m_tickThread.joinable()
    tick,                    \* where the tick thread is
    myBeat, myFrame, mySleep,\* its locals: beat, frame, nextTime - startTime
    todo, ticked,            \* the consumers it has still to call, has called
    control,                 \* the controlling thread: "idle" or in join()
    beatSet,                 \* history: SetBeat was called
    lateBeats                \* history: beats begun since m_quitTimer was set

apiVars == <<consumers, timePerBeat>>
beatVars == <<beat, frame, lastBeat, beatSet>>
localVars == <<myBeat, myFrame, mySleep, todo, ticked>>
threadVars == <<quit, joinable, control, lateBeats>>
providerVars == <<apiVars, beatVars, tick, localVars, threadVars>>

ProviderInit ==
    /\ consumers = {} /\ quit = FALSE
    /\ beat = 0 /\ frame = 0 /\ lastBeat = 0 /\ beatSet = FALSE
    /\ timePerBeat \in BeatLength
    /\ joinable = FALSE /\ tick = "off"
    /\ myBeat = 0 /\ myFrame = 0 /\ mySleep = timePerBeat
    /\ todo = {} /\ ticked = {}
    /\ control = "idle" /\ lateBeats = 0

-----------------------------------------------------------------------------
(* The tick thread, between taking m_spin_mutex and giving it back.        *)
MutexFree == tick \notin {"calling", "publish"}

RegisterConsumer(c) ==
    /\ MutexFree
    /\ consumers' = consumers \cup {c}
    /\ UNCHANGED <<timePerBeat, beatVars, tick, localVars, threadVars>>

(* Mutant: UnRegisterConsumer without the mutex.                           *)
UnRegisterUnlocked(c) ==
    /\ consumers' = consumers \ {c}
    /\ UNCHANGED <<timePerBeat, beatVars, tick, localVars, threadVars>>

UnRegisterConsumer(c) ==
    /\ MutexFree
    /\ consumers' = consumers \ {c}
    /\ UNCHANGED <<timePerBeat, beatVars, tick, localVars, threadVars>>

SetTempo ==
    /\ MutexFree
    /\ timePerBeat' \in BeatLength
    /\ UNCHANGED <<consumers, beatVars, tick, localVars, threadVars>>

SetBeat(b) ==
    /\ MutexFree
    /\ beat' = b
    /\ beatSet' = TRUE
    /\ UNCHANGED <<apiVars, frame, lastBeat, tick, localVars, threadVars>>

SetFrame(f) ==
    /\ MutexFree
    /\ frame' = f
    /\ UNCHANGED <<apiVars, beat, lastBeat, beatSet, tick, localVars, threadVars>>

-----------------------------------------------------------------------------
(* Assigning to a std::thread that is joinable ends the program; the       *)
(* controlling thread starts the thread only when there is none.           *)
StartThread ==
    /\ control = "idle" /\ ~joinable
    /\ quit' = FALSE /\ lateBeats' = 0
    /\ joinable' = TRUE
    /\ tick' = "load"
    /\ UNCHANGED <<apiVars, beatVars, localVars, control>>

(* Mutant: EndThread joins without setting m_quitTimer.                    *)
EndThreadNoQuit ==
    /\ control = "idle"
    /\ control' = IF joinable THEN "joining" ELSE "idle"
    /\ UNCHANGED <<apiVars, beatVars, tick, localVars, quit, joinable, lateBeats>>

EndThread ==
    /\ control = "idle"
    /\ quit' = TRUE
    /\ control' = IF joinable THEN "joining" ELSE "idle"
    /\ UNCHANGED <<apiVars, beatVars, tick, localVars, joinable, lateBeats>>

JoinThread ==
    /\ control = "joining"
    /\ tick = "off"
    /\ joinable' = FALSE
    /\ control' = "idle"
    /\ UNCHANGED <<apiVars, beatVars, tick, localVars, quit, lateBeats>>

-----------------------------------------------------------------------------
(* One beat.  The length of the beat and m_beat are read first, then       *)
(* m_frame, all without the mutex.                                         *)
LoadBeat ==
    /\ tick = "load"
    /\ mySleep' = timePerBeat
    /\ myBeat' = beat
    /\ tick' = "loadFrame"
    /\ UNCHANGED <<apiVars, beatVars, myFrame, todo, ticked, threadVars>>

LoadFrame ==
    /\ tick = "loadFrame"
    /\ myFrame' = frame
    /\ tick' = "lock"
    /\ UNCHANGED <<apiVars, beatVars, myBeat, mySleep, todo, ticked, threadVars>>

BeginBeat ==
    /\ tick = "lock"
    /\ lastBeat' = myBeat
    /\ todo' = consumers
    /\ ticked' = {}
    /\ tick' = "calling"
    /\ lateBeats' = IF quit THEN lateBeats + 1 ELSE lateBeats
    /\ UNCHANGED <<apiVars, beat, frame, beatSet, myBeat, myFrame, mySleep,
                   quit, joinable, control>>

(* consumer->Tick(), in the order of the unordered_set.                    *)
TickConsumer(c) ==
    /\ tick = "calling"
    /\ c \in todo
    /\ todo' = todo \ {c}
    /\ ticked' = ticked \cup {c}
    /\ UNCHANGED <<apiVars, beatVars, tick, myBeat, myFrame, mySleep, threadVars>>

CalledAll ==
    /\ tick = "calling"
    /\ todo = {}
    /\ tick' = "publish"
    /\ UNCHANGED <<apiVars, beatVars, localVars, threadVars>>

(* Mutant: the beat is counted by the frame.                               *)
PublishFrameBeat ==
    /\ tick = "publish"
    /\ frame' = (myFrame + 1) % FrameModulus
    /\ beat' = (myFrame + 1) % BeatModulus
    /\ tick' = "check"
    /\ UNCHANGED <<apiVars, lastBeat, beatSet, localVars, threadVars>>

(* The two stores; then the mutex is given back.                           *)
Publish ==
    /\ tick = "publish"
    /\ frame' = (myFrame + 1) % FrameModulus
    /\ beat' = (myBeat + 1) % BeatModulus
    /\ tick' = "check"
    /\ UNCHANGED <<apiVars, lastBeat, beatSet, localVars, threadVars>>

(* Mutant: the thread may sleep though it should quit.                     *)
CheckQuitLate ==
    /\ tick = "check"
    /\ tick' \in IF quit THEN {"off", "sleep"} ELSE {"sleep"}
    /\ UNCHANGED <<apiVars, beatVars, localVars, threadVars>>

CheckQuit ==
    /\ tick = "check"
    /\ tick' = IF quit THEN "off" ELSE "sleep"
    /\ UNCHANGED <<apiVars, beatVars, localVars, threadVars>>

(* sleep_until(nextTime) returns.                                          *)
Wake ==
    /\ tick = "sleep"
    /\ tick' = "load"
    /\ UNCHANGED <<apiVars, beatVars, localVars, threadVars>>

TickThread ==
    \/ LoadBeat \/ LoadFrame \/ BeginBeat \/ CalledAll \/ Publish
    \/ CheckQuit \/ Wake
    \/ \E c \in Consumer : TickConsumer(c)

Call ==
    \/ \E c \in Consumer : RegisterConsumer(c) \/ UnRegisterConsumer(c)
    \/ SetTempo
    \/ \E b \in Beat : SetBeat(b)
    \/ \E f \in Frame : SetFrame(f)

ProviderNext == TickThread \/ Call \/ StartThread \/ EndThread \/ JoinThread

ProviderSpec == ProviderInit /\ [][ProviderNext]_providerVars

(* The tick thread keeps being scheduled and its sleep ends; join()        *)
(* returns once the thread has ended.  No call is ever obliged to happen.  *)
ProviderFairSpec == ProviderSpec /\ WF_providerVars(TickThread) /\ WF_providerVars(JoinThread)

-----------------------------------------------------------------------------
InBeat == {"calling", "publish"}

(* Every variable has its type.                                            *)
ProviderTypeOK ==
    /\ consumers \subseteq Consumer /\ quit \in BOOLEAN
    /\ beat \in Beat /\ frame \in Frame /\ lastBeat \in Beat /\ beatSet \in BOOLEAN
    /\ timePerBeat \in BeatLength
    /\ joinable \in BOOLEAN
    /\ tick \in {"off", "load", "loadFrame", "lock", "check", "sleep"} \cup InBeat
    /\ myBeat \in Beat /\ myFrame \in Frame /\ mySleep \in BeatLength
    /\ todo \subseteq Consumer /\ ticked \subseteq Consumer
    /\ control \in {"idle", "joining"}
    /\ lateBeats \in Nat

(* During a beat the tick thread calls exactly the registered consumers,   *)
(* each once: no consumer is called after UnRegisterConsumer has returned, *)
(* and none that RegisterConsumer added before the beat is left out.       *)
BeatTicksRegistered ==
    tick \in InBeat =>
        /\ todo \cup ticked = consumers
        /\ todo \cap ticked = {}
        /\ tick = "publish" => ticked = consumers

(* EndThread: once m_quitTimer is set, at most one more beat begins before *)
(* the tick thread ends.                                                   *)
OneLateBeat == lateBeats <= 1

(* Unless SetBeat interferes, the beat that GetBeat returns is the one     *)
(* GetBeatAtTime extrapolates from, or the one after it.                   *)
BeatTracksLast ==
    ~beatSet => beat = lastBeat \/ beat = (lastBeat + 1) % BeatModulus

(* EndThread always returns: the tick thread sees m_quitTimer, whatever it *)
(* was doing when it was set.                                              *)
EndThreadReturns == control = "joining" ~> control = "idle"

(* The comment above GetBeat: m_beat "is actualy an integer value which    *)
(* increments every tick".                                                 *)
BeatIncrements == [][Publish => beat' = (beat + 1) % BeatModulus]_providerVars
=============================================================================
