---------------------------- MODULE SharedProofs ----------------------------
(***************************************************************************)
(* What several callers share, for any number of them: the time provider's *)
(* thread ticks whom it should, the spin mutex lets one thread in at a     *)
(* time, the layouts file keeps what was saved, and a memory pool gives    *)
(* each of its items to one owner and keeps the list of them in order.     *)
(***************************************************************************)
EXTENDS TimeProvider, SpinMutex, LayoutManager, MemPool, ListProofs

(* Where the counters of the tick thread wrap.                             *)
LEMMA Wrap == \A n, k \in Nat : k > 1 => (n + 1) % k \in 0..(k - 1)
BY SMTT(30)

(* No step of the tick thread and no call takes a variable out of its type.*)
LEMMA TypeStep == ProviderTypeOK /\ [ProviderNext]_providerVars => ProviderTypeOK'
<1> SUFFICES ASSUME ProviderTypeOK, [ProviderNext]_providerVars PROVE ProviderTypeOK'
  OBVIOUS
<1> USE ModulusAssumption DEF ProviderTypeOK, InBeat
<1>1. ASSUME NEW c \in Consumer, RegisterConsumer(c) PROVE ProviderTypeOK'
  BY <1>1 DEF RegisterConsumer, beatVars, localVars, threadVars
<1>2. ASSUME NEW c \in Consumer, UnRegisterConsumer(c) PROVE ProviderTypeOK'
  BY <1>2 DEF UnRegisterConsumer, beatVars, localVars, threadVars
<1>3. CASE SetTempo
  BY <1>3 DEF SetTempo, beatVars, localVars, threadVars
<1>4. ASSUME NEW b \in Beat, SetBeat(b) PROVE ProviderTypeOK'
  BY <1>4 DEF SetBeat, apiVars, localVars, threadVars
<1>5. ASSUME NEW f \in Frame, SetFrame(f) PROVE ProviderTypeOK'
  BY <1>5 DEF SetFrame, apiVars, localVars, threadVars
<1>6. CASE StartThread
  BY <1>6, Zenon DEF StartThread, apiVars, beatVars, localVars
<1>7. CASE EndThread
  BY <1>7 DEF EndThread, apiVars, beatVars, localVars
<1>8. CASE JoinThread
  BY <1>8, Zenon DEF JoinThread, apiVars, beatVars, localVars
<1>9. CASE LoadBeat
  BY <1>9 DEF LoadBeat, apiVars, beatVars, threadVars
<1>10. CASE LoadFrame
  BY <1>10 DEF LoadFrame, apiVars, beatVars, threadVars
<1>11. CASE BeginBeat
  BY <1>11 DEF BeginBeat, apiVars
<1>12. ASSUME NEW c \in Consumer, TickConsumer(c) PROVE ProviderTypeOK'
  BY <1>12 DEF TickConsumer, apiVars, beatVars, threadVars
<1>13. CASE CalledAll
  BY <1>13 DEF CalledAll, apiVars, beatVars, localVars, threadVars
<1>14. CASE Publish
  <2>1. frame' \in Frame /\ beat' \in Beat
    BY <1>14, Wrap DEF Publish, Frame, Beat
  <2> QED
    BY <1>14, <2>1 DEF Publish, apiVars, localVars, threadVars
<1>15. CASE CheckQuit
  BY <1>15 DEF CheckQuit, apiVars, beatVars, localVars, threadVars
<1>16. CASE Wake
  BY <1>16 DEF Wake, apiVars, beatVars, localVars, threadVars
<1>17. CASE UNCHANGED providerVars
  BY <1>17 DEF providerVars, apiVars, beatVars, localVars, threadVars
<1> QED
  BY <1>1, <1>2, <1>3, <1>4, <1>5, <1>6, <1>7, <1>8, <1>9, <1>10, <1>11,
     <1>12, <1>13, <1>14, <1>15, <1>16, <1>17, ZenonT(30) DEF ProviderNext, TickThread, Call

(* Type correctness of the time provider.                                  *)
LEMMA ProviderTypes == ProviderSpec => []ProviderTypeOK
<1>1. ProviderInit => ProviderTypeOK
  <2> SUFFICES ASSUME ProviderInit PROVE ProviderTypeOK
    OBVIOUS
  <2>1. quit \in BOOLEAN /\ beatSet \in BOOLEAN /\ joinable \in BOOLEAN
    BY Zenon DEF ProviderInit
  <2>2. 0 \in Beat /\ 0 \in Frame
    BY ModulusAssumption DEF Beat, Frame
  <2> QED
    BY <2>1, <2>2 DEF ProviderInit, ProviderTypeOK, InBeat
<1> QED
  BY <1>1, TypeStep, PTL DEF ProviderSpec

-----------------------------------------------------------------------------
(* BeatTicksRegistered is inductive: the mutex keeps m_consumers still     *)
(* from the moment the beat copies it until the last consumer is called.   *)
LEMMA RegisteredStep ==
    ASSUME BeatTicksRegistered, [ProviderNext]_providerVars PROVE BeatTicksRegistered'
<1> USE DEF BeatTicksRegistered, InBeat, apiVars, beatVars, localVars, threadVars
<1>1. ASSUME NEW c \in Consumer, RegisterConsumer(c) PROVE BeatTicksRegistered'
  BY <1>1 DEF RegisterConsumer, MutexFree
<1>2. ASSUME NEW c \in Consumer, UnRegisterConsumer(c) PROVE BeatTicksRegistered'
  BY <1>2 DEF UnRegisterConsumer, MutexFree
<1>3. CASE SetTempo
  BY <1>3 DEF SetTempo
<1>4. ASSUME NEW b \in Beat, SetBeat(b) PROVE BeatTicksRegistered'
  BY <1>4 DEF SetBeat
<1>5. ASSUME NEW f \in Frame, SetFrame(f) PROVE BeatTicksRegistered'
  BY <1>5 DEF SetFrame
<1>6. CASE StartThread
  BY <1>6 DEF StartThread
<1>7. CASE EndThread
  BY <1>7 DEF EndThread
<1>8. CASE JoinThread
  BY <1>8 DEF JoinThread
<1>9. CASE LoadBeat
  BY <1>9 DEF LoadBeat
<1>10. CASE LoadFrame
  BY <1>10 DEF LoadFrame
<1>11. CASE BeginBeat
  BY <1>11 DEF BeginBeat
<1>12. ASSUME NEW c \in Consumer, TickConsumer(c) PROVE BeatTicksRegistered'
  BY <1>12 DEF TickConsumer
<1>13. CASE CalledAll
  BY <1>13 DEF CalledAll
<1>14. CASE Publish
  BY <1>14 DEF Publish
<1>15. CASE CheckQuit
  BY <1>15 DEF CheckQuit
<1>16. CASE Wake
  BY <1>16 DEF Wake
<1>17. CASE UNCHANGED providerVars
  BY <1>17 DEF providerVars
<1> QED
  BY <1>1, <1>2, <1>3, <1>4, <1>5, <1>6, <1>7, <1>8, <1>9, <1>10, <1>11,
     <1>12, <1>13, <1>14, <1>15, <1>16, <1>17, ZenonT(30) DEF ProviderNext, TickThread, Call

(* Every beat calls exactly the consumers that are registered while it     *)
(* holds m_spin_mutex, each of them once.                                  *)
THEOREM TicksRegistered == ProviderSpec => []BeatTicksRegistered
<1>1. ProviderInit => BeatTicksRegistered
  BY DEF ProviderInit, BeatTicksRegistered, InBeat
<1> QED
  BY <1>1, RegisteredStep, PTL DEF ProviderSpec

-----------------------------------------------------------------------------
(* Why no second beat begins after m_quitTimer is set: the one that was    *)
(* late knows it, and its way leads only to the test of m_quitTimer.       *)
LateInv ==
    /\ lateBeats \in {0, 1}
    /\ lateBeats = 1 => quit /\ tick \in {"calling", "publish", "check", "off"}

(* Every step keeps it.                                                    *)
LEMMA LateStep == ASSUME LateInv, [ProviderNext]_providerVars PROVE LateInv'
<1> USE DEF LateInv, apiVars, beatVars, localVars, threadVars
<1>1. ASSUME NEW c \in Consumer, RegisterConsumer(c) PROVE LateInv'
  BY <1>1 DEF RegisterConsumer
<1>2. ASSUME NEW c \in Consumer, UnRegisterConsumer(c) PROVE LateInv'
  BY <1>2 DEF UnRegisterConsumer
<1>3. CASE SetTempo
  BY <1>3 DEF SetTempo
<1>4. ASSUME NEW b \in Beat, SetBeat(b) PROVE LateInv'
  BY <1>4 DEF SetBeat
<1>5. ASSUME NEW f \in Frame, SetFrame(f) PROVE LateInv'
  BY <1>5 DEF SetFrame
<1>6. CASE StartThread
  BY <1>6 DEF StartThread
<1>7. CASE EndThread
  BY <1>7 DEF EndThread
<1>8. CASE JoinThread
  BY <1>8 DEF JoinThread
<1>9. CASE LoadBeat
  BY <1>9 DEF LoadBeat
<1>10. CASE LoadFrame
  BY <1>10 DEF LoadFrame
<1>11. CASE BeginBeat
  BY <1>11 DEF BeginBeat
<1>12. ASSUME NEW c \in Consumer, TickConsumer(c) PROVE LateInv'
  BY <1>12 DEF TickConsumer
<1>13. CASE CalledAll
  BY <1>13 DEF CalledAll
<1>14. CASE Publish
  BY <1>14 DEF Publish
<1>15. CASE CheckQuit
  BY <1>15 DEF CheckQuit
<1>16. CASE Wake
  BY <1>16 DEF Wake
<1>17. CASE UNCHANGED providerVars
  BY <1>17 DEF providerVars
<1> QED
  BY <1>1, <1>2, <1>3, <1>4, <1>5, <1>6, <1>7, <1>8, <1>9, <1>10, <1>11,
     <1>12, <1>13, <1>14, <1>15, <1>16, <1>17, ZenonT(30) DEF ProviderNext, TickThread, Call

(* EndThread waits for at most one beat that begins after it was called.   *)
THEOREM AtMostOneLateBeat == ProviderSpec => []OneLateBeat
<1>1. ProviderInit => LateInv
  BY DEF ProviderInit, LateInv
<1>2. LateInv => OneLateBeat
  BY SMTT(20) DEF LateInv, OneLateBeat
<1> QED
  BY <1>1, <1>2, LateStep, PTL DEF ProviderSpec

-----------------------------------------------------------------------------
(* From the load of m_beat to its store the local copy is current, as long *)
(* as nobody calls SetBeat, and inside the mutex it is m_lastBeat.         *)
TrackInv ==
    ~beatSet =>
        /\ tick \in {"loadFrame", "lock", "calling", "publish"} => myBeat = beat
        /\ tick \in {"calling", "publish"} => lastBeat = myBeat
        /\ beat = lastBeat \/ beat = (lastBeat + 1) % BeatModulus

(* Every step keeps it.                                                    *)
LEMMA TrackStep == ASSUME TrackInv, [ProviderNext]_providerVars PROVE TrackInv'
<1> USE DEF TrackInv, apiVars, beatVars, localVars, threadVars
<1>1. ASSUME NEW c \in Consumer, RegisterConsumer(c) PROVE TrackInv'
  BY <1>1 DEF RegisterConsumer
<1>2. ASSUME NEW c \in Consumer, UnRegisterConsumer(c) PROVE TrackInv'
  BY <1>2 DEF UnRegisterConsumer
<1>3. CASE SetTempo
  BY <1>3 DEF SetTempo
<1>4. ASSUME NEW b \in Beat, SetBeat(b) PROVE TrackInv'
  BY <1>4 DEF SetBeat
<1>5. ASSUME NEW f \in Frame, SetFrame(f) PROVE TrackInv'
  BY <1>5 DEF SetFrame
<1>6. CASE StartThread
  BY <1>6 DEF StartThread
<1>7. CASE EndThread
  BY <1>7 DEF EndThread
<1>8. CASE JoinThread
  BY <1>8 DEF JoinThread
<1>9. CASE LoadBeat
  BY <1>9 DEF LoadBeat
<1>10. CASE LoadFrame
  BY <1>10 DEF LoadFrame
<1>11. CASE BeginBeat
  BY <1>11 DEF BeginBeat
<1>12. ASSUME NEW c \in Consumer, TickConsumer(c) PROVE TrackInv'
  BY <1>12 DEF TickConsumer
<1>13. CASE CalledAll
  BY <1>13 DEF CalledAll
<1>14. CASE Publish
  BY <1>14 DEF Publish
<1>15. CASE CheckQuit
  BY <1>15 DEF CheckQuit
<1>16. CASE Wake
  BY <1>16 DEF Wake
<1>17. CASE UNCHANGED providerVars
  BY <1>17 DEF providerVars
<1> QED
  BY <1>1, <1>2, <1>3, <1>4, <1>5, <1>6, <1>7, <1>8, <1>9, <1>10, <1>11,
     <1>12, <1>13, <1>14, <1>15, <1>16, <1>17, ZenonT(30) DEF ProviderNext, TickThread, Call

(* Without SetBeat, m_beat never runs away from m_lastBeat, from which     *)
(* GetBeatAtTime extrapolates.                                             *)
THEOREM TracksLast == ProviderSpec => []BeatTracksLast
<1>1. ProviderInit => TrackInv
  BY DEF ProviderInit, TrackInv
<1>2. TrackInv => BeatTracksLast
  BY DEF TrackInv, BeatTracksLast
<1> QED
  BY <1>1, <1>2, TrackStep, PTL DEF ProviderSpec

-----------------------------------------------------------------------------
(* The program counters and the loop counters of lock() keep their types,  *)
(* the counters below the limits of the loops they count.                  *)
THEOREM TypeCorrect == Spec => []TypeOK
<1>1. Init => TypeOK
  <2> SUFFICES ASSUME Init PROVE TypeOK
    OBVIOUS
  <2>1. flag \in BOOLEAN
    BY Zenon DEF Init
  <2>2. \A t \in Thread : pc[t] \notin Spinning /\ i[t] = 0
    BY DEF Init, Spinning
  <2> QED BY <2>1, <2>2, MaxCallsAssumption DEF Init, TypeOK
<1>2. TypeOK /\ [Next]_vars => TypeOK'
  <2> SUFFICES ASSUME TypeOK, [Next]_vars PROVE TypeOK'
    OBVIOUS
  <2> USE IterationsAssumption, MaxCallsAssumption DEF TypeOK, Spinning, Limit
  <2>1. ASSUME NEW t \in Thread, Lock(t) PROVE TypeOK'
    BY <2>1 DEF Lock
  <2>2. ASSUME NEW t \in Thread, TryLock(t) PROVE TypeOK'
    BY <2>2 DEF TryLock, TestAndSet
  <2>3. ASSUME NEW t \in Thread, SpinTaken(t) PROVE TypeOK'
    BY <2>3, ZenonT(30) DEF SpinTaken, TestAndSet
  <2>4. ASSUME NEW t \in Thread, SpinFailed(t) PROVE TypeOK'
    BY <2>4 DEF SpinFailed, TestAndSet, After
  <2>5. ASSUME NEW t \in Thread, Yield(t) PROVE TypeOK'
    BY <2>5 DEF Yield
  <2>6. ASSUME NEW t \in Thread, Unlock(t) PROVE TypeOK'
    BY <2>6, Zenon DEF Unlock
  <2>7. CASE UNCHANGED vars
    BY <2>7 DEF vars
  <2> QED BY <2>1, <2>2, <2>3, <2>4, <2>5, <2>6, <2>7, ZenonT(30) DEF Next, Spin
<1> QED BY <1>1, <1>2, PTL DEF Spec

(* MutualExclusion is inductive given the types: a test_and_set that finds *)
(* the flag clear proves that nobody is inside.                            *)
LEMMA ExclusionStep ==
    ASSUME TypeOK, MutualExclusion, [Next]_vars PROVE MutualExclusion'
<1> USE DEF TypeOK, MutualExclusion
<1>1. ASSUME NEW t \in Thread, Lock(t) PROVE MutualExclusion'
  BY <1>1 DEF Lock
<1>2. ASSUME NEW t \in Thread, TryLock(t) PROVE MutualExclusion'
  BY <1>2, ZenonT(30) DEF TryLock, TestAndSet
<1>3. ASSUME NEW t \in Thread, SpinTaken(t) PROVE MutualExclusion'
  BY <1>3 DEF SpinTaken, TestAndSet
<1>4. ASSUME NEW t \in Thread, SpinFailed(t) PROVE MutualExclusion'
  BY <1>4 DEF SpinFailed, TestAndSet, Spinning, After
<1>5. ASSUME NEW t \in Thread, Yield(t) PROVE MutualExclusion'
  BY <1>5 DEF Yield
<1>6. ASSUME NEW t \in Thread, Unlock(t) PROVE MutualExclusion'
  BY <1>6 DEF Unlock
<1>7. CASE UNCHANGED vars
  BY <1>7 DEF vars
<1> QED BY <1>1, <1>2, <1>3, <1>4, <1>5, <1>6, <1>7, ZenonT(30) DEF Next, Spin

(* No two threads are ever inside the section that lock(), try_lock() and  *)
(* unlock() of audio_spin_mutex bracket.                                   *)
THEOREM Exclusion == Spec => []MutualExclusion
<1>1. Init => MutualExclusion
  BY DEF Init, MutualExclusion
<1> QED BY <1>1, ExclusionStep, TypeCorrect, PTL DEF Spec

(* The owner of the refinement mapping is the thread in its critical       *)
(* section, and nobody when there is none.                                 *)
LEMMA OwnerIs ==
    ASSUME MutualExclusion
    PROVE  /\ \A t \in Thread : pc[t] = "crit" => Owner = t
           /\ (\A t \in Thread : pc[t] # "crit") => Owner = NoThread
           /\ \A t \in Thread : Owner = t => pc[t] = "crit"
BY ThreadAssumption DEF MutualExclusion, Owner

(* Every step of the spin loops is a step of the abstract lock: the        *)
(* successful test_and_set is its Acquire or TryAcquire, a failed one,     *)
(* like a yield, changes nothing there.                                    *)
THEOREM Refinement == Spec => ImplementsMutex
<1>1. Init => M!MutexInit
  BY DEF Init, M!MutexInit, Owner, Waiting, Spinning
<1>2. ASSUME TypeOK, MutualExclusion, MutualExclusion', [Next]_vars
      PROVE  [M!MutexNext]_(M!mutexVars)
  <2> USE <1>2, OwnerIs DEF TypeOK
  <2>1. /\ \A t \in Thread : pc'[t] = "crit" => Owner' = t
        /\ (\A t \in Thread : pc'[t] # "crit") => Owner' = NoThread
        /\ \A t \in Thread : Owner' = t => pc'[t] = "crit"
    BY ThreadAssumption DEF MutualExclusion, Owner
  <2>2. ASSUME NEW t \in Thread, Lock(t) PROVE M!Request(t)
    BY <2>1, <2>2 DEF Lock, M!Request, Waiting, Spinning
  <2>3. ASSUME NEW t \in Thread, TryLock(t)
        PROVE  M!TryAcquire(t) \/ UNCHANGED M!mutexVars
    BY <2>1, <2>3 DEF TryLock, TestAndSet, M!TryAcquire, M!mutexVars, Waiting, Spinning
  <2>4. ASSUME NEW t \in Thread, SpinTaken(t) PROVE M!Acquire(t)
    BY <2>1, <2>4 DEF SpinTaken, TestAndSet, M!Acquire, Waiting, Spinning
  <2>5. ASSUME NEW t \in Thread, SpinFailed(t) PROVE UNCHANGED M!mutexVars
    BY <2>1, <2>5 DEF SpinFailed, TestAndSet, M!mutexVars, Waiting, Spinning, After
  <2>6. ASSUME NEW t \in Thread, Yield(t) PROVE UNCHANGED M!mutexVars
    BY <2>1, <2>6 DEF Yield, M!mutexVars, Waiting, Spinning
  <2>7. ASSUME NEW t \in Thread, Unlock(t) PROVE M!Release(t)
    BY <2>1, <2>7 DEF Unlock, M!Release, Waiting, Spinning
  <2>8. CASE UNCHANGED vars
    BY <2>8 DEF vars, M!mutexVars, Owner, Waiting
  <2> QED BY <2>2, <2>3, <2>4, <2>5, <2>6, <2>7, <2>8, ZenonT(30) DEF Next, Spin, M!MutexNext
<1> QED BY <1>1, <1>2, TypeCorrect, Exclusion, PTL DEF Spec, ImplementsMutex, M!MutexSpec
-----------------------------------------------------------------------------
(* Reading leaves nothing that a second reading would drop.                *)
LEMMA ReadKept ==
    ASSUME NEW f
    PROVE  Only(Read(f), Kept(Read(f))) = Read(f)
<1>1. CASE f.exists /\ f.parses
  <2> DEFINE e == f.entries
             r == [m \in DOMAIN e \cap Kept(e) |-> e[m]]
  <2>1. Read(f) = r
    BY <1>1 DEF Read, Only
  <2>2. Kept(r) = DOMAIN r
    BY DEF Kept
  <2>3. Only(r, DOMAIN r) = r
    BY SMTT(20) DEF Only
  <2> QED BY <2>1, <2>2, <2>3
<1>2. CASE ~(f.exists /\ f.parses)
  BY <1>2, Zenon DEF Read, Only, Kept, None
<1> QED BY <1>1, <1>2

(* A file that was written completely is read as what was written.         *)
LEMMA ReadWritten ==
    ASSUME NEW f
    PROVE  Read(FileOf(f)) = Only(f, Kept(f))
BY DEF Read, FileOf

(* FileIsMemory is inductive as it stands: a call that changes the layouts *)
(* in memory goes on to write the file.                                    *)
LEMMA FileStep ==
    ASSUME FileIsMemory, [LayoutNext]_layoutVars
    PROVE  FileIsMemory'
<1>1. ASSUME NEW force \in BOOLEAN, LoadLayoutsFile(force)
      PROVE  FileIsMemory'
  BY <1>1, ReadKept, ZenonT(30) DEF LoadLayoutsFile, FileIsMemory
<1>2. ASSUME NEW n \in Name, NEW text \in Text, SaveLayout(n, text)
      PROVE  FileIsMemory'
  BY <1>2 DEF SaveLayout, Truncates, FileIsMemory
<1>3. CASE SaveLayoutsFile
  BY <1>3 DEF SaveLayoutsFile, Truncates, FileIsMemory
<1>4. CASE WriteFile
  BY <1>4, ReadWritten DEF WriteFile, Written, FileIsMemory
<1>5. ASSUME NEW n \in Name, LoadLayout(n)
      PROVE  FileIsMemory'
  BY <1>5 DEF LoadLayout, FileIsMemory
<1>6. ASSUME NEW w \in Window, RegisterWindow(w) \/ Toggle(w)
      PROVE  FileIsMemory'
  BY <1>6, Zenon DEF RegisterWindow, Toggle, FileIsMemory
<1>7. CASE Stop
  BY <1>7 DEF Stop, FileIsMemory
<1>8. CASE Restart
  BY <1>8 DEF Restart, FileIsMemory
<1>9. CASE UNCHANGED layoutVars
  BY <1>9 DEF layoutVars, FileIsMemory
<1>10. ASSUME NEW force \in BOOLEAN, LoadLayoutsFails(force)
       PROVE  FileIsMemory'
  BY <1>10, Zenon DEF LoadLayoutsFails, FileIsMemory
<1> QED BY <1>1, <1>2, <1>3, <1>4, <1>5, <1>6, <1>7, <1>8, <1>9, <1>10, ZenonT(30)
        DEF LayoutNext

(* What a restart would read is what is in memory.                         *)
THEOREM FileMatches == LayoutSpec => []FileIsMemory
<1>1. LayoutInit => FileIsMemory
  BY DEF LayoutInit, FileIsMemory
<1> QED BY <1>1, FileStep, PTL DEF LayoutSpec

-----------------------------------------------------------------------------
(* While the file is truncated the saved layouts are in memory, and after  *)
(* a load that did not read all of the file those are that it did read.    *)
SavedInv ==
    /\ FileIsMemory
    /\ SavedSurvives
    /\ running = "saving" =>
          \A n \in DOMAIN saved : n \in Kept(layouts) /\ layouts[n] = saved[n]
    /\ running = "yes" /\ located /\ apart =>
          \A n \in DOMAIN saved \cap DOMAIN layouts :
              n \in Kept(layouts) /\ layouts[n] = saved[n]

(* Where the file can be saved, memory has the saved layouts that a save   *)
(* keeps, and has the others not at all.                                   *)
LEMMA SavedInMemory ==
    ASSUME SavedInv, running = "yes", located
    PROVE  /\ \A n \in DOMAIN saved \cap DOMAIN layouts :
                 n \in Kept(layouts) /\ layouts[n] = saved[n]
           /\ DOMAIN StillSaved = DOMAIN saved \cap DOMAIN layouts
           /\ \A n \in DOMAIN StillSaved : StillSaved[n] = saved[n]
<1>1. CASE apart
  BY <1>1, Zenon DEF SavedInv, StillSaved, Only
<1>2. CASE ~apart
  <2>1. Read(file) = Only(layouts, Kept(layouts))
    BY <1>2 DEF SavedInv, FileIsMemory
  <2>2. \A n \in DOMAIN saved : n \in DOMAIN Read(file) /\ Read(file)[n] = saved[n]
    BY DEF SavedInv, SavedSurvives
  <2>3. StillSaved = saved
    BY <1>2 DEF StillSaved
  <2>4. \A n \in DOMAIN saved :
           n \in DOMAIN layouts /\ n \in Kept(layouts) /\ layouts[n] = saved[n]
    BY <2>1, <2>2, Zenon DEF Only
  <2> QED BY <2>3, <2>4, Zenon
<1> QED BY <1>1, <1>2

(* A load that fails leaves in memory a part of what the file holds.       *)
LEMMA FailKeepsSaved ==
    ASSUME SavedInv, NEW force \in BOOLEAN, LoadLayoutsFails(force), FileIsMemory'
    PROVE  SavedInv'
<1>1. running = "yes" /\ running' = "yes"
  BY DEF LoadLayoutsFails
<1>2. CASE force
  <2>1. DOMAIN saved' = {}
    BY <1>2 DEF LoadLayoutsFails, None
  <2> QED BY <1>1, <2>1 DEF SavedInv, SavedSurvives
<1>3. CASE ~force /\ file.exists
  <2>1. file' = file /\ saved' = saved
    BY <1>3, Zenon DEF LoadLayoutsFails, Replaced
  <2>2. PICK S \in SUBSET DOMAIN Read(file) : layouts' = Only(Read(file), S)
    BY <2>1, Zenon DEF LoadLayoutsFails
  <2>3. \A n \in DOMAIN saved : n \in DOMAIN Read(file) /\ Read(file)[n] = saved[n]
    BY <1>1 DEF SavedInv, SavedSurvives
  <2>4. ASSUME NEW n \in DOMAIN layouts'
        PROVE  n \in DOMAIN Read(file) /\ layouts'[n] = Read(file)[n]
    BY <2>2, <2>4, Zenon DEF Only
  <2>5. ASSUME NEW n \in DOMAIN Read(file) PROVE Read(file)[n].text # NoText
    <3>1. file.exists /\ file.parses
      BY <2>5 DEF Read, None
    <3>2. Read(file) = Only(file.entries, Kept(file.entries))
      BY <3>1, Zenon DEF Read
    <3> QED BY <2>5, <3>2, Zenon DEF Only, Kept
  <2>6. \A n \in DOMAIN saved' \cap DOMAIN layouts' :
           n \in Kept(layouts') /\ layouts'[n] = saved'[n]
    BY <2>1, <2>3, <2>4, <2>5, Zenon DEF Kept
  <2> QED BY <1>1, <2>1, <2>3, <2>6, Zenon DEF SavedInv, SavedSurvives, Kept
<1>4. CASE ~force /\ ~file.exists
  <2>1. DOMAIN Read(file) = {}
    BY <1>4 DEF Read, None
  <2>2. saved' = saved /\ DOMAIN saved = {}
    BY <1>1, <1>4, <2>1, Zenon DEF LoadLayoutsFails, SavedInv, SavedSurvives
  <2> QED BY <1>1, <2>2 DEF SavedInv, SavedSurvives
<1> QED BY <1>2, <1>3, <1>4

(* A load keeps what was saved, unless the client resets the layouts: the  *)
(* default file replaces only a file that is absent, which holds nothing.  *)
LEMMA LoadKeepsSaved ==
    ASSUME SavedInv, NEW force \in BOOLEAN, LoadLayoutsFile(force), FileIsMemory'
    PROVE  SavedInv'
<1>1. running = "yes" /\ running' = "yes"
  BY DEF LoadLayoutsFile
<1>2. CASE force
  <2>1. DOMAIN saved' = {}
    BY <1>2 DEF LoadLayoutsFile, None
  <2> QED BY <1>1, <2>1 DEF SavedInv, SavedSurvives
<1>3. CASE ~force /\ file.exists
  <2>1. file' = file /\ saved' = saved /\ apart' = FALSE
    BY <1>3 DEF LoadLayoutsFile, Replaced
  <2> QED BY <1>1, <2>1 DEF SavedInv, SavedSurvives
<1>4. CASE ~force /\ ~file.exists
  <2>1. DOMAIN Read(file) = {}
    BY <1>4 DEF Read, None
  <2>2. saved' = saved /\ DOMAIN saved = {}
    BY <1>1, <1>4, <2>1, Zenon DEF LoadLayoutsFile, SavedInv, SavedSurvives
  <2> QED BY <1>1, <2>2 DEF SavedInv, SavedSurvives
<1> QED BY <1>2, <1>3, <1>4

(* A save puts the new layout next to the others before it writes them.    *)
LEMMA SaveKeepsSaved ==
    ASSUME SavedInv, NEW n \in Name, NEW text \in Text, SaveLayout(n, text), FileIsMemory'
    PROVE  SavedInv'
<1>1. CASE ~located
  <2>1. saved' = saved /\ file' = file /\ running' = running /\ ~located' /\ running = "yes"
    BY <1>1, ZenonT(30) DEF SaveLayout, Truncates
  <2> QED BY <2>1, ZenonT(30) DEF SavedInv, SavedSurvives
<1>2. CASE located
  <2>1. running' = "saving"
    BY <1>2, ZenonT(30) DEF SaveLayout, Truncates
  <2>2. \A m \in DOMAIN StillSaved : m \in Kept(layouts) /\ layouts[m] = StillSaved[m]
    BY <1>2, SavedInMemory, Zenon DEF SaveLayout
  <2>3. /\ DOMAIN layouts' = DOMAIN layouts \cup {n}
        /\ layouts'[n].text = text
        /\ \A m \in DOMAIN layouts : m # n => layouts'[m] = layouts[m]
    BY DEF SaveLayout, Put
  <2>4. \A m \in DOMAIN saved' : m \in DOMAIN layouts' /\ layouts'[m] = saved'[m]
                                 /\ layouts'[m].text # NoText
    <3>1. CASE text = NoText
      <4>1. saved' = Only(StillSaved, Name \ {n})
        BY <1>2, <3>1, SMTT(20) DEF SaveLayout
      <4> QED BY <2>2, <2>3, <4>1, ZenonT(30) DEF Only, Kept
    <3>2. CASE text # NoText
      <4>1. saved' = Put(StillSaved, n, layouts'[n])
        BY <1>2, <3>2 DEF SaveLayout
      <4> QED BY <2>2, <2>3, <3>2, <4>1, ZenonT(30) DEF Put, Kept
    <3> QED BY <3>1, <3>2
  <2> QED BY <2>1, <2>4, ZenonT(30) DEF SavedInv, SavedSurvives, Kept
<1> QED BY <1>1, <1>2

(* Every call, end and restart preserves the strengthened invariant.       *)
LEMMA SavedInductive == LayoutSpec => []SavedInv
<1>1. LayoutInit => SavedInv
  BY DEF LayoutInit, SavedInv, FileIsMemory, SavedSurvives, None
<1>2. SavedInv /\ [LayoutNext]_layoutVars => SavedInv'
  <2> SUFFICES ASSUME SavedInv, [LayoutNext]_layoutVars PROVE SavedInv' OBVIOUS
  <2>1. FileIsMemory'
    BY FileStep DEF SavedInv
  <2>2. CASE SaveLayoutsFile
    <3>1. CASE located
      <4>1. /\ running = "yes" /\ running' = "saving"
            /\ layouts' = layouts /\ saved' = StillSaved
        BY <2>2, <3>1 DEF SaveLayoutsFile, Truncates
      <4>2. \A n \in DOMAIN StillSaved : n \in Kept(layouts) /\ layouts[n] = StillSaved[n]
        BY <3>1, <4>1, SavedInMemory, Zenon
      <4>3. Kept(layouts)' = Kept(layouts)
        BY <4>1, ZenonT(30) DEF Kept
      <4> QED BY <2>1, <4>1, <4>2, <4>3 DEF SavedInv, SavedSurvives
    <3>2. CASE ~located
      BY <2>1, <2>2, <3>2, ZenonT(30) DEF SaveLayoutsFile, Truncates, SavedInv, SavedSurvives, Read, Kept
    <3> QED BY <3>1, <3>2, SMTT(20)
  <2>3. CASE WriteFile
    <3>1. Read(file') = Only(layouts, Kept(layouts))
      BY <2>3, ReadWritten DEF WriteFile, Written
    <3>2. \A n \in DOMAIN saved : n \in Kept(layouts) /\ layouts[n] = saved[n]
      BY <2>3, ZenonT(30) DEF WriteFile, SavedInv
    <3>3. \A n \in DOMAIN saved : n \in DOMAIN Read(file') /\ Read(file')[n] = saved[n]
      BY <3>1, <3>2, ZenonT(30) DEF Only, Kept
    <3> QED BY <2>1, <2>3, <3>3 DEF WriteFile, SavedInv, SavedSurvives
  <2>4. ASSUME NEW n \in Name, LoadLayout(n) PROVE SavedInv'
    BY <2>1, <2>4, ZenonT(30) DEF LoadLayout, SavedInv, SavedSurvives
  <2>5. ASSUME NEW w \in Window, RegisterWindow(w) \/ Toggle(w) PROVE SavedInv'
    BY <2>1, <2>5 DEF RegisterWindow, Toggle, SavedInv, SavedSurvives
  <2>6. CASE Stop
    <3>1. CASE running = "yes"
      BY <2>1, <2>6, <3>1, ZenonT(30) DEF Stop, SavedInv, SavedSurvives
    <3>2. CASE running # "yes"
      <4>1. DOMAIN saved' = {} /\ running' = "no"
        BY <2>6, <3>2, ZenonT(30) DEF Stop, None
      <4> QED BY <2>1, <4>1 DEF SavedInv, SavedSurvives
    <3> QED BY <3>1, <3>2
  <2>7. CASE Restart
    BY <2>1, <2>7, ZenonT(30) DEF Restart, SavedInv, SavedSurvives
  <2>8. CASE UNCHANGED layoutVars
    BY <2>1, <2>8 DEF layoutVars, SavedInv, SavedSurvives, Kept
  <2> QED BY <2>1, <2>2, <2>3, <2>4, <2>5, <2>6, <2>7, <2>8,
             LoadKeepsSaved, FailKeepsSaved, SaveKeepsSaved, ZenonT(30) DEF LayoutNext
<1> QED BY <1>1, <1>2, PTL DEF LayoutSpec

(* A layout that was saved stays in the file until it is saved again, is   *)
(* reset, or is lost in one of two ways: the program crashes inside a      *)
(* save, or saves after a load that failed before this layout.             *)
THEOREM SavedStays == LayoutSpec => []SavedSurvives
<1>1. SavedInv => SavedSurvives
  BY DEF SavedInv
<1> QED BY <1>1, SavedInductive, PTL

(* Loading a layout shows and hides the windows as they were when it was   *)
(* saved.                                                                  *)
THEOREM WindowsRestored == LayoutSpec => RestoresWindows
<1> DEFINE Restores == \A n \in DOMAIN saved : located /\ LoadLayout(n) =>
                          \A w \in registered \cap DOMAIN saved[n].flags :
                              visible'[w] = saved[n].flags[w]
<1>1. ASSUME SavedInv, registered \subseteq Window,
             NEW n \in DOMAIN saved, located, LoadLayout(n),
             NEW w \in registered \cap DOMAIN saved[n].flags
      PROVE  visible'[w] = saved[n].flags[w]
  <2>1. layouts[n] = saved[n]
    BY <1>1, SavedInMemory, Zenon DEF LoadLayout
  <2>2. w \in Window
    BY <1>1
  <2> QED BY <1>1, <2>1, <2>2, ZenonT(30) DEF LoadLayout
<1>2. LayoutSpec => [](registered \subseteq Window)
  <2>1. LayoutInit => registered \subseteq Window
    BY DEF LayoutInit
  <2>2. registered \subseteq Window /\ [LayoutNext]_layoutVars => (registered \subseteq Window)'
    BY Zenon DEF LayoutNext, LoadLayoutsFile, LoadLayoutsFails, SaveLayout, SaveLayoutsFile, WriteFile, LoadLayout,
           RegisterWindow, Toggle, Stop, Restart, layoutVars
  <2> QED BY <2>1, <2>2, PTL DEF LayoutSpec
<1>3. SavedInv /\ registered \subseteq Window => [Restores]_layoutVars
  BY <1>1
<1> QED BY <1>2, <1>3, SavedInductive, PTL DEF RestoresWindows

-----------------------------------------------------------------------------
(* The memory pool and its list (mutils/memory/memory_pool and list).      *)

(* The place of an item of the list.                                       *)
LEMMA PlaceOf ==
    ASSUME order \in Seq(Item), NEW x \in Range(order)
    PROVE  IndexOf(x) \in 1..Len(order) /\ order[IndexOf(x)] = x
<1>1. DOMAIN order = 1..Len(order)
  BY SeqFacts, Zenon
<1>2. \E n \in DOMAIN order : order[n] = x
  BY Zenon DEF Range
<1> QED BY <1>1, <1>2, Zenon DEF IndexOf

(* What linking an item means for the sequence.                            *)
LEMMA LinkedBehindIs ==
    ASSUME order \in Seq(Item), NEW x \in Item, NEW k \in 0..Len(order)
    PROVE  LinkedBehind(k, x) = With(order, k, x) /\ With(order, k, x) \in Seq(Item)
<1>1. With(order, k, x) \in Seq(Item) /\ PutIn(With(order, k, x), order, k, x)
  BY WithType, ZenonT(30) DEF PutIn
<1> QED BY <1>1, SpliceSeq, Zenon DEF LinkedBehind

(* Taking an item out of its chain, wherever it is.                        *)
LEMMA UnlinkKeeps ==
    ASSUME Sewn(list, order), order \in Seq(Item), NEW x \in Item
    PROVE  /\ Unlinked(x) \in Seq(Item)
           /\ Sewn(Disconnect(list, x), Unlinked(x))
           /\ Chained(Disconnect(list, x)) \subseteq Chained(list) \ {x}
<1>1. CASE x \in Range(order)
  <2> DEFINE k == IndexOf(x)
  <2>1. k \in 1..Len(order) /\ order[k] = x
    BY <1>1, PlaceOf, Zenon
  <2> HIDE DEF k
  <2>3. Without(order, k) \in Seq(Item) /\ TakenOut(Without(order, k), order, k)
    BY <2>1, WithoutType, Zenon DEF TakenOut
  <2>2. Unlinked(x) = Without(order, k)
    BY <1>1, <2>1, <2>3, CutSeq, ZenonT(30) DEF Unlinked, k
  <2> QED BY <2>1, <2>2, <2>3, SewnRemove
<1>2. CASE x \notin Range(order)
  <2>1. \A n \in 1..Len(order) : order[n] # x
    BY <1>2, SeqFacts, Zenon DEF Range
  <2>2. Unlinked(x) = order
    BY <1>2 DEF Unlinked
  <2> QED BY <2>1, <2>2, SewnOutside
<1> QED BY <1>1, <1>2

(* An item put in behind an item of the list, or at the front.             *)
LEMMA InsertAfterKeeps ==
    ASSUME Sewn(list, order), order \in Seq(Item),
           NEW x \in Item, NEW pos \in Pointer, CallInsertAfter(pos, x)
    PROVE  /\ order' \in Seq(Item) /\ Sewn(list', order')
           /\ Chained(list') \subseteq Chained(list) \cup {x}
<1> DEFINE k == IF pos = NULL THEN 0 ELSE IndexOf(pos)
<1>1. /\ InNoChain(x) /\ pos \in Range(order) \cup {NULL}
      /\ list' = InsertAfter(list, pos, x)
      /\ order' = LinkedBehind(IF pos = NULL THEN 0 ELSE IndexOf(pos), x)
  BY Zenon DEF CallInsertAfter
<1>2. k \in 0..Len(order) /\ At(order, k) = pos /\ order' = LinkedBehind(k, x)
  <2>0. Len(order) \in Nat
    BY SeqFacts
  <2>1. CASE pos = NULL
    <3>1. k = 0 /\ k \notin 1..Len(order) /\ k + 1 = 1
      BY <2>0, <2>1
    <3> QED BY <1>1, <2>0, <2>1, <3>1 DEF At
  <2>2. CASE pos # NULL
    <3>1. k = IndexOf(pos) /\ k \in 1..Len(order) /\ order[k] = pos
      BY <1>1, <2>2, PlaceOf, Zenon
    <3> HIDE DEF k
    <3>2. order' = LinkedBehind(k, x) /\ At(order, k) = pos
      BY <1>1, <2>2, <3>1, Zenon DEF At
    <3> QED BY <2>0, <3>1, <3>2
  <2> QED BY <2>1, <2>2
<1> HIDE DEF k
<1>3. x \notin Chained(list) /\ list.next[x] = NULL /\ list.prev[x] = NULL
  BY <1>1, Zenon DEF InNoChain, Chained
<1>4. list \in ListType /\ Linked(list, order)
  BY Zenon DEF Sewn
<1>5. \A n \in 1..Len(order) : order[n] # x
  BY <1>3, <1>4, ListedChained, Zenon
<1>6. Spliced(list', list, order, k, x)
  BY <1>1, <1>2, <1>3, <1>4, <1>5, InsertAfterSplices, Zenon
<1>7. order' = With(order, k, x) /\ With(order, k, x) \in Seq(Item)
  BY <1>2, LinkedBehindIs, ZenonT(30)
<1>8. /\ Sewn(list', With(order, k, x))
      /\ Chained(list') \subseteq Chained(list) \cup {x}
  BY <1>2, <1>3, <1>6, SewnInsert, ZenonT(30)
<1> QED BY <1>7, <1>8, Zenon

(* An item put in in front of an item of the list, or in an empty list.    *)
LEMMA InsertBeforeKeeps ==
    ASSUME Sewn(list, order), order \in Seq(Item),
           NEW x \in Item, NEW pos \in Pointer, CallInsertBefore(pos, x)
    PROVE  /\ order' \in Seq(Item) /\ Sewn(list', order')
           /\ Chained(list') \subseteq Chained(list) \cup {x}
<1> DEFINE k == IF pos = NULL THEN 0 ELSE IndexOf(pos) - 1
<1>1. /\ InNoChain(x)
      /\ pos \in Range(order) \/ (pos = NULL /\ order = <<>>)
      /\ list' = InsertBefore(list, pos, x)
      /\ order' = LinkedBehind(IF pos = NULL THEN 0 ELSE IndexOf(pos) - 1, x)
  BY ZenonT(30) DEF CallInsertBefore
<1>2. /\ k \in 0..Len(order) /\ At(order, k + 1) = pos
      /\ order' = LinkedBehind(k, x)
      /\ k < Len(order) \/ order = <<>>
  <2>0. Len(order) \in Nat
    BY SeqFacts
  <2>1. CASE pos = NULL
    <3>1. order = <<>>
      <4>1. pos \notin Range(order)
        <5>1. \A n \in DOMAIN order : order[n] \in Item
          BY SeqFacts
        <5> QED BY <2>1, <5>1, NullAssumption, Zenon DEF Range
      <4> QED BY <1>1, <4>1, Zenon
    <3>2. k = 0 /\ k + 1 = 1 /\ Len(order) = 0
      BY <2>1, <3>1
    <3> QED BY <1>1, <2>1, <3>1, <3>2 DEF At
  <2>2. CASE pos # NULL
    <3>1. IndexOf(pos) \in 1..Len(order) /\ order[IndexOf(pos)] = pos
      BY <1>1, <2>2, PlaceOf, ZenonT(30)
    <3>2. k + 1 = IndexOf(pos) /\ k \in 0..Len(order) /\ k < Len(order)
      BY <2>0, <2>2, <3>1
    <3> HIDE DEF k
    <3>3. order' = LinkedBehind(k, x)
      BY <1>1, <2>2, Zenon DEF k
    <3> QED BY <3>1, <3>2, <3>3, Zenon DEF At
  <2> QED BY <2>1, <2>2, SMTT(20)
<1> HIDE DEF k
<1>3. x \notin Chained(list) /\ list.next[x] = NULL /\ list.prev[x] = NULL
  BY <1>1, ZenonT(30) DEF InNoChain, Chained
<1>4. list \in ListType /\ Linked(list, order)
  BY Zenon DEF Sewn
<1>5. \A n \in 1..Len(order) : order[n] # x
  BY <1>3, <1>4, ListedChained, Zenon
<1>6. Spliced(list', list, order, k, x)
  <2>1. Spliced(InsertBefore(list, At(order, k + 1), x), list, order, k, x)
    BY <1>2, <1>3, <1>4, <1>5, InsertBeforeSplices, Zenon
  <2> QED BY <1>1, <1>2, <2>1, Zenon
<1>7. order' = With(order, k, x) /\ With(order, k, x) \in Seq(Item)
  BY <1>2, LinkedBehindIs, ZenonT(30)
<1>8. /\ Sewn(list', With(order, k, x))
      /\ Chained(list') \subseteq Chained(list) \cup {x}
  BY <1>2, <1>3, <1>6, SewnInsert, ZenonT(30)
<1> QED BY <1>7, <1>8, Zenon

(* A range cut out of the list that touches neither of its ends.           *)
LEMMA RangeKeeps ==
    ASSUME Sewn(list, order), order \in Seq(Item), EndRanges = FALSE,
           NEW a \in DOMAIN order, NEW b \in DOMAIN order, CallDisconnectRange(a, b)
    PROVE  /\ order' \in Seq(Item) /\ Sewn(list', order')
           /\ Chained(list') \subseteq Chained(list)
<1>1. /\ a \in 1..Len(order) /\ b \in 1..Len(order) /\ Len(order) \in Nat
      /\ order[a] \in Item /\ order[b] \in Item
  BY SeqFacts, SMTT(20)
<1>2. a < b /\ 1 < a /\ b < Len(order) /\ a <= b /\ a # 1 /\ b # Len(order)
  BY <1>1, SMTT(20) DEF CallDisconnectRange
<1>3. list' = DisconnectRange(list, order[a], order[b])
  <2>1. PICK pBegin \in {order[a]} \cup (IF a = 1 THEN {NULL} ELSE {}),
             pEnd \in {order[b]} \cup (IF b = Len(order) THEN {NULL} ELSE {}) :
             list' = DisconnectRange(list, pBegin, pEnd)
    BY Zenon DEF CallDisconnectRange
  <2>2. pBegin = order[a] /\ pEnd = order[b]
    BY <1>2, <2>1, Zenon
  <2> QED BY <2>1, <2>2
<1> DEFINE w == WithoutRange(order, a, b)
<1>4. w \in Seq(Item) /\ Sewn(list', w) /\ Chained(list') \subseteq Chained(list)
  BY <1>1, <1>2, <1>3, SewnRange, Zenon
<1>5. order' = SubSeq(order, 1, a - 1) \o SubSeq(order, b + 1, Len(order))
  BY Zenon DEF CallDisconnectRange
<1>6. order' = w
  BY <1>1, <1>2, <1>4, <1>5, RangeSeq, Zenon
<1> QED BY <1>4, <1>6, Zenon

-----------------------------------------------------------------------------
(* What m_freeItems holds, each item once.                                 *)
Listing(s, T) == s \in Seq(Item) /\ IsInjective(s) /\ Range(s) = T

(* One more free item.                                                     *)
LEMMA AppendLists ==
    ASSUME NEW s, NEW T, Listing(s, T), NEW x \in Item, x \notin T
    PROVE  Listing(Append(s, x), T \cup {x})
<1> DEFINE z == Append(s, x)
<1>1. s \in Seq(Item) /\ Len(s) \in Nat /\ DOMAIN s = 1..Len(s)
  BY SeqFacts DEF Listing
<1>2. /\ z \in Seq(Item) /\ Len(z) = Len(s) + 1 /\ DOMAIN z = 1..(Len(s) + 1)
      /\ z[Len(s) + 1] = x /\ \A m \in 1..Len(s) : z[m] = s[m]
  BY <1>1
<1> HIDE DEF z
<1>3. \A m \in 1..(Len(s) + 1) : m = Len(s) + 1 \/ m \in 1..Len(s)
  BY <1>1
<1>4. \A m \in 1..Len(s) : m \in 1..(Len(s) + 1)
  BY <1>1
<1>5. Len(s) + 1 \in 1..(Len(s) + 1)
  BY <1>1
<1>6. \A m \in 1..Len(s) : s[m] \in T
  BY <1>1, Zenon DEF Listing, Range
<1>7. IsInjective(z)
  BY <1>1, <1>2, <1>3, <1>6, Zenon DEF Listing, IsInjective
<1>8. \A y : y \in Range(z) <=> y \in T \cup {x}
  <2>1. ASSUME NEW y \in Range(z) PROVE y \in T \cup {x}
    BY <1>2, <1>3, <1>6, Zenon DEF Range
  <2>2. x \in Range(z)
    BY <1>2, <1>5, Zenon DEF Range
  <2>3. ASSUME NEW y \in T PROVE y \in Range(z)
    <3>1. PICK m \in 1..Len(s) : s[m] = y
      BY <1>1, Zenon DEF Listing, Range
    <3> QED BY <1>2, <1>4, <3>1, Zenon DEF Range
  <2> QED BY <2>1, <2>2, <2>3, Zenon
<1> QED BY <1>2, <1>7, <1>8, Zenon DEF Listing, z

(* The m-th of n - 1 places is the (m + off)-th of n, and never the k-th.  *)
Shifted(n, k, off) ==
    /\ \A m \in 1..(n - 1) : m + off \in 1..n /\ m + off # k
    /\ \A m \in 1..n : m # k => m - off \in 1..(n - 1) /\ (m - off) + off = m
    /\ \A m, j \in 1..(n - 1) : m + off = j + off => m = j

(* The places that are left when the last or the first is taken.           *)
LEMMA TakeEnd ==
    ASSUME NEW n \in Nat, n # 0, NEW k, NEW off,
           (off = 0 /\ k = n) \/ (off = 1 /\ k = 1)
    PROVE  Shifted(n, k, off)
BY DEF Shifted

(* One free item less.                                                     *)
LEMMA RestLists ==
    ASSUME NEW T, Listing(freeItems, T), freeItems # <<>>
    PROVE  /\ Recycled \in Item /\ Recycled \in T
           /\ Listing(Rest, T \ {Recycled})
<1> DEFINE s == freeItems
           v == storage = "vector"
           k == IF v THEN Len(s) ELSE 1
           z == Rest
           off == IF v THEN 0 ELSE 1
<1>1. s \in Seq(Item) /\ Len(s) \in Nat /\ DOMAIN s = 1..Len(s) /\ Len(s) # 0
  BY SeqFacts, ZenonT(30) DEF Listing
<1>2. /\ k \in 1..Len(s) /\ Recycled = s[k] /\ s[k] \in Item
      /\ z \in Seq(Item) /\ Len(z) = Len(s) - 1 /\ DOMAIN z = 1..(Len(s) - 1)
      /\ \A m \in 1..(Len(s) - 1) : z[m] = s[m + off]
  <2>1. CASE v
    BY <1>1, <2>1 DEF Recycled, Rest
  <2>2. CASE ~v
    BY <1>1, <2>2 DEF Recycled, Rest
  <2> QED BY <2>1, <2>2
<1>3. Shifted(Len(s), k, off)
  <2>1. CASE v
    <3>1. off = 0 /\ k = Len(s)
      BY <2>1, Zenon
    <3> HIDE DEF s, k, off
    <3> QED BY <1>1, <3>1, TakeEnd, Zenon
  <2>2. CASE ~v
    <3>1. off = 1 /\ k = 1
      BY <2>2, Zenon
    <3> HIDE DEF s, k, off
    <3> QED BY <1>1, <3>1, TakeEnd, Zenon
  <2> QED BY <2>1, <2>2, Zenon
<1> HIDE DEF s, z, k, v, off
<1>4. /\ IsInjective(s) /\ Range(s) = T /\ s \in Seq(Item)
  BY DEF Listing, s
<1>5. s[k] \in T
  BY <1>1, <1>2, <1>4, Zenon DEF Range
<1>6. IsInjective(z)
  <2> SUFFICES ASSUME NEW m \in 1..(Len(s) - 1), NEW j \in 1..(Len(s) - 1), z[m] = z[j]
               PROVE  m = j
    BY <1>2, Zenon DEF IsInjective
  <2>1. m + off \in 1..Len(s) /\ j + off \in 1..Len(s) /\ s[m + off] = s[j + off]
    BY <1>2, <1>3, Zenon DEF Shifted
  <2>2. m + off = j + off
    BY <1>1, <1>4, <2>1, Zenon DEF IsInjective
  <2> QED BY <1>3, <2>2, Zenon DEF Shifted
<1>7. \A y : y \in Range(z) <=> y \in T \ {s[k]}
  <2>1. ASSUME NEW y \in Range(z) PROVE y \in T /\ y # s[k]
    <3>1. PICK m \in 1..(Len(s) - 1) : y = z[m]
      BY <1>2, Zenon DEF Range
    <3>2. m + off \in 1..Len(s) /\ m + off # k /\ y = s[m + off]
      BY <1>2, <1>3, <3>1, Zenon DEF Shifted
    <3> QED BY <1>1, <1>2, <1>4, <3>2, ZenonT(30) DEF Range, IsInjective
  <2>2. ASSUME NEW y \in T, y # s[k] PROVE y \in Range(z)
    <3>1. PICK m \in 1..Len(s) : y = s[m]
      BY <1>1, <1>4, Zenon DEF Range
    <3>2. m # k
      BY <2>2, <3>1
    <3>3. m - off \in 1..(Len(s) - 1) /\ z[m - off] = s[m]
      BY <1>2, <1>3, <3>2, Zenon DEF Shifted
    <3> QED BY <1>2, <3>1, <3>3, ZenonT(30) DEF Range
  <2> QED BY <2>1, <2>2, Zenon
<1>8. Range(z) = T \ {s[k]}
  BY <1>7, Zenon
<1> QED BY <1>2, <1>5, <1>6, <1>8, Zenon DEF Listing, z

-----------------------------------------------------------------------------
(* The variables of the pool keep their types.                             *)
PoolType ==
    /\ storage \in Storage
    /\ phase \in {"ctor", "ready", "dead"}
    /\ heap \subseteq Item /\ held \subseteq Item
    /\ freeItems \in Seq(Item)
    /\ id \in [Item -> Nat] /\ nextId \in 0..MaxAllocs

(* What is left of m_freeItems.                                            *)
LEMMA RestType ==
    ASSUME freeItems \in Seq(Item)
    PROVE  Rest \in Seq(Item)
<1>1. Len(freeItems) \in Nat /\ (freeItems # <<>> => Len(freeItems) # 0)
  BY SeqFacts
<1>2. <<>> \in Seq(Item)
  OBVIOUS
<1>3. freeItems # <<>> => SubSeq(freeItems, 1, Len(freeItems) - 1) \in Seq(Item)
  BY <1>1
<1>4. freeItems # <<>> => Tail(freeItems) \in Seq(Item)
  BY <1>1
<1> QED BY <1>2, <1>3, <1>4, Zenon DEF Rest

(* Alloc.                                                                  *)
LEMMA AllocType ==
    ASSUME PoolType, NEW x \in Item, AllocItem(x)
    PROVE  /\ heap' \subseteq Item /\ id' \in [Item -> Nat]
           /\ nextId' \in 0..MaxAllocs /\ nextId' = nextId + 1 /\ nextId \in Nat
           /\ id' = [id EXCEPT ![x] = nextId]
<1>1. /\ nextId < MaxAllocs /\ nextId' = nextId + 1 /\ id' = [id EXCEPT ![x] = nextId]
      /\ heap' = heap \cup {x} \/ heap' = heap
  BY Zenon DEF AllocItem
<1>2. nextId \in Nat /\ nextId' \in 0..MaxAllocs
  BY <1>1, SizeAssumption DEF PoolType
<1> QED BY <1>1, <1>2, Zenon DEF PoolType

(* Every step keeps the types of the pool.                                 *)
LEMMA PoolTypeStep ==
    ASSUME PoolType, [MemNext]_memVars
    PROVE  PoolType'
<1>1. CASE Construct
  <2>1. PICK x \in Item : AllocItem(x) /\ freeItems' = Append(Rest, x)
    BY <1>1, Zenon DEF Construct
  <2>2. freeItems' \in Seq(Item)
    BY <2>1, RestType DEF PoolType
  <2>3. UNCHANGED <<storage, held>> /\ phase' \in {"ctor", "ready"}
    BY <1>1, Zenon DEF Construct
  <2> QED BY <2>1, <2>2, <2>3, AllocType, Zenon DEF PoolType
<1>2. CASE Alloc
  <2>1. PICK x \in Item : AllocItem(x) /\ held' = held \cup {x}
    BY <1>2, Zenon DEF Alloc
  <2>2. UNCHANGED <<storage, phase>> /\ freeItems' = Rest
    BY <1>2, Zenon DEF Alloc
  <2> QED BY <2>1, <2>2, AllocType, RestType, Zenon DEF PoolType
<1>3. ASSUME NEW x \in Item, Free(x) PROVE PoolType'
  <2>1. freeItems' \in Seq(Item)
    BY <1>3 DEF Free, PoolType
  <2> QED BY <1>3, <2>1, Zenon DEF Free, PoolType
<1>4. ASSUME Clear, phase' \in {"ctor", "ready", "dead"} PROVE PoolType'
  <2>1. freeItems' \in Seq(Item)
    BY <1>4 DEF Clear, PoolType
  <2> QED BY <1>4, <2>1, Zenon DEF Clear, PoolType
<1>5. CASE CallClear \/ Destroy
  BY <1>4, <1>5, Zenon DEF CallClear, Destroy, PoolType
<1>6. CASE UNCHANGED poolVars
  BY <1>6, Zenon DEF poolVars, PoolType
<1>7. ASSUME NEW x \in Item, CallDisconnect(x) PROVE PoolType'
  BY <1>6, <1>7, Zenon DEF CallDisconnect
<1>8. ASSUME NEW x \in Item, NEW pos \in Pointer,
             CallInsertAfter(pos, x) \/ CallInsertBefore(pos, x)
      PROVE  PoolType'
  BY <1>6, <1>8, Zenon DEF CallInsertAfter, CallInsertBefore
<1>9. ASSUME NEW a \in DOMAIN order, NEW b \in DOMAIN order, CallDisconnectRange(a, b)
      PROVE  PoolType'
  BY <1>6, <1>9, Zenon DEF CallDisconnectRange
<1>10. CASE UNCHANGED memVars
  BY <1>6, <1>10, Zenon DEF memVars
<1> QED BY <1>1, <1>2, <1>3, <1>5, <1>7, <1>8, <1>9, <1>10, ZenonT(30) DEF MemNext

(* The list stands for order, and the pool has its types.                  *)
SewnInv == PoolType /\ order \in Seq(Item) /\ Sewn(list, order)

(* Every step keeps the list sewn.                                         *)
LEMMA SewnStep ==
    ASSUME EndRanges = FALSE, SewnInv, [MemNext]_memVars
    PROVE  SewnInv'
<1>0. PoolType' /\ order \in Seq(Item) /\ Sewn(list, order)
  BY PoolTypeStep, Zenon DEF SewnInv
<1>1. CASE UNCHANGED <<list, order>>
  BY <1>0, <1>1, Zenon DEF SewnInv
<1>2. CASE Construct \/ Alloc \/ CallClear \/ Destroy
  BY <1>1, <1>2, Zenon DEF Construct, Alloc, CallClear, Destroy, Clear
<1>3. ASSUME NEW x \in Item, Free(x) \/ CallDisconnect(x) PROVE SewnInv'
  <2>1. list' = Disconnect(list, x) /\ order' = Unlinked(x)
    BY <1>3, Zenon DEF Free, CallDisconnect
  <2> QED BY <1>0, <2>1, UnlinkKeeps, Zenon DEF SewnInv
<1>4. ASSUME NEW x \in Item, NEW pos \in Pointer,
             CallInsertAfter(pos, x) \/ CallInsertBefore(pos, x)
      PROVE  SewnInv'
  BY <1>0, <1>4, InsertAfterKeeps, InsertBeforeKeeps, Zenon DEF SewnInv
<1>5. ASSUME NEW a \in DOMAIN order, NEW b \in DOMAIN order, CallDisconnectRange(a, b)
      PROVE  SewnInv'
  BY <1>0, <1>5, RangeKeeps, Zenon DEF SewnInv
<1>6. CASE UNCHANGED memVars
  BY <1>1, <1>6, Zenon DEF memVars
<1> QED BY <1>2, <1>3, <1>4, <1>5, <1>6, Zenon DEF MemNext

(* An empty list stands for the empty sequence.                            *)
LEMMA SewnInit == MemInit => SewnInv
<1> SUFFICES ASSUME MemInit PROVE SewnInv
  OBVIOUS
<1>1. /\ order = <<>> /\ list = EmptyList /\ freeItems = <<>>
      /\ storage \in Storage /\ phase \in {"ctor", "ready", "dead"}
      /\ heap = {} /\ held = {} /\ id = [x \in Item |-> 0] /\ nextId = 0
  BY Zenon DEF MemInit
<1>2. order \in Seq(Item) /\ freeItems \in Seq(Item)
  BY <1>1
<1>3. id \in [Item -> Nat] /\ nextId \in 0..MaxAllocs
  BY <1>1, SizeAssumption
<1>4. PoolType
  BY <1>1, <1>2, <1>3, ZenonT(30) DEF PoolType
<1>5. /\ list \in ListType /\ list.root = NULL /\ list.last = NULL
      /\ \A x \in Item : list.next[x] = NULL /\ list.prev[x] = NULL
  BY <1>1 DEF EmptyList, ListType, Pointer
<1>6. Linked(list, order)
  <2>1. Len(order) = 0 /\ 1..Len(order) = {}
    BY <1>1
  <2> QED BY <1>1, <1>5, <2>1, ZenonT(30) DEF Linked
<1>7. Mirror(list.next, list.prev)
  BY <1>5, NullAssumption, Zenon DEF Mirror
<1> QED BY <1>2, <1>4, <1>5, <1>6, <1>7, Zenon DEF SewnInv, Sewn

(* The pointers of the pool are those of the list that the calls describe, *)
(* as long as no range that touches an end is cut out of it.               *)
THEOREM PoolListIsOrder == EndRanges = FALSE => (MemSpec => []ListIsOrder)
<1> SUFFICES ASSUME EndRanges = FALSE PROVE MemSpec => []ListIsOrder
  OBVIOUS
<1>1. SewnInv /\ [MemNext]_memVars => SewnInv'
  BY SewnStep, Zenon
<1>2. SewnInv => ListIsOrder
  BY Zenon DEF SewnInv, PoolType, Sewn, Mirror, ListIsOrder, MemTypeOK
<1> QED BY <1>1, <1>2, SewnInit, PTL DEF MemSpec

-----------------------------------------------------------------------------
(* The owners of the items, and the ids of those the client has.           *)
OwnInv ==
    /\ SewnInv
    /\ Listing(freeItems, Range(freeItems))
    /\ held \cap Range(freeItems) = {} /\ held \subseteq heap
    /\ phase # "dead" => heap = held \cup Range(freeItems)
    /\ Chained(list) \subseteq held

IdInv ==
    /\ \A x \in held : id[x] < nextId
    /\ \A x, y \in held : id[x] = id[y] => x = y

(* Alloc returns an item that nobody else has.                             *)
LEMMA AllocOwns ==
    ASSUME OwnInv, phase # "dead", NEW x \in Item, AllocItem(x)
    PROVE  /\ x \notin held /\ heap' = heap \cup {x}
           /\ Listing(Rest, Range(freeItems) \ {x})
<1> DEFINE T == Range(freeItems)
<1>1. /\ Listing(freeItems, T) /\ held \cap T = {} /\ held \subseteq heap
      /\ heap = held \cup T
  BY Zenon DEF OwnInv
<1>2. CASE freeItems = <<>>
  <2>1. x \notin heap /\ heap' = heap \cup {x}
    BY <1>2, Zenon DEF AllocItem
  <2>2. Rest = freeItems
    BY <1>2, Zenon DEF Rest
  <2>3. T \ {x} = T
    BY <1>1, <2>1, Zenon
  <2> QED BY <1>1, <2>1, <2>2, <2>3, Zenon
<1>3. CASE freeItems # <<>>
  <2>1. x = Recycled /\ heap' = heap
    BY <1>3, Zenon DEF AllocItem
  <2>2. x \in T /\ Listing(Rest, T \ {x})
    BY <1>1, <1>3, <2>1, RestLists, Zenon
  <2>3. x \notin held /\ heap = heap \cup {x}
    BY <1>1, <2>2, Zenon
  <2> QED BY <2>1, <2>2, <2>3, Zenon
<1> QED BY <1>2, <1>3

(* What the steps have to show about m_freeItems.                          *)
LEMMA OwnNext ==
    ASSUME SewnInv', NEW T, Listing(freeItems', T),
           held' \cap T = {}, held' \subseteq heap',
           phase' # "dead" => heap' = held' \cup T,
           Chained(list') \subseteq held'
    PROVE  OwnInv'
<1>1. Range(freeItems') = T
  BY Zenon DEF Listing
<1> QED BY <1>1, Zenon DEF OwnInv

(* Alloc, by the constructor and by the client.                            *)
LEMMA AllocStep ==
    ASSUME OwnInv, SewnInv', Construct \/ Alloc
    PROVE  OwnInv'
<1> DEFINE T == Range(freeItems)
<1>1. /\ held \cap T = {} /\ held \subseteq heap
      /\ phase # "dead" => heap = held \cup T
      /\ Chained(list) \subseteq held
  BY Zenon DEF OwnInv
<1>2. phase # "dead" /\ list' = list
  BY DEF Construct, Alloc
<1>3. CASE Construct
  <2>1. PICK x \in Item : AllocItem(x) /\ freeItems' = Append(Rest, x)
    BY <1>3, Zenon DEF Construct
  <2>2. held' = held
    BY <1>3, Zenon DEF Construct
  <2>3. /\ x \notin held /\ heap' = heap \cup {x} /\ Listing(Rest, T \ {x})
    BY <1>2, <2>1, AllocOwns, Zenon
  <2>4. Listing(freeItems', (T \ {x}) \cup {x})
    BY <2>1, <2>3, AppendLists, Zenon
  <2>5. (T \ {x}) \cup {x} = T \cup {x}
    BY Zenon
  <2>6. held' \cap (T \cup {x}) = {} /\ heap' = held' \cup (T \cup {x})
    BY <1>1, <1>2, <2>2, <2>3, Zenon
  <2> HIDE DEF T
  <2> QED BY <1>1, <1>2, <2>2, <2>4, <2>5, <2>6, OwnNext, ZenonT(30)
<1>4. CASE Alloc
  <2>1. PICK x \in Item : AllocItem(x) /\ held' = held \cup {x}
    BY <1>4, Zenon DEF Alloc
  <2>2. freeItems' = Rest
    BY <1>4, Zenon DEF Alloc
  <2>3. /\ x \notin held /\ heap' = heap \cup {x} /\ Listing(Rest, T \ {x})
    BY <1>2, <2>1, AllocOwns, Zenon
  <2>4. /\ held' \cap (T \ {x}) = {} /\ held' \subseteq heap'
        /\ heap' = held' \cup (T \ {x}) /\ Chained(list') \subseteq held'
    BY <1>1, <1>2, <2>1, <2>3, Zenon
  <2> HIDE DEF T
  <2> QED BY <2>2, <2>3, <2>4, OwnNext, Zenon
<1> QED BY <1>3, <1>4

(* PoolItem::Free.                                                         *)
LEMMA FreeStep ==
    ASSUME OwnInv, SewnInv', NEW x \in Item, Free(x)
    PROVE  OwnInv'
<1> DEFINE T == Range(freeItems)
<1>1. /\ held \cap T = {} /\ held \subseteq heap /\ Listing(freeItems, T)
      /\ phase # "dead" => heap = held \cup T
      /\ Chained(list) \subseteq held /\ SewnInv
  BY Zenon DEF OwnInv
<1>2. /\ x \in held /\ held' = held \ {x} /\ freeItems' = Append(freeItems, x)
      /\ heap' = heap /\ phase' = phase /\ list' = Disconnect(list, x)
  BY Zenon DEF Free
<1>3. Listing(freeItems', T \cup {x})
  BY <1>1, <1>2, AppendLists, Zenon
<1>4. Chained(list') \subseteq Chained(list) \ {x}
  BY <1>1, <1>2, UnlinkKeeps, Zenon DEF SewnInv
<1>5. /\ held' \cap (T \cup {x}) = {} /\ held' \subseteq heap'
      /\ Chained(list') \subseteq held'
      /\ phase' # "dead" => heap' = held' \cup (T \cup {x})
  BY <1>1, <1>2, <1>4, Zenon
<1> HIDE DEF T
<1> QED BY <1>3, <1>5, OwnNext, Zenon

(* Clear, by the client of a TSMemoryPool and by the destructors.          *)
LEMMA ClearStep ==
    ASSUME OwnInv, SewnInv', ExplicitClear \subseteq {"queue"}, CallClear \/ Destroy
    PROVE  OwnInv'
<1> DEFINE T == Range(freeItems)
<1>1. /\ held \cap T = {} /\ held \subseteq heap /\ Listing(freeItems, T)
      /\ phase # "dead" => heap = held \cup T
      /\ Chained(list) \subseteq held
  BY Zenon DEF OwnInv
<1>2. /\ heap' = heap \ T /\ held' = held /\ list' = list
      /\ freeItems' = IF storage = "queue" THEN <<>> ELSE freeItems
  BY Zenon DEF CallClear, Destroy, Clear
<1>3. /\ phase # "dead"
      /\ phase' # "dead" => storage = "queue"
  BY Zenon DEF CallClear, Destroy
<1>4. Listing(<<>>, {})
  BY DEF Listing, IsInjective, Range
<1>5. held' \subseteq heap' /\ heap' = held' /\ Chained(list') \subseteq held'
  BY <1>1, <1>2, <1>3, Zenon
<1> HIDE DEF T
<1>6. CASE storage = "queue"
  <2>1. Listing(freeItems', {})
    BY <1>2, <1>4, <1>6, Zenon
  <2>2. held' \cap {} = {} /\ heap' = held' \cup {}
    BY <1>5, Zenon
  <2> QED BY <1>5, <2>1, <2>2, OwnNext, Zenon
<1>7. CASE storage # "queue"
  BY <1>1, <1>2, <1>3, <1>5, <1>7, OwnNext, ZenonT(30)
<1> QED BY <1>6, <1>7

(* The list functions link only what the client has.                       *)
LEMMA ListStep ==
    ASSUME OwnInv, SewnInv', UNCHANGED poolVars, Chained(list') \subseteq held
    PROVE  OwnInv'
BY Zenon DEF OwnInv, poolVars

(* Every step keeps the owners.                                            *)
LEMMA OwnStep ==
    ASSUME EndRanges = FALSE, ExplicitClear \subseteq {"queue"},
           OwnInv, [MemNext]_memVars
    PROVE  OwnInv'
<1>0. SewnInv' /\ SewnInv /\ Chained(list) \subseteq held
  BY SewnStep, Zenon DEF OwnInv
<1>1. Sewn(list, order) /\ order \in Seq(Item)
  BY <1>0, Zenon DEF SewnInv
<1>2. CASE Construct \/ Alloc
  BY <1>0, <1>2, AllocStep, Zenon
<1>3. CASE CallClear \/ Destroy
  BY <1>0, <1>3, ClearStep, Zenon
<1>4. ASSUME NEW x \in Item, Free(x) PROVE OwnInv'
  BY <1>0, <1>4, FreeStep, Zenon
<1>5. ASSUME NEW x \in Item, CallDisconnect(x) PROVE OwnInv'
  <2>1. UNCHANGED poolVars /\ list' = Disconnect(list, x)
    BY <1>5, Zenon DEF CallDisconnect
  <2>2. Chained(list') \subseteq Chained(list) \ {x}
    BY <1>1, <2>1, UnlinkKeeps, Zenon
  <2> QED BY <1>0, <2>1, <2>2, ListStep, Zenon
<1>6. ASSUME NEW x \in Item, NEW pos \in Pointer,
             CallInsertAfter(pos, x) \/ CallInsertBefore(pos, x)
      PROVE  OwnInv'
  <2>1. UNCHANGED poolVars /\ x \in held
    BY <1>6, Zenon DEF CallInsertAfter, CallInsertBefore
  <2>2. Chained(list') \subseteq Chained(list) \cup {x}
    BY <1>1, <1>6, InsertAfterKeeps, InsertBeforeKeeps, Zenon
  <2> QED BY <1>0, <2>1, <2>2, ListStep, Zenon
<1>7. ASSUME NEW a \in DOMAIN order, NEW b \in DOMAIN order, CallDisconnectRange(a, b)
      PROVE  OwnInv'
  <2>1. UNCHANGED poolVars
    BY <1>7, Zenon DEF CallDisconnectRange
  <2>2. Chained(list') \subseteq Chained(list)
    BY <1>1, <1>7, RangeKeeps, Zenon
  <2> QED BY <1>0, <2>1, <2>2, ListStep, Zenon
<1>8. CASE UNCHANGED memVars
  BY <1>0, <1>8, ListStep, Zenon DEF memVars
<1> QED BY <1>2, <1>3, <1>4, <1>5, <1>6, <1>7, <1>8, ZenonT(30) DEF MemNext

(* Every step keeps the ids of the client's items apart.                   *)
LEMMA IdStep ==
    ASSUME OwnInv, IdInv, [MemNext]_memVars
    PROVE  IdInv'
<1>0. PoolType /\ SewnInv
  BY Zenon DEF OwnInv, SewnInv
<1>1. ASSUME held' \subseteq held, UNCHANGED <<id, nextId>> PROVE IdInv'
  BY <1>1, Zenon DEF IdInv
<1>2. ASSUME phase # "dead", NEW x \in Item, AllocItem(x), held' \subseteq held \cup {x}
      PROVE  IdInv'
  <2>1. /\ nextId' = nextId + 1 /\ nextId \in Nat /\ id' = [id EXCEPT ![x] = nextId]
    BY <1>0, <1>2, AllocType, Zenon
  <2>2. id \in [Item -> Nat] /\ held \subseteq Item
    BY <1>0, Zenon DEF PoolType
  <2>3. id'[x] = nextId /\ \A y \in held : y # x => id'[y] = id[y]
    BY <2>1, <2>2, Zenon
  <2>4. \A y \in held : id[y] \in Nat
    BY <2>2, Zenon
  <2>5. ASSUME NEW y \in held' PROVE id'[y] < nextId'
    BY <1>2, <2>1, <2>3, <2>4, <2>5 DEF IdInv
  <2>6. ASSUME NEW y \in held', NEW z \in held', id'[y] = id'[z] PROVE y = z
    <3>1. \A u \in held : u # x => id'[u] = id[u] /\ id[u] # nextId
      BY <2>1, <2>3, <2>4 DEF IdInv
    <3> QED BY <1>2, <2>3, <2>6, <3>1, ZenonT(30) DEF IdInv
  <2> QED BY <2>5, <2>6, Zenon DEF IdInv
<1>3. CASE Construct
  <2>1. PICK x \in Item : AllocItem(x)
    BY <1>3, Zenon DEF Construct
  <2>2. phase # "dead" /\ held' = held
    BY <1>3 DEF Construct
  <2> QED BY <1>2, <2>1, <2>2, Zenon
<1>4. CASE Alloc
  <2>1. PICK x \in Item : AllocItem(x) /\ held' = held \cup {x}
    BY <1>4, Zenon DEF Alloc
  <2>2. phase # "dead"
    BY <1>4 DEF Alloc
  <2> QED BY <1>2, <2>1, <2>2, Zenon
<1>5. CASE CallClear \/ Destroy
  BY <1>1, <1>5, Zenon DEF CallClear, Destroy, Clear
<1>6. ASSUME NEW x \in Item, Free(x) PROVE IdInv'
  BY <1>1, <1>6, Zenon DEF Free
<1>7. CASE UNCHANGED poolVars
  BY <1>1, <1>7, Zenon DEF poolVars
<1>8. ASSUME NEW x \in Item, CallDisconnect(x) PROVE IdInv'
  BY <1>7, <1>8, Zenon DEF CallDisconnect
<1>9. ASSUME NEW x \in Item, NEW pos \in Pointer,
             CallInsertAfter(pos, x) \/ CallInsertBefore(pos, x)
      PROVE  IdInv'
  BY <1>7, <1>9, Zenon DEF CallInsertAfter, CallInsertBefore
<1>10. ASSUME NEW a \in DOMAIN order, NEW b \in DOMAIN order, CallDisconnectRange(a, b)
       PROVE  IdInv'
  BY <1>7, <1>10, Zenon DEF CallDisconnectRange
<1>11. CASE UNCHANGED memVars
  BY <1>7, <1>11, Zenon DEF memVars
<1> QED BY <1>3, <1>4, <1>5, <1>6, <1>8, <1>9, <1>10, <1>11, ZenonT(30) DEF MemNext

(* An item has one owner, the pool or the client, and an id of its own, as *)
(* long as the client of a MemoryPool does not call Clear() and go on, and *)
(* cuts no range that touches an end.                                      *)
THEOREM PoolItemHasOneOwner ==
    EndRanges = FALSE /\ ExplicitClear \subseteq {"queue"} => (MemSpec => []OneOwner)
<1> SUFFICES ASSUME EndRanges = FALSE, ExplicitClear \subseteq {"queue"}
             PROVE  MemSpec => []OneOwner
  BY Zenon
<1>1. MemInit => OwnInv /\ IdInv
  <2> SUFFICES ASSUME MemInit PROVE OwnInv /\ IdInv
    OBVIOUS
  <2>1. /\ SewnInv /\ heap = {} /\ freeItems = <<>> /\ held = {} /\ list = EmptyList
    BY SewnInit, Zenon DEF MemInit
  <2>2. Listing(<<>>, {}) /\ Range(<<>>) = {}
    BY DEF Listing, IsInjective, Range
  <2>3. Chained(EmptyList) = {}
    BY NullAssumption DEF Chained, EmptyList
  <2> QED BY <2>1, <2>2, <2>3, Zenon DEF OwnInv, IdInv
<1>2. OwnInv /\ IdInv /\ [MemNext]_memVars => (OwnInv /\ IdInv)'
  BY OwnStep, IdStep, Zenon
<1>3. OwnInv /\ IdInv => OneOwner
  <2> SUFFICES ASSUME OwnInv, IdInv PROVE OneOwner
    OBVIOUS
  <2>1. \A x \in Item : ~InNoChain(x) => x \in held
    BY Zenon DEF OwnInv, Chained, InNoChain
  <2>2. IsInjective(freeItems)
    BY Zenon DEF OwnInv, Listing
  <2> QED BY <2>1, <2>2, Zenon DEF OwnInv, IdInv, OneOwner
<1> QED BY <1>1, <1>2, <1>3, PTL DEF MemSpec

=============================================================================
