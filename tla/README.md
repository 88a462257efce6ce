# Verification of MUtils

MUtils is a C++ library of application parts: threading and time, a profiler,
user interface, OpenGL helpers, files, strings, geometry, a small virtual
machine. This directory holds TLA+ models of its parts, the TLC configurations
that check them on small instances, and TLAPS proofs.

Paths below are relative to the repository; line numbers are in `PROJECT.json`
under `map`.

## Inventory

| Part | State | Operations | Touches | Hard behaviour |
|---|---|---|---|---|
| `audio_spin_mutex` (`include/mutils/thread/thread_utils.h`) | one atomic flag | `lock`, `try_lock`, `unlock` | used by the timeline and the time provider | exclusion, no lost hand-over in the three-stage back-off |
| pools and list (`thread/mempool.h`, `mempool.cpp`) | free items, ids, `m_pRoot`/`m_pLast` and the pointers in the items | `Alloc`, `Free`, `Clear`, the `list_*` functions | items are linked into the list of their own pool | long call sequences, ranges at the ends, recycled items |
| `Timeline` (`time/timeline.h`) | the list of a `TSMemoryPool`, `m_mutex` | `StoreTimeEvent`, `DequeTimeEvents`, `GetTimeEvents`, `ExpireEvents`, `Free` | the pool (outside the mutex), the clock | producers, consumers and expirers at once |
| `TimeProvider` (`time/time_provider.cpp`) | consumers, beat, frame, tempo, the tick thread | register, set, start, end; the tick loop | consumers, the spin mutex | values loaded before the mutex and stored under it; ending a thread |
| profiler, recording (`time/profiler.cpp`) | slots, entries, call stacks, frames, regions, pause flags, thread-local index and generation | push, pop, frame, region, pause, resume | every part that has a `PROFILE_SCOPE` | almost no locking; scopes cut by pause and resume |
| profiler, display (`ShowCandles`, `UpdateVisibleFrameRange`, `ShowProfile`) | time, frame and candle ranges, where each search begins | show, select, drag, zoom, pause, resume | recorded frames and sections | ranges and positions left over from an earlier call or run |
| timers, time ranges (`time/timer.*`) | start times | start, elapsed, include | profiler, scheduler | empty ranges |
| callback scheduler (`callback/callback.cpp`) | state, timeout, callback | start, stop, update | timer | a callback that restarts its own schedule |
| virtual machine (`vm/vm.h`) | program, stack, program counter | one per instruction | none | stack depth, calls and returns |
| UI manager (`ui/ui_manager.cpp`) | messages by id and by file | add, remove, clear | compile messages | two indexes that must agree |
| layout manager (`ui/layout_manager.cpp`) | layouts, windows, the settings file | register, save, load, read and write the file | TOML settings | a crash between truncating and writing the file; what a restart reads |
| application loop (`ui/sdl_imgui_starter.cpp`) | window, frame state | start, events, idle, frame, end | a client that uses the scheduler and the messages | a loop that idles while something is due; quitting |
| thread pool (`m3rdparty/threadpool/threadpool.h`, modified for MUtils) | queue, stop flag, workers | enqueue, worker loop, `StopAll` | every user of tasks | lost notifications, tasks that enqueue, stopping |
| OpenGL buffers, shaders (`gl/*.cpp`) | mapped range, program ids | map, unmap, load | driver | wrap of the ring, failed compiles |
| files (`file/file.cpp`) | none | walk over a tree, relative paths | file system | links that lead back |
| compile messages, strings, geometry, math, containers | none or little | pure functions | | edge cases |

`PROJECT.json` lists every part with its status, and the hazards each at its line.

## Modules

| Module | Models |
|---|---|
| `Mutex` | abstract lock: owner and waiters |
| `SpinMutex` | `audio_spin_mutex`; `Lock`, `SpinTaken`, `SpinFailed`, `Yield` are `lock()`, one `test_and_set` a step |
| `ListOps` | the list functions as functions from lists to lists; `Represents` relates a list to a sequence |
| `MemPool` | both pools and the list under a client that keeps the rules of the interface |
| `EventQueue` | abstract timeline: a queue in time order |
| `Timeline` | `Timeline<T>` and its pool, by threads; one loop iteration is one action |
| `TimeProvider` | the tick thread, one action for each piece of its loop that another thread can see, and the calls |
| `Profiler` | slots, sections, frames, regions, pause and resume |
| `ProfilerView` | the ranges of the display: `SetTimeRange` is the lambda `setTimeRange`, `VisibleFrames` is `UpdateVisibleFrameRange`, `Dragged` and `Zoomed` are `handleMouse`, `FirstCandle` the search in `drawRegions` |
| `SectionView` | which sections of a thread `ShowProfile` draws, while the thread records and `NewFrame` runs in another one |
| `ThreadPool` | `TPool`: the worker loop cut at the test, the wait and the task; `enqueue` cut at the notification; `StopAll` cut at the flag, the notification and the join |
| `Scheduler`, `UIManager` | `scheduler_*`; the two maps of `UIManager` |
| `App` | `sdl_imgui_start`, composed with `Scheduler` and `UIManager` through a client's callbacks |
| `LayoutManager` | the layouts in memory, the windows, the file; saves, crashes, restarts |
| `GLBuffer`, `GLShader` | the ring of `GLBuffer::Map`; shader and program objects by result |
| `FileTree` | `file_gather_files`, one iteration of its inner loop a step |
| `TextOps`, `GeometryIndex` | functions on text, shader messages and paths; the indexer. One state is one call |
| `Parts` | the parts that share no state, one at a time |
| `*Proofs`, `TimelineReaders`, `TimelineTheorems` | theorems |
| `MC*` | symmetry sets; the `.cfg` files give the constants |

State follows the code's members by name (`m_nextId` is `nextId`, and so on);
`history` in a variable's comment marks what exists only to state a property.
Definitions called *Mutant* are wrong versions of the definition below them:
putting one in its place must break a property, which shows that the property
depends on that line of code.

### What is abstracted

* A user of the spin mutex takes it in one step. `SpinMutex` refines `Mutex`
  (checked and proved), so the spinning adds nothing its users can see.
* Times are small integers; the clock can return any of them, since the calls
  are not ordered with respect to it.
* The free items of `TSMemoryPool` are a multiset: with several producers the
  concurrent queue (external) guarantees no order, and a dequeue may miss an
  item that is there.
* `MemPool` has one enqueueing thread, so there the queue is first in, first out.
* `m_beat` is a double in the code and a number modulo `BeatModulus` here;
  `m_frame` wraps at `FrameModulus`, 2^32 in the code.
* Profiler entries keep their parent and whether they are open; times, names
  and colours are left out. A call is cut in steps where another thread can
  interfere: a push after `GetThreadData`, after its checks, after the entry is
  written and after `frameThreadCount` is read; a pop after `GetThreadData` and
  after its checks; the two region calls likewise, and `NewFrame` before it
  counts up. A call that passed its checks writes whatever was paused, filled or
  reset since.
* Writing a place of a frame and `frameThreadCount++` are one step, with every
  outcome that the unlocked increment can have: the count is one more than it was
  at some time since the place was read (`Counts`).
* One thread, `Audio`, makes the region calls ("You are allowed one secondary
  region"). `MaxCallStack` is at most 50, the size of `entryStack` in `Init`; with
  a larger setting the assertion in `PushSectionBase` does not bound the writes.
* `Reset` is one step and can come while other threads are inside a profiler
  call: it takes `gMutex`, but they do not. Such a call goes on with a slot of
  the earlier run. The history variable `stray` holds the slots this happened
  to since the last `Reset`. That every thread has a slot of its own holds
  regardless. Whatever is said of the contents of a slot exempts the stray ones,
  and so says that the damage stays inside them. There it does fail: entries
  and call stacks can be overrun, call stacks no longer match the scopes, sections
  do not nest, and the assertion in `ShowProfile` fails.
* The history variable `raced` holds the frames for which two threads had read
  `frameThreadCount` before one of them wrote.
* `ProfilerView` has integers for the candle range, a float in the code, and
  inputs that drag or zoom by one unit. A frame takes at least the shortest
  range (1000 ns) that can be shown (`ViewAssumption`).
* `SectionView` has one recording thread. Its entries have times, which `Profiler`
  leaves out, and it has no pause.
* In `ThreadPool` the mutex is held over a step only by a worker that is about to
  wait; every other critical section is one step. A wake-up can be spurious. A
  task may enqueue one more task.
* The client of `App` may call the scheduler and the messages from each callback,
  any number of times up to the bounds; inside the scheduler's callback it may also
  call `scheduler_update`, which calls the callback again. A window can be minimized at any event.
* A load can throw while it copies the default file, reads the file, decodes an
  entry or calls the client (`LoadLayoutsFails`): some of the layouts are in
  memory then, and the call returns normally.
* A crash inside a save leaves a file that does not parse or that has some of
  the entries. Window layouts are model values, one of them the empty text.
* `GLBuffer` counts bytes of its storage; those handed out since the storage was
  last invalidated are `inUse`. `OneType` says that a buffer has elements of one
  size. `EnsureSize` may come while the buffer is mapped; it replaces the storage
  then, and what was mapped is not a part of the new one.
* A node of `FileTree` is a canonical path; the order of a directory's entries is
  any. The file system does not change during the walk.
* A text is a sequence of a few characters, a line of a driver's message one of
  its kinds: preamble, an open bracket, words in brackets, a position. The delimiter
  of `string_split_delim_string` has one or two characters; an empty one is not a
  delimiter and is left out.

## Runs

Passing runs:

| Run | Instance | Shows |
|---|---|---|
| `spin_mutex` | 3 threads, rounds of 1, 2, 2 tries, 2 calls each | exclusion, refinement of `Mutex`, every `lock()` returns |
| `memory_pool` | 4 items, 9 allocations, both pools | the pointers are the list the calls describe, in both directions; one owner and a unique id for each item |
| `timeline` | 2 producers, consumer, expirer, 3 events, times 0 and 1 | well-formed and sorted list, one owner for each event, each due event handed out once |
| `timeline_queue` | 1 producer, 2 events at a time with durations 0 and 4, ages 0 and 2, window 4 | refinement of `EventQueue`, what an expiry leaves behind, release of the mutex |
| `time_provider` | 2 consumers, small moduli | who is ticked in a beat, how the beat counts, ending the thread |
| `profiler` | 2 threads, 3 slots, 3 entries, 2 frames, 1 region, 2 runs, nesting 2, 6 begins | exclusive slots; outside stray slots also no overrun, matching push and pop, nested sections, frames that name written entries unless threads raced for them |
| `thread_pool` | none, 2 or 3 workers, 1 client, 3 tasks, a spurious wake-up | tasks start in order and once, nothing left behind when joined, queued tasks start, `StopAll` returns unless its notification was missed |
| `app` | timeouts 0 and 2, 2 starts, callbacks 2 deep, 2 files, 2 messages | one callback from outside for a start, agreeing maps; a schedule triggers, an event gets its frame, a quit ends the program |
| `parts` | see below | for each part: buffer mappings are free; programs, and shaders that no failed call stranded, can be deleted by their results; saved layouts survive all but a crash in a save and a save after a failed load, and restore; ranges, candles, visible frames and sections of the display are those of the recorded data; the walk over a tree ends and finds what is reachable; text, path and index functions agree with their definitions |

Runs that must find a violation, one for each disagreement between the code and
what it says of itself (`findings` in `PROJECT.json` quotes the lines):

| Run | Statement that fails |
|---|---|
| `disconnect_range` | assertions of `list_disconnect_range` about a range at an end of the list |
| `profiler_frame` | a frame has room for its threads: a thread can be added twice |
| `thread_pool_stop` | "the destructor joins all threads": `StopAll` notifies once and without the mutex, so a worker between its test and its wait sleeps for ever |

### Disagreements without a run

The property named here fails in the instance given, or a passing property states
the part that holds and names the exception:

* `MemoryPool::Clear` leaves deleted items in the free list: `FreeItemsAlive` in
  `MemPool` fails for `ExplicitClear = {"vector"}`.
* Two producers can give two events of the "thread safe" pool one id:
  `StoredIdsUnique` in `Timeline` fails with the constants of `MCTimeline.cfg`.
* A `SetBeat` between the load and the store of `m_beat` is overwritten:
  `BeatIncrements` in `TimeProvider` fails. `BeatTracksLast` excludes `SetBeat`.
* Two threads that begin their first sections in one frame can read the same
  `frameThreadCount`: "Add this thread to the current frame info"
  (`time/profiler.cpp:306`) then leaves one thread out and counts a place that was
  never written. Such a place names slot 0 and entry 0. If the UI thread has no
  entry yet, the parent of that entry is 0, and the walk to the outer parent
  (`time/profiler.cpp:1098`) does not end. `ShownThreadsInitialized` claims only the
  slot for the frames in `raced`.
* `assert(threadData.initialized)` in `ShowProfile` fails for a slot whose call
  was overtaken by `Reset` (`ShownAssert` in `Profiler`).
* Elements of two sizes in one GL buffer overlap what is in use (`MappedIsFree`
  with `OneType = FALSE`).
* `UIManager::RemoveMessage`, "Remove a message for a given ID", erases the whole
  list of the message's file, and keeps the message. So `ClearFileMessages`, "Remove
  all messages associated with a file", leaves them all in `m_taskMessages`
  (`ClearIsExact`).
* A save after a load that threw writes only the layouts that the load had come
  to: the others are lost (`SavedSurvives` names the exception, as it does for a
  crash inside a save).
* A failed `gl_load_program` leaves the other shader behind, and a file that does
  not open leaves the shader made for it (`ObjectsAccounted` counts them as
  stranded).
* `string_split_delim_string` goes on one character after a delimiter however long
  it is, so the rest of a longer delimiter is in the next field (`FieldsJoin`, a
  part of `TextRight`).
* `geometry_index` does not share the vertices that are farthest along the sorting
  plane: the search reports nothing when it reaches the end (`IndexRight`).
* "this is broken if the duration is long" (`time/timeline.h`, in `ExpireEvents`):
  `ExpireComplete` says exactly what stays behind.
* `string_convert_index_to_line_offset` returns at the first line end, so an index
  behind the second line gets the wrong line (`OffsetOfIndex`, a part of
  `TextRight`).
* A schedule that its own callback starts again is lost, and a `scheduler_update`
  inside the callback calls it a second time for one start (`OnceForAStart` is
  about updates outside the callback).
* `file_gather_files` looks for ".." in the whole path: it finds nothing below a
  root given with "..", nor below a name with two dots in it (`GathersReached`).
  Its other test, meant for ".", is for a backslash; that "." does no harm is the
  work of `checkedPaths`.

### Types

`TypeOK` is a conjunct of `ListIsOrder`, `ListWellFormed`, `SlotsExclusive` and
(as `BufferTypeOK`) `MappedIsFree`, and it is proved for `SpinMutex` and, as a
lemma, for `TimeProvider`. In `ThreadPool`, `App` and `LayoutManager` it documents the
variables. `TextRight` and `IndexRight` join what is said of each function, since
a state of those modules is one call.

### Bounds

Three items show an insertion between two others and a removal from the middle;
four also a cut range with a neighbour on each side. Two times show earlier,
equal and later. Nine allocations in `memory_pool` recycle every item after the
constructor has used three ids. For the spin mutex a round of two tries shows a
retry inside a round and a change of stage. Two runs of the profiler show a slot,
a section and a call that outlive the first. Three slots are the reserved one and
one for each thread. Three entries and two frames show a section
inside another and one after it, memory that fills up in a push and in a new
frame, and two threads that start inside a frame. `MaxBegun`, which bounds runs,
sections, frames and regions together, lets six of them begin: two runs and four
others in any mixture. Three tasks and two or more workers show a task that
enqueues while another waits and the pool stops; one spurious wake-up shows the
predicate tested again. Two starts show a restart in and outside the callback,
and `MaxDepth` of 2 a callback called from inside itself. Durations 0 and 4 with a
window of 4 show a long event in front of a short one that is too old, and ages
below the window.

In `parts`: three buffer sizes and elements of 2 and 3 bytes show growth, an
exact fit, a wrap and a rest. Six names show two loads, one of which fails. Two
layouts, two texts and a window show a layout beside the default, with and
without a window layout. Five frames of two lengths show ranges that begin and end
inside a frame, and a second run with fewer frames. Four sections, two frames and
times up to 3 show a section around others, one that began before the frame and
one recorded while `NewFrame` runs. Two directories with two entries each and two
files show cycles, shared files, bad entries and directories that do not open.
Texts of five characters show delimiters at both ends and in a row and a third
line. Five vertices of four kinds, two of them near each other, show sharing at
each end of the sorted order. Deadlock is checked except where a bound ends the
run (`MaxCalls`, `MaxAllocs`, the calls in `parts`), the pool has been destroyed,
or the program has ended.

### Fairness

* `SpinMutex`: a thread inside `lock()` keeps being scheduled, and critical
  sections end. Strong fairness for the test-and-set is not assumed (the lock is
  not fair); with finitely many calls every `lock()` still returns.
* `Timeline`: the thread in the mutex keeps running. No fairness for calls.
* `TimeProvider`: the tick thread keeps running and its sleep ends, `join`
  returns once the thread has ended. No call has to happen.

* `ThreadPool`: workers are scheduled, tasks end, notifications that are due are
  made, and `join` returns when the workers have ended. Nobody has to call.
* `App`: the loop goes on and callbacks return (weak fairness), time passes, and
  a frame that is possible again and again begins (strong fairness for
  `BeginFrame`: events come from outside, and `SDL_PollEvent` finds none left
  infinitely often). No event and no call has to come.

## Proofs

Proved with TLAPS for every value of the constants that satisfies the named
assumptions. Components that share nothing share a proof module where their names
allow it, since a proof module takes its time in proportion to more than its size.

`SharedProofs`, on `SpinMutex`:
* `TypeCorrect`: `TypeOK` is inductive because it says of a spinning thread that
  its counter is below the limit of *its* loop and of every other thread that
  its counter is zero.
* `Exclusion`: `MutualExclusion` is inductive together with `TypeOK`: the flag is
  set exactly while some thread is in its critical section, so the test-and-set
  that succeeds finds nobody there.
* `Refinement`: initial states map to initial states and every step to a step of
  `Mutex` or to no change; `OwnerIs` says what the refinement mapping's `CHOOSE`
  picks when there is at most one thread to pick.

`SharedProofs`, on `LayoutManager`:
* `FileMatches`: `FileIsMemory`, that a restart would read what is in memory unless
  the last load was cut short, is inductive as it stands.
* `SavedStays`: `SavedSurvives` needs `SavedInv`: while the file is truncated the
  saved layouts are in memory, and after a load that did not read all of the file
  each saved layout is in memory as it was saved, or not at all. A crash inside a
  save and a save after such a load give up what they destroy. `WindowsRestored`:
  `RestoresWindows` follows from it.

`SharedProofs`, on `TimeProvider` (assuming `ModulusAssumption`):
* `TicksRegistered`: `BeatTicksRegistered` is inductive as it stands, because the
  calls that change `m_consumers` wait for the mutex.
* `AtMostOneLateBeat`: needs `LateInv`, which adds to the bound that a late beat
  is on its way to the test of `m_quitTimer` and that the flag is still set.
* `TracksLast`: needs `TrackInv`, which adds that the local copy of the beat is
  current from its load to its store unless `SetBeat` was called.

`SharedProofs`, on `MemPool` (assuming `NullAssumption` and `SizeAssumption`):
* `PoolListIsOrder`: `ListIsOrder`, for clients that cut no range which touches an
  end of the list (`EndRanges = FALSE`; with such ranges it is false: they
  make the assertions fail that `disconnect_range` checks). It needs `SewnInv`: besides the types and the sequence
  that the pointers stand for, the `next` and `prev` of *every* item mirror each
  other (`Sewn`), also in the strands that were cut out, because an item of a
  strand may be disconnected later and must not touch the list.
* `PoolItemHasOneOwner`: `OneOwner`, for clients that besides do not call `Clear` of
  a `MemoryPool` and go on (`ExplicitClear \subseteq {"queue"}`; that `Clear` leaves
  `freeItems` naming deleted items). `OwnInv` adds to `SewnInv` whose each item is,
  and `IdInv` that ids handed out are below the next one.

`PartsProofs`, on `ThreadPool` (assuming `ThreadAssumption`):
* `InOrder`: `StartedInOrder` needs `PoolInv`, which has the types and says that a
  worker at its loop holds no task, that one which exited saw the flag, and that
  nothing waits without workers, and `Numbered`, which says by places what
  `StartedInOrder` says of the two sequences together.
* `Drained`: `JoinedMeansDrained` needs `DrainInv`: every task has returned, came
  late, is being run or waits; when all workers have exited only late ones wait,
  because the last worker to exit saw an empty queue.

`AppProofs`, on `App`:
* `CallbackOnce`: `OnceForAStart` needs `OwedInv`, that some call of the callback has
  not returned exactly while the loop is in it, and that no start from outside is
  owed then, since the return would overwrite it. The theorem is about the updates
  of the loop; the calls that the callback makes, updates included, keep it.

`AppProofs`, on `UIManager` (assuming `FileAssumption`):
* `Agreement`: `IndexAgrees` needs `IndexInv`, that every listed id is below the
  next one. `ExactClear`: `ClearIsExact`, that clearing a file empties its list, no
  other list and not `m_taskMessages`, follows from it: only because the first id
  of a list is that of a message about the file does its removal empty the list.

`AppProofs`, on `GLBuffer` (assuming `SizeAssumption`):
* `FreshBytes`: `MappedIsFree`, for a buffer with elements of one size, needs
  `BufferInv`: the bytes in use lie before `m_offset`, which is a multiple of the
  element size. Only so does the division in `Map`, which turns the offset into
  a number of elements, lose nothing. With two sizes the theorem is false.

`AppProofs`, on `GLShader`:
* `EveryObjectIsOwned`: `ObjectsAccounted` needs `ShaderInv`: names are below the
  next one, each valid result names a live object that is not flagged for
  deletion, and a flagged shader lives only as long as a program it is attached
  to. Shaders that a failed call stranded are left out: nobody can delete them.

`PartsProofs`, on `FileTree` (assuming `TreeAssumption`):
* `FindsReached`: `GathersReached` needs `TreeInv`. Everything checked is
  reachable (`SoundInv`); the results are the files checked, each once (`RetInv`);
  and of a directory that was checked, each entry is checked, is still to come, or
  the directory is in the queue (`CompleteInv`). At the end nothing is to come, so
  what is checked is closed under the entries and has everything reachable.
* `WalkEnds`: every step checks a new path, or has fewer directories or entries
  left. For a finite tree this measure is well founded, which is the argument
  that the walk ends; the induction itself is not in the proof.

`PartsProofs`, on `SectionView` (assuming `SectionAssumption`):
* `FramesDrawSections`: `SectionsDrawn` needs four facts. Sections begin in the order
  of the entries, and a section without a parent begins when all before it have
  ended (`EntryInv`). What has not ended is in the call stack (`OpenInv`). The walk
  up the parents ends (`ClimbInv`): the invariant carries the function that the
  recursion in `Outer` defines, so that its equation may be used. And what a frame
  noted of the thread had begun when the frame began (`FrameInv`). The section
  that the walk ends at then began before every section to be drawn.

`PartsProofs`, on `GeometryIndex` (assuming `VertexAssumption`):
* `IndexingIsRight`: `IndexRight` for inputs of any length. `Partial` says what holds
  after some iterations, and `IterationIndexes` that one more keeps it. A loop state
  for every iteration exists and satisfies `Partial`, each because there is no first
  iteration for which it fails.

`AppProofs`, on `ProfilerView` (assuming `ViewAssumption`):
* `DrawnFramesExist`: `FramesExist` is inductive with the types and with `Rising`,
  that frames follow one another and none is shorter than `Shortest`.
* `RangeIsAlwaysShown`: `ShowsRange` from the same invariant `ViewInv`. The walks of
  `UpdateVisibleFrameRange` end at a largest or smallest frame (`MaxPicks`,
  `MinPicks`), and because the times rise that frame bounds the range wherever the
  walk began.

`ListProofs`, on `ListOps` (assuming `NullAssumption`): for lists of any length,
`list_insert_after`, `list_insert_before` and `list_disconnect` leave the pointers
of the sequence with the item put in or taken out (`InsertKeeps`,
`DisconnectKeeps` and the lemmas around them), and the same holds of the
entries of the abstract queue (`QueueStores`, `QueueRemoves`, `QueueFires`).
`list_disconnect_range` leaves the sequence without the range, and all pointers
mirroring each other (`SewnRange`), when the range has a neighbour on each side.

`TimelineProofs`, `TimelineReaders` and `TimelineTheorems`, on `Timeline` (assuming
`ThreadAssumption`, `TimeAssumption` and `ItemAssumption`: the events are finitely
many). The properties are about pointers, so the inductive invariant `Inv` says
which sequence `S` the pointers stand for (`Listed`), that a thread is inside its
loop exactly while it owns the mutex (`MutexInv`), who has each event
(`OwnerInv`), that `S` is sorted (`OrderInv`), and for each loop how far it is and
what it has found so far (`WalkInv`). `TimelineProofs` (the producers and
`ClearEvents`) and `TimelineReaders` (the other threads) have one lemma for each
action. They assume `ChainRight`, that walking the pointers of a sequence gives
the sequence back; `TimelineTheorems` proves it by well-founded induction on
places (`ChainIs`) and concludes:
* `ListIsWellFormed`, `EventHasOneOwner` and `EventsInTimeOrder`: conjuncts of
  `Inv`, read back from `S`.
* `ResultsAreComplete`: the history variable `due` is what has to be handed out, taken
  at the step that takes the mutex. `DueInv` says in the middle of the loop that
  each of these events is in the result or still waits, and that nothing else is in
  the result; at the end none waits, because the loop stops at an event after
  `upTo` and the list is sorted. `ScanInv` is the same for a call with another type.
* `ExpiryIsComplete`: `StoppedAt` says where the loop stopped. An event that is too
  old is behind that place, and `BehindRecent` does the arithmetic: because the list
  is sorted it started no earlier, so it is recent as well and ends earlier.
* `TimelineIsEventQueue`: the refinement of `EventQueue`. A store is `Store` at the
  step that links the event, a firing is `Fire`, a removal is `Remove`, and every
  other step leaves the mapped queue alone.

`ProfilerProofs` (assuming `ThreadAssumption` and `SettingsAssumption`). The
inductive invariant `RecordInv` has seven parts: types; who has which slot
(`RunInv`); the scopes of each thread (`ScopeInv`); for each slot that is not
stray, that its call stack is a chain of open entries, no others are open and
neither is overrun (`SlotInv`); for each thread with such a slot, that the call stack
is the recorded part of its scopes and that a push which passed its checks has room
for its entry (`StackInv`); for each thread that is about to write a place of a
frame, that nobody else is about to write one of that frame unless it is in
`raced` (`PlaceInv`); and `ShownThreadsInitialized`. The slots and their threads
are apart because `Reset` and an overtaken call change what is in a slot without
asking whose it is. A step of one thread that leaves the slots of the others alone
is dealt with once (`StepKeeps`), and a lemma for each action shows that the action
is such a step; `Reset` and the flags have lemmas of their own.
* `EverySlotHasOneThread`: `SlotsExclusive`. The bound on `entries` is not immediate:
  the check and the write are two steps, and it holds because the slot is the
  thread's own between them.
* `CallStackIsScopes`, `SectionsNest` and `FramesShowWritten`:
  `StackMatchesScopes`, `ParentsEnclose` and `ShownThreadsInitialized`, each with the
  exceptions that the property names (`stray`, `raced`).

Two kinds of recursion are reasoned about without an induction theorem. What a
recursive function returns follows from its equation once a function that
satisfies the equation is shown to exist; that something holds for all numbers up
to a length follows from `WFMin`, applied to the set of those for which it fails.

Only model-checked:
* Liveness, which is out of the prover's reach under fairness.
* `TextOps`: its functions and the definitions they are held to are folds over
  sequences and counts of sets. The library's facts about folds take an operator as
  a parameter, which the provers cannot instantiate, and six functions would each
  need their own induction instead.

## Not modelled

* The virtual machine. Only `Mov` is finished and tested. A called function
  starts at its second instruction and `Ret` takes from the wrong end of the
  stack; nothing says what they should do, so there is nothing to hold them to.
* Drawing: pixels, colours, text, themes, dpi; textures and frame buffers, which
  are sequences of driver calls.
* Floating point: vectors, rectangles, shapes, colours, the interpolation in
  `GetBeatAtTime`.
* Reading and writing whole files, the search for the run tree, TOML and JSON
  helpers, logging, the Scheme binding: calls to libraries.
* The regular expressions of `meta_tags`; trimming and case conversion; hashes.
* Container templates and the ring iterator, which have no state of their own.
* Third-party libraries, except for the thread pool.
* `Profiler::Finish` and `FinishThread` (not declared in the header, never
  called) and `Init` called directly, without the mutex that `Reset` takes.
* Memory that is corrupted by an access past the end of an array. `entries`,
  `entryStack` and the frames and regions are not overrun where `SlotsExclusive`
  says so; in the slots of calls that a `Reset` overtook they can be, and the model
  lets the sequence grow instead. `frameThreads` is overrun when a thread is added
  twice with all slots in use (`profiler_frame`); the passing run has `MaxThreads`
  of 3 for two threads. A thread that no slot is left for does not return from
  `InitThread`, whose assertion stops it in a debug build.
