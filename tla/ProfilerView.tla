--------------------------- MODULE ProfilerView ---------------------------
(***************************************************************************)
(* The display half of src/time/profiler.cpp: the time range that is shown *)
(* (gTimeRange), the frames inside it (gVisibleFrames) and the candles at  *)
(* the top (gFrameCandleRange), while frames are recorded, the user pauses *)
(* and resumes, and selects, drags and zooms with the mouse.  All of it    *)
(* runs in one thread.                                                     *)
(*                                                                         *)
(* Frames are numbered from 0 as in the code: frame i starts at            *)
(* frames[i + 1] and ends where frame i + 1 starts.                        *)
(***************************************************************************)
EXTENDS Integers, Sequences, FiniteSetsExt

CONSTANTS
    Lengths,        \* how long a frame can take
    Shortest,       \* the shortest time range, 1000 ns
    Shown,          \* what is shown while recording, 50 ms
    MinCandles,     \* minCandlesPerView
    MaxFrame        \* settings.MaxFrames

(* A frame takes longer than the shortest range that can be shown.         *)
ASSUME ViewAssumption ==
    /\ Lengths \subseteq Nat /\ Shortest \in Nat \ {0}
    /\ \A l \in Lengths : l >= Shortest
    /\ Shown \in Nat /\ MinCandles \in Nat /\ MaxFrame \in Nat

VARIABLES frames, timeRange, visibleFrames, candles, displayStart, viewPaused

viewVars == <<frames, timeRange, visibleFrames, candles, displayStart, viewPaused>>

MinLeadInFrames == 3
FirstShown == MinLeadInFrames - 2    \* MinFrame
Current == Len(frames)               \* gCurrentFrame
StartTime(i) == frames[i + 1]
EndTime(i) == frames[i + 2]
MinTime == StartTime(FirstShown)
MaxTime == StartTime(Current - 1)

Clamp(v, lo, hi) == IF v < lo THEN lo ELSE IF hi < v THEN hi ELSE v

ViewInit ==
    /\ frames = <<>> /\ viewPaused = FALSE
    /\ timeRange = [x |-> 0, y |-> 0]
    /\ visibleFrames = [x |-> 0, y |-> 0]
    /\ candles = [x |-> 0, y |-> 0] /\ displayStart = 0

(* NewFrame.  CheckEndState pauses when there is no room for another.      *)
Frame(length) ==
    /\ ~viewPaused
    /\ IF Current >= MaxFrame
       THEN viewPaused' = TRUE /\ UNCHANGED frames
       ELSE /\ frames' = Append(frames, IF Current = 0 THEN 0 ELSE MaxTime + length)
            /\ UNCHANGED viewPaused
    /\ UNCHANGED <<timeRange, visibleFrames, candles, displayStart>>

-----------------------------------------------------------------------------
(* The lambda setTimeRange of ShowProfile.                                 *)
Widened(r) ==
    IF r.y - r.x >= Shortest THEN r
    ELSE LET x == Clamp(r.x, MinTime, MaxTime - Shortest) IN [x |-> x, y |-> x + Shortest]

Moved(r, by) == [x |-> r.x + by, y |-> r.y + by]

Shifted(r) ==
    IF r.x < MinTime THEN Moved(r, MinTime - r.x)
    ELSE IF r.y > MaxTime THEN Moved(r, MaxTime - r.y)
    ELSE r

SetTimeRange(r) ==
    LET s == Shifted(Widened(r))
    IN  [x |-> Clamp(s.x, MinTime, MaxTime), y |-> Clamp(s.y, MinTime, MaxTime)]

(* Mutant: the first frame is never looked for to the left of the last one *)
(* shown.                                                                  *)
VisibleFramesForward(r) ==
    LET limit == Current - 2
        y == Clamp(visibleFrames.y, 0, limit)
        up == Min({i \in y..limit : i = limit \/ EndTime(i) >= r.y})
        x == Clamp(visibleFrames.x, 0, limit)
    IN  [x |-> Min({i \in x..limit : i = limit \/ EndTime(i) >= r.x}), y |-> up + 1]

(* UpdateVisibleFrameRange.  The clamp of x leaves 0, so the walk for x    *)
(* begins at the first frame; the one for y begins where the last one      *)
(* ended and goes up, then down.                                           *)
VisibleFrames(r) ==
    LET limit == Current - 2
        y == Clamp(visibleFrames.y, 0, limit)
        up == Min({i \in y..limit : i = limit \/ EndTime(i) >= r.y})
        down == Max({i \in 0..up : i = 0 \/ StartTime(i) <= r.y})
        right == Min({i \in 0..limit : i = limit \/ EndTime(i) >= r.x})
        left == Max({i \in 0..right : i = 0 \/ StartTime(i) <= r.x})
    IN  [x |-> left, y |-> down + 1]

-----------------------------------------------------------------------------
(* handleMouse of ShowCandles, while paused: drag by some candles, or zoom *)
(* by grow on each side and by to keep the candle under the mouse.         *)
Dragged(by) ==
    LET new == Moved(candles, by)
    IN  IF new.y < Current - 1 /\ new.x >= FirstShown THEN new ELSE candles

Zoomed(grow, by) ==
    LET new == [x |-> candles.x - grow + by, y |-> candles.y + grow + by]
        right == IF new.x < FirstShown THEN Moved(new, FirstShown - new.x) ELSE new
        left == IF right.y > Current - 1 THEN Moved(right, Current - 1 - right.y) ELSE right
    IN  IF new.y - new.x < MinCandles THEN candles
        ELSE [x |-> Clamp(left.x, FirstShown, Current - 1),
              y |-> Clamp(left.y, FirstShown, Current - 1)]

CandleInputs ==
    {candles} \cup {Dragged(by) : by \in {-1, 1}}
              \cup {Zoomed(grow, by) : grow \in {-1, 1}, by \in {-1, 0, 1}}

(* Mutant: the search for the first candle only goes to the right.         *)
FirstCandleForward(old, t) ==
    Min({i \in Clamp(old, 0, Current - 1)..Current :
            i >= Current - 1 \/ EndTime(i) >= t})

(* drawRegions begins at the candle where it began in the last call, and   *)
(* looks to the left and then to the right for the one at time t.  t is    *)
(* the start of a frame, so the search stops before the last frame, whose  *)
(* end is not known.                                                       *)
FirstCandle(old, t) ==
    LET left == Max({i \in 0..Clamp(old, 0, Current - 1) : i = 0 \/ StartTime(i) <= t})
    IN  Min({i \in left..Current : i >= Current - 1 \/ EndTime(i) >= t})

(* The range that ShowProfile shows while paused, before the mouse is      *)
(* handled: the selection, made larger, or the one shown before.           *)
Selections ==
    {timeRange} \cup {[x |-> StartTime(i) - 1, y |-> EndTime(j) + 1] :
                         i \in 0..(Current - 2), j \in 0..(Current - 2)}

(* A drag that would leave the recorded time is not made; a zoom makes the *)
(* range smaller or larger and then puts the time under the mouse back.    *)
DragTime(r, by) ==
    LET new == Moved(r, by)
    IN  IF new.y < MaxTime /\ new.x >= MinTime THEN SetTimeRange(new) ELSE r

ZoomTime(r, grow, by) ==
    SetTimeRange(Moved(SetTimeRange([x |-> r.x - grow, y |-> r.y + grow]), by))

(* What the mouse makes of the range, recording or not: a drag, then the   *)
(* wheel.                                                                  *)
TimeInputs(r) ==
    LET dragged == {r} \cup {DragTime(r, by) : by \in {-1, 1}}
    IN  dragged \cup {ZoomTime(d, grow, by) :
                         d \in dragged, grow \in {-1, 1}, by \in {-1, 0, 1}}

ShowRange(ranges) ==
    /\ \E r \in ranges : timeRange' = r /\ visibleFrames' = VisibleFrames(r)
    /\ UNCHANGED frames

(* ShowProfile while recording; now is some time after the last frame.     *)
Show(late) ==
    /\ ~viewPaused /\ Current >= MinLeadInFrames
    /\ LET now == MaxTime + late
       IN  ShowRange(TimeInputs(SetTimeRange([x |-> now - Shown, y |-> now])))
    /\ candles' = [x |-> FirstShown, y |-> Current - 1]
    /\ displayStart' = FirstCandle(displayStart, StartTime(candles'.x))
    /\ UNCHANGED viewPaused

(* ShowProfile while paused, or in the call that pauses.  Only one of the  *)
(* two areas is under the mouse.                                           *)
ShowPaused ==
    /\ Current >= MinLeadInFrames
    /\ viewPaused' = TRUE
    /\ \/ /\ candles' \in CandleInputs
          /\ ShowRange({SetTimeRange(s) : s \in {q \in Selections : q.x <= q.y}})
       \/ /\ UNCHANGED candles
          /\ ShowRange(TimeInputs(SetTimeRange(timeRange)))
    /\ displayStart' = FirstCandle(displayStart, StartTime(candles'.x))

(* ShowProfile that pauses before there is anything to show.               *)
PauseEarly ==
    /\ ~viewPaused /\ Current < MinLeadInFrames
    /\ viewPaused' = TRUE
    /\ UNCHANGED <<frames, timeRange, visibleFrames, candles, displayStart>>

(* ShowProfile that resumes: Reset, and an early return.  The time range   *)
(* of the earlier run stays.                                               *)
Resume ==
    /\ viewPaused /\ viewPaused' = FALSE
    /\ frames' = <<>>
    /\ visibleFrames' = [x |-> 0, y |-> 0] /\ candles' = [x |-> 0, y |-> 0]
    /\ displayStart' = 0
    /\ UNCHANGED timeRange

ViewNext ==
    \/ \E length \in Lengths : Frame(length)
    \/ \E late \in Lengths : Show(late)
    \/ ShowPaused
    \/ PauseEarly
    \/ Resume

ViewSpec == ViewInit /\ [][ViewNext]_viewVars

-----------------------------------------------------------------------------
(* The range shown by a step lies in the recorded time, and the frames it  *)
(* draws are the complete ones in the range.                               *)
RangeIsShown ==
    /\ timeRange'.y - timeRange'.x >= Shortest
    /\ MinTime <= timeRange'.x /\ timeRange'.y <= MaxTime
    /\ \A i \in 0..(Current - 2) :
          LET shown == visibleFrames'.x <= i /\ i < visibleFrames'.y
          IN  /\ StartTime(i) < timeRange'.y /\ timeRange'.x < EndTime(i) => shown
              /\ shown => StartTime(i) <= timeRange'.y /\ timeRange'.x <= EndTime(i)

(* What ShowProfile shows is a range that can be shown and the frames in   *)
(* it, also when the range is left over from before a restart, when the    *)
(* times were other ones, and though the walks of UpdateVisibleFrameRange  *)
(* begin at the frames drawn before, for another range and other frames.   *)
(* "assert((range.y - range.x) >= 1000)" (profiler.cpp:910) holds, the     *)
(* range lies inside the recorded time, every complete frame that lies in  *)
(* it, even partly, is drawn, and every one that is drawn touches it.      *)
ShowsRange ==
    [][timeRange' # timeRange \/ visibleFrames' # visibleFrames =>
          frames' = <<>> \/ RangeIsShown]_viewVars

(* The candles and the visible frames name recorded frames, whatever was   *)
(* dragged, zoomed or reset before: gFrameData is not read past its end.   *)
(* The candles are drawn from the first one in their range or the one that *)
(* ends there, though the search begins where it ended for another range.  *)
FramesExist ==
    /\ 0 <= candles.x /\ candles.x <= candles.y
    /\ candles.y = 0 \/ candles.y < Current
    /\ 0 <= visibleFrames.x /\ visibleFrames.x <= visibleFrames.y
    /\ visibleFrames.y = 0 \/ visibleFrames.y < Current
    /\ candles.y > 0 => displayStart \in {candles.x - 1, candles.x}
=============================================================================
