----------------------------- MODULE SectionView -----------------------------
(***************************************************************************)
(* Which sections of a thread ShowProfile draws for a frame.  A thread     *)
(* records its sections (PushSectionBase, PopSection) while another one    *)
(* begins frames (NewFrame), which notes the thread's latest entry and     *)
(* takes the time afterwards.  Entries and frames are counted from 1.      *)
(***************************************************************************)
EXTENDS Integers, Sequences, FiniteSetsExt

CONSTANTS MaxSections, MaxFrames, LastTime     \* bounds

ASSUME SectionAssumption ==
    MaxSections \in Nat /\ MaxFrames \in Nat /\ LastTime \in Nat

VARIABLES
    entries,      \* start, end and parent of each; parent 0 is 0xFFFFFFFF
    stack,        \* entryStack
    drawn,        \* frames: start time, and the thread's active entries
    noted,        \* NewFrame is between the two: what it noted of the thread
    now           \* the clock

sectionVars == <<entries, stack, drawn, noted, now>>

Open == LastTime + 1      \* end time of an entry that is open
NotNoted == {-1}

SectionInit ==
    entries = <<>> /\ stack = <<>> /\ drawn = <<>> /\ noted = NotNoted /\ now = 0

(* PushSectionBase.  The first entry adds the thread to the last frame.    *)
PushSection ==
    /\ Len(entries) < MaxSections
    /\ entries' = Append(entries, [start |-> now, end |-> Open,
                                   parent |-> IF stack = <<>> THEN 0 ELSE stack[Len(stack)]])
    /\ stack' = Append(stack, Len(entries'))
    /\ drawn' = IF entries = <<>> /\ drawn # <<>>
                THEN [drawn EXCEPT ![Len(drawn)].active = @ \cup {1}] ELSE drawn
    /\ UNCHANGED <<noted, now>>

PopSection ==
    /\ stack # <<>>
    /\ entries' = [entries EXCEPT ![stack[Len(stack)]].end = now]
    /\ stack' = SubSeq(stack, 1, Len(stack) - 1)
    /\ UNCHANGED <<drawn, noted, now>>

(* NewFrame goes over the threads.                                         *)
NoteActive ==
    /\ noted = NotNoted /\ Len(drawn) < MaxFrames
    /\ noted' = IF entries = <<>> THEN {} ELSE {Len(entries)}
    /\ UNCHANGED <<entries, stack, drawn, now>>

(* NewFrame takes the time, which also ends the frame before.              *)
StampFrame ==
    /\ noted # NotNoted
    /\ drawn' = Append(drawn, [start |-> now, active |-> noted])
    /\ noted' = NotNoted
    /\ UNCHANGED <<entries, stack, now>>

Elapse == now < LastTime /\ now' = now + 1 /\ UNCHANGED <<entries, stack, drawn, noted>>

SectionNext == PushSection \/ PopSection \/ NoteActive \/ StampFrame \/ Elapse

SectionSpec == SectionInit /\ [][SectionNext]_sectionVars

-----------------------------------------------------------------------------
(* Mutant: the walk begins at the active entry itself.                     *)
OuterItself(active) == active

(* The outermost section that the active entry is in.                      *)
Outer(active) ==
    LET up[i \in 1..Len(entries)] ==
          IF entries[i].parent = 0 THEN i ELSE up[entries[i].parent]
    IN  up[active]

(* Back to an entry that ended before the frame, then on to the first one  *)
(* that starts after it; the latest entry is not drawn.                    *)
Walked(active, start, end) ==
    LET first == Max({j \in 1..Outer(active) : j = 1 \/ entries[j].end <= start})
    IN  {j \in first..(Len(entries) - 1) : \A k \in first..j : entries[k].start < end}

DrawnIn(f) ==
    UNION {Walked(a, drawn[f].start, drawn[f + 1].start) : a \in drawn[f].active}

-----------------------------------------------------------------------------
(* In a frame that has the thread, every section is drawn that ran at some *)
(* time of the frame, one that began long before it included, except for   *)
(* the thread's latest entry.  Entries that were recorded while NewFrame   *)
(* was between its two steps make no difference.                           *)
SectionsDrawn ==
    \A f \in 1..(Len(drawn) - 1) : drawn[f].active # {} =>
        \A j \in 1..(Len(entries) - 1) :
            /\ entries[j].start < drawn[f + 1].start
            /\ drawn[f].start < entries[j].end
            => j \in DrawnIn(f)
==============================================================================
