----------------------------- MODULE EventQueue -----------------------------
(***************************************************************************)
(* What a timeline promises: a queue of events in time order.  An event is *)
(* stored behind all events that are not later, fires at most once and     *)
(* only when every event in front of it has fired, and leaves the queue    *)
(* one at a time.  Timeline is shown to implement this module.             *)
(***************************************************************************)
EXTENDS Naturals, Sequences

CONSTANTS Item, Time

VARIABLE events  \* a sequence of [item, time, fired]

QueueInit == events = <<>>

Store(x, tm) ==
    /\ \A i \in DOMAIN events : events[i].item # x
    /\ \E k \in 0..Len(events) :
          /\ \A i \in DOMAIN events : i <= k <=> events[i].time <= tm
          /\ events' = SubSeq(events, 1, k)
                         \o <<[item |-> x, time |-> tm, fired |-> FALSE]>>
                         \o SubSeq(events, k + 1, Len(events))

Fire(i) ==
    /\ \A j \in 1..(i - 1) : events[j].fired
    /\ ~events[i].fired
    /\ events' = [events EXCEPT ![i].fired = TRUE]

Remove(i) ==
    events' = SubSeq(events, 1, i - 1) \o SubSeq(events, i + 1, Len(events))

QueueNext ==
    /\ events' # events
    /\ \/ \E x \in Item, tm \in Time : Store(x, tm)
       \/ \E i \in DOMAIN events : Fire(i) \/ Remove(i)

QueueSpec == QueueInit /\ [][QueueNext]_events
=============================================================================
