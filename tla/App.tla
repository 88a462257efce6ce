-------------------------------- MODULE App --------------------------------
(***************************************************************************)
(* sdl_imgui_start of src/ui/sdl_imgui_starter.cpp, with a client whose    *)
(* Update calls scheduler_update, which may call it again in the           *)
(* scheduled callback, and which uses the schedule and the messages of     *)
(* UIManager from its callbacks.  The client and SDL's events are          *)
(* external.                                                               *)
(***************************************************************************)
EXTENDS Scheduler, UIManager

VARIABLES
    pc,            \* where sdl_imgui_start is
    code,          \* what it returned
    held,          \* SDL, window, context and ImGui, while they exist
    done,          \* a quit or close event was seen
    foundEvents,
    firstInit,     \* InitDuringDraw is still to be called
    minimized,     \* the window has no size
    onEvents,      \* AppStarterFlags::RefreshOnEvents
    wakeful        \* RefreshRequired() while a schedule is started

loopVars == <<pc, code, held, done, foundEvents, firstInit, minimized, onEvents, wakeful>>
partVars == <<schedulerVars, messageVars>>
vars == <<loopVars, partVars>>

Init ==
    /\ SchedulerInit /\ MessagesInit
    /\ pc = "off" /\ code = 0 /\ held = {}
    /\ done = FALSE /\ foundEvents = TRUE /\ firstInit = TRUE
    /\ minimized = FALSE
    /\ onEvents \in BOOLEAN /\ wakeful \in BOOLEAN

Goto(l) == pc' = l

-----------------------------------------------------------------------------
(* SDL_Init or gl3wInit fails; the second leaves the window and its        *)
(* context behind.                                                         *)
StartFails ==
    /\ pc = "off"
    /\ \/ code' = -1 /\ held' = {}
       \/ code' = 1 /\ held' = {"SDL", "window", "context"}
    /\ Goto("ended")
    /\ UNCHANGED <<done, foundEvents, firstInit, minimized, onEvents, wakeful>>
    /\ UNCHANGED partVars

Start ==
    /\ pc = "off"
    /\ held' = {"SDL", "window", "context", "ImGui"}
    /\ Goto("before")
    /\ UNCHANGED <<code, done, foundEvents, firstInit, minimized, onEvents, wakeful>>
    /\ UNCHANGED partVars

(* Callbacks of the client in which it may use the parts.                  *)
InClient == pc \in {"before", "key", "update", "callback", "gui"}

ClientCalls ==
    /\ InClient
    /\ \/ MessagesNext /\ UNCHANGED schedulerVars
       \/ /\ \/ SchedulerStop
             \/ \E s \in Timeouts : SchedulerStart(s)
             \/ pc = "callback" /\ CallbackBegins
          /\ UNCHANGED messageVars
    /\ UNCHANGED loopVars

(* InitBeforeDraw returns and the loop begins.                             *)
EnterLoop ==
    /\ pc = "before"
    /\ Goto("poll")
    /\ UNCHANGED <<code, held, done, foundEvents, firstInit, minimized, onEvents, wakeful>>
    /\ UNCHANGED partVars

(* One SDL event.  A key goes to the client; quit and close end the loop.  *)
Event(kind) ==
    /\ pc = "poll"
    /\ foundEvents' = TRUE
    /\ done' = (done \/ kind = "quit")
    /\ minimized' = IF kind = "hide" THEN TRUE
                    ELSE IF kind = "show" THEN FALSE ELSE minimized
    /\ Goto(IF kind = "key" THEN "key" ELSE "poll")
    /\ UNCHANGED <<code, held, firstInit, onEvents, wakeful>>
    /\ UNCHANGED partVars

KeyEventReturns ==
    /\ pc = "key"
    /\ Goto("poll")
    /\ UNCHANGED <<code, held, done, foundEvents, firstInit, minimized, onEvents, wakeful>>
    /\ UNCHANGED partVars

(* Mutant: RefreshRequired is not asked.                                   *)
IdlesUnasked == ~foundEvents /\ onEvents

(* Mutant: an application that refreshes on events waits for the client.   *)
IdlesOnEvents == onEvents /\ ~(wakeful /\ state = "Started")

(* Nothing to draw for: no event, and the client does not ask for it.      *)
Idles == ~foundEvents /\ onEvents /\ ~(wakeful /\ state = "Started")

(* No event is left: sleep and poll again.                                 *)
Sleep ==
    /\ pc = "poll"
    /\ Idles
    /\ UNCHANGED vars

(* No event is left: the frame begins.                                     *)
BeginFrame ==
    /\ pc = "poll"
    /\ ~Idles
    /\ foundEvents' = FALSE
    /\ Goto(IF minimized THEN "gui" ELSE "update")
    /\ UNCHANGED <<code, held, done, firstInit, minimized, onEvents, wakeful>>
    /\ UNCHANGED partVars

(* Update calls scheduler_update; then Draw.                               *)
Update ==
    /\ pc = "update"
    /\ \/ NotDue /\ Goto("gui")
       \/ CallbackBegins /\ Goto("callback")
    /\ UNCHANGED messageVars
    /\ UNCHANGED <<code, held, done, foundEvents, firstInit, minimized, onEvents, wakeful>>

CallbackEnds ==
    /\ pc = "callback"
    /\ CallbackReturns
    /\ Goto(IF depth > 1 THEN "callback" ELSE "gui")
    /\ UNCHANGED messageVars
    /\ UNCHANGED <<code, held, done, foundEvents, firstInit, minimized, onEvents, wakeful>>

(* Mutant: a quit is noticed only while the window is shown.               *)
EndFrameShown ==
    /\ pc = "gui"
    /\ firstInit' = FALSE
    /\ Goto(IF done /\ ~minimized THEN "destroy" ELSE "poll")
    /\ UNCHANGED <<code, held, done, foundEvents, minimized, onEvents, wakeful>>
    /\ UNCHANGED partVars

(* InitDuringDraw the first time, DrawGUI, render, swap; while (!done).    *)
EndFrame ==
    /\ pc = "gui"
    /\ firstInit' = FALSE
    /\ Goto(IF done THEN "destroy" ELSE "poll")
    /\ UNCHANGED <<code, held, done, foundEvents, minimized, onEvents, wakeful>>
    /\ UNCHANGED partVars

(* Destroy, and the clean-up.                                              *)
Destroy ==
    /\ pc = "destroy"
    /\ held' = {}
    /\ Goto("ended")
    /\ UNCHANGED <<code, done, foundEvents, firstInit, minimized, onEvents, wakeful>>
    /\ UNCHANGED partVars

TimePasses == pc # "ended" /\ Tick /\ UNCHANGED <<loopVars, messageVars>>

Loop ==
    \/ Start \/ EnterLoop \/ KeyEventReturns \/ Sleep \/ BeginFrame
    \/ Update \/ CallbackEnds \/ EndFrame \/ Destroy

Next ==
    \/ StartFails
    \/ Loop
    \/ \E kind \in {"quit", "key", "hide", "show", "other"} : Event(kind)
    \/ ClientCalls
    \/ TimePasses

Spec == Init /\ [][Next]_vars

(* The loop goes on, also when events keep coming, and time passes.        *)
FairSpec == Spec /\ WF_vars(Loop) /\ SF_vars(BeginFrame) /\ WF_vars(TimePasses)

-----------------------------------------------------------------------------
TypeOK ==
    /\ state \in {"Off", "Started", "Triggered"}
    /\ timeout \in Timeouts /\ elapsed \in 0..timeout
    /\ owed \in {"none", "outside", "inside"} /\ starts \in 0..MaxStarts
    /\ depth \in 0..MaxDepth /\ (depth > 0 <=> pc = "callback")
    /\ pc \in {"off", "before", "poll", "key", "update", "callback", "gui",
               "destroy", "ended"}
    /\ {done, foundEvents, firstInit, minimized, onEvents, wakeful} \subseteq BOOLEAN

(* Outside the callback, scheduler_update calls it once for a start, and   *)
(* never after a stop: a schedule that is started and not in its callback  *)
(* owes a call.  Only a scheduler_update inside the callback can call it   *)
(* again for the same start.  A start is forgotten only when it was made   *)
(* inside the callback, whose return overwrites it.                        *)
OnceForAStart ==
    /\ state = "Started" /\ depth = 0 => owed # "none"
    /\ owed = "outside" => state = "Started"

(* A schedule that is started is triggered or stopped, provided that the   *)
(* loop keeps drawing for it (it refreshes without events, or the client   *)
(* asks for it) and the window is not minimized: a minimized window gets   *)
(* no Update.                                                              *)
StartedTriggers ==
    (state = "Started" /\ (wakeful \/ ~onEvents))
        ~> (state # "Started" \/ minimized \/ pc = "ended")

(* "Only refresh when new events arrive" (sdl_imgui_starter.h): an event   *)
(* always gets its frame.                                                  *)
EventGetsFrame == (pc = "poll" /\ foundEvents) ~> (pc = "gui")

(* A quit or close event ends the program, with Destroy and the clean-up,  *)
(* whatever the callbacks do and minimized or not.                         *)
QuitEnds == done ~> (pc = "ended" /\ held = {})
=============================================================================
