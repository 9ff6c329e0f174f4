----------------------------- MODULE Visualizer -----------------------------
(***************************************************************************)
(* The visualizer (core.py): the thread of the GUI, which is the main loop *)
(* of GTK, and the thread of the simulation, SimulationThread.  The GUI    *)
(* grants the simulation one sample period at a time (target_time and the  *)
(* event go), and both read and write the model under a lock.              *)
(*                                                                         *)
(* While the simulation holds the lock, update_view_timeout runs the main  *)
(* loop from within itself: the user may press any button, other timers    *)
(* may fire, so the callbacks of the GUI are nested on a stack.            *)
(***************************************************************************)
EXTENDS Naturals, Sequences

CONSTANTS
  Timers,      \* bound of the model: timeouts that GLib can tell apart
  Periods,     \* values of sample_period, in units of simulated time
  MaxClicks    \* bound of the model: what the user does

None == "none"
ASSUME VisualizerAssumption == /\ None \notin Timers /\ Timers # {}
                               /\ Periods \subseteq Nat \ {0} /\ Periods # {}
                               /\ MaxClicks \in Nat

VARIABLES
  active,              \* play_button is pressed
  live,                \* the timeout sources of the main loop
  _update_timeout_id,
  sample_period,
  stack,               \* callbacks in progress, the innermost last
  idle,                \* calls of update_model that wait for the main loop
  over,                \* gtk.main_quit has been called
  clicks,              \* actions that are left to the user
  pc,                  \* where the thread of the simulation is
  go, quit,            \* attributes of SimulationThread
  behind,              \* target_time less the time of the simulation
  pause_messages,      \* some message waits to be shown
  samples              \* what PyViz has sampled in its last period: "none",
                       \* "fresh" (no update_model has read it) or "read"

user == <<active, live, _update_timeout_id, sample_period>>
loop == <<stack, idle, over, clicks>>
simulation == <<pc, go, quit, behind, pause_messages, samples>>
vars == <<user, loop, simulation>>

\* create_gui sets the speed, which starts a timer although nothing plays.
Init == /\ active = FALSE
        /\ \E t \in Timers : live = {t} /\ _update_timeout_id = t
        /\ sample_period \in Periods
        /\ stack = <<>> /\ idle = 0 /\ over = FALSE /\ clicks = MaxClicks
        /\ pc = "top" /\ go = FALSE /\ quit = FALSE
        /\ behind = 0 /\ pause_messages = FALSE /\ samples = "none"

-----------------------------------------------------------------------------
(* The lock, and the main loop: it handles an event at top level or within *)
(* the busy wait of update_view_timeout, those of update_model first.      *)

LockFree == pc # "running"

Top   == stack[Len(stack)]
At(place) == stack # <<>> /\ Top.at = place
Under == SubSeq(stack, 1, Len(stack) - 1)
Call(frame)  == stack' = Append(stack, frame)
Goto(frame)  == stack' = Append(Under, frame)
Return       == stack' = Under

Frame(place, t, shown) == [at |-> place, timer |-> t, messages |-> shown]

InLoop == (stack = <<>> /\ ~over) \/ At("spin")
Dispatching == {stack[i].timer : i \in DOMAIN stack}
Fresh == {t \in Timers \ (live \cup Dispatching) : t # _update_timeout_id}

\* _start_update_timer
StartTimer == \E t \in Fresh :
  /\ live' = (live \ {_update_timeout_id}) \cup {t}
  /\ _update_timeout_id' = t

-----------------------------------------------------------------------------
(* What the user does.                                                     *)

UserEvent == InLoop /\ idle = 0 /\ clicks > 0 /\ clicks' = clicks - 1

\* _on_play_button_toggled; a pause leaves the identifier of the source it removes.
PlayButton ==
  /\ UserEvent
  /\ active' = ~active
  /\ IF active THEN /\ live' = live \ {_update_timeout_id}
                    /\ UNCHANGED _update_timeout_id
               ELSE StartTimer
  /\ UNCHANGED <<sample_period, stack, idle, over, simulation>>

\* (Variant for TypeOK: the speed may be set to 0.)
SpeedChanged_Zero ==
  /\ UserEvent
  /\ sample_period' \in Periods \cup {0}
  /\ StartTimer
  /\ UNCHANGED <<active, stack, idle, over, simulation>>

\* _speed_changed starts the timer whether or not the simulation plays.
SpeedChanged ==
  /\ UserEvent
  /\ sample_period' \in Periods
  /\ StartTimer
  /\ UNCHANGED <<active, stack, idle, over, simulation>>

\* (Variant for QuitEnds: the thread is not woken.)
Quit_NoGo ==
  /\ UserEvent /\ ~quit
  /\ live' = live \ {_update_timeout_id}
  /\ _update_timeout_id' = None
  /\ quit' = TRUE
  /\ Call(Frame("join", None, FALSE))
  /\ UNCHANGED <<active, sample_period, idle, over, pc, go, behind, pause_messages, samples>>

\* _quit, up to the wait for the thread.
Quit ==
  /\ UserEvent /\ ~quit
  /\ live' = live \ {_update_timeout_id}
  /\ _update_timeout_id' = None
  /\ quit' = TRUE /\ go' = TRUE
  /\ Call(Frame("join", None, FALSE))
  /\ UNCHANGED <<active, sample_period, idle, over, pc, behind, pause_messages, samples>>

Joined == /\ At("join") /\ pc = "ended"
          /\ over' = TRUE
          /\ Return
          /\ UNCHANGED <<user, idle, clicks, simulation>>

-----------------------------------------------------------------------------
(* update_model waits for the lock and reads the samples under it.         *)

UpdateModel ==
  /\ InLoop /\ idle > 0
  /\ idle' = idle - 1
  /\ Call(Frame("model", None, FALSE))
  /\ UNCHANGED <<user, over, clicks, simulation>>

ReadSamples ==
  /\ At("model") /\ LockFree
  /\ samples' = "read"
  /\ Return
  /\ UNCHANGED <<user, idle, over, clicks, pc, go, quit, behind, pause_messages>>

-----------------------------------------------------------------------------
(* update_view_timeout.                                                    *)

TimerFires ==
  /\ InLoop /\ idle = 0
  /\ \E t \in live \ Dispatching : Call(Frame("try", t, FALSE))
  /\ UNCHANGED <<user, idle, over, clicks, simulation>>

Spin == /\ At("try") /\ ~LockFree
        /\ Goto([Top EXCEPT !.at = "spin"])
        /\ UNCHANGED <<user, idle, over, clicks, simulation>>

\* No event is pending.
Retry == /\ At("spin") /\ idle = 0
         /\ Goto([Top EXCEPT !.at = "try"])
         /\ UNCHANGED <<user, idle, over, clicks, simulation>>

\* The view is updated and the next period granted under the lock.
UpdateView ==
  /\ At("try") /\ LockFree
  /\ Goto(Frame("end", Top.timer, pause_messages))
  /\ pause_messages' = FALSE
  /\ behind' = sample_period
  /\ UNCHANGED <<user, idle, over, clicks, pc, go, quit, samples>>

\* (Variant for PlayGoesOn: the callback does not ask to be called again.)
EndTimeout_Once ==
  /\ At("end")
  /\ active' = (active /\ ~Top.messages)
  /\ go' = (go \/ active')
  /\ live' = live \ {Top.timer}
  /\ Return
  /\ UNCHANGED <<_update_timeout_id, sample_period, idle, over, clicks, pc, quit, behind,
                 pause_messages, samples>>

\* (Variant for PauseSettles: it always does.)
EndTimeout_Always ==
  /\ At("end")
  /\ active' = (active /\ ~Top.messages)
  /\ go' = TRUE
  /\ Return
  /\ UNCHANGED <<live, _update_timeout_id, sample_period, idle, over, clicks, pc, quit,
                 behind, pause_messages, samples>>

\* The messages are shown and release the play button, whose handler removes the
\* timer; a callback that finds the button released removes its own.
EndTimeout ==
  /\ At("end")
  /\ active' = (active /\ ~Top.messages)
  /\ IF active' THEN /\ go' = TRUE
                     /\ UNCHANGED <<live, _update_timeout_id>>
                ELSE /\ _update_timeout_id' = None
                     /\ live' = live \ (IF active THEN {Top.timer, _update_timeout_id}
                                                  ELSE {Top.timer})
                     /\ UNCHANGED go
  /\ Return
  /\ UNCHANGED <<sample_period, idle, over, clicks, pc, quit, behind, pause_messages,
                 samples>>

-----------------------------------------------------------------------------
(* SimulationThread.run.                                                   *)

Thread(from, to) == pc = from /\ pc' = to

Loop == /\ Thread("top", IF quit THEN "ended" ELSE "wait")
        /\ UNCHANGED <<user, loop, go, quit, behind, pause_messages, samples>>
Wake == /\ Thread("wait", "clear") /\ go
        /\ UNCHANGED <<user, loop, go, quit, behind, pause_messages, samples>>

\* (Variant for PauseStops of VisualizerHistory: the event stays set.)
Clear_Kept == /\ Thread("clear", "test")
              /\ UNCHANGED <<user, loop, go, quit, behind, pause_messages, samples>>

Clear == /\ Thread("clear", "test") /\ go' = FALSE
         /\ UNCHANGED <<user, loop, quit, behind, pause_messages, samples>>
Test == /\ Thread("test", IF quit THEN "ended" ELSE "lock")
        /\ UNCHANGED <<user, loop, go, quit, behind, pause_messages, samples>>
Lock == /\ Thread("lock", "running")
        /\ UNCHANGED <<user, loop, go, quit, behind, pause_messages, samples>>

\* SimulatorRunUntil drops the samples of the period before.  A simulation that
\* is not behind does nothing; one that is runs to the target, unless a Stop that
\* the script has scheduled ends the run before, and may ask for a pause on its
\* way (PyViz::Pause), which does not end the run.
RunUntil ==
  /\ Thread("running", "top")
  /\ samples' = "fresh"
  /\ behind' \in 0 .. behind
  /\ pause_messages' \in IF behind > 0 THEN {pause_messages, TRUE} ELSE {pause_messages}
  /\ idle' = idle + 1
  /\ UNCHANGED <<user, stack, over, clicks, go, quit>>

-----------------------------------------------------------------------------
User == PlayButton \/ SpeedChanged \/ Quit
Gui  == \/ Joined \/ UpdateModel \/ ReadSamples
        \/ TimerFires \/ Spin \/ Retry \/ UpdateView \/ EndTimeout
Sim  == Loop \/ Wake \/ Clear \/ Test \/ Lock \/ RunUntil

Next == User \/ Gui \/ Sim

Spec == Init /\ [][Next]_vars

\* Both threads are scheduled and no run lasts for ever.  The timers leave the
\* busy wait the time to look at the lock, and it finds the lock free if that is
\* the case again and again.
Fairness == /\ WF_vars(Gui) /\ WF_vars(Sim)
            /\ SF_vars(Retry) /\ SF_vars(UpdateView)

-----------------------------------------------------------------------------
\* The types of the variables; the calls of update_model do not pile up.
TypeOK ==
  /\ active \in BOOLEAN /\ go \in BOOLEAN /\ quit \in BOOLEAN /\ over \in BOOLEAN
  /\ live \subseteq Timers /\ _update_timeout_id \in Timers \cup {None}
  /\ sample_period \in Periods
  /\ behind \in Nat /\ \E p \in Periods : behind <= p
  /\ Len(stack) <= MaxClicks + 2
  /\ \A i \in DOMAIN stack :
       stack[i] \in [at : {"try", "spin", "end", "model", "join"},
                     timer : Timers \cup {None}, messages : BOOLEAN]
  /\ idle \in 0 .. 3 /\ clicks \in 0 .. MaxClicks
  /\ pc \in {"top", "wait", "clear", "test", "lock", "running", "ended"}
  /\ pause_messages \in BOOLEAN /\ samples \in {"none", "fresh", "read"}

\* While it plays, the simulation is run again and again.
PlayGoesOn == <>[](active /\ ~quit) => []<>(pc = "running")

\* A pause settles: no timer is left and the simulation waits for a signal, even
\* if the speed is changed in the meantime, which starts a timer.
PauseSettles == <>[](~active) => <>[](live = {} /\ pc \in {"wait", "ended"})

\* The window closes: the thread ends, wherever it is, and the main loop with it.
QuitEnds == quit ~> (over /\ stack = <<>>)

\* "signal emitted after every simulation period" (core.py): no period is
\* overwritten by the next one before its update_model has read it.
PeriodsDelivered == [][RunUntil => samples # "fresh"]_vars
=============================================================================
