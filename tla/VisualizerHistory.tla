--------------------------- MODULE VisualizerHistory ---------------------------
(***************************************************************************)
(* Visualizer with a history variable that counts what is simulated after  *)
(* a pause was asked for.  The pause is not immediate: the GUI takes the   *)
(* message and moves the target before it releases the play button, and a  *)
(* go signal that was given before is not taken back.                      *)
(***************************************************************************)
EXTENDS Visualizer

\* The periods, whole or cut short, that have been simulated since a pause was
\* asked for.
VARIABLE overrun

hvars == <<vars, overrun>>

\* The user has released the play button, or the simulation has asked for it and
\* its message is waiting or has been taken to be shown.
PauseAsked == ~active \/ pause_messages \/ \E i \in DOMAIN stack : stack[i].messages

Count == overrun' = IF ~PauseAsked' THEN 0
                    ELSE IF RunUntil /\ PauseAsked /\ behind > 0 THEN overrun + 1
                    ELSE overrun

HistoryInit == Init /\ overrun = 0
HistoryNext == Next /\ Count
HistorySpec == HistoryInit /\ [][HistoryNext]_hvars
FairHistorySpec == HistorySpec /\ Fairness

-----------------------------------------------------------------------------
\* From the moment a pause is asked for, by the user or by a message of the
\* simulation, until it plays again, at most two more periods are simulated,
\* whatever timers, nested callbacks and go signals are still on their way.
PauseStops == overrun <= 2
=============================================================================
