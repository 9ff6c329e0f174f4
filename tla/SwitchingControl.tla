--------------------------- MODULE SwitchingControl ---------------------------
(***************************************************************************)
(* SendOneBeacon of src/wifi/model/ap-wifi-mac.cc with all its controllers.*)
(* Before every beacon the trace source AssAlg lets a callback change the  *)
(* attribute "Algorithm".  The controllers share AuthenThreshold, m_delta, *)
(* m_cac_state and the stack, and a change resets none of them: each starts*)
(* from whatever the one before it has left.                               *)
(***************************************************************************)
EXTENDS OracleControl, Sequences

CONSTANTS
  Selectable,          \* what AssAlg may set the algorithm to
  CounterStart, m_learningThreshold, m_newGroupThreshold, MaxHistory,
  MaxDelta,            \* bound of the model: m_delta, an int
  MaxSwitches,         \* bound of the model: changes of the algorithm
  MaxAnnouncements     \* bound of the model: announcements of the scenario

\* Algorithm_8 stays with LearningControl, and 101 is left out.
ASSUME SelectableAssumption ==
  Selectable \subseteq {0, 1, 2, 3, 4, 5, 6, 7, 9, 10, 100}

\* A learning that is interrupted again and again doubles m_delta beyond what
\* the threshold bounds: from 2^16 on the sum of the two loses it, and the int
\* overflows in the end.  The model stops before.
ASSUME StepAssumption ==
  /\ CounterStart \in Nat
  /\ m_learningThreshold \in Nat
  /\ MaxDelta \in Nat \ {0}
  /\ FullThreshold + MaxDelta < Width

VARIABLES m_cac_improve, m_cac_wait_counter, m_cac_improve_counter,
          m_cac_history, m_queueLast, switches, announcements

learning == <<m_cac_improve, m_cac_wait_counter, m_cac_improve_counter, m_cac_history>>
vars == <<algorithm, AuthenThreshold, m_delta, m_cac_state, oracle, learning,
          m_queueLast, switches, announcements>>

L == INSTANCE LearningControl WITH
       Algorithm <- algorithm, Algorithms <- Selectable,
       BeaconMillis <- 1, TauMillis <- {}
H == INSTANCE HalvingControl WITH WaitStart <- CounterStart

Init == /\ algorithm \in Selectable
        /\ AuthenThreshold = 0
        /\ m_delta = 1
        /\ m_cac_state = "WAIT"
        /\ m_cac_improve \in BOOLEAN     \* the constructor leaves it unset
        /\ m_cac_wait_counter = CounterStart
        /\ m_cac_improve_counter = CounterStart
        /\ m_cac_history = <<>>
        /\ m_queueLast = 0
        /\ switches = 0 /\ announcements = 0
        /\ OracleInit

-----------------------------------------------------------------------------
Running == m_cac_state # "ABORTED"

\* m_setAlg: a callback of AssAlg sets another algorithm.
AssAlg == /\ Running
          /\ switches < MaxSwitches
          /\ switches' = switches + 1
          /\ algorithm' \in Selectable \ {algorithm}
          /\ UNCHANGED <<AuthenThreshold, m_delta, m_cac_state, oracle, learning,
                         m_queueLast, announcements>>

Scenario == /\ Running
            /\ announcements < MaxAnnouncements
            /\ announcements' = announcements + 1
            /\ Announce
            /\ UNCHANGED <<algorithm, learning, m_queueLast, switches>>

\* Algorithm 100: the agent sets the threshold, in a callback of beaconS1G.
AgentStep == /\ algorithm = 100
             /\ \E thr \in 0 .. Width - 1 : AuthenThreshold' = Store(thr)
             /\ UNCHANGED <<m_delta, m_cac_state, oracle, learning>>

LearningStep(q) == /\ algorithm \in {1, 2, 7, 9, 10}
                   /\ L!Step(q)
                   /\ UNCHANGED oracle

HalvingStep(q) == /\ algorithm = 3
                  /\ H!Step(q)
                  /\ UNCHANGED <<oracle, m_cac_improve_counter, m_cac_history>>

Beacon(q) == /\ Running
             /\ \/ AgentStep
                \/ LearningStep(q)
                \/ HalvingStep(q)
                \/ OracleStep(q) /\ UNCHANGED learning
             /\ m_delta' <= MaxDelta
             /\ m_queueLast' = q
             /\ UNCHANGED <<algorithm, switches, announcements>>

SendOneBeacon == \E q \in QueueSizes : Beacon(q)

Next == AssAlg \/ Scenario \/ SendOneBeacon

\* Beacons keep coming, quiet ones while the queue stays empty.
FairSpec == Init /\ [][Next]_vars /\ WF_vars(Beacon(0))

-----------------------------------------------------------------------------
(* Properties                                                              *)

\* The variables keep their ranges: whatever step and state one controller
\* leaves to another, what a beacon publishes lies in 0 .. FullThreshold.
TypeOK ==
  /\ algorithm \in Selectable
  /\ AuthenThreshold \in 0 .. FullThreshold
  /\ m_delta \in 0 .. MaxDelta
  /\ m_cac_state \in {"WAIT", "LEARN", "WORK", "ABORTED"}
  /\ m_cac_improve \in BOOLEAN
  /\ m_cac_wait_counter \in Int    \* Algorithm_3 goes below 0, once per change
  /\ m_cac_wait_counter <= CounterStart
  /\ m_cac_improve_counter \in 0 .. CounterStart
  /\ m_cac_history \in Seq([threshold : 0 .. FullThreshold - 1, delta : 0 .. MaxDelta])
  /\ m_queueLast \in QueueSizes
  /\ OracleTypeOK

\* A beacon that finds the queue empty lowers the threshold only for a group of
\* stations: it returns to one that was interrupted, or a group has just
\* appeared.  (An agent may do anything.)
QuietClosesForGroups ==
  [][(/\ m_queueLast' = 0
      /\ AuthenThreshold' < AuthenThreshold
      /\ algorithm # 100)
       => \/ Len(m_cac_history') < Len(m_cac_history)
          \/ m_associatingStasAppear /\ ~m_associatingStasAppear'
          \/ m_secondWaveAppear /\ ~m_secondWaveAppear']_vars

\* Algorithm_6 goes beyond the threshold at which the second group appeared
\* only by the step for both groups.
BothGroupsShare ==
  [][(/\ algorithm = 6
      /\ AuthenThreshold' > T1
      /\ AuthenThreshold' > AuthenThreshold)
       => m_delta' = Share(m_nAssociating)]_vars

\* When the queue stays empty the gate is finally fully open, unless the agent
\* is in control, a second group without stations has ended the process, or the
\* step is 0: the only legacy of one controller that stops the next.
QuietOpensOrStuck ==
  <>[](m_queueLast = 0) =>
     \/ <>[](AuthenThreshold = FullThreshold)
     \/ <>[](algorithm = 100)
     \/ <>[](m_delta = 0)
     \/ <>(m_cac_state = "ABORTED" /\ m_nAssociating = firstWave)
=============================================================================
