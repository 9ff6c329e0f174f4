---------------------------- MODULE HalvingControl ----------------------------
(***************************************************************************)
(* Algorithm_3 of src/wifi/model/ap-wifi-mac.cc, the controller an access  *)
(* point uses unless its attribute "Algorithm" is changed.  It looks for a *)
(* step from above: LEARN starts from the full threshold and halves m_delta*)
(* at every attempt, until an attempt leaves the queue empty; WORK then    *)
(* opens the gate by that step per quiet beacon.                           *)
(***************************************************************************)
EXTENDS Integers

CONSTANTS
  FullThreshold,  \* the constant 1023
  Width,          \* 2^16: AuthenThreshold is a uint16_t
  WaitStart,      \* the constant 5 of m_cac_wait_counter
  QueueSizes      \* the queue sizes a beacon may find

ASSUME FullAssumption == FullThreshold \in Nat \ {0}
ASSUME WidthAssumption == Width \in Nat /\ 2 * FullThreshold + 1 < Width
ASSUME WaitAssumption == WaitStart \in Nat \ {0}
ASSUME QueueAssumption == QueueSizes \subseteq Nat /\ 0 \in QueueSizes

VARIABLES AuthenThreshold, m_delta, m_cac_state, m_cac_improve,
          m_cac_wait_counter, m_queueLast

vars == <<AuthenThreshold, m_delta, m_cac_state, m_cac_improve,
          m_cac_wait_counter, m_queueLast>>

Init == /\ AuthenThreshold = 0
        /\ m_delta = 1
        /\ m_cac_state = "WAIT"
        /\ m_cac_improve \in BOOLEAN     \* the constructor leaves it unset
        /\ m_cac_wait_counter = WaitStart
        /\ m_queueLast = 0

-----------------------------------------------------------------------------
\* An assignment to the 16-bit AuthenThreshold, and the clamp of SendOneBeacon.
Wrap(x)  == x % Width
Store(x) == IF Wrap(x) >= FullThreshold THEN FullThreshold ELSE Wrap(x)

WaitOpen(q) == /\ m_cac_state = "WAIT"
               /\ q = 0
               /\ AuthenThreshold' = FullThreshold
               /\ UNCHANGED <<m_delta, m_cac_state, m_cac_improve, m_cac_wait_counter>>

WaitToLearn(q) == /\ m_cac_state = "WAIT"
                  /\ q # 0
                  /\ AuthenThreshold' = 0
                  /\ m_delta' = FullThreshold
                  /\ m_cac_improve' = FALSE
                  /\ m_cac_wait_counter' = WaitStart
                  /\ m_cac_state' = "LEARN"

\* (Variant for NeverWider of HalvingHistory: the failure starts the search
\* again, from the full step.)
LearnFailed_Reset(q) == /\ m_cac_state = "LEARN"
                        /\ AuthenThreshold # 0
                        /\ q # 0
                        /\ AuthenThreshold' = 0
                        /\ m_delta' = FullThreshold
                        /\ UNCHANGED <<m_cac_state, m_cac_improve, m_cac_wait_counter>>

\* The attempt left frames in the queue: shut the gate until it drains.  Nothing but
\* m_delta keeps the size of what was tried.
LearnFailed(q) == /\ m_cac_state = "LEARN"
                  /\ AuthenThreshold # 0
                  /\ q # 0
                  /\ AuthenThreshold' = 0
                  /\ UNCHANGED <<m_delta, m_cac_state, m_cac_improve, m_cac_wait_counter>>

LearnToWork(q) == /\ m_cac_state = "LEARN"
                  /\ AuthenThreshold # 0
                  /\ q = 0
                  /\ m_delta' = m_delta \div 2
                  /\ m_cac_improve' = TRUE
                  /\ m_cac_state' = "WORK"
                  /\ UNCHANGED <<AuthenThreshold, m_cac_wait_counter>>

\* The next attempt, with half the step (an int, halved towards zero).
LearnAttempt(q) == /\ m_cac_state = "LEARN"
                   /\ AuthenThreshold = 0
                   /\ q = 0
                   /\ m_delta' = m_delta \div 2
                   /\ AuthenThreshold' = Store(m_delta')
                   /\ UNCHANGED <<m_cac_state, m_cac_improve, m_cac_wait_counter>>

\* (Variant for AllGetIn of AuthSystem: one failed attempt counts as often as
\* there are beacons until the queue is empty.)
LearnBlocked_Halve(q) == /\ m_cac_state = "LEARN"
                         /\ AuthenThreshold = 0
                         /\ q # 0
                         /\ m_delta' = m_delta \div 2
                         /\ UNCHANGED <<AuthenThreshold, m_cac_state,
                                        m_cac_improve, m_cac_wait_counter>>

LearnBlocked(q) == /\ m_cac_state = "LEARN"
                   /\ AuthenThreshold = 0
                   /\ q # 0
                   /\ UNCHANGED <<AuthenThreshold, m_delta, m_cac_state,
                                  m_cac_improve, m_cac_wait_counter>>

\* (Variant for QuietOpensOrExhausted: the count starts again at every beacon.)
WorkCountDown_Restart(q) ==
  /\ m_cac_state = "WORK"
  /\ AuthenThreshold = FullThreshold
  /\ m_cac_wait_counter' = WaitStart
  /\ UNCHANGED <<AuthenThreshold, m_delta, m_cac_state, m_cac_improve>>

WorkCountDown(q) == /\ m_cac_state = "WORK"
                    /\ AuthenThreshold = FullThreshold
                    /\ m_cac_wait_counter' = m_cac_wait_counter - 1
                    /\ m_cac_state' = IF m_cac_wait_counter' <= 0 THEN "WAIT" ELSE "WORK"
                    /\ UNCHANGED <<AuthenThreshold, m_delta, m_cac_improve>>

\* (Variant for TypeOK: the threshold may pass FullThreshold.)
WorkRaise_Unclamped(q) ==
  /\ m_cac_state = "WORK"
  /\ AuthenThreshold # FullThreshold
  /\ q = 0
  /\ m_delta' = IF m_cac_improve THEN m_delta + 1 ELSE m_delta
  /\ AuthenThreshold' = AuthenThreshold + m_delta'
  /\ UNCHANGED <<m_cac_state, m_cac_improve, m_cac_wait_counter>>

WorkRaise(q) ==
  /\ m_cac_state = "WORK"
  /\ AuthenThreshold # FullThreshold
  /\ q = 0
  /\ m_delta' = IF m_cac_improve THEN m_delta + 1 ELSE m_delta
  /\ LET raised == Wrap(AuthenThreshold + m_delta')
     IN  IF raised >= FullThreshold
         THEN AuthenThreshold' = FullThreshold /\ m_cac_improve' = FALSE
         ELSE AuthenThreshold' = raised /\ UNCHANGED m_cac_improve
  /\ UNCHANGED <<m_cac_state, m_cac_wait_counter>>

\* The first busy beacon after quiet ones takes back the last growth of the
\* step and ends the growing; nothing starts it again before the next LEARN.
WorkBusy(q) ==
  /\ m_cac_state = "WORK"
  /\ AuthenThreshold # FullThreshold
  /\ q # 0
  /\ IF m_queueLast = 0 /\ m_cac_improve
     THEN /\ m_delta' = IF m_delta - 1 > 1 THEN m_delta - 1 ELSE 1
          /\ m_cac_improve' = FALSE
     ELSE UNCHANGED <<m_delta, m_cac_improve>>
  /\ UNCHANGED <<AuthenThreshold, m_cac_state, m_cac_wait_counter>>

Step(q) == \/ WaitOpen(q)      \/ WaitToLearn(q)
           \/ LearnFailed(q)   \/ LearnToWork(q)
           \/ LearnAttempt(q)  \/ LearnBlocked(q)
           \/ WorkCountDown(q) \/ WorkRaise(q)    \/ WorkBusy(q)

SendOneBeacon == \E q \in QueueSizes : Step(q) /\ m_queueLast' = q

Next == SendOneBeacon

Spec == Init /\ [][Next]_vars

\* SendOneBeacon schedules itself one beacon interval later, unconditionally:
\* while the queue stays empty, quiet beacons keep coming.  (What repeats a
\* beacon without any effect is a stuttering step.)
QuietBeacon == Step(0) /\ m_queueLast' = 0

-----------------------------------------------------------------------------
(* Properties                                                              *)

\* The variables keep their ranges, and the step never exceeds the full
\* threshold, so that no sum of the two leaves 16 bits.
TypeOK == /\ AuthenThreshold \in 0 .. FullThreshold
          /\ m_delta \in 0 .. FullThreshold
          /\ m_cac_state \in {"WAIT", "LEARN", "WORK"}
          /\ m_cac_improve \in BOOLEAN
          /\ m_cac_wait_counter \in 0 .. WaitStart
          /\ m_queueLast \in QueueSizes

\* The controller cannot stall in WORK: a step of 0, which the halving can
\* leave, is always about to grow.
WorkAdvances == m_cac_state = "WORK" => m_delta > 0 \/ m_cac_improve

\* Every attempt down to one station congested the queue, and the next
\* halving gave 0: the threshold is 0 and no queue size changes it any more.
Exhausted == m_cac_state = "LEARN" /\ AuthenThreshold = 0 /\ m_delta = 0

\* When the queue stays empty the gate is finally fully open, or the learning
\* is exhausted and the gate stays shut for ever.
QuietOpensOrExhausted ==
  <>[](m_queueLast = 0) =>
     \/ <>[](m_cac_state = "WAIT" /\ AuthenThreshold = FullThreshold)
     \/ <>[]Exhausted
=============================================================================
