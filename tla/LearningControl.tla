--------------------------- MODULE LearningControl ---------------------------
(***************************************************************************)
(* The adaptive centralized authentication controllers of the 802.11ah     *)
(* access point: Algorithm_1, _2, _7, _8, _9 and _10 of                    *)
(* src/wifi/model/ap-wifi-mac.cc.                                          *)
(*                                                                         *)
(* Every beacon interval SendOneBeacon reads the size of the management    *)
(* queue, runs one step of the controller and publishes AuthenThreshold in *)
(* the beacon: a station whose random value (0..1022) is below it may      *)
(* start to authenticate.  The six algorithms share the WAIT / LEARN /     *)
(* WORK machine and the stack of interrupted groups; they differ in how a  *)
(* step of WORK reacts to the queue.  One action of this module is one     *)
(* branch of one of the algorithms, together with what SendOneBeacon does  *)
(* around it: the clamp to FullThreshold and the assignment of m_queueLast.*)
(***************************************************************************)
EXTENDS Integers, Sequences

CONSTANTS
  Algorithms,          \* what the attribute "Algorithm" may be set to
  FullThreshold,       \* the constant 1023: every station is admitted
  Width,               \* 2^16: AuthenThreshold is a uint16_t
  CounterStart,        \* the constant 5 of both beacon counters
  QueueSizes,          \* the queue sizes a beacon may find
  m_learningThreshold, \* attribute "LearningThreshold"
  m_newGroupThreshold, \* attribute "NewGroupThreshold"
  BeaconMillis,        \* m_beaconInterval in milliseconds
  TauMillis,           \* what m_tau, when positive, may be in milliseconds
  MaxHistory,          \* bound of the model: depth of the stack
  MaxDelta             \* bound of the model: m_delta (only Algorithm_8 meets it)

ASSUME AlgorithmAssumption == Algorithms \subseteq {1, 2, 7, 8, 9, 10}
ASSUME WidthAssumption ==
  /\ FullThreshold \in Nat \ {0}
  /\ Width \in Nat
  /\ 4 * FullThreshold < Width
ASSUME CounterAssumption == CounterStart \in Nat
ASSUME QueueAssumption ==
  /\ QueueSizes \subseteq Nat
  /\ 0 \in QueueSizes
  /\ m_learningThreshold \in Nat
  /\ m_newGroupThreshold \in Nat
ASSUME TauAssumption ==
  /\ BeaconMillis \in Nat
  /\ TauMillis \subseteq 0 .. BeaconMillis
ASSUME BoundAssumption == MaxHistory \in Nat /\ MaxDelta \in Nat

VARIABLES
  Algorithm,              \* the attribute, set before the first beacon
  AuthenThreshold,        \* the threshold the next beacon publishes
  m_delta,                \* the step by which the gate is opened
  m_cac_state,            \* WAIT, LEARN or WORK; ABORTED: the process died
  m_cac_improve,          \* the last change of m_delta may be repeated
  m_cac_wait_counter,     \* beacons left at the full threshold before WAIT
  m_cac_improve_counter,  \* quiet beacons left before m_delta may grow
  m_cac_history,          \* stack of interrupted groups, top at the end
  m_queueLast             \* the queue size the previous beacon found

vars == <<Algorithm, AuthenThreshold, m_delta, m_cac_state, m_cac_improve,
          m_cac_wait_counter, m_cac_improve_counter, m_cac_history, m_queueLast>>
counters == <<m_cac_wait_counter, m_cac_improve_counter>>

-----------------------------------------------------------------------------
Triplet == [threshold : 0 .. FullThreshold - 1, delta : Nat \ {0}]
Top     == m_cac_history[Len(m_cac_history)]
Popped  == SubSeq(m_cac_history, 1, Len(m_cac_history) - 1)

\* An assignment to the 16-bit AuthenThreshold, and the clamp SendOneBeacon
\* applies before it publishes the value.
Wrap(x)  == x % Width
Clamp_Never(x) == x    \* (variant for TypeOK)
Clamp(x) == IF x >= FullThreshold THEN FullThreshold ELSE x
Store(x) == Clamp(Wrap(x))

AtLeastOne(x) == IF x > 1 THEN x ELSE 1

\* Half the harmonic mean of two steps: the step for two groups at once.
\* (Variant for DeltaBounded: their sum.)
Merge_Sum(d, e) == d + e
Merge(d, e) == AtLeastOne((d * e) \div (d + e))

\* The threshold stays below the one at which the last group was interrupted.
\* (Variants for GroupsNested and QuietNeverCloses: no comparison, and one that
\* forgets the step.)
Room_Always(d) == TRUE
Room_BeforeStep(d) == m_cac_history # <<>> => Top.threshold > AuthenThreshold
Room(d) == m_cac_history # <<>> => Top.threshold > AuthenThreshold + d

\* Back to the interrupted group, with a step for both.  When both steps are 0
\* the division ends the process: no step of these algorithms is, but another
\* algorithm may leave one (SwitchingControl).
Restore(d) ==
  IF d + Top.delta = 0
  THEN /\ m_cac_state' = "ABORTED"
       /\ UNCHANGED <<AuthenThreshold, m_delta, m_cac_improve, m_cac_history>>
  ELSE /\ AuthenThreshold' = Store(Top.threshold)
       /\ m_delta' = Merge(d, Top.delta)
       /\ m_cac_improve' = TRUE
       /\ m_cac_history' = Popped
       /\ UNCHANGED m_cac_state

StartLearning == /\ AuthenThreshold' = 0
                 /\ m_delta' = 1
                 /\ m_cac_improve' = FALSE
                 /\ m_cac_state' = "LEARN"

Init == /\ Algorithm \in Algorithms
        /\ AuthenThreshold = 0
        /\ m_delta = 1
        /\ m_cac_state = "WAIT"
        /\ m_cac_improve \in BOOLEAN     \* the constructor leaves it unset
        /\ m_cac_wait_counter = CounterStart
        /\ m_cac_improve_counter = CounterStart
        /\ m_cac_history = <<>>
        /\ m_queueLast = 0

-----------------------------------------------------------------------------
(* WAIT: the gate is open until the queue says that a group has arrived.   *)

GroupArrived(q) == IF Algorithm \in {7, 10} THEN q > m_learningThreshold
                                            ELSE q # 0

WaitOpen(q) == /\ m_cac_state = "WAIT"
               /\ ~GroupArrived(q)
               /\ AuthenThreshold' = FullThreshold
               /\ UNCHANGED <<m_delta, m_cac_state, m_cac_improve, counters,
                              m_cac_history>>

WaitToLearn(q) == /\ m_cac_state = "WAIT"
                  /\ GroupArrived(q)
                  /\ StartLearning
                  /\ UNCHANGED <<counters, m_cac_history>>

-----------------------------------------------------------------------------
(* LEARN: double the step at every quiet beacon until the queue fills.     *)

LearnDone(q) == /\ m_cac_state = "LEARN"
                /\ q = 0
                /\ AuthenThreshold = FullThreshold
                /\ m_cac_history' = <<>>
                /\ m_cac_state' = "WAIT"
                /\ UNCHANGED <<AuthenThreshold, m_delta, m_cac_improve, counters>>

LearnRaise(q) == /\ m_cac_state = "LEARN"
                 /\ q = 0
                 /\ AuthenThreshold # FullThreshold
                 /\ Room(m_delta)
                 /\ AuthenThreshold' = Store(AuthenThreshold + m_delta)
                 /\ m_delta' = 2 * m_delta
                 /\ m_cac_improve' = TRUE
                 /\ UNCHANGED <<m_cac_state, counters, m_cac_history>>

LearnRestore(q) == /\ m_cac_state = "LEARN"
                   /\ q = 0
                   /\ AuthenThreshold # FullThreshold
                   /\ ~Room(m_delta)
                   /\ Restore(m_delta)
                   /\ UNCHANGED counters

\* (Variant for BusyOpensOnlyByWrap: the step is subtracted before it is cut.)
LearnToWork_Swapped(q) == /\ m_cac_state = "LEARN"
                          /\ q # 0
                          /\ m_cac_improve
                          /\ AuthenThreshold' = Store(AuthenThreshold - m_delta)
                          /\ m_delta' = AtLeastOne(m_delta \div 4)
                          /\ m_cac_state' = "WORK"
                          /\ m_cac_wait_counter' = CounterStart
                          /\ m_cac_improve_counter' = CounterStart
                          /\ UNCHANGED <<m_cac_improve, m_cac_history>>

\* The first busy beacon after a raise ends the learning.  The subtraction is
\* done in the 16-bit AuthenThreshold: from 0 it wraps to Width - 1, which the
\* clamp turns into the full threshold.
LearnToWork(q) == /\ m_cac_state = "LEARN"
                  /\ q # 0
                  /\ m_cac_improve
                  /\ m_delta' = AtLeastOne(m_delta \div 4)
                  /\ AuthenThreshold' = Store(AuthenThreshold - m_delta')
                  /\ m_cac_state' = "WORK"
                  /\ m_cac_wait_counter' = CounterStart
                  /\ m_cac_improve_counter' = CounterStart
                  /\ UNCHANGED <<m_cac_improve, m_cac_history>>

LearnBlocked(q) == /\ m_cac_state = "LEARN"
                   /\ q # 0
                   /\ ~m_cac_improve
                   /\ UNCHANGED <<AuthenThreshold, m_delta, m_cac_state,
                                  m_cac_improve, counters, m_cac_history>>

-----------------------------------------------------------------------------
(* WORK: open the gate by m_delta per quiet beacon, adapting m_delta.      *)

Working == m_cac_state = "WORK" /\ AuthenThreshold # FullThreshold

\* (Variant for QuietOpens: the counter starts again at every beacon.)
WorkCountDown_Restart(q) == /\ m_cac_state = "WORK"
                            /\ AuthenThreshold = FullThreshold
                            /\ m_cac_wait_counter > 0
                            /\ m_cac_wait_counter' = CounterStart
                            /\ UNCHANGED <<AuthenThreshold, m_delta, m_cac_state,
                                           m_cac_improve, m_cac_improve_counter,
                                           m_cac_history>>

WorkCountDown(q) == /\ m_cac_state = "WORK"
                    /\ AuthenThreshold = FullThreshold
                    /\ m_cac_wait_counter > 0
                    /\ m_cac_wait_counter' = m_cac_wait_counter - 1
                    /\ UNCHANGED <<AuthenThreshold, m_delta, m_cac_state,
                                   m_cac_improve, m_cac_improve_counter,
                                   m_cac_history>>

WorkDone(q) == /\ m_cac_state = "WORK"
               /\ AuthenThreshold = FullThreshold
               /\ m_cac_wait_counter <= 0
               /\ m_cac_history' = <<>>
               /\ m_cac_state' = "WAIT"
               /\ UNCHANGED <<AuthenThreshold, m_delta, m_cac_improve, counters>>

\* A quiet beacon: raise the threshold by d, or return to the interrupted
\* group; imp is m_cac_improve when the raise has been made.
RaiseOrRestore(d, imp) ==
  \/ /\ Room(d)
     /\ AuthenThreshold' = Store(AuthenThreshold + d)
     /\ m_delta' = d
     /\ m_cac_improve' = (imp /\ Wrap(AuthenThreshold + d) < FullThreshold)
     /\ UNCHANGED <<m_cac_history, m_cac_state>>
  \/ ~Room(d) /\ Restore(d)

\* Algorithm_1, _2, _7 and _10 wait CounterStart quiet beacons before they
\* set m_cac_improve; Algorithm_2 grows m_delta in any case.
CountedQuiet(q) ==
  LET imp == m_cac_improve \/ m_cac_improve_counter = 0
  IN  /\ Algorithm \in {1, 2, 7, 10}
      /\ Working
      /\ q = 0
      /\ m_cac_improve_counter' =
           IF m_cac_improve_counter > 0 THEN m_cac_improve_counter - 1
                                        ELSE m_cac_improve_counter
      /\ RaiseOrRestore(IF imp \/ Algorithm = 2 THEN m_delta + 1 ELSE m_delta, imp)
      /\ UNCHANGED m_cac_wait_counter

\* Algorithm_8 multiplies m_delta by the number of times m_tau fits in the
\* beacon interval; m_tau is the time from the beacon to the last AssocResp,
\* and zero (ratio 1) when none was sent.
ScaledQuiet(q) ==
  /\ Algorithm = 8
  /\ Working
  /\ q = 0
  /\ \E ratio \in {1} \cup {BeaconMillis \div tau : tau \in TauMillis \ {0}} :
       /\ ratio # 1 => m_cac_improve
       /\ m_delta * ratio <= MaxDelta
       /\ RaiseOrRestore(m_delta * ratio, TRUE)
  /\ UNCHANGED counters

\* An AssocResp within the first millisecond of the interval: the integer
\* division by m_tau.GetMilliSeconds() ends the simulation.
DivideByZero(q) ==
  /\ Algorithm = 8
  /\ Working
  /\ q = 0
  /\ m_cac_improve
  /\ 0 \in TauMillis
  /\ m_cac_state' = "ABORTED"
  /\ UNCHANGED <<AuthenThreshold, m_delta, m_cac_improve, counters, m_cac_history>>

SteadyQuiet(q) ==
  /\ Algorithm = 9
  /\ Working
  /\ q = 0
  /\ RaiseOrRestore(IF m_cac_improve THEN m_delta + 1 ELSE m_delta, TRUE)
  /\ UNCHANGED counters

\* So many requests that a new group must have arrived: push the interrupted
\* group and learn again.  Algorithm_9 has its own constant.
NewGroup(q) == q > (IF Algorithm = 9 THEN 100 ELSE m_newGroupThreshold)

WorkNewGroup(q) == /\ Working
                   /\ q # 0
                   /\ NewGroup(q)
                   /\ Len(m_cac_history) < MaxHistory
                   /\ m_cac_history' = Append(m_cac_history,
                         [threshold |-> AuthenThreshold, delta |-> m_delta])
                   /\ StartLearning
                   /\ UNCHANGED counters

WorkBusy(q) == Working /\ q # 0 /\ ~NewGroup(q)

\* The first busy beacon after quiet ones takes back the last growth.
TakenBack     == m_queueLast = 0 /\ m_cac_improve
ReducedDelta  == IF TakenBack THEN AtLeastOne(m_delta - 1) ELSE m_delta
StillImproves == m_cac_improve /\ m_queueLast # 0

PlainBusy(q) == /\ Algorithm \in {1, 2}
                /\ WorkBusy(q)
                /\ m_cac_improve_counter' = CounterStart
                /\ m_delta' = IF Algorithm = 2 THEN AtLeastOne(m_delta - 1)
                                               ELSE ReducedDelta
                /\ m_cac_improve' = StillImproves
                /\ UNCHANGED <<AuthenThreshold, m_cac_state, m_cac_wait_counter,
                               m_cac_history>>

\* Algorithm_7 and _10 still open the gate by the share of the frames of the
\* last interval that got through: a ratio in (0, 1] of m_delta, at least 1,
\* or nothing when the ratio is negative or not a number.
RatioBusy(q) ==
  /\ Algorithm \in {7, 10}
  /\ WorkBusy(q)
  /\ m_cac_improve_counter' = CounterStart
  /\ \/ /\ m_delta' = ReducedDelta
        /\ m_cac_improve' = StillImproves
        /\ UNCHANGED <<AuthenThreshold, m_cac_history, m_cac_state>>
     \/ \E m_delta_temp \in 1 .. AtLeastOne(ReducedDelta) :
          \/ /\ Room(m_delta_temp)
             /\ AuthenThreshold' = Store(AuthenThreshold + m_delta_temp)
             /\ m_delta' = ReducedDelta
             /\ m_cac_improve' = StillImproves
             /\ UNCHANGED <<m_cac_history, m_cac_state>>
          \/ ~Room(m_delta_temp) /\ Restore(ReducedDelta)
  /\ UNCHANGED m_cac_wait_counter

\* Algorithm_8 shrinks m_delta itself and adds it without looking at the stack.
ShrinkBusy(q) ==
  /\ Algorithm = 8
  /\ WorkBusy(q)
  /\ \/ UNCHANGED <<AuthenThreshold, m_delta>>
     \/ \E d \in 1 .. AtLeastOne(m_delta) : /\ m_delta' = d
                                            /\ AuthenThreshold' = Store(AuthenThreshold + d)
  /\ UNCHANGED <<m_cac_state, m_cac_improve, counters, m_cac_history>>

\* Algorithm_9 reduces m_delta by one for every ten frames in the queue; with
\* five frames or fewer it keeps opening the gate.
BandedBusy(q) ==
  /\ Algorithm = 9
  /\ WorkBusy(q)
  /\ AuthenThreshold' = IF q <= 5 THEN Store(AuthenThreshold + m_delta)
                                  ELSE AuthenThreshold
  /\ m_delta' = IF q <= 10 THEN m_delta
                           ELSE AtLeastOne(m_delta - ((q - 1) \div 10))
  /\ m_cac_improve' = FALSE
  /\ UNCHANGED <<m_cac_state, counters, m_cac_history>>

-----------------------------------------------------------------------------
\* One call of Algorithm_n, whose three cases on m_cac_state these are.
Wait(q)  == WaitOpen(q) \/ WaitToLearn(q)
Learn(q) == \/ LearnDone(q)   \/ LearnRaise(q) \/ LearnRestore(q)
            \/ LearnToWork(q) \/ LearnBlocked(q)
Work(q)  == \/ WorkCountDown(q) \/ WorkDone(q)    \/ WorkNewGroup(q)
            \/ CountedQuiet(q)  \/ ScaledQuiet(q) \/ SteadyQuiet(q)
            \/ PlainBusy(q)     \/ RatioBusy(q)   \/ ShrinkBusy(q)
            \/ BandedBusy(q)    \/ DivideByZero(q)
Step(q)  == Wait(q) \/ Learn(q) \/ Work(q)

SendOneBeacon == /\ \E q \in QueueSizes : Step(q) /\ m_queueLast' = q
                 /\ UNCHANGED Algorithm

Next == SendOneBeacon

Spec == Init /\ [][Next]_vars

\* SendOneBeacon schedules itself one beacon interval later, unconditionally:
\* while the queue stays empty, quiet beacons keep coming.  (What repeats a
\* beacon without any effect is a stuttering step.)
QuietBeacon == Step(0) /\ m_queueLast' = 0 /\ UNCHANGED Algorithm
FairSpec == Spec /\ WF_vars(QuietBeacon)
-----------------------------------------------------------------------------
(* Properties                                                              *)

\* The variables keep their ranges; in particular what a beacon publishes
\* lies between 0 and FullThreshold whatever the 16-bit arithmetic did.
TypeOK ==
  /\ Algorithm \in Algorithms
  /\ AuthenThreshold \in 0 .. FullThreshold
  /\ m_delta \in Nat \ {0}
  /\ m_cac_state \in {"WAIT", "LEARN", "WORK", "ABORTED"}
  /\ m_cac_improve \in BOOLEAN
  /\ m_cac_wait_counter \in 0 .. CounterStart
  /\ m_cac_improve_counter \in 0 .. CounterStart
  /\ m_cac_history \in Seq(Triplet)
  /\ m_queueLast \in QueueSizes

\* A learning of which no quiet beacon has been seen yet.
Relearning == m_cac_state = "LEARN" /\ ~m_cac_improve

\* The algorithms that compare every raise of WORK with the stack; Algorithm_8
\* and _9 raise the threshold on a busy beacon without looking at it.
LooksAtStack == Algorithm \in {1, 2, 7, 10}

\* A group is pushed below the threshold of the one it interrupts, and the
\* threshold in use stays below the top of the stack unless the gate is fully
\* open, which a learning that interrupts a group never does.
Nested ==
  /\ \A i, j \in DOMAIN m_cac_history :
       i < j => m_cac_history[i].threshold > m_cac_history[j].threshold
  /\ m_cac_history # <<>> => \/ AuthenThreshold < Top.threshold
                             \/ AuthenThreshold = FullThreshold
                             \/ AuthenThreshold = 0 /\ Relearning
  /\ m_cac_state = "WAIT" => m_cac_history = <<>>
  /\ m_cac_state = "LEARN" /\ m_cac_history # <<>> => AuthenThreshold # FullThreshold

\* The interrupted groups are nested, whatever sequence of arrivals, raises and
\* returns has built the stack.
GroupsNested == LooksAtStack => Nested

StepWithin == \/ m_delta <= AuthenThreshold + 1
              \/ AuthenThreshold = FullThreshold /\ m_delta <= 2 * FullThreshold

DeltaWithin ==
  /\ StepWithin
  /\ \A i \in DOMAIN m_cac_history :
       m_cac_history[i].delta <= m_cac_history[i].threshold + 1

\* The step never exceeds what the threshold has reached plus one, so that
\* neither AuthenThreshold + m_delta leaves 16 bits nor the product in Merge
\* leaves an int.  Algorithm_8 multiplies its step.
DeltaBounded == Algorithm # 8 => DeltaWithin

\* A beacon that finds the queue empty never lowers the threshold: neither by
\* a wrapped addition nor by returning to an interrupted group.
QuietNeverCloses ==
  [][LooksAtStack /\ m_queueLast' = 0 => AuthenThreshold' >= AuthenThreshold]_vars

\* In Algorithm_1 and _2, outside WAIT, a beacon that finds the queue busy does
\* not raise the threshold, with one exception: the subtraction that ends a
\* learning at threshold 0 wraps and opens the gate completely.
BusyOpensOnlyByWrap ==
  [][(/\ Algorithm \in {1, 2}
      /\ m_queueLast' # 0
      /\ m_cac_state # "WAIT"
      /\ AuthenThreshold' > AuthenThreshold)
       => /\ m_cac_state = "LEARN"
          /\ AuthenThreshold = 0
          /\ AuthenThreshold' = FullThreshold]_vars

\* When the queue stays empty the controller ends up in WAIT with the gate
\* fully open (unless Algorithm_8 has divided by zero).
QuietOpens ==
  <>[](m_queueLast = 0) => \/ <>[](m_cac_state = "WAIT" /\ AuthenThreshold = FullThreshold)
                          \/ <>(m_cac_state = "ABORTED")

=============================================================================
