------------------------ MODULE LearningControl_proofs ------------------------
(* Safety of the learning controllers for every threshold, width, counter,  *)
(* queue and depth of the stack of interrupted groups; the nesting of the   *)
(* groups in Algorithm_1, _2, _7 and _10.                                   *)
EXTENDS LearningControl, SequenceTheorems, TLAPS

-----------------------------------------------------------------------------
(* The operators of the controllers                                        *)

LEMMA DivNat == ASSUME NEW a \in Nat, NEW b \in Nat \ {0}
                PROVE  a \div b \in Nat
  OBVIOUS

LEMMA DivBound == ASSUME NEW a \in Nat, NEW b \in Nat \ {0}, NEW c \in Nat, a <= c * b
                  PROVE  a \div b <= c
<1>1. b * (a \div b) <= a /\ a \div b \in Nat
  OBVIOUS
<1>2. SUFFICES ASSUME a \div b >= c + 1 PROVE FALSE
  BY <1>1
<1>3. b * (a \div b) >= b * (c + 1)
  BY <1>1, <1>2
<1> QED
  BY <1>1, <1>3

\* What is published lies in 0 .. FullThreshold whatever was computed.
LEMMA StoreBounds == ASSUME NEW x \in Int
                     PROVE  Store(x) \in 0 .. FullThreshold
<1>1. x % Width \in Nat
  BY WidthAssumption
<1> QED
  BY <1>1, WidthAssumption DEF Store, Wrap, Clamp

\* Without overflow the clamp is all that happens.
LEMMA StoreExact == ASSUME NEW x \in 0 .. 2 * FullThreshold
                    PROVE  Store(x) = IF x >= FullThreshold THEN FullThreshold ELSE x
<1>1. x % Width = x
  BY WidthAssumption
<1> QED
  BY <1>1, WidthAssumption DEF Store, Wrap, Clamp

\* Subtracting 1 from the threshold 0 opens the gate.
LEMMA StoreUnderflow == Store(-1) = FullThreshold
<1>1. (-1) % Width = Width - 1
  BY WidthAssumption
<1> QED
  BY <1>1, WidthAssumption DEF Store, Wrap, Clamp

LEMMA AtLeastOneSame == ASSUME NEW x \in Nat \ {0} PROVE AtLeastOne(x) = x
BY DEF AtLeastOne

\* Two merged steps are a step, and no longer than either of them.
LEMMA MergeBounds == ASSUME NEW d \in Nat \ {0}, NEW e \in Nat \ {0}
                     PROVE  /\ Merge(d, e) \in Nat \ {0}
                            /\ Merge(d, e) <= d
                            /\ Merge(d, e) <= e
<1> DEFINE m == (d * e) \div (d + e)
<1>1. d * e \in Nat /\ d + e \in Nat \ {0}
  OBVIOUS
<1>2. d * e <= d * (d + e) /\ d * e <= e * (d + e)
  OBVIOUS
<1>3. m \in Nat /\ m <= d /\ m <= e
  BY <1>1, <1>2, DivNat, DivBound
<1> HIDE DEF m
<1> QED
  BY <1>3 DEF Merge, AtLeastOne, m

\* The two ends of the stack of interrupted groups.
LEMMA PoppedGroups ==
  ASSUME m_cac_history \in Seq(Triplet), m_cac_history # <<>>
  PROVE  /\ Len(m_cac_history) \in Nat \ {0}
         /\ Top \in Triplet
         /\ Popped \in Seq(Triplet)
         /\ Len(Popped) = Len(m_cac_history) - 1
         /\ \A i \in 1 .. Len(m_cac_history) - 1 : Popped[i] = m_cac_history[i]
<1>1. Len(m_cac_history) \in Nat \ {0}
  BY EmptySeq
<1>2. \A i \in 1 .. Len(m_cac_history) : m_cac_history[i] \in Triplet
  BY ElementOfSeq
<1>3. Top \in Triplet
  BY <1>1, <1>2 DEF Top
<1> DEFINE n == Len(m_cac_history) - 1
<1>4. /\ n \in Nat
      /\ \A i \in 1 .. n : m_cac_history[i] \in Triplet
  BY <1>1, <1>2
<1>5. /\ SubSeq(m_cac_history, 1, n) \in Seq(Triplet)
      /\ Len(SubSeq(m_cac_history, 1, n)) = IF 1 <= n THEN n - 1 + 1 ELSE 0
      /\ \A i \in 1 .. n - 1 + 1 : SubSeq(m_cac_history, 1, n)[i] = m_cac_history[1 + i - 1]
  <2> HIDE DEF n
  <2> QED
    BY <1>4, SubSeqProperties
<1>6. /\ Len(SubSeq(m_cac_history, 1, n)) = n
      /\ \A i \in 1 .. n : SubSeq(m_cac_history, 1, n)[i] = m_cac_history[i]
  <2> HIDE DEF n
  <2> QED
    BY <1>4, <1>5
<1> QED
  BY <1>1, <1>3, <1>5, <1>6 DEF Popped

-----------------------------------------------------------------------------
(* Type correctness                                                        *)

\* What the controller computes from the queue, apart from the queue size.
Shape == /\ AuthenThreshold \in 0 .. FullThreshold
         /\ m_delta \in Nat \ {0}
         /\ m_cac_improve \in BOOLEAN
         /\ m_cac_history \in Seq(Triplet)

\* The steps of one algorithm are positive: the merge does not divide by 0.
LEMMA Restores ==
  ASSUME TypeOK, NEW d \in Nat \ {0}, NEW e, ~Room(e), Restore(d)
  PROVE  /\ AuthenThreshold' = Store(Top.threshold)
         /\ m_delta' = Merge(d, Top.delta)
         /\ m_cac_improve' = TRUE
         /\ m_cac_history' = Popped
         /\ m_cac_state' = m_cac_state
<1>1. m_cac_history \in Seq(Triplet) /\ m_cac_history # <<>>
  BY DEF TypeOK, Room
<1>2. Top.delta \in Nat \ {0}
  BY <1>1, PoppedGroups DEF Triplet
<1>3. d + Top.delta # 0
  BY <1>2
<1> QED
  BY <1>3 DEF Restore

LEMMA RestoreType ==
  ASSUME TypeOK, NEW d \in Nat \ {0}, NEW e, ~Room(e), Restore(d)
  PROVE  Shape' /\ m_cac_state' = m_cac_state
<1>1. m_cac_history \in Seq(Triplet) /\ m_cac_history # <<>>
  BY DEF TypeOK, Room
<1>2. /\ Top.threshold \in Int
      /\ Top.delta \in Nat \ {0}
      /\ Popped \in Seq(Triplet)
  BY <1>1, PoppedGroups, WidthAssumption DEF Triplet
<1>3. /\ AuthenThreshold' = Store(Top.threshold)
      /\ m_delta' = Merge(d, Top.delta)
      /\ m_cac_improve' = TRUE
      /\ m_cac_history' = Popped
      /\ m_cac_state' = m_cac_state
  BY Restores
<1> QED
  BY <1>2, <1>3, StoreBounds, MergeBounds DEF Shape

LEMMA RaiseOrRestoreType ==
  ASSUME TypeOK, NEW d \in Nat \ {0}, NEW imp \in BOOLEAN, RaiseOrRestore(d, imp)
  PROVE  Shape' /\ m_cac_state' = m_cac_state
<1>1. CASE ~Room(d) /\ Restore(d)
  BY <1>1, RestoreType
<1>2. CASE /\ Room(d)
           /\ AuthenThreshold' = Store(AuthenThreshold + d)
           /\ m_delta' = d
           /\ m_cac_improve' = (imp /\ Wrap(AuthenThreshold + d) < FullThreshold)
           /\ UNCHANGED <<m_cac_history, m_cac_state>>
  <2>1. AuthenThreshold + d \in Int
    BY DEF TypeOK
  <2>2. m_cac_improve' \in BOOLEAN
    BY <1>2
  <2>3. AuthenThreshold' \in 0 .. FullThreshold
    BY <1>2, <2>1, StoreBounds
  <2> QED
    BY <1>2, <2>2, <2>3 DEF TypeOK, Shape
<1> QED
  BY <1>1, <1>2 DEF RaiseOrRestore

LEMMA StartLearningType ==
  ASSUME StartLearning
  PROVE  /\ AuthenThreshold' \in 0 .. FullThreshold
         /\ m_delta' \in Nat \ {0}
         /\ m_cac_improve' \in BOOLEAN
<1>1. m_cac_improve' \in BOOLEAN
  BY DEF StartLearning
<1> QED
  BY <1>1, WidthAssumption DEF StartLearning

LEMMA NextTypeOK == TypeOK /\ [Next]_vars => TypeOK'
<1> SUFFICES ASSUME TypeOK, [Next]_vars PROVE TypeOK'
  OBVIOUS
<1>1. CASE UNCHANGED vars
  BY <1>1 DEF vars, counters, TypeOK
<1>2. ASSUME NEW q \in QueueSizes, Step(q), m_queueLast' = q, UNCHANGED Algorithm
      PROVE  TypeOK'
  <2> SUFFICES /\ Shape'
               /\ m_cac_state' \in {"WAIT", "LEARN", "WORK", "ABORTED"}
               /\ m_cac_wait_counter' \in 0 .. CounterStart
               /\ m_cac_improve_counter' \in 0 .. CounterStart
    BY <1>2 DEF Shape, TypeOK
  <2> USE CounterAssumption DEF TypeOK, counters
  <2>1. CASE WaitOpen(q)
    BY <2>1, WidthAssumption DEF WaitOpen, Shape
  <2>2. CASE WaitToLearn(q)
    <3>1. StartLearning
      BY <2>2 DEF WaitToLearn
    <3> QED
      BY <2>2, <3>1, StartLearningType DEF WaitToLearn, StartLearning, Shape
  <2>3. CASE LearnDone(q)
    BY <2>3, EmptySeq DEF LearnDone, Shape
  <2>4. CASE LearnRaise(q)
    <3>1. AuthenThreshold + m_delta \in Int /\ 2 * m_delta \in Nat \ {0}
      OBVIOUS
    <3>2. m_cac_improve' \in BOOLEAN
      BY <2>4 DEF LearnRaise
    <3> QED
      BY <2>4, <3>1, <3>2, StoreBounds DEF LearnRaise, Shape
  <2>5. CASE LearnRestore(q)
    <3>1. Shape' /\ m_cac_state' = m_cac_state
      BY <2>5, RestoreType DEF LearnRestore
    <3> QED
      BY <2>5, <3>1 DEF LearnRestore
  <2>6. CASE LearnToWork(q)
    <3>1. m_delta' \in Nat \ {0}
      BY <2>6, DivNat DEF LearnToWork, AtLeastOne
    <3>2. AuthenThreshold - m_delta' \in Int
      BY <3>1
    <3>3. AuthenThreshold' \in 0 .. FullThreshold
      BY <2>6, <3>2, StoreBounds DEF LearnToWork
    <3> QED
      BY <2>6, <3>1, <3>3 DEF LearnToWork, Shape
  <2>7. CASE LearnBlocked(q)
    BY <2>7 DEF LearnBlocked, Shape
  <2>8. CASE WorkCountDown(q)
    BY <2>8 DEF WorkCountDown, Shape
  <2>9. CASE WorkDone(q)
    BY <2>9, EmptySeq DEF WorkDone, Shape
  <2>10. CASE WorkNewGroup(q)
    <3> DEFINE group == [threshold |-> AuthenThreshold, delta |-> m_delta]
    <3>1. group \in Triplet
      BY <2>10, WidthAssumption DEF WorkNewGroup, Working, Triplet
    <3>2. m_cac_history' = Append(m_cac_history, group) /\ StartLearning
      BY <2>10 DEF WorkNewGroup
    <3>3. m_cac_history' \in Seq(Triplet)
      <4> HIDE DEF group
      <4> QED
        BY <3>1, <3>2, AppendProperties
    <3> QED
      BY <2>10, <3>2, <3>3, StartLearningType DEF WorkNewGroup, StartLearning, Shape
  <2>11. CASE CountedQuiet(q)
    <3> DEFINE imp == m_cac_improve \/ m_cac_improve_counter = 0
    <3> DEFINE d == IF imp \/ Algorithm = 2 THEN m_delta + 1 ELSE m_delta
    <3>1. d \in Nat \ {0} /\ imp \in BOOLEAN /\ RaiseOrRestore(d, imp)
      BY <2>11 DEF CountedQuiet
    <3>2. Shape' /\ m_cac_state' = m_cac_state
      <4> HIDE DEF d, imp
      <4> QED
        BY <3>1, RaiseOrRestoreType
    <3> QED
      BY <2>11, <3>2 DEF CountedQuiet
  <2>12. CASE ScaledQuiet(q)
    <3>1. PICK ratio \in {1} \cup {BeaconMillis \div tau : tau \in TauMillis \ {0}} :
            RaiseOrRestore(m_delta * ratio, TRUE)
      BY <2>12 DEF ScaledQuiet
    <3>2. \A tau \in TauMillis \ {0} : BeaconMillis \div tau \in Nat \ {0}
      <4> TAKE tau \in TauMillis \ {0}
      <4>1. tau \in 1 .. BeaconMillis /\ BeaconMillis \in Nat
        BY TauAssumption
      <4> QED
        BY <4>1
    <3>3. ratio \in Nat \ {0}
      BY <3>2
    <3>4. m_delta * ratio \in Nat \ {0}
      BY <3>3
    <3>5. Shape' /\ m_cac_state' = m_cac_state
      BY <3>1, <3>4, RaiseOrRestoreType
    <3> QED
      BY <2>12, <3>5 DEF ScaledQuiet
  <2>13. CASE SteadyQuiet(q)
    <3> DEFINE d == IF m_cac_improve THEN m_delta + 1 ELSE m_delta
    <3>1. d \in Nat \ {0}
      OBVIOUS
    <3>2. RaiseOrRestore(d, TRUE)
      BY <2>13 DEF SteadyQuiet
    <3>3. Shape' /\ m_cac_state' = m_cac_state
      <4> HIDE DEF d
      <4> QED
        BY <3>1, <3>2, RaiseOrRestoreType
    <3> QED
      BY <2>13, <3>3 DEF SteadyQuiet
  <2>14. CASE PlainBusy(q)
    <3>1. m_delta' \in Nat \ {0}
      BY <2>14 DEF PlainBusy, ReducedDelta, AtLeastOne
    <3>2. m_cac_improve' \in BOOLEAN
      BY <2>14 DEF PlainBusy, StillImproves
    <3> QED
      BY <2>14, <3>1, <3>2 DEF PlainBusy, Shape
  <2>15. CASE RatioBusy(q)
    <3>1. ReducedDelta \in Nat \ {0} /\ StillImproves \in BOOLEAN
      BY DEF ReducedDelta, StillImproves, AtLeastOne
    <3>2. ASSUME m_delta' = ReducedDelta,
                 m_cac_improve' = StillImproves,
                 UNCHANGED <<AuthenThreshold, m_cac_history, m_cac_state>>
          PROVE  Shape' /\ m_cac_state' = m_cac_state
      BY <3>1, <3>2 DEF Shape
    <3>3. ASSUME NEW m_delta_temp \in 1 .. ReducedDelta,
                 /\ AuthenThreshold' = Store(AuthenThreshold + m_delta_temp)
                 /\ m_delta' = ReducedDelta
                 /\ m_cac_improve' = StillImproves
                 /\ UNCHANGED <<m_cac_history, m_cac_state>>
          PROVE  Shape' /\ m_cac_state' = m_cac_state
      <4>1. AuthenThreshold + m_delta_temp \in Int
        OBVIOUS
      <4> QED
        BY <3>1, <3>3, <4>1, StoreBounds DEF Shape
    <3>4. ASSUME NEW m_delta_temp \in 1 .. ReducedDelta,
                 ~Room(m_delta_temp) /\ Restore(ReducedDelta)
          PROVE  Shape' /\ m_cac_state' = m_cac_state
      BY <3>1, <3>4, RestoreType
    <3>5. Shape' /\ m_cac_state' = m_cac_state
      BY <2>15, <3>1, <3>2, <3>3, <3>4, AtLeastOneSame DEF RatioBusy
    <3> QED
      BY <2>15, <3>5 DEF RatioBusy
  <2>16. CASE ShrinkBusy(q)
    <3>1. ASSUME UNCHANGED <<AuthenThreshold, m_delta>>
          PROVE  Shape'
      BY <2>16, <3>1 DEF ShrinkBusy, Shape
    <3>2. ASSUME NEW d \in 1 .. m_delta, m_delta' = d,
                 AuthenThreshold' = Store(AuthenThreshold + d)
          PROVE  Shape'
      <4>1. AuthenThreshold + d \in Int
        OBVIOUS
      <4> QED
        BY <2>16, <3>2, <4>1, StoreBounds DEF ShrinkBusy, Shape
    <3>3. Shape'
      BY <2>16, <3>1, <3>2, AtLeastOneSame DEF ShrinkBusy, Shape
    <3> QED
      BY <2>16, <3>3 DEF ShrinkBusy
  <2>17. CASE BandedBusy(q)
    <3>1. AuthenThreshold + m_delta \in Int /\ (q - 1) \div 10 \in Int
      BY QueueAssumption
    <3>2. m_delta' \in Nat \ {0}
      BY <2>17, <3>1 DEF BandedBusy, AtLeastOne
    <3>3. AuthenThreshold' \in 0 .. FullThreshold
      BY <2>17, <3>1, StoreBounds DEF BandedBusy
    <3>4. m_cac_improve' \in BOOLEAN
      BY <2>17 DEF BandedBusy
    <3> QED
      BY <2>17, <3>2, <3>3, <3>4 DEF BandedBusy, Shape
  <2>18. CASE DivideByZero(q)
    BY <2>18 DEF DivideByZero, Shape
  <2> QED
    BY <1>2, <2>1, <2>2, <2>3, <2>4, <2>5, <2>6, <2>7, <2>8, <2>9, <2>10, <2>11,
       <2>12, <2>13, <2>14, <2>15, <2>16, <2>17, <2>18
    DEF Step, Wait, Learn, Work
<1> QED
  BY <1>1, <1>2 DEF Next, SendOneBeacon

LEMMA TypeInit == Init => TypeOK
BY WidthAssumption, CounterAssumption, QueueAssumption, EmptySeq DEF Init, TypeOK

\* For each of the six algorithms and whatever the queue does, what a beacon
\* publishes lies in 0 .. FullThreshold and the step stays positive.
THEOREM TypeCorrect == Spec => []TypeOK
BY TypeInit, NextTypeOK, PTL DEF Spec

-----------------------------------------------------------------------------
(* The step of the controller is bounded by the threshold                  *)

LEMMA RestoreDelta ==
  ASSUME TypeOK, DeltaWithin, NEW d \in Nat \ {0}, ~Room(d), Restore(d)
  PROVE  DeltaWithin'
<1> DEFINE n == Len(m_cac_history)
<1>1. m_cac_history \in Seq(Triplet) /\ m_cac_history # <<>>
  BY DEF TypeOK, Room
<1>2. /\ n \in Nat \ {0}
      /\ DOMAIN m_cac_history = 1 .. n
      /\ Top = m_cac_history[n]
      /\ Top \in Triplet
      /\ Popped \in Seq(Triplet)
      /\ Len(Popped) = n - 1
      /\ \A i \in 1 .. n - 1 : Popped[i] = m_cac_history[i]
  BY <1>1, PoppedGroups, LenProperties DEF Top
<1>3. DOMAIN Popped = 1 .. n - 1
  BY <1>2, LenProperties
<1> HIDE DEF n
<1>4. /\ Top.threshold \in 0 .. FullThreshold - 1
      /\ Top.delta \in Nat \ {0}
      /\ Top.delta <= Top.threshold + 1
  BY <1>2 DEF DeltaWithin, Triplet
<1>5. AuthenThreshold' = Top.threshold
  <2>1. AuthenThreshold' = Store(Top.threshold)
    BY Restores
  <2> QED
    BY <1>4, <2>1, StoreExact, WidthAssumption
<1>6. m_delta' \in Nat /\ m_delta' <= Top.delta
  BY <1>4, Restores, MergeBounds
<1>7. \A i \in DOMAIN Popped : Popped[i].delta <= Popped[i].threshold + 1
  BY <1>2, <1>3 DEF DeltaWithin
<1>8. m_delta' <= AuthenThreshold' + 1
  BY <1>4, <1>5, <1>6
<1> QED
  BY <1>7, <1>8, Restores DEF DeltaWithin, StepWithin

\* A raise of a threshold that is not yet full neither wraps nor lowers it.
LEMMA RaiseExact ==
  ASSUME TypeOK, DeltaWithin, AuthenThreshold # FullThreshold,
         NEW d \in 1 .. m_delta + 1
  PROVE  /\ Store(AuthenThreshold + d) =
              IF AuthenThreshold + d >= FullThreshold THEN FullThreshold
                                                      ELSE AuthenThreshold + d
         /\ d <= AuthenThreshold + 2
         /\ AuthenThreshold < FullThreshold
<1>1. m_delta <= AuthenThreshold + 1 /\ AuthenThreshold < FullThreshold
  BY WidthAssumption DEF TypeOK, DeltaWithin, StepWithin
<1>2. d \in Nat /\ d <= AuthenThreshold + 2
  BY <1>1 DEF TypeOK
<1>3. AuthenThreshold + d \in 0 .. 2 * FullThreshold
  BY <1>1, <1>2, WidthAssumption DEF TypeOK
<1> QED
  BY <1>1, <1>2, <1>3, StoreExact

LEMMA RaiseOrRestoreDelta ==
  ASSUME TypeOK, DeltaWithin, AuthenThreshold # FullThreshold,
         NEW d \in 1 .. m_delta + 1, NEW imp \in BOOLEAN, RaiseOrRestore(d, imp)
  PROVE  DeltaWithin'
<1>1. d \in Nat \ {0}
  BY DEF TypeOK
<1>2. CASE ~Room(d) /\ Restore(d)
  BY <1>1, <1>2, RestoreDelta
<1>3. CASE /\ AuthenThreshold' = Store(AuthenThreshold + d)
           /\ m_delta' = d
           /\ UNCHANGED m_cac_history
  <2>1. AuthenThreshold \in 0 .. FullThreshold /\ FullThreshold \in Nat \ {0}
    BY WidthAssumption DEF TypeOK
  <2>2. d \in Nat /\ d <= AuthenThreshold + 2 /\ AuthenThreshold < FullThreshold
    BY <1>1, RaiseExact
  <2>3. AuthenThreshold' = IF AuthenThreshold + d >= FullThreshold THEN FullThreshold
                                                                  ELSE AuthenThreshold + d
    BY <1>3, RaiseExact
  <2>4. StepWithin'
    BY <1>3, <2>1, <2>2, <2>3 DEF StepWithin
  <2> QED
    BY <1>3, <2>4 DEF DeltaWithin
<1> QED
  BY <1>2, <1>3 DEF RaiseOrRestore

LEMMA RaiseBounds ==
  ASSUME TypeOK, DeltaWithin, AuthenThreshold # FullThreshold,
         NEW d \in 1 .. m_delta + 1
  PROVE  Store(AuthenThreshold + d) \in AuthenThreshold .. FullThreshold
<1>1. AuthenThreshold \in 0 .. FullThreshold /\ FullThreshold \in Nat /\ d \in Nat
  BY WidthAssumption DEF TypeOK
<1> QED
  BY <1>1, RaiseExact

LEMMA AtLeastOneBounds ==
  ASSUME NEW x \in Nat \ {0}, NEW k \in Nat
  PROVE  AtLeastOne(x - k) \in 1 .. x
BY DEF AtLeastOne

LEMMA ReducedBounds == ASSUME TypeOK PROVE ReducedDelta \in 1 .. m_delta
<1>1. m_delta \in Nat \ {0}
  BY DEF TypeOK
<1>2. AtLeastOne(m_delta - 1) \in 1 .. m_delta
  BY <1>1, AtLeastOneBounds
<1> QED
  BY <1>1, <1>2 DEF ReducedDelta

\* A busy beacon that only shrinks the step or opens the gate.
LEMMA ShrunkDelta ==
  ASSUME TypeOK, DeltaWithin, m_delta' \in 1 .. m_delta,
         AuthenThreshold' \in AuthenThreshold .. FullThreshold \/ UNCHANGED AuthenThreshold,
         UNCHANGED m_cac_history
  PROVE  DeltaWithin'
<1>1. /\ AuthenThreshold \in 0 .. FullThreshold
      /\ FullThreshold \in Nat
      /\ m_delta \in Nat
      /\ StepWithin
  BY WidthAssumption DEF TypeOK, DeltaWithin
<1>2. StepWithin'
  BY <1>1 DEF StepWithin
<1> QED
  BY <1>2 DEF DeltaWithin

LEMMA NextDeltaWithin ==
  ASSUME Algorithm # 8, TypeOK, DeltaWithin, [Next]_vars
  PROVE  DeltaWithin'
<1>1. CASE UNCHANGED vars
  BY <1>1 DEF vars, counters, DeltaWithin, StepWithin
<1>2. ASSUME NEW q \in QueueSizes, Step(q) PROVE DeltaWithin'
  <2>1. CASE WaitOpen(q)
    BY <2>1, WidthAssumption DEF WaitOpen, TypeOK, DeltaWithin, StepWithin
  <2>2. CASE WaitToLearn(q)
    BY <2>2 DEF WaitToLearn, StartLearning, DeltaWithin, StepWithin
  <2>3. CASE LearnDone(q)
    BY <2>3, EmptySeq DEF LearnDone, DeltaWithin, StepWithin
  <2>4. CASE LearnRaise(q)
    <3>1. /\ m_delta \in 1 .. m_delta + 1
          /\ AuthenThreshold # FullThreshold
      BY <2>4 DEF LearnRaise, TypeOK
    <3>2. /\ AuthenThreshold' = IF AuthenThreshold + m_delta >= FullThreshold
                                THEN FullThreshold ELSE AuthenThreshold + m_delta
          /\ m_delta' = 2 * m_delta
          /\ m_delta <= AuthenThreshold + 1
      BY <2>4, <3>1, RaiseExact, WidthAssumption
      DEF LearnRaise, TypeOK, DeltaWithin, StepWithin
    <3>3. AuthenThreshold < FullThreshold
      BY <3>1, RaiseExact
    <3>4. \/ m_delta' <= AuthenThreshold' + 1
          \/ AuthenThreshold' = FullThreshold /\ m_delta' <= 2 * FullThreshold
      BY <3>2, <3>3, WidthAssumption DEF TypeOK
    <3> QED
      BY <2>4, <3>4 DEF LearnRaise, DeltaWithin, StepWithin
  <2>5. CASE LearnRestore(q)
    BY <2>5, RestoreDelta DEF LearnRestore, TypeOK
  <2>6. CASE LearnToWork(q)
    <3>1. /\ m_delta \in Nat \ {0}
          /\ AuthenThreshold \in 0 .. FullThreshold
          /\ FullThreshold \in Nat \ {0}
          /\ m_delta <= AuthenThreshold + 1 \/ m_delta <= 2 * AuthenThreshold
      BY WidthAssumption DEF TypeOK, DeltaWithin, StepWithin
    <3>2. m_delta' = IF m_delta \div 4 > 1 THEN m_delta \div 4 ELSE 1
      BY <2>6 DEF LearnToWork, AtLeastOne
    <3>3. m_delta' = 1 \/ (m_delta' \in Nat /\ 2 * m_delta' <= AuthenThreshold)
      BY <3>1, <3>2
    <3>4. CASE AuthenThreshold = 0
      <4>1. AuthenThreshold - m_delta' = -1 /\ m_delta' = 1
        BY <3>1, <3>2, <3>4
      <4>2. AuthenThreshold' = FullThreshold
        BY <2>6, <4>1, StoreUnderflow DEF LearnToWork
      <4>3. StepWithin'
        BY <3>1, <4>1, <4>2 DEF StepWithin
      <4> QED
        BY <2>6, <4>3 DEF LearnToWork, DeltaWithin
    <3>5. CASE AuthenThreshold > 0
      <4>1. AuthenThreshold - m_delta' \in 0 .. FullThreshold
        BY <3>1, <3>3, <3>5
      <4>2. m_delta' <= AuthenThreshold - m_delta' + 1
        BY <3>1, <3>3, <3>5
      <4>3. AuthenThreshold' = AuthenThreshold - m_delta'
        <5>1. AuthenThreshold - m_delta' \in 0 .. 2 * FullThreshold
          BY <3>1, <4>1
        <5>2. AuthenThreshold' = Store(AuthenThreshold - m_delta')
          BY <2>6 DEF LearnToWork
        <5>3. AuthenThreshold - m_delta' >= FullThreshold
                => AuthenThreshold - m_delta' = FullThreshold
          BY <3>1, <4>1
        <5> DEFINE x == AuthenThreshold - m_delta'
        <5> HIDE DEF x
        <5>4. Store(x) = IF x >= FullThreshold THEN FullThreshold ELSE x
          BY <5>1, StoreExact DEF x
        <5>5. x >= FullThreshold => x = FullThreshold
          BY <5>3 DEF x
        <5> QED
          BY <5>2, <5>4, <5>5 DEF x
      <4>4. StepWithin'
        BY <4>2, <4>3 DEF StepWithin
      <4> QED
        BY <2>6, <4>4 DEF LearnToWork, DeltaWithin
    <3> QED
      BY <3>1, <3>4, <3>5
  <2>7. CASE LearnBlocked(q)
    BY <2>7 DEF LearnBlocked, DeltaWithin, StepWithin
  <2>8. CASE WorkCountDown(q)
    BY <2>8 DEF WorkCountDown, DeltaWithin, StepWithin
  <2>9. CASE WorkDone(q)
    BY <2>9, EmptySeq DEF WorkDone, DeltaWithin, StepWithin
  <2>10. CASE WorkNewGroup(q)
    <3> DEFINE group == [threshold |-> AuthenThreshold, delta |-> m_delta]
    <3>1. group \in Triplet /\ group.delta <= group.threshold + 1
      BY <2>10, WidthAssumption
      DEF WorkNewGroup, Working, Triplet, TypeOK, DeltaWithin, StepWithin
    <3>2. m_cac_history' = Append(m_cac_history, group)
      BY <2>10 DEF WorkNewGroup
    <3>3. \A i \in DOMAIN m_cac_history' :
            m_cac_history'[i].delta <= m_cac_history'[i].threshold + 1
      <4>1. m_cac_history \in Seq(Triplet)
        BY DEF TypeOK
      <4> HIDE DEF group
      <4>2. /\ m_cac_history' \in Seq(Triplet)
            /\ Len(m_cac_history) \in Nat
            /\ Len(m_cac_history') = Len(m_cac_history) + 1
            /\ DOMAIN m_cac_history' = 1 .. Len(m_cac_history')
            /\ DOMAIN m_cac_history = 1 .. Len(m_cac_history)
            /\ \A i \in 1 .. Len(m_cac_history) : m_cac_history'[i] = m_cac_history[i]
            /\ m_cac_history'[Len(m_cac_history) + 1] = group
        BY <3>1, <3>2, <4>1, AppendProperties, LenProperties
      <4> QED
        BY <3>1, <4>2 DEF DeltaWithin
    <3> QED
      BY <2>10, <3>3 DEF WorkNewGroup, StartLearning, DeltaWithin, StepWithin
  <2>11. CASE CountedQuiet(q)
    <3> DEFINE imp == m_cac_improve \/ m_cac_improve_counter = 0
    <3> DEFINE d == IF imp \/ Algorithm = 2 THEN m_delta + 1 ELSE m_delta
    <3>1. /\ d \in 1 .. m_delta + 1
          /\ imp \in BOOLEAN
          /\ RaiseOrRestore(d, imp)
          /\ AuthenThreshold # FullThreshold
      BY <2>11 DEF CountedQuiet, Working, TypeOK
    <3> HIDE DEF d, imp
    <3> QED
      BY <3>1, RaiseOrRestoreDelta
  <2>12. CASE SteadyQuiet(q)
    <3> DEFINE d == IF m_cac_improve THEN m_delta + 1 ELSE m_delta
    <3>1. d \in 1 .. m_delta + 1
      BY DEF TypeOK
    <3>2. RaiseOrRestore(d, TRUE) /\ AuthenThreshold # FullThreshold
      BY <2>12 DEF SteadyQuiet, Working
    <3> HIDE DEF d
    <3> QED
      BY <3>1, <3>2, RaiseOrRestoreDelta
  <2>13. CASE PlainBusy(q)
    <3>1. m_delta' \in 1 .. m_delta
      BY <2>13, ReducedBounds, AtLeastOneBounds DEF PlainBusy, TypeOK
    <3>2. UNCHANGED <<AuthenThreshold, m_cac_history>>
      BY <2>13 DEF PlainBusy
    <3> QED
      BY <3>1, <3>2, ShrunkDelta DEF TypeOK
  <2>14. CASE RatioBusy(q)
    <3>1. ReducedDelta \in 1 .. m_delta
      BY ReducedBounds
    <3>2. AuthenThreshold # FullThreshold
      BY <2>14 DEF RatioBusy, WorkBusy, Working
    <3>3. ASSUME m_delta' = ReducedDelta, UNCHANGED <<AuthenThreshold, m_cac_history>>
          PROVE  DeltaWithin'
      BY <3>1, <3>3, ShrunkDelta DEF TypeOK
    <3>4. ASSUME NEW m_delta_temp \in 1 .. ReducedDelta,
                 AuthenThreshold' = Store(AuthenThreshold + m_delta_temp),
                 m_delta' = ReducedDelta,
                 UNCHANGED m_cac_history
          PROVE  DeltaWithin'
      <4>1. m_delta_temp \in 1 .. m_delta + 1
        BY <3>1 DEF TypeOK
      <4>2. AuthenThreshold' \in AuthenThreshold .. FullThreshold
        BY <3>4, <4>1, <3>2, RaiseBounds
      <4> QED
        BY <3>1, <3>4, <4>2, ShrunkDelta
    <3>5. ASSUME NEW m_delta_temp \in 1 .. ReducedDelta,
                 ~Room(m_delta_temp), Restore(ReducedDelta)
          PROVE  DeltaWithin'
      <4>1. m_cac_history # <<>> /\ ~(Top.threshold > AuthenThreshold + m_delta_temp)
        BY <3>5 DEF Room
      <4>2. Top.threshold \in Int
        BY <4>1, PoppedGroups DEF Triplet, TypeOK
      <4>3. ~Room(ReducedDelta)
        BY <3>1, <4>1, <4>2 DEF Room, TypeOK
      <4> QED
        BY <3>1, <3>5, <4>3, RestoreDelta DEF TypeOK
    <3>6. ReducedDelta \in Nat \ {0}
      BY <3>1 DEF TypeOK
    <3> QED
      BY <2>14, <3>3, <3>4, <3>5, <3>6, AtLeastOneSame DEF RatioBusy
  <2>15. CASE BandedBusy(q)
    <3>1. AuthenThreshold # FullThreshold
      BY <2>15 DEF BandedBusy, WorkBusy, Working
    <3>2. AuthenThreshold' \in AuthenThreshold .. FullThreshold
      <4>1. CASE q <= 5
        <5>1. AuthenThreshold' = Store(AuthenThreshold + m_delta)
          BY <2>15, <4>1 DEF BandedBusy
        <5>2. m_delta \in 1 .. m_delta + 1
          BY DEF TypeOK
        <5> QED
          BY <3>1, <5>1, <5>2, RaiseBounds
      <4>2. CASE ~(q <= 5)
        BY <2>15, <4>2, WidthAssumption DEF BandedBusy, TypeOK
      <4> QED
        BY <4>1, <4>2
    <3>3. m_delta' \in 1 .. m_delta
      <4>1. CASE q <= 10
        BY <2>15, <4>1 DEF BandedBusy, TypeOK
      <4>2. CASE ~(q <= 10)
        <5> DEFINE k == (q - 1) \div 10
        <5>1. k \in Nat
          BY <4>2, QueueAssumption
        <5>2. m_delta' = AtLeastOne(m_delta - k)
          BY <2>15, <4>2 DEF BandedBusy
        <5> HIDE DEF k
        <5> QED
          BY <5>1, <5>2, AtLeastOneBounds DEF TypeOK
      <4> QED
        BY <4>1, <4>2
    <3>4. UNCHANGED m_cac_history
      BY <2>15 DEF BandedBusy
    <3> QED
      BY <3>2, <3>3, <3>4, ShrunkDelta
  <2>16. CASE ScaledQuiet(q)
    BY <2>16 DEF ScaledQuiet
  <2>17. CASE ShrinkBusy(q)
    BY <2>17 DEF ShrinkBusy
  <2>18. CASE DivideByZero(q)
    BY <2>18 DEF DivideByZero
  <2> QED
    BY <1>2, <2>1, <2>2, <2>3, <2>4, <2>5, <2>6, <2>7, <2>8, <2>9, <2>10, <2>11,
       <2>12, <2>13, <2>14, <2>15, <2>16, <2>17, <2>18
    DEF Step, Wait, Learn, Work
<1> QED
  BY <1>1, <1>2 DEF Next, SendOneBeacon

\* The invariant behind StepBounded.
DeltaInv == TypeOK /\ (Algorithm # 8 => DeltaWithin)

LEMMA DeltaInvariant == Spec => []DeltaInv
<1>1. Init => DeltaInv
  BY TypeInit, EmptySeq DEF Init, DeltaInv, DeltaWithin, StepWithin
<1>2. DeltaInv /\ [Next]_vars => DeltaInv'
  <2>1. [Next]_vars => Algorithm' = Algorithm
    BY DEF Next, SendOneBeacon, vars
  <2> QED
    BY <2>1, NextTypeOK, NextDeltaWithin DEF DeltaInv
<1> QED
  BY <1>1, <1>2, PTL DEF Spec

\* Whatever the queue does, the step stays within what the threshold has
\* reached plus one (Algorithm_8, which multiplies it, excepted).
THEOREM StepBounded == Spec => []DeltaBounded
<1>1. DeltaInv => DeltaBounded
  BY DEF DeltaInv, DeltaBounded
<1> QED
  BY <1>1, DeltaInvariant, PTL

-----------------------------------------------------------------------------
(* What the steps do to the stack and the threshold                        *)

\* Every group interrupted the one pushed before it at a lower threshold.
Decreasing(h) == \A i, j \in DOMAIN h : i < j => h[i].threshold > h[j].threshold

\* The threshold in use lies below the group on top of the stack.
BelowTop == m_cac_history # <<>> => AuthenThreshold < Top.threshold

LEMMA NestedParts ==
  Nested <=>
    /\ Decreasing(m_cac_history)
    /\ m_cac_history # <<>> => \/ AuthenThreshold < Top.threshold
                               \/ AuthenThreshold = FullThreshold
                               \/ AuthenThreshold = 0 /\ Relearning
    /\ m_cac_state = "WAIT" => m_cac_history = <<>>
    /\ m_cac_state = "LEARN" /\ m_cac_history # <<>> => AuthenThreshold # FullThreshold
BY DEF Nested, Decreasing

\* Returning to the interrupted group does not lower the threshold, and the
\* threshold lies below the group that was interrupted before it.
LEMMA RestoreNested ==
  ASSUME TypeOK, Nested, AuthenThreshold # FullThreshold,
         NEW d \in Nat \ {0}, NEW e, ~Room(e), Restore(d)
  PROVE  /\ Decreasing(m_cac_history')
         /\ BelowTop'
         /\ AuthenThreshold' >= AuthenThreshold
         /\ AuthenThreshold' # FullThreshold
         /\ m_cac_state' = m_cac_state
<1> DEFINE n == Len(m_cac_history)
<1>1. m_cac_history \in Seq(Triplet) /\ m_cac_history # <<>>
  BY DEF TypeOK, Room
<1>2. /\ n \in Nat \ {0}
      /\ DOMAIN m_cac_history = 1 .. n
      /\ Top = m_cac_history[n]
      /\ Top \in Triplet
      /\ Popped \in Seq(Triplet)
      /\ Len(Popped) = n - 1
      /\ \A i \in 1 .. n - 1 : Popped[i] = m_cac_history[i]
  BY <1>1, PoppedGroups, LenProperties DEF Top
<1>3. DOMAIN Popped = 1 .. n - 1
  BY <1>2, LenProperties
<1>4. m_cac_history' = Popped /\ m_cac_state' = m_cac_state
  BY Restores
<1>5. Top' = Popped[Len(Popped)]
  BY <1>4 DEF Top
<1> HIDE DEF n
<1>6. Top.threshold \in 0 .. FullThreshold - 1
  BY <1>2 DEF Triplet
<1>7. AuthenThreshold' = Top.threshold
  <2>1. AuthenThreshold' = Store(Top.threshold)
    BY Restores
  <2> QED
    BY <1>6, <2>1, StoreExact, WidthAssumption
<1>8. Decreasing(m_cac_history)
  BY NestedParts
<1>9. Decreasing(m_cac_history')
  BY <1>2, <1>3, <1>4, <1>8 DEF Decreasing
<1>10. BelowTop'
  <2>1. SUFFICES ASSUME Popped # <<>> PROVE Top.threshold < Popped[n - 1].threshold
    BY <1>2, <1>4, <1>5, <1>7 DEF BelowTop
  <2>2. n - 1 \in 1 .. n /\ n \in 1 .. n /\ n - 1 < n /\ n - 1 \in 1 .. n - 1
    <3>1. Len(Popped) # 0
      BY <1>2, <2>1, EmptySeq
    <3> QED
      BY <1>2, <3>1
  <2>3. m_cac_history[n - 1].threshold > m_cac_history[n].threshold
    BY <1>2, <1>8, <2>2 DEF Decreasing
  <2>4. Popped[n - 1] = m_cac_history[n - 1]
    BY <1>2, <2>2
  <2>5. m_cac_history[n - 1] \in Triplet
    BY <1>1, <1>2, <2>2, ElementOfSeq DEF n
  <2> QED
    BY <1>2, <2>3, <2>4, <2>5 DEF Triplet
<1>11. AuthenThreshold' >= AuthenThreshold
  BY <1>1, <1>6, <1>7, NestedParts DEF TypeOK
<1>12. AuthenThreshold' # FullThreshold
  BY <1>6, <1>7, WidthAssumption
<1> QED
  BY <1>4, <1>9, <1>10, <1>11, <1>12

\* A raise that leaves room stays below the interrupted group.
LEMMA RaiseNested ==
  ASSUME TypeOK, DeltaWithin, AuthenThreshold # FullThreshold,
         NEW d \in 1 .. m_delta + 1, Room(d),
         AuthenThreshold' = Store(AuthenThreshold + d), UNCHANGED m_cac_history
  PROVE  /\ BelowTop'
         /\ AuthenThreshold' >= AuthenThreshold
         /\ m_cac_history # <<>> => AuthenThreshold' # FullThreshold
<1>1. /\ AuthenThreshold \in 0 .. FullThreshold
      /\ FullThreshold \in Nat
      /\ d \in Nat
      /\ m_cac_history \in Seq(Triplet)
  BY WidthAssumption DEF TypeOK
<1>2. AuthenThreshold' = IF AuthenThreshold + d >= FullThreshold THEN FullThreshold
                                                                ELSE AuthenThreshold + d
  BY RaiseExact
<1>3. m_cac_history # <<>> => /\ Top.threshold \in 0 .. FullThreshold - 1
                              /\ Top.threshold > AuthenThreshold + d
  BY <1>1, PoppedGroups DEF Room, Triplet
<1>4. Top' = Top
  BY DEF Top
<1> QED
  BY <1>1, <1>2, <1>3, <1>4 DEF BelowTop

\* The end of a learning takes the last step back, or wraps.
LEMMA LearnToWorkLowers ==
  ASSUME TypeOK, DeltaWithin, NEW q, LearnToWork(q)
  PROVE  \/ AuthenThreshold' \in 0 .. AuthenThreshold
         \/ AuthenThreshold = 0 /\ AuthenThreshold' = FullThreshold
<1>1. /\ m_delta \in Nat \ {0}
      /\ AuthenThreshold \in 0 .. FullThreshold
      /\ FullThreshold \in Nat \ {0}
      /\ m_delta <= AuthenThreshold + 1 \/ m_delta <= 2 * AuthenThreshold
  BY WidthAssumption DEF TypeOK, DeltaWithin, StepWithin
<1>2. m_delta' = IF m_delta \div 4 > 1 THEN m_delta \div 4 ELSE 1
  BY DEF LearnToWork, AtLeastOne
<1> DEFINE x == AuthenThreshold - m_delta'
<1>3. (x = -1 /\ AuthenThreshold = 0) \/ x \in 0 .. AuthenThreshold
  BY <1>1, <1>2
<1>4. AuthenThreshold' = Store(x)
  BY DEF LearnToWork
<1> HIDE DEF x
<1>5. CASE x = -1 /\ AuthenThreshold = 0
  BY <1>4, <1>5, StoreUnderflow
<1>6. CASE x \in 0 .. AuthenThreshold
  <2>1. x \in 0 .. 2 * FullThreshold
    BY <1>1, <1>6
  <2>2. Store(x) = IF x >= FullThreshold THEN FullThreshold ELSE x
    BY <2>1, StoreExact
  <2> QED
    BY <1>1, <1>4, <1>6, <2>2
<1> QED
  BY <1>3, <1>5, <1>6

\* A step of WORK that leaves the threshold below the top, or fully open.
LEMMA NestedAtWork ==
  ASSUME m_cac_state' = "WORK", Decreasing(m_cac_history'),
         BelowTop' \/ AuthenThreshold' = FullThreshold
  PROVE  Nested'
BY DEF Nested, Decreasing, BelowTop

LEMMA WorkBelowTop ==
  ASSUME TypeOK, Nested, Working
  PROVE  BelowTop /\ Decreasing(m_cac_history)
BY NestedParts DEF Working, Relearning, BelowTop

-----------------------------------------------------------------------------
(* Every step keeps the groups nested and, on an empty queue, the gate open *)

Kept(q) == Nested' /\ (q = 0 => AuthenThreshold' >= AuthenThreshold)

LEMMA LearnKeeps ==
  ASSUME LooksAtStack, TypeOK, DeltaWithin, Nested, NEW q \in QueueSizes,
         LearnRaise(q) \/ LearnRestore(q) \/ LearnToWork(q)
  PROVE  Kept(q)
<1>1. CASE LearnRaise(q)
  <2>1. /\ AuthenThreshold # FullThreshold
        /\ Room(m_delta)
        /\ AuthenThreshold' = Store(AuthenThreshold + m_delta)
        /\ m_cac_state' = "LEARN"
        /\ UNCHANGED m_cac_history
    BY <1>1 DEF LearnRaise
  <2>2. m_delta \in 1 .. m_delta + 1
    BY DEF TypeOK
  <2>3. /\ BelowTop'
        /\ AuthenThreshold' >= AuthenThreshold
        /\ m_cac_history # <<>> => AuthenThreshold' # FullThreshold
    BY <2>1, <2>2, RaiseNested
  <2> QED
    BY <2>1, <2>3 DEF Nested, BelowTop, Kept
<1>2. CASE LearnRestore(q)
  <2>1. /\ AuthenThreshold # FullThreshold
        /\ ~Room(m_delta) /\ Restore(m_delta)
        /\ m_cac_state = "LEARN"
    BY <1>2 DEF LearnRestore
  <2>2. m_delta \in Nat \ {0}
    BY DEF TypeOK
  <2>3. /\ Decreasing(m_cac_history')
        /\ BelowTop'
        /\ AuthenThreshold' >= AuthenThreshold
        /\ AuthenThreshold' # FullThreshold
        /\ m_cac_state' = m_cac_state
    BY <2>1, <2>2, RestoreNested
  <2> QED
    BY <2>1, <2>3 DEF Nested, Decreasing, BelowTop, Kept
<1>3. CASE LearnToWork(q)
  <2>1. /\ m_cac_state' = "WORK" /\ m_cac_state = "LEARN"
        /\ q # 0 /\ m_cac_improve
        /\ UNCHANGED m_cac_history
    BY <1>3 DEF LearnToWork
  <2>2. Decreasing(m_cac_history')
    BY <2>1, NestedParts
  <2>3. ASSUME m_cac_history # <<>>
        PROVE  BelowTop' \/ AuthenThreshold' = FullThreshold
    <3>1. AuthenThreshold < Top.threshold
      BY <2>1, <2>3, NestedParts DEF Relearning
    <3>2. Top.threshold \in 0 .. FullThreshold - 1
      BY <2>3, PoppedGroups DEF Triplet, TypeOK
    <3>3. AuthenThreshold' \in 0 .. AuthenThreshold \/ AuthenThreshold' = FullThreshold
      BY <1>3, LearnToWorkLowers
    <3>4. AuthenThreshold \in Nat
      BY DEF TypeOK
    <3>5. Top' = Top
      BY <2>1 DEF Top
    <3> QED
      BY <3>1, <3>2, <3>3, <3>4, <3>5 DEF BelowTop
  <2>4. BelowTop' \/ AuthenThreshold' = FullThreshold
    BY <2>1, <2>3 DEF BelowTop
  <2> QED
    BY <2>1, <2>2, <2>4, NestedAtWork DEF Kept
<1> QED
  BY <1>1, <1>2, <1>3

LEMMA RaiseOrRestoreKeeps ==
  ASSUME TypeOK, DeltaWithin, Nested, Working,
         NEW d \in 1 .. m_delta + 1, NEW imp \in BOOLEAN, RaiseOrRestore(d, imp),
         NEW q
  PROVE  Kept(q)
<1>1. AuthenThreshold # FullThreshold /\ m_cac_state = "WORK"
  BY DEF Working
<1>2. d \in Nat \ {0}
  BY DEF TypeOK
<1>3. CASE ~Room(d) /\ Restore(d)
  BY <1>1, <1>2, <1>3, RestoreNested, NestedAtWork DEF Kept
<1>4. CASE /\ Room(d)
           /\ AuthenThreshold' = Store(AuthenThreshold + d)
           /\ UNCHANGED <<m_cac_history, m_cac_state>>
  BY <1>1, <1>4, RaiseNested, WorkBelowTop, NestedAtWork DEF Kept
<1> QED
  BY <1>3, <1>4 DEF RaiseOrRestore

LEMMA BusyKeeps ==
  ASSUME TypeOK, DeltaWithin, Nested, NEW q \in QueueSizes,
         PlainBusy(q) \/ RatioBusy(q)
  PROVE  Kept(q)
<1>1. q # 0 /\ Working /\ m_cac_state = "WORK" /\ AuthenThreshold # FullThreshold
  BY DEF PlainBusy, RatioBusy, WorkBusy, Working
<1>2. BelowTop /\ Decreasing(m_cac_history)
  BY <1>1, WorkBelowTop
<1>3. ReducedDelta \in 1 .. m_delta
  BY ReducedBounds
<1>4. ASSUME UNCHANGED <<AuthenThreshold, m_cac_history, m_cac_state>>
      PROVE  Kept(q)
  <2>1. BelowTop'
    BY <1>2, <1>4 DEF BelowTop, Top
  <2> QED
    BY <1>1, <1>2, <1>4, <2>1, NestedAtWork DEF Kept
<1>5. ASSUME NEW m_delta_temp \in 1 .. ReducedDelta, Room(m_delta_temp),
             AuthenThreshold' = Store(AuthenThreshold + m_delta_temp),
             UNCHANGED <<m_cac_history, m_cac_state>>
      PROVE  Kept(q)
  <2>1. m_delta_temp \in 1 .. m_delta + 1
    BY <1>3 DEF TypeOK
  <2> QED
    BY <1>1, <1>2, <1>5, <2>1, RaiseNested, NestedAtWork DEF Kept
<1>6. ASSUME NEW m_delta_temp \in 1 .. ReducedDelta,
             ~Room(m_delta_temp), Restore(ReducedDelta)
      PROVE  Kept(q)
  <2>1. ReducedDelta \in Nat \ {0}
    BY <1>3 DEF TypeOK
  <2> QED
    BY <1>1, <1>6, <2>1, RestoreNested, NestedAtWork DEF Kept
<1>7. ReducedDelta \in Nat \ {0}
  BY <1>3 DEF TypeOK
<1> QED
  BY <1>4, <1>5, <1>6, <1>7, AtLeastOneSame DEF PlainBusy, RatioBusy

LEMMA NewGroupKeeps ==
  ASSUME TypeOK, Nested, NEW q \in QueueSizes, WorkNewGroup(q)
  PROVE  Kept(q)
<1> DEFINE n     == Len(m_cac_history)
           group == [threshold |-> AuthenThreshold, delta |-> m_delta]
<1>1. Working /\ q # 0 /\ StartLearning /\ m_cac_history' = Append(m_cac_history, group)
  BY DEF WorkNewGroup
<1>2. group \in Triplet /\ group.threshold = AuthenThreshold
  BY <1>1, WidthAssumption DEF Working, Triplet, TypeOK
<1>3. BelowTop /\ Decreasing(m_cac_history)
  BY <1>1, WorkBelowTop
<1> HIDE DEF group
<1>4. /\ n \in Nat
      /\ DOMAIN m_cac_history = 1 .. n
      /\ DOMAIN m_cac_history' = 1 .. n + 1
      /\ \A i \in 1 .. n : m_cac_history'[i] = m_cac_history[i]
      /\ m_cac_history'[n + 1] = group
      /\ \A i \in 1 .. n : m_cac_history[i] \in Triplet
  <2>1. m_cac_history \in Seq(Triplet)
    BY DEF TypeOK
  <2> QED
    BY <1>1, <1>2, <2>1, AppendProperties, LenProperties, ElementOfSeq
<1>5. \A i \in 1 .. n : m_cac_history[i].threshold > AuthenThreshold
  <2> SUFFICES ASSUME NEW i \in 1 .. n PROVE m_cac_history[i].threshold > AuthenThreshold
    OBVIOUS
  <2>1. n \in 1 .. n /\ m_cac_history # <<>>
    BY <1>4, EmptySeq
  <2>2. AuthenThreshold < m_cac_history[n].threshold
    BY <1>3, <2>1 DEF BelowTop, Top
  <2>3. i = n \/ m_cac_history[i].threshold > m_cac_history[n].threshold
    <3> HIDE DEF n
    <3>1. /\ i \in DOMAIN m_cac_history
          /\ n \in DOMAIN m_cac_history
          /\ i = n \/ i < n
      BY <1>4, <2>1
    <3> QED
      BY <1>3, <3>1 DEF Decreasing
  <2>4. /\ m_cac_history[i].threshold \in Nat
        /\ m_cac_history[n].threshold \in Nat
        /\ AuthenThreshold \in Nat
    <3> HIDE DEF n
    <3>1. m_cac_history[i] \in Triplet /\ m_cac_history[n] \in Triplet
      BY <1>4, <2>1
    <3>2. AuthenThreshold \in Nat
      BY DEF TypeOK
    <3> QED
      BY <3>1, <3>2 DEF Triplet
  <2> QED
    BY <2>2, <2>3, <2>4
<1> HIDE DEF n
<1>6. Decreasing(m_cac_history')
  <2> SUFFICES ASSUME NEW i \in 1 .. n + 1, NEW j \in 1 .. n + 1, i < j
               PROVE  m_cac_history'[i].threshold > m_cac_history'[j].threshold
    BY <1>4 DEF Decreasing
  <2>1. i \in 1 .. n /\ (j \in 1 .. n \/ j = n + 1)
    BY <1>4
  <2>2. CASE j \in 1 .. n
    BY <1>3, <1>4, <2>1, <2>2 DEF Decreasing
  <2>3. CASE j = n + 1
    BY <1>2, <1>4, <1>5, <2>1, <2>3
  <2> QED
    BY <2>1, <2>2, <2>3
<1>7. /\ AuthenThreshold' = 0
      /\ m_cac_state' = "LEARN"
      /\ Relearning'
  BY <1>1 DEF StartLearning, Relearning
<1> QED
  BY <1>1, <1>6, <1>7, WidthAssumption DEF Nested, Decreasing, Kept

LEMMA StepKeeps ==
  ASSUME LooksAtStack, TypeOK, DeltaWithin, Nested,
         NEW q \in QueueSizes, Step(q)
  PROVE  Kept(q)
<1>1. CASE WaitOpen(q)
  <2>1. m_cac_history' = <<>> /\ AuthenThreshold' = FullThreshold /\ m_cac_state' = "WAIT"
    BY <1>1 DEF WaitOpen, Nested
  <2>2. AuthenThreshold' >= AuthenThreshold
    BY <2>1 DEF TypeOK
  <2> QED
    BY <2>1, <2>2, EmptySeq DEF Nested, Kept
<1>2. CASE WaitToLearn(q)
  <2>1. m_cac_history' = <<>> /\ m_cac_state' = "LEARN"
    BY <1>2 DEF WaitToLearn, StartLearning, Nested
  <2>2. q # 0
    BY <1>2, QueueAssumption DEF WaitToLearn, GroupArrived
  <2> QED
    BY <2>1, <2>2, EmptySeq DEF Nested, Kept
<1>3. CASE LearnDone(q) \/ WorkDone(q)
  <2>1. m_cac_history' = <<>> /\ UNCHANGED AuthenThreshold
    BY <1>3 DEF LearnDone, WorkDone
  <2>2. AuthenThreshold' >= AuthenThreshold
    BY <2>1 DEF TypeOK
  <2> QED
    BY <2>1, <2>2, EmptySeq DEF Nested, Kept
<1>4. CASE LearnRaise(q) \/ LearnRestore(q) \/ LearnToWork(q)
  BY <1>4, LearnKeeps
<1>5. CASE LearnBlocked(q) \/ WorkCountDown(q)
  <2>1. UNCHANGED <<AuthenThreshold, m_cac_history, m_cac_state, m_cac_improve>>
    BY <1>5 DEF LearnBlocked, WorkCountDown
  <2>2. AuthenThreshold' >= AuthenThreshold
    BY <2>1 DEF TypeOK
  <2> QED
    BY <2>1, <2>2 DEF Nested, Relearning, Top, Kept
<1>6. CASE WorkNewGroup(q)
  BY <1>6, NewGroupKeeps
<1>7. CASE CountedQuiet(q)
  <2> DEFINE imp == m_cac_improve \/ m_cac_improve_counter = 0
  <2> DEFINE d == IF imp \/ Algorithm = 2 THEN m_delta + 1 ELSE m_delta
  <2>1. d \in 1 .. m_delta + 1 /\ imp \in BOOLEAN
    BY DEF TypeOK
  <2>2. RaiseOrRestore(d, imp) /\ Working
    BY <1>7 DEF CountedQuiet
  <2> HIDE DEF d, imp
  <2> QED
    BY <2>1, <2>2, RaiseOrRestoreKeeps
<1>8. CASE PlainBusy(q) \/ RatioBusy(q)
  BY <1>8, BusyKeeps
<1> DEFINE Other == ScaledQuiet(q) \/ ShrinkBusy(q) \/ DivideByZero(q)
                      \/ SteadyQuiet(q) \/ BandedBusy(q)
<1>9. CASE Other
  <2>1. Algorithm = 8 \/ Algorithm = 9
    BY <1>9 DEF ScaledQuiet, ShrinkBusy, DivideByZero, SteadyQuiet, BandedBusy
  <2> HIDE DEF Other
  <2> QED
    BY <2>1 DEF LooksAtStack
<1> QED
  BY <1>1, <1>2, <1>3, <1>4, <1>5, <1>6, <1>7, <1>8, <1>9
  DEF Step, Wait, Learn, Work

-----------------------------------------------------------------------------
(* The theorems                                                            *)

\* The invariant behind both theorems: the groups are nested and the step is
\* bounded, which a raise needs so as not to wrap.
NestedInv == LooksAtStack => DeltaWithin /\ Nested

LEMMA NextNestedInv ==
  ASSUME TypeOK, NestedInv, [Next]_vars
  PROVE  NestedInv'
<1>1. Algorithm' = Algorithm
  BY DEF Next, SendOneBeacon, vars
<1>2. SUFFICES ASSUME LooksAtStack PROVE DeltaWithin' /\ Nested'
  BY <1>1 DEF NestedInv, LooksAtStack
<1>3. DeltaWithin /\ Nested /\ Algorithm # 8
  BY <1>2 DEF NestedInv, LooksAtStack
<1>4. DeltaWithin'
  BY <1>3, NextDeltaWithin
<1>5. Nested'
  <2>1. CASE UNCHANGED vars
    BY <1>3, <2>1 DEF vars, Nested, Relearning, Top
  <2>2. CASE Next
    BY <1>2, <1>3, <2>2, StepKeeps DEF Next, SendOneBeacon, Kept
  <2> QED
    BY <2>1, <2>2
<1> QED
  BY <1>4, <1>5

LEMMA NestingInvariant == Spec => [](TypeOK /\ NestedInv)
<1>1. Init => NestedInv
  BY EmptySeq DEF Init, NestedInv, Nested, DeltaWithin, StepWithin
<1>2. TypeOK /\ NestedInv /\ [Next]_vars => NestedInv'
  BY NextNestedInv
<1> QED
  BY <1>1, <1>2, TypeCorrect, PTL DEF Spec

\* A group is always interrupted below the one it had interrupted itself, and
\* learning a new group never passes the threshold of the one that waits.
THEOREM AlwaysNested == Spec => []GroupsNested
<1>1. NestedInv => GroupsNested
  BY DEF NestedInv, GroupsNested
<1> QED
  BY <1>1, NestingInvariant, PTL

\* A beacon that finds the queue empty never lowers the threshold.
THEOREM QuietBeaconsOpen == Spec => QuietNeverCloses
<1>1. TypeOK /\ NestedInv /\ [Next]_vars
        => [LooksAtStack /\ m_queueLast' = 0 => AuthenThreshold' >= AuthenThreshold]_vars
  <2> SUFFICES ASSUME TypeOK, NestedInv, Next, LooksAtStack, m_queueLast' = 0
               PROVE  AuthenThreshold' >= AuthenThreshold
    OBVIOUS
  <2> QED
    BY StepKeeps DEF Next, SendOneBeacon, Kept, NestedInv
<1> QED
  BY <1>1, NestingInvariant, PTL DEF Spec, QuietNeverCloses

-----------------------------------------------------------------------------
(* A busy beacon does not open the gate                                    *)

LEMMA BusyStep ==
  ASSUME TypeOK, DeltaWithin, Algorithm \in {1, 2}, m_cac_state # "WAIT",
         NEW q \in QueueSizes \ {0}, Step(q), AuthenThreshold' > AuthenThreshold
  PROVE  /\ m_cac_state = "LEARN"
         /\ AuthenThreshold = 0
         /\ AuthenThreshold' = FullThreshold
<1>1. AuthenThreshold \in 0 .. FullThreshold /\ m_delta \in Nat \ {0}
  BY DEF TypeOK
<1>2. CASE LearnToWork(q)
  <2>1. m_cac_state = "LEARN"
    BY <1>2 DEF LearnToWork
  <2>2. AuthenThreshold = 0
    BY <1>1, <1>2, LearnToWorkLowers
  <2>3. m_delta = 1
    BY <1>1, <2>2, WidthAssumption DEF DeltaWithin, StepWithin
  <2>4. AuthenThreshold' = Store(-1)
    BY <1>2, <2>2, <2>3 DEF LearnToWork, AtLeastOne
  <2> QED
    BY <2>1, <2>2, <2>4, StoreUnderflow
<1>3. CASE \/ LearnBlocked(q) \/ WorkCountDown(q) \/ WorkDone(q)
           \/ PlainBusy(q)    \/ WorkNewGroup(q)
  <2>1. AuthenThreshold' = AuthenThreshold \/ AuthenThreshold' = 0
    BY <1>3 DEF LearnBlocked, WorkCountDown, WorkDone, PlainBusy, WorkNewGroup,
                StartLearning
  <2> QED
    BY <1>1, <2>1
<1>4. ~Wait(q)
  BY DEF Wait, WaitOpen, WaitToLearn
<1>5. ~(LearnDone(q) \/ LearnRaise(q) \/ LearnRestore(q))
  BY DEF LearnDone, LearnRaise, LearnRestore
<1>6. ~(CountedQuiet(q) \/ ScaledQuiet(q) \/ SteadyQuiet(q) \/ DivideByZero(q))
  BY DEF CountedQuiet, ScaledQuiet, SteadyQuiet, DivideByZero
<1>7. ~(RatioBusy(q) \/ ShrinkBusy(q) \/ BandedBusy(q))
  BY DEF RatioBusy, ShrinkBusy, BandedBusy
<1> QED
  BY <1>2, <1>3, <1>4, <1>5, <1>6, <1>7 DEF Step, Learn, Work

\* Algorithm_1 and _2: a beacon that finds the queue busy raises the threshold
\* only where the subtraction that ends a learning wraps below 0.
THEOREM BusyBeaconsHold == Spec => BusyOpensOnlyByWrap
<1>1. DeltaInv /\ [Next]_vars
        => [(/\ Algorithm \in {1, 2}
             /\ m_queueLast' # 0
             /\ m_cac_state # "WAIT"
             /\ AuthenThreshold' > AuthenThreshold)
              => /\ m_cac_state = "LEARN"
                 /\ AuthenThreshold = 0
                 /\ AuthenThreshold' = FullThreshold]_vars
  <2> SUFFICES ASSUME DeltaInv, Next, Algorithm \in {1, 2}, m_queueLast' # 0,
                      m_cac_state # "WAIT", AuthenThreshold' > AuthenThreshold
               PROVE  /\ m_cac_state = "LEARN"
                      /\ AuthenThreshold = 0
                      /\ AuthenThreshold' = FullThreshold
    OBVIOUS
  <2>1. PICK q \in QueueSizes \ {0} : Step(q)
    BY DEF Next, SendOneBeacon
  <2> QED
    BY <2>1, BusyStep DEF DeltaInv
<1> QED
  BY <1>1, DeltaInvariant, PTL DEF Spec, BusyOpensOnlyByWrap
=============================================================================
