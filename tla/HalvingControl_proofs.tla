------------------------ MODULE HalvingControl_proofs ------------------------
(* Safety of Algorithm_3 for every FullThreshold, WaitStart and queue size. *)
EXTENDS HalvingHistory, TLAPS

\* What makes the invariants of HalvingControl inductive: LEARN keeps the
\* counter that WORK counts down to WAIT, an attempt of LEARN publishes its
\* step, and in WORK the step has not outgrown a positive threshold.
CounterLeft == /\ m_cac_state = "LEARN" => m_cac_wait_counter = WaitStart
               /\ m_cac_state = "WORK" => m_cac_wait_counter > 0
AttemptIsStep == m_cac_state = "LEARN" => AuthenThreshold \in {0, m_delta}
StepReached == m_cac_state = "WORK" => /\ 0 < AuthenThreshold
                                       /\ m_delta <= AuthenThreshold

IInv == TypeOK /\ WorkAdvances /\ AttemptIsStep /\ CounterLeft /\ StepReached

\* The halving of an int.
LEMMA HalfBounds == ASSUME NEW n \in Nat
                    PROVE  n \div 2 \in Nat /\ 2 * (n \div 2) <= n
  OBVIOUS

LEMMA OnlyOneHalvesToZero == ASSUME NEW n \in Nat \ {0}, n \div 2 = 0
                             PROVE  n = 1
  OBVIOUS

\* The 16 bits hold every sum of a threshold and a step.
LEMMA WrapSmall == ASSUME NEW x \in 0 .. 2 * FullThreshold + 1
                   PROVE  Wrap(x) = x
<1>1. x \in Nat /\ x < Width
  BY FullAssumption, WidthAssumption
<1> QED
  BY <1>1, WidthAssumption DEF Wrap

LEMMA WrapRaise == ASSUME NEW x \in 0 .. FullThreshold, NEW d \in 1 .. x + 1
                   PROVE  Wrap(x + d) = x + d
<1>1. x + d \in 0 .. 2 * FullThreshold + 1
  BY FullAssumption
<1> QED
  BY <1>1, WrapSmall

LEMMA StoreSmall == ASSUME NEW x \in 0 .. FullThreshold
                    PROVE  Store(x) = x
<1>1. x \in 0 .. 2 * FullThreshold + 1
  BY FullAssumption
<1> QED
  BY <1>1, WrapSmall, FullAssumption DEF Store

LEMMA InitIInv == Init => IInv
  BY FullAssumption, WaitAssumption, QueueAssumption
  DEF Init, IInv, TypeOK, WorkAdvances, AttemptIsStep, CounterLeft, StepReached

LEMMA NextIInv == IInv /\ [Next]_vars => IInv'
<1> SUFFICES ASSUME IInv, [Next]_vars PROVE IInv'
  OBVIOUS
<1> USE FullAssumption, WaitAssumption, QueueAssumption
    DEF IInv, TypeOK, WorkAdvances, AttemptIsStep, CounterLeft, StepReached
<1>1. CASE UNCHANGED vars
  BY <1>1 DEF vars
<1>2. ASSUME NEW q \in QueueSizes, Step(q), m_queueLast' = q PROVE IInv'
  <2>1. CASE WaitOpen(q)
    BY <1>2, <2>1 DEF WaitOpen
  <2>2. CASE WaitToLearn(q)
    <3>1. m_cac_improve' \in BOOLEAN
      BY <2>2 DEF WaitToLearn
    <3> QED
      BY <1>2, <2>2, <3>1 DEF WaitToLearn
  <2>3. CASE LearnFailed(q)
    BY <1>2, <2>3 DEF LearnFailed
  <2>4. CASE LearnToWork(q)
    BY <1>2, <2>4, HalfBounds DEF LearnToWork
  <2>5. CASE LearnAttempt(q)
    <3>1. m_delta' \in 0 .. FullThreshold /\ 2 * m_delta' <= FullThreshold
      BY <2>5, HalfBounds DEF LearnAttempt
    <3>2. AuthenThreshold' = m_delta'
      BY <2>5, <3>1, StoreSmall DEF LearnAttempt
    <3> QED
      BY <1>2, <2>5, <3>1, <3>2 DEF LearnAttempt
  <2>6. CASE LearnBlocked(q)
    BY <1>2, <2>6 DEF LearnBlocked
  <2>7. CASE WorkCountDown(q)
    BY <1>2, <2>7 DEF WorkCountDown
  <2>8. CASE WorkRaise(q)
    <3>1. m_delta' \in 1 .. AuthenThreshold + 1 /\ AuthenThreshold < FullThreshold
      BY <2>8 DEF WorkRaise
    <3>2. Wrap(AuthenThreshold + m_delta') = AuthenThreshold + m_delta'
      BY <3>1, WrapRaise
    <3>3. AuthenThreshold' \in m_delta' .. FullThreshold
      BY <2>8, <3>1, <3>2 DEF WorkRaise
    <3>4. m_cac_improve' \in BOOLEAN
      BY <2>8 DEF WorkRaise
    <3> QED
      BY <1>2, <2>8, <3>1, <3>3, <3>4 DEF WorkRaise
  <2>9. CASE WorkBusy(q)
    <3>1. m_delta' \in 0 .. AuthenThreshold
      BY <2>9 DEF WorkBusy
    <3>2. m_cac_improve' \in BOOLEAN
      BY <2>9 DEF WorkBusy
    <3>3. m_delta' > 0 \/ m_cac_improve'
      BY <2>9 DEF WorkBusy
    <3> QED
      BY <1>2, <2>9, <3>1, <3>2, <3>3 DEF WorkBusy
  <2> QED
    BY <1>2, <2>1, <2>2, <2>3, <2>4, <2>5, <2>6, <2>7, <2>8, <2>9 DEF Step
<1> QED
  BY <1>1, <1>2 DEF Next, SendOneBeacon

THEOREM Invariance == Spec => []IInv
  BY InitIInv, NextIInv, PTL DEF Spec

\* The threshold that a beacon of Algorithm_3 publishes stays within 0 ..
\* FullThreshold, and the step never exceeds FullThreshold.
THEOREM TypeCorrect == Spec => []TypeOK
<1>1. IInv => TypeOK
  BY DEF IInv
<1> QED
  BY <1>1, Invariance, PTL

\* WORK of Algorithm_3 never runs with a step of 0 that would not grow.
THEOREM NeverStalls == Spec => []WorkAdvances
<1>1. IInv => WorkAdvances
  BY DEF IInv
<1> QED
  BY <1>1, Invariance, PTL

-----------------------------------------------------------------------------
(* The history variable.  With the gate shut, LEARN has not halved its step *)
(* since the attempt that failed; with the gate open, it has halved it once.*)
Memory ==
  /\ failed \in 1 .. FullThreshold
  /\ m_cac_state = "LEARN" =>
       IF AuthenThreshold = 0 THEN \/ m_delta = failed
                                   \/ m_delta = 0 /\ failed = 1
       ELSE AuthenThreshold = failed \div 2

LEMMA HistoryImplementsSpec == HistorySpec => Spec
<1>1. HistoryInit => Init
  BY DEF HistoryInit
<1>2. [HistoryNext]_hvars => [Next]_vars
  BY DEF HistoryNext, hvars
<1> QED
  BY <1>1, <1>2, PTL DEF HistorySpec, Spec

LEMMA InitMemory == HistoryInit => Memory
  BY FullAssumption DEF HistoryInit, Init, Memory

LEMMA NextMemory == IInv /\ IInv' /\ Memory /\ [HistoryNext]_hvars => Memory'
<1> SUFFICES ASSUME IInv, IInv', Memory, [HistoryNext]_hvars PROVE Memory'
  OBVIOUS
<1> USE FullAssumption DEF Memory
<1>1. CASE UNCHANGED hvars
  BY <1>1 DEF hvars, vars
<1>2. ASSUME NEW q \in QueueSizes, Step(q), m_queueLast' = q, Remember PROVE Memory'
  <2> USE <1>2 DEF Remember, BeginsLearning, AttemptFails
  <2>1. CASE WaitOpen(q)
    BY <2>1 DEF WaitOpen
  <2>2. CASE WaitToLearn(q)
    BY <2>2 DEF WaitToLearn
  <2>3. CASE LearnFailed(q)
    <3>1. AuthenThreshold = m_delta /\ AuthenThreshold \in 1 .. FullThreshold
      BY <2>3 DEF LearnFailed, IInv, TypeOK, AttemptIsStep
    <3> QED
      BY <2>3, <3>1 DEF LearnFailed
  <2>4. CASE LearnToWork(q)
    BY <2>4 DEF LearnToWork, IInv, TypeOK
  <2>5. CASE LearnAttempt(q)
    <3>1. m_delta' = m_delta \div 2 /\ failed' = failed
      BY <2>5 DEF LearnAttempt
    <3>2. m_cac_state = "LEARN" /\ AuthenThreshold = 0
      BY <2>5 DEF LearnAttempt
    <3>3. AuthenThreshold' \in {0, m_delta'}
      BY <2>5 DEF LearnAttempt, IInv, AttemptIsStep
    <3>4. AuthenThreshold' = m_delta'
      <4>1. m_delta \in 0 .. FullThreshold /\ m_delta' \in 0 .. FullThreshold
        BY DEF IInv, TypeOK
      <4> QED
        BY <2>5, <4>1, StoreSmall DEF LearnAttempt
    <3>5. CASE m_delta = failed
      <4>1. AuthenThreshold' = failed' \div 2
        BY <3>1, <3>4, <3>5
      <4>2. failed' \div 2 = 0 => failed' = 1
        <5>1. failed' \in Nat \ {0}
          BY <3>1
        <5> QED
          BY <5>1, OnlyOneHalvesToZero
      <4> QED
        BY <3>1, <3>4, <4>1, <4>2
    <3>6. CASE m_delta = 0 /\ failed = 1
      BY <3>1, <3>4, <3>6
    <3> QED
      BY <3>2, <3>5, <3>6
  <2>6. CASE LearnBlocked(q)
    BY <2>6 DEF LearnBlocked
  <2>7. CASE WorkCountDown(q)
    BY <2>7 DEF WorkCountDown
  <2>8. CASE WorkRaise(q)
    BY <2>8 DEF WorkRaise
  <2>9. CASE WorkBusy(q)
    BY <2>9 DEF WorkBusy
  <2> QED
    BY <2>1, <2>2, <2>3, <2>4, <2>5, <2>6, <2>7, <2>8, <2>9 DEF Step
<1> QED
  BY <1>1, <1>2 DEF HistoryNext, Next, SendOneBeacon

\* However the failed attempts, the drainings and the busy beacons follow each
\* other, LEARN of Algorithm_3 reopens with half of the threshold that last
\* congested the queue, and gives up only when a single station did.
THEOREM NeverReopensWider == HistorySpec => []NeverWider
<1>1. Memory => NeverWider
  BY FullAssumption DEF Memory, NeverWider, Exhausted
<1> QED
  BY <1>1, InitMemory, NextMemory, HistoryImplementsSpec, Invariance, PTL
  DEF HistorySpec
=============================================================================
