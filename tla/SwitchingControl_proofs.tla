------------------------ MODULE SwitchingControl_proofs ------------------------
(* Safety of the controllers over any changes from one to another, for     *)
(* every threshold, width, population and queue size, and any number of    *)
(* changes and announcements.                                              *)
EXTENDS SwitchingControl, SequenceTheorems, TLAPS

-----------------------------------------------------------------------------
(* The operators of the controllers                                        *)

LEMMA Bounds == /\ FullThreshold \in Nat \ {0} /\ Width \in Nat \ {0}
                /\ value \in Nat \ {0}
                /\ FullThreshold + value < Width
                /\ CounterStart \in Nat
                /\ MaxDelta \in Nat \ {0}
                /\ FullThreshold + MaxDelta < Width
  BY OracleAssumption, StepAssumption

\* The three components store a threshold in the same way.
LEMMA SameStore == ASSUME NEW x
                   PROVE  L!Store(x) = Store(x) /\ H!Store(x) = Store(x)
  BY DEF L!Store, L!Clamp, L!Wrap, H!Store, H!Wrap, Store

LEMMA Stored == ASSUME NEW x \in Int PROVE Store(x) \in 0 .. FullThreshold
<1>1. x % Width \in Nat
  BY Bounds
<1> QED
  BY <1>1, Bounds DEF Store

\* A sum that 16 bits hold is stored as it is, or as the full threshold.
LEMMA Raised == ASSUME NEW t \in 0 .. FullThreshold, NEW d \in Nat, t + d < Width
                PROVE  Store(t + d) \in t .. FullThreshold /\ Store(t + d) <= t + d
<1>1. (t + d) % Width = t + d
  BY Bounds
<1> QED
  BY <1>1, Bounds DEF Store

LEMMA Divides == ASSUME NEW a \in Nat, NEW b \in Nat \ {0} PROVE a \div b \in Nat
  OBVIOUS

LEMMA Product == ASSUME NEW a \in Nat, NEW b \in Nat PROVE a * b \in Nat
  OBVIOUS

LEMMA Shares == ASSUME NEW n \in Populations
                PROVE  /\ Share(n) \in Nat
                       /\ FullThreshold + Share(n) < Width
<1>1. Share(n) \in 1 .. Width - FullThreshold - 1
  BY OracleAssumption DEF Share
<1> QED
  BY <1>1, Bounds

-----------------------------------------------------------------------------
(* What a beacon leaves                                                    *)

Group == [threshold : 0 .. FullThreshold - 1, delta : 0 .. MaxDelta]

Shape == /\ AuthenThreshold \in 0 .. FullThreshold
         /\ m_delta \in Nat
         /\ m_cac_state \in {"WAIT", "LEARN", "WORK", "ABORTED"}
         /\ m_cac_improve \in BOOLEAN
         /\ m_cac_history \in Seq(Group)

Counters == /\ m_cac_wait_counter \in Int
            /\ m_cac_wait_counter <= CounterStart
            /\ m_cac_improve_counter \in 0 .. CounterStart

\* What justifies a lower threshold after a quiet beacon.
ForAGroup == \/ Len(m_cac_history') < Len(m_cac_history)
             \/ m_associatingStasAppear /\ ~m_associatingStasAppear'
             \/ m_secondWaveAppear /\ ~m_secondWaveAppear'

Leaves(q) == /\ Shape' /\ Counters' /\ OracleTypeOK'
             /\ q = 0 => AuthenThreshold' >= AuthenThreshold \/ ForAGroup

LEMMA Before == ASSUME TypeOK
                PROVE  /\ Shape /\ Counters /\ OracleTypeOK
                       /\ m_delta <= MaxDelta
                       /\ algorithm \in Selectable
                       /\ m_queueLast \in QueueSizes
  BY Bounds DEF TypeOK, Shape, Counters, Group

\* The stack without its top.
LEMMA Pops == ASSUME NEW h \in Seq(Group), h # <<>>
              PROVE  /\ Len(h) \in Nat \ {0}
                     /\ h[Len(h)] \in Group
                     /\ SubSeq(h, 1, Len(h) - 1) \in Seq(Group)
                     /\ Len(SubSeq(h, 1, Len(h) - 1)) < Len(h)
<1>1. Len(h) \in Nat \ {0}
  BY EmptySeq
<1>2. \A i \in 1 .. Len(h) : h[i] \in Group
  BY ElementOfSeq
<1>3. PICK n \in Nat : n = Len(h) - 1
  BY <1>1
<1>4. \A i \in 1 .. n : h[i] \in Group
  BY <1>1, <1>2, <1>3
<1>5. /\ SubSeq(h, 1, n) \in Seq(Group)
      /\ Len(SubSeq(h, 1, n)) = IF 1 <= n THEN n - 1 + 1 ELSE 0
  BY <1>3, <1>4, SubSeqProperties
<1> QED
  BY <1>1, <1>2, <1>3, <1>5

-----------------------------------------------------------------------------
(* The oracles, the fixed step and the agent                               *)

LEMMA OracleLeaves ==
  ASSUME TypeOK, NEW q \in QueueSizes, OracleStep(q), UNCHANGED learning,
         m_delta' <= MaxDelta
  PROVE  Leaves(q)
<1>1. UNCHANGED <<m_cac_improve, m_cac_wait_counter, m_cac_improve_counter, m_cac_history>>
  BY DEF learning
<1>2. /\ AuthenThreshold \in 0 .. FullThreshold
      /\ m_delta \in 0 .. MaxDelta
      /\ m_cac_state \in {"WAIT", "LEARN", "WORK", "ABORTED"}
      /\ m_nAssociating \in Populations
      /\ firstWave \in Populations \cup {0}
      /\ T1 \in 0 .. FullThreshold
  BY DEF TypeOK, OracleTypeOK
<1>3. Populations \subseteq Nat \ {0} /\ Populations # {}
  BY OracleAssumption
<1>4. Shape /\ Counters /\ OracleTypeOK
  BY Before
\* Enough for a step that leaves the flags alone.
<1>5. ASSUME AuthenThreshold' \in 0 .. FullThreshold, m_delta' \in Nat,
             m_cac_state' \in {"WAIT", "LEARN", "WORK", "ABORTED"},
             UNCHANGED oracle, q = 0 => AuthenThreshold' >= AuthenThreshold
      PROVE  Leaves(q)
  <2>1. Shape' /\ Counters'
    BY <1>1, <1>4, <1>5 DEF Shape, Counters
  <2>2. OracleTypeOK'
    BY <1>4, <1>5 DEF OracleTypeOK, oracle, flags
  <2> QED
    BY <1>5, <2>1, <2>2 DEF Leaves
<1>6. CASE FixedStep(q)
  <2>1. Store(AuthenThreshold + value) \in AuthenThreshold .. FullThreshold
    BY <1>2, Bounds, Raised
  <2>2. /\ AuthenThreshold' \in 0 .. FullThreshold
        /\ q = 0 => AuthenThreshold' >= AuthenThreshold
    BY <1>2, <1>6, <2>1, Bounds DEF FixedStep
  <2> QED
    BY <1>2, <1>5, <1>6, <2>2 DEF FixedStep
<1>7. CASE NoControl(q)
  BY <1>2, <1>5, <1>7, Bounds DEF NoControl
<1>8. CASE FirstGroup(q)
  <2>1. Share(m_nAssociating) \in Nat
    BY <1>2, Shares
  <2>2. AuthenThreshold' \in 0 .. FullThreshold
    BY <1>8, <2>1, Stored DEF FirstGroup
  <2>3. /\ m_delta' \in Nat
        /\ firstWave' \in Populations \cup {0}
    BY <1>2, <1>8, <2>1 DEF FirstGroup
  <2>4. /\ UNCHANGED <<m_cac_state, m_saturatedAssociated, m_secondWaveAppear,
                       m_nAssociating, T1>>
        /\ m_associatingStasAppear /\ m_associatingStasAppear' = FALSE
    BY <1>8 DEF FirstGroup
  <2>5. Shape' /\ Counters'
    BY <1>1, <1>4, <2>2, <2>3, <2>4 DEF Shape, Counters
  <2>6. OracleTypeOK'
    BY <1>4, <2>3, <2>4 DEF OracleTypeOK
  <2> QED
    BY <2>4, <2>5, <2>6 DEF Leaves, ForAGroup
<1>9. CASE KnownQuiet(q)
  <2>1. Store(AuthenThreshold + Share(m_nAssociating)) \in AuthenThreshold .. FullThreshold
    BY <1>2, Bounds, Shares, Raised
  <2>2. AuthenThreshold' \in AuthenThreshold .. FullThreshold
    BY <1>2, <1>9, <2>1, Bounds DEF KnownQuiet
  <2>3. UNCHANGED <<m_delta, m_cac_state, oracle>>
    BY <1>9 DEF KnownQuiet
  <2> QED
    BY <1>2, <1>5, <2>2, <2>3, Bounds
<1>10. CASE SecondGroup(q)
  <2>1. m_nAssociating > firstWave => m_nAssociating - firstWave \in Nat \ {0}
    BY <1>2, <1>3
  <2>2. FullThreshold * value \in Nat
    BY Bounds, Product
  <2>3. m_nAssociating > firstWave => Share(m_nAssociating - firstWave) \in Nat
    BY <2>1, <2>2, Divides DEF Share
  <2>4. m_delta' \in Nat /\ AuthenThreshold' = 0 /\ T1' \in 0 .. FullThreshold
    BY <1>2, <1>10, <2>3 DEF SecondGroup
  <2>5. /\ UNCHANGED <<m_cac_state, m_saturatedAssociated, m_associatingStasAppear,
                       m_nAssociating, firstWave>>
        /\ m_secondWaveAppear /\ m_secondWaveAppear' = FALSE
    BY <1>10 DEF SecondGroup, SecondGroupFlag
  <2>6. Shape' /\ Counters'
    BY <1>1, <1>4, <2>4, <2>5, Bounds DEF Shape, Counters
  <2>7. OracleTypeOK'
    BY <1>4, <2>4, <2>5 DEF OracleTypeOK
  <2> QED
    BY <2>5, <2>6, <2>7 DEF Leaves, ForAGroup
<1>11. CASE WaveQuiet(q)
  <2>1. /\ m_delta' \in Nat
        /\ AuthenThreshold' = Store(AuthenThreshold + m_delta')
        /\ UNCHANGED <<m_cac_state, oracle>>
    BY <1>2, <1>11, Shares DEF WaveQuiet
  <2>2. PICK d \in Nat : d = m_delta' /\ AuthenThreshold + d < Width
    BY <1>2, <2>1, Bounds
  <2>3. AuthenThreshold' \in AuthenThreshold .. FullThreshold
    BY <1>2, <2>1, <2>2, Raised
  <2> QED
    BY <1>2, <1>5, <2>1, <2>3, Bounds
<1>12. CASE WaveBusy(q)
  <2>1. PICK d \in 0 .. m_delta' : AuthenThreshold' = Store(AuthenThreshold + d)
    BY <1>12 DEF WaveBusy
  <2>2. m_delta' \in Nat /\ q # 0 /\ UNCHANGED <<m_cac_state, oracle>>
    BY <1>2, <1>12, Shares DEF WaveBusy
  <2>3. AuthenThreshold + d \in Int
    BY <1>2, <2>2
  <2>4. AuthenThreshold' \in 0 .. FullThreshold
    BY <2>1, <2>3, Stored
  <2> QED
    BY <1>2, <1>5, <2>2, <2>4
<1>13. CASE DivideByNoStations(q)
  BY <1>2, <1>5, <1>13 DEF DivideByNoStations
<1> QED
  BY <1>6, <1>7, <1>8, <1>9, <1>10, <1>11, <1>12, <1>13 DEF OracleStep

LEMMA AgentLeaves ==
  ASSUME TypeOK, NEW q \in QueueSizes, AgentStep, m_delta' <= MaxDelta
  PROVE  /\ Shape' /\ Counters' /\ OracleTypeOK'
         /\ algorithm = 100
<1>1. Shape /\ Counters /\ OracleTypeOK
  BY Before
<1>2. \A thr \in 0 .. Width - 1 : Store(thr) \in 0 .. FullThreshold
  BY Stored
<1>3. AuthenThreshold' \in 0 .. FullThreshold
  BY <1>2 DEF AgentStep
<1>4. UNCHANGED <<m_delta, m_cac_state, oracle, learning>> /\ algorithm = 100
  BY DEF AgentStep
<1>5. Shape' /\ Counters'
  BY <1>1, <1>3, <1>4 DEF Shape, Counters, learning
<1> QED
  BY <1>1, <1>4, <1>5 DEF OracleTypeOK, oracle, flags

-----------------------------------------------------------------------------
(* Algorithm_3                                                             *)

LEMMA HalvingLeaves ==
  ASSUME TypeOK, NEW q \in QueueSizes, HalvingStep(q), m_delta' <= MaxDelta
  PROVE  Leaves(q)
<1>1. /\ H!Step(q)
      /\ UNCHANGED <<oracle, m_cac_improve_counter, m_cac_history>>
  BY DEF HalvingStep
<1>2. Shape /\ Counters /\ OracleTypeOK /\ m_delta <= MaxDelta
  BY Before
<1>3. OracleTypeOK'
  BY <1>1, <1>2 DEF OracleTypeOK, oracle, flags
<1>4. /\ AuthenThreshold \in 0 .. FullThreshold
      /\ m_delta \in Nat
      /\ m_cac_wait_counter \in Int /\ m_cac_wait_counter <= CounterStart
  BY <1>2 DEF Shape, Counters
<1>5. m_delta \div 2 \in Nat
  BY <1>4, Divides
\* Enough for a step of Algorithm_3.
<1>6. ASSUME AuthenThreshold' \in 0 .. FullThreshold, m_delta' \in Nat,
             m_cac_state' \in {"WAIT", "LEARN", "WORK", "ABORTED"},
             m_cac_improve' \in BOOLEAN,
             m_cac_wait_counter' \in Int, m_cac_wait_counter' <= CounterStart,
             q = 0 => AuthenThreshold' >= AuthenThreshold
      PROVE  Leaves(q)
  <2>1. Shape' /\ Counters'
    BY <1>1, <1>2, <1>6 DEF Shape, Counters
  <2> QED
    BY <1>3, <1>6, <2>1 DEF Leaves
<1>7. CASE \/ H!WaitOpen(q) \/ H!WaitToLearn(q) \/ H!LearnFailed(q) \/ H!LearnToWork(q)
           \/ H!LearnBlocked(q) \/ H!WorkCountDown(q)
  <2>1. /\ AuthenThreshold' \in 0 .. FullThreshold
        /\ m_delta' \in Nat
        /\ q = 0 => AuthenThreshold' >= AuthenThreshold
    BY <1>4, <1>5, <1>7, Bounds
    DEF H!WaitOpen, H!WaitToLearn, H!LearnFailed, H!LearnToWork, H!LearnBlocked,
        H!WorkCountDown
  <2>2. m_cac_wait_counter' \in Int /\ m_cac_wait_counter' <= CounterStart
    BY <1>4, <1>7, Bounds
    DEF H!WaitOpen, H!WaitToLearn, H!LearnFailed, H!LearnToWork, H!LearnBlocked,
        H!WorkCountDown
  <2>3. /\ m_cac_state' \in {"WAIT", "LEARN", "WORK", "ABORTED"}
        /\ m_cac_improve' \in BOOLEAN
    BY <1>2, <1>7
    DEF Shape, H!WaitOpen, H!WaitToLearn, H!LearnFailed, H!LearnToWork,
        H!LearnBlocked, H!WorkCountDown
  <2> QED
    BY <1>6, <2>1, <2>2, <2>3
<1>8. CASE H!LearnAttempt(q)
  <2>1. /\ AuthenThreshold = 0
        /\ m_delta' = m_delta \div 2
        /\ AuthenThreshold' = H!Store(m_delta')
        /\ UNCHANGED <<m_cac_state, m_cac_improve, m_cac_wait_counter>>
    BY <1>8 DEF H!LearnAttempt
  <2>2. PICK d \in Nat : d = m_delta \div 2
    BY <1>5
  <2>3. AuthenThreshold' \in 0 .. FullThreshold
    BY <2>1, <2>2, SameStore, Stored
  <2> QED
    BY <1>2, <1>4, <1>5, <1>6, <2>1, <2>3 DEF Shape
<1>9. CASE H!WorkRaise(q)
  <2>1. m_delta' \in Nat
    BY <1>4, <1>9 DEF H!WorkRaise
  <2>2. PICK d \in Nat : d = m_delta' /\ AuthenThreshold + d < Width
    BY <1>4, <2>1, Bounds
  <2>3. (AuthenThreshold + d) % Width = AuthenThreshold + d
    BY <1>4, <2>2, Bounds
  <2>4. \/ AuthenThreshold' = FullThreshold
        \/ AuthenThreshold' = AuthenThreshold + d /\ AuthenThreshold + d < FullThreshold
    BY <1>4, <1>9, <2>2, <2>3, Bounds DEF H!WorkRaise, H!Wrap
  <2>5. /\ m_cac_improve' = FALSE \/ m_cac_improve' = m_cac_improve
        /\ UNCHANGED <<m_cac_state, m_cac_wait_counter>>
    BY <1>9 DEF H!WorkRaise
  <2>6. AuthenThreshold' \in AuthenThreshold .. FullThreshold
    BY <1>4, <2>4, Bounds
  <2>7. /\ m_cac_improve' \in BOOLEAN
        /\ m_cac_state' \in {"WAIT", "LEARN", "WORK", "ABORTED"}
    BY <1>2, <2>5 DEF Shape
  <2>8. AuthenThreshold' \in 0 .. FullThreshold /\ AuthenThreshold' >= AuthenThreshold
    BY <1>4, <2>6
  <2> QED
    BY <1>4, <1>6, <2>1, <2>5, <2>7, <2>8
<1>10. CASE H!WorkBusy(q)
  <2>1. m_delta' \in Nat /\ q # 0
    BY <1>4, <1>10 DEF H!WorkBusy
  <2>2. /\ m_cac_improve' = FALSE \/ m_cac_improve' = m_cac_improve
        /\ UNCHANGED <<AuthenThreshold, m_cac_state, m_cac_wait_counter>>
    BY <1>10 DEF H!WorkBusy
  <2> QED
    BY <1>2, <1>4, <1>6, <2>1, <2>2 DEF Shape
<1> QED
  BY <1>1, <1>7, <1>8, <1>9, <1>10 DEF H!Step

-----------------------------------------------------------------------------
(* Algorithm_1, _2, _7, _9 and _10                                         *)

\* What a step of a learning controller leaves.
Learned(q) == Shape' /\ (q = 0 => AuthenThreshold' >= AuthenThreshold \/ ForAGroup)

LEMMA RestoreLeaves ==
  ASSUME TypeOK, NEW d \in Nat, NEW e, ~L!Room(e), L!Restore(d), NEW q
  PROVE  Learned(q)
<1>1. Shape
  BY Before
<1>2. m_cac_history \in Seq(Group) /\ m_cac_history # <<>>
  BY <1>1 DEF Shape, L!Room
<1>3. /\ L!Top \in Group
      /\ L!Popped \in Seq(Group)
      /\ Len(L!Popped) < Len(m_cac_history)
  BY <1>2, Pops DEF L!Top, L!Popped
<1>4. L!Top.threshold \in Int /\ L!Top.delta \in Nat
  BY <1>3, Bounds DEF Group
<1>5. CASE d + L!Top.delta = 0
  BY <1>1, <1>5 DEF L!Restore, Learned, Shape
<1>6. CASE d + L!Top.delta # 0
  <2>1. /\ AuthenThreshold' = L!Store(L!Top.threshold)
        /\ m_delta' = L!Merge(d, L!Top.delta)
        /\ m_cac_improve' = TRUE
        /\ m_cac_history' = L!Popped
        /\ m_cac_state' = m_cac_state
    BY <1>6 DEF L!Restore
  <2>2. PICK f \in Nat : f = L!Top.delta
    BY <1>4
  <2>3. d * f \in Nat /\ d + f \in Nat \ {0}
    BY <1>6, <2>2, Product
  <2>4. (d * f) \div (d + f) \in Nat
    BY <2>3, Divides
  <2>5. m_delta' \in Nat
    BY <2>1, <2>2, <2>4 DEF L!Merge, L!AtLeastOne
  <2>6. AuthenThreshold' \in 0 .. FullThreshold
    BY <1>4, <2>1, SameStore, Stored
  <2> QED
    BY <1>1, <1>3, <2>1, <2>5, <2>6 DEF Shape, Learned, ForAGroup
<1> QED
  BY <1>5, <1>6

\* A raise: the bound of the model keeps the sum within 16 bits.
LEMMA RaiseLeaves ==
  ASSUME TypeOK, NEW d \in Nat, d <= MaxDelta, NEW q,
         AuthenThreshold' = L!Store(AuthenThreshold + d),
         m_delta' \in Nat, m_cac_improve' \in BOOLEAN,
         UNCHANGED <<m_cac_history, m_cac_state>>
  PROVE  Learned(q)
<1>1. Shape
  BY Before
<1>2. AuthenThreshold \in 0 .. FullThreshold
  BY <1>1 DEF Shape
<1>3. AuthenThreshold + d < Width
  BY <1>2, Bounds
<1>4. AuthenThreshold' \in AuthenThreshold .. FullThreshold
  BY <1>2, <1>3, SameStore, Raised
<1>5. AuthenThreshold' \in 0 .. FullThreshold /\ AuthenThreshold' >= AuthenThreshold
  BY <1>2, <1>4
<1> QED
  BY <1>1, <1>5 DEF Shape, Learned

LEMMA RaiseOrRestoreLeaves ==
  ASSUME TypeOK, NEW d \in Nat, NEW imp \in BOOLEAN, NEW q,
         L!RaiseOrRestore(d, imp), m_delta' <= MaxDelta
  PROVE  Learned(q)
<1>1. CASE ~L!Room(d) /\ L!Restore(d)
  BY <1>1, RestoreLeaves
<1>2. CASE /\ AuthenThreshold' = L!Store(AuthenThreshold + d)
           /\ m_delta' = d
           /\ m_cac_improve' = (imp /\ L!Wrap(AuthenThreshold + d) < FullThreshold)
           /\ UNCHANGED <<m_cac_history, m_cac_state>>
  <2>1. m_cac_improve' \in BOOLEAN
    BY <1>2
  <2> QED
    BY <1>2, <2>1, RaiseLeaves
<1> QED
  BY <1>1, <1>2 DEF L!RaiseOrRestore

\* Enough for a step that leaves the threshold, or is busy and lowers it.
LEMMA SteadyLeaves ==
  ASSUME TypeOK, NEW q, m_delta' \in Nat, m_cac_improve' \in BOOLEAN,
         m_cac_history' \in Seq(Group),
         m_cac_state' \in {"WAIT", "LEARN", "WORK", "ABORTED"},
         AuthenThreshold' \in 0 .. FullThreshold,
         q = 0 => AuthenThreshold' = AuthenThreshold \/ AuthenThreshold' = FullThreshold
  PROVE  Learned(q)
<1>1. AuthenThreshold \in 0 .. FullThreshold
  BY DEF TypeOK
<1>2. q = 0 => AuthenThreshold' >= AuthenThreshold
  BY <1>1, Bounds
<1> QED
  BY <1>2 DEF Learned, Shape

LEMMA WaitLeaves ==
  ASSUME TypeOK, NEW q \in QueueSizes, L!Wait(q)
  PROVE  Learned(q)
<1>1. Shape
  BY Before
<1>2. CASE L!WaitOpen(q)
  BY <1>1, <1>2, SteadyLeaves, Bounds DEF L!WaitOpen, Shape
<1>3. CASE L!WaitToLearn(q)
  <2>1. q # 0
    BY <1>3, StepAssumption DEF L!WaitToLearn, L!GroupArrived
  <2>2. /\ AuthenThreshold' = 0 /\ m_delta' = 1 /\ m_cac_improve' = FALSE
        /\ m_cac_state' = "LEARN" /\ m_cac_history' = m_cac_history
    BY <1>3 DEF L!WaitToLearn, L!StartLearning
  <2>3. m_cac_history' \in Seq(Group)
    BY <1>1, <2>2 DEF Shape
  <2>4. AuthenThreshold' \in 0 .. FullThreshold /\ m_delta' \in Nat
    BY <2>2, Bounds
  <2> QED
    BY <2>1, <2>2, <2>3, <2>4, SteadyLeaves
<1> QED
  BY <1>2, <1>3 DEF L!Wait

LEMMA LearnLeaves ==
  ASSUME TypeOK, NEW q \in QueueSizes, L!Learn(q), m_delta' <= MaxDelta
  PROVE  Learned(q)
<1>1. Shape
  BY Before
<1>2. m_delta \in Nat /\ m_delta <= MaxDelta /\ AuthenThreshold \in 0 .. FullThreshold
  BY <1>1, Before DEF Shape
<1>3. CASE L!LearnDone(q)
  <2>1. m_cac_history' \in Seq(Group)
    BY <1>3, EmptySeq DEF L!LearnDone
  <2> QED
    BY <1>1, <1>3, <2>1, SteadyLeaves DEF L!LearnDone, Shape
<1>4. CASE L!LearnRaise(q)
  <2>1. m_delta' \in Nat /\ m_cac_improve' \in BOOLEAN
    BY <1>2, <1>4 DEF L!LearnRaise
  <2> QED
    BY <1>2, <1>4, <2>1, RaiseLeaves DEF L!LearnRaise
<1>5. CASE L!LearnRestore(q)
  BY <1>2, <1>5, RestoreLeaves DEF L!LearnRestore
<1>6. CASE L!LearnToWork(q)
  <2>1. m_delta \div 4 \in Nat
    BY <1>2, Divides
  <2>2. m_delta' \in Nat
    BY <1>6, <2>1 DEF L!LearnToWork, L!AtLeastOne
  <2>3. PICK x \in Int : x = AuthenThreshold - m_delta'
    <3>1. AuthenThreshold - m_delta' \in Int
      BY <1>2, <2>2
    <3> QED
      BY <3>1
  <2>4. AuthenThreshold' = L!Store(x)
    BY <1>6, <2>3 DEF L!LearnToWork
  <2>5. AuthenThreshold' \in 0 .. FullThreshold
    BY <2>4, SameStore, Stored
  <2> QED
    BY <1>1, <1>6, <2>2, <2>5, SteadyLeaves DEF L!LearnToWork, Shape
<1>7. CASE L!LearnBlocked(q)
  BY <1>1, <1>7, SteadyLeaves DEF L!LearnBlocked, Shape
<1> QED
  BY <1>3, <1>4, <1>5, <1>6, <1>7 DEF L!Learn

LEMMA QuietWorkLeaves ==
  ASSUME TypeOK, NEW q \in QueueSizes, m_delta' <= MaxDelta,
         L!CountedQuiet(q) \/ L!SteadyQuiet(q)
  PROVE  Learned(q)
<1>1. m_delta \in Nat
  BY Before DEF Shape
<1>2. CASE L!CountedQuiet(q)
  <2> DEFINE imp == m_cac_improve \/ m_cac_improve_counter = 0
  <2>1. PICK d \in Nat : L!RaiseOrRestore(d, imp)
    BY <1>1, <1>2 DEF L!CountedQuiet
  <2>2. imp \in BOOLEAN
    BY Before DEF Shape
  <2> HIDE DEF imp
  <2> QED
    BY <2>1, <2>2, RaiseOrRestoreLeaves
<1>3. CASE L!SteadyQuiet(q)
  <2>1. PICK d \in Nat : L!RaiseOrRestore(d, TRUE)
    <3>1. (IF m_cac_improve THEN m_delta + 1 ELSE m_delta) \in Nat
      BY <1>1
    <3>2. L!RaiseOrRestore(IF m_cac_improve THEN m_delta + 1 ELSE m_delta, TRUE)
      BY <1>3 DEF L!SteadyQuiet
    <3> QED
      BY <3>1, <3>2
  <2> QED
    BY <2>1, RaiseOrRestoreLeaves
<1> QED
  BY <1>2, <1>3

LEMMA NewGroupLeaves ==
  ASSUME TypeOK, NEW q \in QueueSizes, L!WorkNewGroup(q)
  PROVE  Learned(q)
<1>1. Shape /\ m_delta <= MaxDelta
  BY Before
<1>2. /\ AuthenThreshold \in 0 .. FullThreshold - 1
      /\ m_delta \in 0 .. MaxDelta
  BY <1>1, Bounds DEF L!WorkNewGroup, L!Working, Shape
<1>3. [threshold |-> AuthenThreshold, delta |-> m_delta] \in Group
  BY <1>2 DEF Group
<1>4. m_cac_history' \in Seq(Group)
  BY <1>1, <1>3, AppendProperties DEF L!WorkNewGroup, Shape
<1>5. /\ AuthenThreshold' = 0 /\ m_delta' = 1 /\ m_cac_improve' = FALSE
      /\ m_cac_state' = "LEARN" /\ q # 0
  BY DEF L!WorkNewGroup, L!StartLearning
<1>6. AuthenThreshold' \in 0 .. FullThreshold /\ m_delta' \in Nat
  BY <1>5, Bounds
<1> QED
  BY <1>4, <1>5, <1>6, SteadyLeaves

LEMMA BusyLeaves ==
  ASSUME TypeOK, NEW q \in QueueSizes,
         L!PlainBusy(q) \/ L!RatioBusy(q) \/ L!BandedBusy(q)
  PROVE  Learned(q)
<1>1. Shape
  BY Before
<1>2. m_delta \in Nat /\ AuthenThreshold \in 0 .. FullThreshold
  BY <1>1 DEF Shape
<1>3. L!ReducedDelta \in Nat /\ L!StillImproves \in BOOLEAN
  BY <1>1, <1>2 DEF L!ReducedDelta, L!StillImproves, L!AtLeastOne, Shape
<1>4. q # 0
  BY DEF L!PlainBusy, L!RatioBusy, L!BandedBusy, L!WorkBusy
<1>5. CASE L!PlainBusy(q)
  <2>1. m_delta' \in Nat
    BY <1>2, <1>3, <1>5 DEF L!PlainBusy, L!AtLeastOne
  <2> QED
    BY <1>1, <1>3, <1>4, <1>5, <2>1, SteadyLeaves DEF L!PlainBusy, Shape
<1>6. CASE L!RatioBusy(q)
  <2>1. ASSUME m_delta' = L!ReducedDelta, m_cac_improve' = L!StillImproves,
               UNCHANGED <<AuthenThreshold, m_cac_history, m_cac_state>>
        PROVE  Learned(q)
    BY <1>1, <1>3, <1>4, <2>1, SteadyLeaves DEF Shape
  <2>2. ASSUME NEW d \in 1 .. L!AtLeastOne(L!ReducedDelta),
               AuthenThreshold' = L!Store(AuthenThreshold + d),
               m_delta' = L!ReducedDelta, m_cac_improve' = L!StillImproves,
               UNCHANGED <<m_cac_history, m_cac_state>>
        PROVE  Learned(q)
    <3>1. AuthenThreshold + d \in Int
      BY <1>2, <1>3 DEF L!AtLeastOne
    <3>2. AuthenThreshold' \in 0 .. FullThreshold
      BY <2>2, <3>1, SameStore, Stored
    <3> QED
      BY <1>1, <1>3, <1>4, <2>2, <3>2, SteadyLeaves DEF Shape
  <2>3. ASSUME NEW d, ~L!Room(d), L!Restore(L!ReducedDelta)
        PROVE  Learned(q)
    BY <1>3, <2>3, RestoreLeaves
  <2> QED
    BY <1>6, <2>1, <2>2, <2>3 DEF L!RatioBusy
<1>7. CASE L!BandedBusy(q)
  <2>1. AuthenThreshold + m_delta \in Int
    BY <1>2
  <2>2. AuthenThreshold' \in 0 .. FullThreshold
    BY <1>2, <1>7, <2>1, SameStore, Stored DEF L!BandedBusy
  <2>3. q \in Nat
    BY OracleAssumption
  <2>4. q > 10 => (q - 1) \div 10 \in Nat
    BY <2>3, Divides
  <2>5. m_delta' \in Nat
    BY <1>2, <1>7, <2>3, <2>4 DEF L!BandedBusy, L!AtLeastOne
  <2> QED
    BY <1>1, <1>4, <1>7, <2>2, <2>5, SteadyLeaves DEF L!BandedBusy, Shape
<1> QED
  BY <1>5, <1>6, <1>7

\* The counters, and the bounds of L!DivideByZero and of Algorithm_8, which
\* SwitchingControl leaves out.
LEMMA LearningLeaves ==
  ASSUME TypeOK, NEW q \in QueueSizes, LearningStep(q), m_delta' <= MaxDelta
  PROVE  Leaves(q)
<1>1. /\ algorithm \in {1, 2, 7, 9, 10} /\ L!Step(q)
      /\ UNCHANGED oracle
  BY DEF LearningStep
<1>2. Shape /\ Counters /\ OracleTypeOK
  BY Before
<1>3. OracleTypeOK'
  BY <1>1, <1>2 DEF OracleTypeOK, oracle, flags
<1>4. /\ m_cac_wait_counter \in Int /\ m_cac_wait_counter <= CounterStart
      /\ m_cac_improve_counter \in 0 .. CounterStart
      /\ CounterStart \in Nat
  BY <1>2, Bounds DEF Counters
<1> DEFINE Working == \/ L!CountedQuiet(q) \/ L!SteadyQuiet(q)  \/ L!WorkNewGroup(q)
                      \/ L!PlainBusy(q)    \/ L!RatioBusy(q)    \/ L!BandedBusy(q)
           Counting == L!WorkCountDown(q) \/ L!WorkDone(q)
<1>5. L!Wait(q) \/ L!Learn(q) \/ Working \/ Counting
  <2>1. algorithm # 8
    BY <1>1
  <2>2. ~(L!ScaledQuiet(q) \/ L!ShrinkBusy(q) \/ L!DivideByZero(q))
    BY <2>1 DEF L!ScaledQuiet, L!ShrinkBusy, L!DivideByZero
  <2> QED
    BY <1>1, <2>2 DEF L!Step, L!Work
<1>6. ASSUME Counting PROVE Learned(q)
  <2>1. m_cac_history' \in Seq(Group)
    BY <1>2, <1>6, EmptySeq DEF L!WorkCountDown, L!WorkDone, Shape
  <2>2. /\ UNCHANGED <<AuthenThreshold, m_delta, m_cac_improve>>
        /\ m_cac_state' \in {m_cac_state, "WAIT"}
    BY <1>6 DEF L!WorkCountDown, L!WorkDone
  <2>3. m_cac_state' \in {"WAIT", "LEARN", "WORK", "ABORTED"}
    BY <1>2, <2>2 DEF Shape
  <2> QED
    <3>1. /\ AuthenThreshold' \in 0 .. FullThreshold
          /\ m_delta' \in Nat
          /\ m_cac_improve' \in BOOLEAN
      BY <1>2, <2>2 DEF Shape
    <3> QED
      BY <2>1, <2>2, <2>3, <3>1, SteadyLeaves
<1>7. Learned(q)
  <2>1. CASE Working
    BY <2>1, QuietWorkLeaves, NewGroupLeaves, BusyLeaves
  <2>2. CASE L!Wait(q)
    BY <2>2, WaitLeaves
  <2>3. CASE L!Learn(q)
    BY <2>3, LearnLeaves
  <2> HIDE DEF Working, Counting
  <2> QED
    BY <1>5, <1>6, <2>1, <2>2, <2>3
<1>8. Counters'
  <2>1. CASE L!Wait(q) \/ L!Learn(q)
    BY <1>4, <2>1
    DEF L!Wait, L!WaitOpen, L!WaitToLearn, L!Learn, L!LearnDone, L!LearnRaise,
        L!LearnRestore, L!LearnToWork, L!LearnBlocked, L!counters, Counters
  <2>2. CASE Working
    <3>1. /\ m_cac_wait_counter' = m_cac_wait_counter
          /\ m_cac_improve_counter' \in
               {m_cac_improve_counter, CounterStart,
                IF m_cac_improve_counter > 0 THEN m_cac_improve_counter - 1
                                             ELSE m_cac_improve_counter}
      BY <2>2
      DEF L!CountedQuiet, L!SteadyQuiet, L!WorkNewGroup, L!PlainBusy, L!RatioBusy,
          L!BandedBusy, L!counters
    <3> QED
      BY <1>4, <3>1 DEF Counters
  <2>3. CASE Counting
    BY <1>4, <2>3 DEF L!WorkCountDown, L!WorkDone, L!counters, Counters
  <2> QED
    BY <1>5, <2>1, <2>2, <2>3
<1> QED
  BY <1>3, <1>7, <1>8 DEF Learned, Leaves

-----------------------------------------------------------------------------
(* The theorems                                                            *)

\* Whatever runs next, whatever the queue holds: a beacon of every algorithm.
LEMMA BeaconLeaves ==
  ASSUME TypeOK, NEW q \in QueueSizes, Beacon(q)
  PROVE  /\ TypeOK'
         /\ m_queueLast' = q
         /\ (q = 0 /\ algorithm # 100) => AuthenThreshold' >= AuthenThreshold \/ ForAGroup
<1>1. /\ m_delta' <= MaxDelta
      /\ m_queueLast' = q
      /\ algorithm' = algorithm
  BY DEF Beacon
<1>2. /\ Shape' /\ Counters' /\ OracleTypeOK'
      /\ (q = 0 /\ algorithm # 100) => AuthenThreshold' >= AuthenThreshold \/ ForAGroup
  BY <1>1, AgentLeaves, LearningLeaves, HalvingLeaves, OracleLeaves
  DEF Beacon, Leaves
<1>3. algorithm \in Selectable
  BY Before
<1>4. m_delta' \in 0 .. MaxDelta
  BY <1>1, <1>2, Bounds DEF Shape
<1>5. TypeOK'
  BY <1>1, <1>2, <1>3, <1>4 DEF TypeOK, Shape, Counters, Group
<1> QED
  BY <1>1, <1>2, <1>5

\* A change of the algorithm and an announcement leave the gate and the stack.
LEMMA Unmoved ==
  ASSUME TypeOK, AssAlg \/ Scenario \/ UNCHANGED vars
  PROVE  /\ TypeOK'
         /\ UNCHANGED <<AuthenThreshold, m_delta, T1, m_cac_history, m_queueLast>>
         /\ m_saturatedAssociated => m_saturatedAssociated'
<1>1. OracleTypeOK
  BY DEF TypeOK
<1>2. CASE AssAlg \/ UNCHANGED vars
  BY <1>1, <1>2 DEF AssAlg, vars, learning, oracle, flags, TypeOK, OracleTypeOK
<1>3. CASE Scenario
  <2>1. /\ UNCHANGED <<algorithm, learning, m_queueLast>>
        /\ UNCHANGED <<AuthenThreshold, m_delta, m_cac_state, firstWave, T1>>
    BY <1>3 DEF Scenario, Announce
  <2>2. /\ m_saturatedAssociated' \in {m_saturatedAssociated, TRUE}
        /\ m_associatingStasAppear' \in {m_associatingStasAppear, TRUE}
        /\ m_secondWaveAppear' \in {m_secondWaveAppear, TRUE}
        /\ m_nAssociating' \in Populations
        /\ m_saturatedAssociated => m_saturatedAssociated'
    <3>1. CASE SetSaturatedAssociated
      BY <1>1, <3>1 DEF SetSaturatedAssociated, OracleTypeOK
    <3>2. CASE SetAssociatingStasAppear
      BY <1>1, <3>2 DEF SetAssociatingStasAppear, OracleTypeOK
    <3>3. CASE SetSecondWaveAppear
      BY <1>1, <3>3 DEF SetSecondWaveAppear, OracleTypeOK
    <3> QED
      BY <1>3, <3>1, <3>2, <3>3 DEF Scenario, Announce
  <2> QED
    BY <1>1, <2>1, <2>2 DEF TypeOK, OracleTypeOK, learning
<1> QED
  BY <1>2, <1>3

LEMMA NextTypeOK == TypeOK /\ [Next]_vars => TypeOK'
  BY BeaconLeaves, Unmoved DEF Next, SendOneBeacon

LEMMA InitTypeOK == Init => TypeOK
<1> SUFFICES ASSUME Init PROVE TypeOK
  OBVIOUS
<1>1. OracleTypeOK
  <2>1. T1 \in 0 .. FullThreshold
    BY Bounds DEF Init, OracleInit
  <2> QED
    BY <2>1 DEF Init, OracleInit, OracleTypeOK
<1>2. m_cac_history \in Seq(Group)
  BY EmptySeq DEF Init
<1>3. AuthenThreshold \in 0 .. FullThreshold /\ m_delta \in 0 .. MaxDelta
  BY Bounds DEF Init
<1>4. /\ m_cac_wait_counter \in Int /\ m_cac_wait_counter <= CounterStart
      /\ m_cac_improve_counter \in 0 .. CounterStart
  BY Bounds DEF Init
<1>5. m_queueLast \in QueueSizes
  BY OracleAssumption DEF Init
<1> QED
  BY <1>1, <1>2, <1>3, <1>4, <1>5 DEF Init, TypeOK, Group

\* The variables keep their ranges over any history of changes.
THEOREM TypeCorrect == FairSpec => []TypeOK
BY InitTypeOK, NextTypeOK, PTL DEF FairSpec

\* On a quiet beacon the gate closes only for a group of stations, whichever
\* controller left the threshold, the step and the stack.
THEOREM QuietClosesOnly == FairSpec => QuietClosesForGroups
<1>1. TypeOK /\ [Next]_vars
        => [(/\ m_queueLast' = 0
             /\ AuthenThreshold' < AuthenThreshold
             /\ algorithm # 100)
              => \/ Len(m_cac_history') < Len(m_cac_history)
                 \/ m_associatingStasAppear /\ ~m_associatingStasAppear'
                 \/ m_secondWaveAppear /\ ~m_secondWaveAppear']_vars
  <2> SUFFICES ASSUME TypeOK, Next, m_queueLast' = 0, algorithm # 100,
                      AuthenThreshold' < AuthenThreshold
               PROVE  ForAGroup
    BY DEF ForAGroup
  <2>1. AuthenThreshold \in 0 .. FullThreshold /\ TypeOK'
    BY NextTypeOK DEF TypeOK
  <2>2. AuthenThreshold' \in 0 .. FullThreshold
    BY <2>1 DEF TypeOK
  <2>3. ~(AssAlg \/ Scenario)
    BY <2>1, Unmoved
  <2>4. PICK q \in QueueSizes : Beacon(q)
    BY <2>3 DEF Next, SendOneBeacon
  <2>5. AuthenThreshold' >= AuthenThreshold \/ ForAGroup
    BY <2>4, BeaconLeaves
  <2> QED
    BY <2>1, <2>2, <2>5
<1> QED
  BY <1>1, TypeCorrect, PTL DEF FairSpec, QuietClosesForGroups

\* What makes BothGroupsShare inductive: before the stations with traffic are
\* associated no second group has lowered T1, so that the full threshold, which
\* Algorithm_6 then publishes, does not exceed it.
NoWaveYet == ~m_saturatedAssociated => T1 = FullThreshold

LEMMA NextNoWaveYet == TypeOK /\ NoWaveYet /\ [Next]_vars => NoWaveYet'
<1> SUFFICES ASSUME TypeOK, NoWaveYet, [Next]_vars PROVE NoWaveYet'
  OBVIOUS
<1>1. CASE AssAlg \/ Scenario \/ UNCHANGED vars
  BY <1>1, Unmoved DEF NoWaveYet, TypeOK, OracleTypeOK
<1>2. ASSUME NEW q \in QueueSizes, Beacon(q) PROVE NoWaveYet'
  <2>1. CASE SecondGroup(q)
    BY <2>1 DEF SecondGroup, SecondGroupFlag, Oracle, NoWaveYet
  <2>2. CASE ~SecondGroup(q)
    <3>1. UNCHANGED <<m_saturatedAssociated, T1>>
      BY <1>2, <2>2
      DEF Beacon, AgentStep, LearningStep, HalvingStep, OracleStep, FixedStep,
          NoControl, FirstGroup, KnownQuiet, WaveQuiet, WaveBusy, DivideByNoStations,
          oracle, flags
    <3> QED
      BY <3>1 DEF NoWaveYet
  <2> QED
    BY <2>1, <2>2
<1> QED
  BY <1>1, <1>2 DEF Next, SendOneBeacon

LEMMA WaveShare ==
  ASSUME TypeOK, NoWaveYet, NEW q \in QueueSizes, Beacon(q), algorithm = 6,
         AuthenThreshold' > T1, AuthenThreshold' > AuthenThreshold
  PROVE  m_delta' = Share(m_nAssociating)
<1>1. /\ AuthenThreshold \in 0 .. FullThreshold
      /\ T1 \in 0 .. FullThreshold
      /\ m_delta \in 0 .. MaxDelta
  BY DEF TypeOK, OracleTypeOK
<1>2. OracleStep(q)
  BY DEF Beacon, AgentStep, LearningStep, HalvingStep
<1>3. ~(FixedStep(q) \/ KnownQuiet(q))
  BY DEF FixedStep, KnownQuiet
<1>4. ~NoControl(q)
  BY <1>1 DEF NoControl, NoWaveYet
<1>5. ~(SecondGroup(q) \/ DivideByNoStations(q))
  BY <1>1 DEF SecondGroup, DivideByNoStations
<1>6. CASE WaveQuiet(q)
  <2>1. CASE AuthenThreshold + m_delta > T1
    BY <1>6, <2>1 DEF WaveQuiet
  <2>2. CASE ~(AuthenThreshold + m_delta > T1)
    <3>1. AuthenThreshold' = Store(AuthenThreshold + m_delta)
      BY <1>6, <2>2 DEF WaveQuiet
    <3>2. AuthenThreshold + m_delta < Width
      BY <1>1, Bounds
    <3>3. AuthenThreshold' <= AuthenThreshold + m_delta /\ AuthenThreshold' \in Int
      BY <1>1, <3>1, <3>2, Raised
    <3> QED
      BY <1>1, <2>2, <3>3
  <2> QED
    BY <2>1, <2>2
<1>7. CASE FirstGroup(q) \/ WaveBusy(q)
  BY <1>7 DEF FirstGroup, WaveBusy
<1> QED
  BY <1>2, <1>3, <1>4, <1>5, <1>6, <1>7 DEF OracleStep

\* Algorithm_6 goes beyond the threshold of the second group only by the step
\* for both groups, whatever step another controller has left.
THEOREM BothGroupsTogether == FairSpec => BothGroupsShare
<1>1. Init => NoWaveYet
  BY DEF Init, OracleInit, NoWaveYet
<1>2. TypeOK /\ NoWaveYet /\ [Next]_vars
        => [(/\ algorithm = 6
             /\ AuthenThreshold' > T1
             /\ AuthenThreshold' > AuthenThreshold)
              => m_delta' = Share(m_nAssociating)]_vars
  <2> SUFFICES ASSUME TypeOK, NoWaveYet, Next, algorithm = 6,
                      AuthenThreshold' > T1, AuthenThreshold' > AuthenThreshold
               PROVE  m_delta' = Share(m_nAssociating)
    OBVIOUS
  <2>1. AuthenThreshold \in 0 .. FullThreshold
    BY DEF TypeOK
  <2>2. ~(AssAlg \/ Scenario)
    BY <2>1, Unmoved
  <2>3. PICK q \in QueueSizes : Beacon(q)
    BY <2>2 DEF Next, SendOneBeacon
  <2> QED
    BY <2>3, WaveShare
<1> QED
  BY <1>1, <1>2, NextNoWaveYet, TypeCorrect, PTL DEF FairSpec, BothGroupsShare
=============================================================================
