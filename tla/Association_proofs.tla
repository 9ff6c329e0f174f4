-------------------------- MODULE Association_proofs --------------------------
(* What holds of authentication and association for every set of stations,  *)
(* every protocol, every length of the queues and every number of lost      *)
(* frames, late answers, missed beacons, leaves and changes of              *)
(* ActiveProbing: the types,                                                *)
(* no wait without a timer, no timer without its wait, the agreement of the *)
(* two sides, and that the AP takes in no station its thresholds exclude.   *)
EXTENDS Association, SequenceTheorems, TLAPS

-----------------------------------------------------------------------------
(* Types: the parts of TypeOK that an operator may change                  *)

StationTypes ==
  /\ m_state \in [Stations -> MacState]
  /\ timers \in [Stations -> SUBSET Timers]
  /\ staQueue \in [Stations -> Seq(Requests)]
  /\ \A s \in Stations : Len(staQueue[s]) <= MaxSize
HeardTypes ==
  /\ fasTAssocType \in [Stations -> BOOLEAN]
  /\ fastAssocThreshold \in [Stations -> {0} \cup Thresholds]
BackoffTypes ==
  /\ m_localTI \in [Stations -> {0} \cup m_minTI .. m_maxTI]
  /\ m_beaconsLeft \in [Stations -> 0 .. m_maxTI - 1]
  /\ m_countingBeacons \in [Stations -> BOOLEAN]
ApTypes ==
  /\ apQueue \in Seq(Frames)
  /\ Len(apQueue) <= MaxSize
  /\ apState \in [Stations -> {"BRAND_NEW", "WAIT_ASSOC_TX_OK", "GOT_ASSOC_TX_OK",
                               "DISASSOC"}]
  /\ m_sensorList \subseteq Sensors
  /\ m_OffloadList \subseteq Stations \ Sensors
Budgets == [lost : Nat, late : Nat, missed : Nat, disassoc : Nat, switches : Nat]

LEMMA TypeParts ==
  TypeOK <=> /\ StationTypes /\ HeardTypes /\ BackoffTypes /\ ApTypes
             /\ m_activeProbing \in [Stations -> BOOLEAN]
             /\ published \in Thresholds /\ budget \in Budgets
BY DEF TypeOK, StationTypes, HeardTypes, BackoffTypes, ApTypes, Budgets

LEMMA NewTypes ==
  ASSUME StationTypes', HeardTypes', BackoffTypes', ApTypes',
         m_activeProbing' \in [Stations -> BOOLEAN],
         published' \in Thresholds, budget' \in Budgets
  PROVE  TypeOK'
BY DEF TypeOK, StationTypes, HeardTypes, BackoffTypes, ApTypes, Budgets

LEMMA EnqueuedType ==
  ASSUME NEW S, NEW q \in Seq(S), Len(q) <= MaxSize, NEW frame \in S
  PROVE  Enqueued(q, frame) \in Seq(S) /\ Len(Enqueued(q, frame)) <= MaxSize
<1>1. Append(q, frame) \in Seq(S) /\ Len(Append(q, frame)) = Len(q) + 1 /\ Len(q) \in Nat
  OBVIOUS
<1>2. QED
  BY <1>1, BoundAssumption DEF Enqueued

LEMMA SendTypes ==
  ASSUME StationTypes, NEW s \in Stations, NEW frame \in Requests, Send(s, frame)
  PROVE  /\ staQueue' \in [Stations -> Seq(Requests)]
         /\ \A x \in Stations : Len(staQueue'[x]) <= MaxSize
<1>1. /\ Enqueued(staQueue[s], frame) \in Seq(Requests)
      /\ Len(Enqueued(staQueue[s], frame)) <= MaxSize
  BY EnqueuedType DEF StationTypes
<1>2. QED
  BY <1>1 DEF Send, StationTypes

\* The four requests, and the state and the timers set alone.
LEMMA RequestTypes ==
  ASSUME StationTypes, NEW s \in Stations, NEW pending \in SUBSET Timers,
         \/ SendAssociationRequest(s, pending)
         \/ SendProbeRequest(s, pending)
         \/ SendDisAssociationRequest(s, pending)
  PROVE  StationTypes'
<1>1. {"AssocReq", "ProbeReq", "Disassociation"} \subseteq Requests
  BY DEF Requests
<1>2. PICK frame \in {"AssocReq", "ProbeReq", "Disassociation"} : Send(s, frame)
  BY DEF SendAssociationRequest, SendProbeRequest, SendDisAssociationRequest
<1>3. /\ staQueue' \in [Stations -> Seq(Requests)]
      /\ \A x \in Stations : Len(staQueue'[x]) <= MaxSize
  BY <1>1, <1>2, SendTypes
<1>4. /\ m_state' \in [Stations -> MacState]
      /\ timers' \in [Stations -> SUBSET Timers]
  <2>1. PICK v \in MacState, t \in SUBSET Timers : SetState(s, v) /\ SetTimers(s, t)
    <3>1. \A x \in Timers : pending \cup {x} \in SUBSET Timers
      OBVIOUS
    <3>2. QED
      BY <3>1 DEF SendAssociationRequest, SendProbeRequest, SendDisAssociationRequest,
                  MacState, Timers
  <2>2. QED
    BY <2>1 DEF SetState, SetTimers, StationTypes
<1>5. QED
  BY <1>3, <1>4 DEF StationTypes

LEMMA AuthRequestTypes ==
  ASSUME StationTypes, m_countingBeacons \in [Stations -> BOOLEAN], NEW s \in Stations,
         NEW threshold, NEW distributed, NEW pending \in SUBSET Timers,
         SendAuthenticationRequest(s, threshold, distributed, pending)
  PROVE  StationTypes' /\ m_countingBeacons' \in [Stations -> BOOLEAN]
<1>1. m_countingBeacons' \in [Stations -> BOOLEAN]
  BY DEF SendAuthenticationRequest
<1>2. CASE Admitted(s, threshold, distributed)
  <2>1. Send(s, "AuthReq") /\ "AuthReq" \in Requests
    BY <1>2 DEF SendAuthenticationRequest, Requests
  <2>2. /\ staQueue' \in [Stations -> Seq(Requests)]
        /\ \A x \in Stations : Len(staQueue'[x]) <= MaxSize
    BY <2>1, SendTypes
  <2>3. /\ m_state' \in [Stations -> MacState]
        /\ timers' \in [Stations -> SUBSET Timers]
    <3>1. pending \cup {"auth"} \in SUBSET Timers
      BY DEF Timers
    <3>2. QED
      BY <1>2, <3>1 DEF SendAuthenticationRequest, SetState, SetTimers, StationTypes,
                        MacState
  <2>4. QED
    BY <1>1, <2>2, <2>3 DEF StationTypes
<1>3. CASE ~Admitted(s, threshold, distributed)
  BY <1>1, <1>3 DEF SendAuthenticationRequest, SetState, SetTimers, StationTypes, MacState
<1>4. QED
  BY <1>2, <1>3

LEMMA SetTypes ==
  ASSUME StationTypes, NEW s \in Stations, NEW t \in SUBSET Timers, SetTimers(s, t),
         UNCHANGED staQueue,
         UNCHANGED m_state \/ \E v \in MacState : SetState(s, v)
  PROVE  StationTypes'
BY DEF StationTypes, SetTimers, SetState

-----------------------------------------------------------------------------

LEMMA BeaconTypes == ASSUME TypeOK, NEW s \in Stations, ReceiveBeacon(s) PROVE TypeOK'
<1> USE TypeParts, NewTypes
<1>1. HearBeacon(s)
  BY DEF ReceiveBeacon, BeaconCentralized, BeaconDraw, BeaconCount, BeaconIgnored
<1>2. HeardTypes' /\ ApTypes' /\ (published \in Thresholds)' /\ (budget \in Budgets)'
      /\ (m_activeProbing \in [Stations -> BOOLEAN])'
  BY <1>1, FlagAssumption DEF HearBeacon, HeardTypes, ApTypes, apVars, lists
<1>3. LocalTI(s) \in m_minTI .. m_maxTI
  BY IntervalAssumption DEF LocalTI, BackoffTypes
<1>4. /\ timers[s] \cup {"watchdog"} \in SUBSET Timers
      /\ timers[s] \cup {"watchdog"} \cup {"slot"} \in SUBSET Timers
      /\ timers[s] \cup {"watchdog"} \cup {} \in SUBSET Timers
  BY DEF StationTypes, Timers
<1>5. CASE BeaconCentralized(s)
  <2>1. StationTypes' /\ m_countingBeacons' \in [Stations -> BOOLEAN]
    BY <1>4, <1>5, AuthRequestTypes DEF BeaconCentralized, BackoffTypes
  <2>2. BackoffTypes'
    BY <1>5, <2>1 DEF BeaconCentralized, BackoffTypes
  <2>3. QED
    BY <1>2, <2>1, <2>2
<1>6. CASE BeaconDraw(s)
  <2>1. StationTypes'
    BY <1>4, <1>6, SetTypes DEF BeaconDraw
  <2>2. PICK left \in 0 .. LocalTI(s) - 1 : m_beaconsLeft' = [m_beaconsLeft EXCEPT ![s] = left]
    BY <1>6 DEF BeaconDraw
  <2>3. left \in 0 .. m_maxTI - 1
    BY <1>3, <2>2, IntervalAssumption
  <2>4. BackoffTypes'
    BY <1>3, <1>6, <2>2, <2>3 DEF BeaconDraw, BackoffTypes
  <2>5. QED
    BY <1>2, <2>1, <2>4
<1>7. CASE BeaconCount(s)
  <2>1. StationTypes'
    BY <1>4, <1>7, SetTypes DEF BeaconCount
  <2>2. PICK left \in 0 .. m_maxTI - 1 : m_beaconsLeft' = [m_beaconsLeft EXCEPT ![s] = left]
    <3>1. m_beaconsLeft[s] \in 0 .. m_maxTI - 1
      BY DEF BackoffTypes
    <3>2. (IF m_beaconsLeft[s] > 0 THEN m_beaconsLeft[s] - 1 ELSE 0) \in 0 .. m_maxTI - 1
      BY <3>1, IntervalAssumption
    <3>3. QED
      BY <1>7, <3>2 DEF BeaconCount
  <2>3. BackoffTypes'
    BY <1>3, <1>7, <2>2 DEF BeaconCount, BackoffTypes
  <2>4. QED
    BY <1>2, <2>1, <2>3
<1>8. CASE BeaconIgnored(s)
  <2>1. StationTypes'
    BY <1>4, <1>8, SetTypes DEF BeaconIgnored
  <2>2. m_localTI' \in [Stations -> {0} \cup m_minTI .. m_maxTI]
    BY <1>3, <1>8 DEF BeaconIgnored, BackoffTypes
  <2>3. BackoffTypes'
    BY <1>8, <2>2 DEF BeaconIgnored, BackoffTypes
  <2>4. QED
    BY <1>2, <2>1, <2>3
<1>9. QED
  BY <1>5, <1>6, <1>7, <1>8 DEF ReceiveBeacon

\* A timer that fires costs at most one of the late answers.
LEMMA TimeoutBudget ==
  ASSUME budget \in Budgets, NEW s \in Stations, Timeout(s)
  PROVE  /\ budget' \in Budgets
         /\ \A x \in {"lost", "missed", "disassoc", "switches"} : budget'[x] = budget[x]
         /\ budget'.late <= budget.late
<1>1. ASSUME NEW t, NEW request, NEW answers, Fires(s, t, request, answers)
      PROVE  UNCHANGED budget \/ (budget.late > 0 /\ budget' = [budget EXCEPT !.late = @ - 1])
  BY <1>1 DEF Fires
<1>2. UNCHANGED budget \/ (budget.late > 0 /\ budget' = [budget EXCEPT !.late = @ - 1])
  BY <1>1 DEF Timeout, AuthRequestTimeout, AssocRequestTimeout, ProbeRequestTimeout,
              DisassocTimeout, CountSlot
<1>3. QED
  BY <1>2 DEF Budgets

LEMMA TimeoutTypes == ASSUME TypeOK, NEW s \in Stations, Timeout(s) PROVE TypeOK'
<1> USE TypeParts, NewTypes
<1>1. /\ HeardTypes' /\ ApTypes' /\ (published \in Thresholds)' /\ (budget \in Budgets)'
      /\ (m_activeProbing \in [Stations -> BOOLEAN])'
  BY TimeoutBudget
  DEF Timeout, AuthRequestTimeout, AssocRequestTimeout, ProbeRequestTimeout,
      DisassocTimeout, CountSlot, HeardTypes, ApTypes, apVars, lists, heard
<1>2. \A x : timers[s] \ {x} \in SUBSET Timers
  BY DEF StationTypes
<1>3. CASE AuthRequestTimeout(s)
  <2>1. CASE fasTAssocType[s]
    <3>1. StationTypes'
      BY <1>2, <1>3, <2>1, SetTypes DEF AuthRequestTimeout, MacState
    <3>2. DoubledTI(s) \in {0} \cup m_minTI .. m_maxTI
      BY IntervalAssumption DEF DoubledTI, BackoffTypes
    <3>3. BackoffTypes'
      BY <1>3, <2>1, <3>2 DEF AuthRequestTimeout, BackoffTypes
    <3>4. QED
      BY <1>1, <3>1, <3>3
  <2>2. CASE ~fasTAssocType[s]
    <3>1. StationTypes' /\ m_countingBeacons' \in [Stations -> BOOLEAN]
      <4>1. timers[s] \ {"auth"} \in SUBSET Timers
        BY <1>2
      <4>2. SendAuthenticationRequest(s, fastAssocThreshold[s], FALSE, timers[s] \ {"auth"})
        BY <1>3, <2>2 DEF AuthRequestTimeout
      <4>3. QED
        BY <4>1, <4>2, AuthRequestTypes DEF BackoffTypes
    <3>2. BackoffTypes'
      BY <1>3, <2>2, <3>1 DEF AuthRequestTimeout, BackoffTypes
    <3>3. QED
      BY <1>1, <3>1, <3>2
  <2>3. QED
    BY <2>1, <2>2
<1>4. CASE AssocRequestTimeout(s) \/ ProbeRequestTimeout(s) \/ DisassocTimeout(s)
  <2>1. StationTypes'
    <3>1. PICK t \in SUBSET Timers : \/ SendAssociationRequest(s, t)
                                      \/ SendProbeRequest(s, t)
                                      \/ SendDisAssociationRequest(s, t)
      BY <1>2, <1>4 DEF AssocRequestTimeout, ProbeRequestTimeout, DisassocTimeout
    <3>2. QED
      BY <3>1, RequestTypes
  <2>2. BackoffTypes'
    BY <1>4 DEF AssocRequestTimeout, ProbeRequestTimeout, DisassocTimeout, BackoffTypes,
                backoff
  <2>3. QED
    BY <1>1, <2>1, <2>2
<1>5. CASE CountSlot(s)
  <2>1. StationTypes' /\ m_countingBeacons' \in [Stations -> BOOLEAN]
    <3>1. timers[s] \ {"slot"} \in SUBSET Timers
      BY <1>2
    <3>2. SendAuthenticationRequest(s, fastAssocThreshold[s], fasTAssocType[s],
                                    timers[s] \ {"slot"})
      BY <1>5 DEF CountSlot
    <3>3. QED
      BY <3>1, <3>2, AuthRequestTypes DEF BackoffTypes
  <2>2. BackoffTypes'
    BY <1>5, <2>1 DEF CountSlot, BackoffTypes
  <2>3. QED
    BY <1>1, <2>1, <2>2
<1>6. QED
  BY <1>3, <1>4, <1>5 DEF Timeout

LEMMA UserTypes ==
  ASSUME TypeOK, NEW s \in Stations,
         \/ MissedBeacons(s) \/ TryToEnsureAssociated(s)
         \/ SetActiveProbing(s) \/ Disassociate(s)
  PROVE  TypeOK'
<1> USE TypeParts, NewTypes
<1>1. HeardTypes' /\ ApTypes' /\ BackoffTypes' /\ (published \in Thresholds)'
  BY DEF MissedBeacons, TryToEnsureAssociated, SetActiveProbing, Disassociate,
         HeardTypes, ApTypes, BackoffTypes, apVars, lists, heard, backoff
<1>2. budget' \in Budgets
  BY DEF MissedBeacons, TryToEnsureAssociated, SetActiveProbing, Disassociate, Budgets
<1>3. m_activeProbing' \in [Stations -> BOOLEAN]
  BY DEF MissedBeacons, TryToEnsureAssociated, SetActiveProbing, Disassociate
<1>4. timers[s] \in SUBSET Timers /\ \A x : timers[s] \ {x} \in SUBSET Timers
  BY DEF StationTypes
<1>5. StationTypes'
  <2>1. CASE MissedBeacons(s)
    BY <1>4, <2>1, RequestTypes, SetTypes DEF MissedBeacons, MacState
  <2>2. CASE TryToEnsureAssociated(s)
    BY <1>4, <2>2, RequestTypes DEF TryToEnsureAssociated
  <2>3. CASE SetActiveProbing(s)
    <3>1. PICK t \in SUBSET Timers : SetTimers(s, t)
      BY <1>4, <2>3 DEF SetActiveProbing
    <3>2. QED
      BY <2>3, <3>1, SetTypes DEF SetActiveProbing
  <2>4. CASE Disassociate(s)
    BY <1>4, <2>4, RequestTypes DEF Disassociate
  <2>5. QED
    BY <2>1, <2>2, <2>3, <2>4
<1>6. QED
  BY <1>1, <1>2, <1>3, <1>5

LEMMA SpendTypes ==
  ASSUME budget \in Budgets, NEW outcome \in Outcomes, Spend(outcome)
  PROVE  budget' \in Budgets
BY DEF Spend, Budgets

LEMMA ApReceiveTypes ==
  ASSUME ApTypes, NEW s \in Stations, NEW request, ApReceive(s, request)
  PROVE  ApTypes'
<1>1. CASE UNCHANGED apQueue
  BY <1>1, FlagAssumption DEF ApReceive, ApTypes, Record, lists
<1>2. ASSUME NEW type \in Answers, Answer(s, type)
      PROVE  ApTypes'
  <2> DEFINE frame == [to |-> s, type |-> type]
  <2>1. frame \in Frames
    BY DEF Frames
  <2>2. apQueue' = Enqueued(apQueue, frame)
    BY <1>2 DEF Answer
  <2> HIDE DEF frame
  <2>3. apQueue' \in Seq(Frames) /\ Len(apQueue') <= MaxSize
    BY <2>1, <2>2, EnqueuedType DEF ApTypes
  <2>4. /\ apState' \in [Stations -> {"BRAND_NEW", "WAIT_ASSOC_TX_OK", "GOT_ASSOC_TX_OK",
                                      "DISASSOC"}]
        /\ m_sensorList' \subseteq Sensors /\ m_OffloadList' \subseteq Stations \ Sensors
    BY FlagAssumption DEF ApReceive, ApTypes, Record, lists
  <2>5. QED
    BY <2>3, <2>4 DEF ApTypes
<1>3. UNCHANGED apQueue \/ \E type \in Answers : Answer(s, type)
  BY DEF ApReceive, Answers
<1>4. QED
  BY <1>1, <1>2, <1>3

LEMMA StaTransmitTypes ==
  ASSUME TypeOK, NEW s \in Stations, NEW outcome \in Outcomes, StaTransmit(s, outcome)
  PROVE  TypeOK'
<1> USE TypeParts, NewTypes
<1>1. budget' \in Budgets
  BY SpendTypes DEF StaTransmit
<1>2. HeardTypes' /\ BackoffTypes' /\ (published \in Thresholds)'
      /\ (m_activeProbing \in [Stations -> BOOLEAN])'
  BY DEF StaTransmit, HeardTypes, BackoffTypes, heard, backoff
<1>3. ApTypes'
  BY ApReceiveTypes DEF StaTransmit, ApTypes, lists
<1>4. Tail(staQueue[s]) \in Seq(Requests) /\ Len(Tail(staQueue[s])) <= MaxSize
  <2>1. staQueue[s] \in Seq(Requests) /\ staQueue[s] # <<>> /\ Len(staQueue[s]) <= MaxSize
    BY DEF StaTransmit, StationTypes
  <2>2. QED
    BY <2>1, HeadTailProperties, BoundAssumption
<1>5. m_state' \in [Stations -> MacState] /\ timers' \in [Stations -> SUBSET Timers]
  BY DEF StaTransmit, StaTxOk, SetState, SetTimers, StationTypes, MacState
<1>6. StationTypes'
  BY <1>4, <1>5 DEF StaTransmit, StationTypes
<1>7. QED
  BY <1>1, <1>2, <1>3, <1>6

LEMMA ApTransmitTypes ==
  ASSUME TypeOK, NEW outcome \in Outcomes, ApTransmit(outcome)
  PROVE  TypeOK'
<1> USE TypeParts, NewTypes
<1>1. PICK s, answer : s = Head(apQueue).to /\ answer = Head(apQueue).type
  OBVIOUS
<1>2. s \in Stations /\ Tail(apQueue) \in Seq(Frames) /\ Len(Tail(apQueue)) <= MaxSize
  <2>1. apQueue \in Seq(Frames) /\ apQueue # <<>> /\ Len(apQueue) <= MaxSize
    BY DEF ApTransmit, ApTypes
  <2>2. Head(apQueue) \in Frames /\ Tail(apQueue) \in Seq(Frames)
        /\ Len(Tail(apQueue)) = Len(apQueue) - 1 /\ Len(apQueue) \in Nat
    BY <2>1, HeadTailProperties
  <2>3. s \in Stations
    BY <1>1, <2>2 DEF Frames
  <2>4. QED
    BY <2>1, <2>2, <2>3, BoundAssumption
<1>3. budget' \in Budgets
  BY SpendTypes DEF ApTransmit
<1>4. HeardTypes' /\ (published \in Thresholds)' /\ (m_activeProbing \in [Stations -> BOOLEAN])'
  BY DEF ApTransmit, HeardTypes, heard
<1>5. ApTypes'
  BY <1>1, <1>2 DEF ApTransmit, ApTxDone, Record, ApTypes, lists
<1>6. StationTypes' /\ BackoffTypes'
  <2>1. CASE UNCHANGED <<m_state, timers, staQueue, backoff>>
    BY <2>1 DEF StationTypes, BackoffTypes, backoff
  <2>2. CASE StaReceive(s, answer)
    <3>1. CASE UNCHANGED <<m_state, timers, staQueue, backoff>>
      BY <2>1, <3>1
    <3>2. /\ \A x : timers[s] \ {x} \in SUBSET Timers
          /\ (timers[s] \ {"probe"}) \cup {"watchdog"} \in SUBSET Timers
      BY <1>2 DEF StationTypes, Timers
    <3>3. CASE answer = "ProbeResp" /\ Expected(s, answer)
      BY <1>2, <2>2, <3>2, <3>3, AuthRequestTypes DEF StaReceive, BackoffTypes
    <3>4. CASE answer = "AuthResp" /\ Expected(s, answer)
      <4>1. StationTypes'
        BY <1>2, <2>2, <3>2, <3>4, RequestTypes DEF StaReceive
      <4>2. BackoffTypes'
        BY <2>2, <3>4 DEF StaReceive, BackoffTypes
      <4>3. QED
        BY <4>1, <4>2
    <3>5. CASE answer \in {"AssocResp", "AssocRefused"} /\ Expected(s, answer)
      BY <1>2, <2>2, <3>2, <3>5, SetTypes
      DEF StaReceive, BackoffTypes, backoff, MacState
    <3>6. QED
      BY <2>2, <3>1, <3>3, <3>4, <3>5 DEF StaReceive
  <2>3. QED
    BY <1>1, <2>1, <2>2 DEF ApTransmit
<1>7. QED
  BY <1>3, <1>4, <1>5, <1>6

LEMMA InitTypes == Init => TypeOK
BY BoundAssumption, FlagAssumption, IntervalAssumption
DEF Init, TypeOK, MacState, Timers, Requests, Frames

LEMMA NextTypes == TypeOK /\ [Next]_vars => TypeOK'
<1> SUFFICES ASSUME TypeOK, [Next]_vars PROVE TypeOK'
  OBVIOUS
<1>1. CASE UNCHANGED vars \/ SendOneBeacon
  BY <1>1 DEF TypeOK, vars, SendOneBeacon, heard, backoff, apVars, lists
<1>2. CASE \E outcome \in Outcomes : ApTransmit(outcome)
  BY <1>2, ApTransmitTypes
<1>3. ASSUME NEW s \in Stations, \E outcome \in Outcomes : StaTransmit(s, outcome)
      PROVE  TypeOK'
  BY <1>3, StaTransmitTypes
<1>4. QED
  BY <1>1, <1>2, <1>3, BeaconTypes, TimeoutTypes, UserTypes DEF Next

\* The variables keep their types, the queues their size and the backoff its bounds.
THEOREM TypeCorrect == Spec => []TypeOK
BY InitTypes, NextTypes, PTL DEF Spec

-----------------------------------------------------------------------------
(* No wait without a timer: the invariant, station by station              *)

\* What NeverWaitsForever says of a station in state v with the timers t;
\* steady tells whether active probing has not been switched.
Covered(v, t, steady) ==
  /\ v = "WAIT_AUTH_RESP" => "auth" \in t
  /\ v = "WAIT_ASSOC_RESP" => "assoc" \in t
  /\ v = "WAIT_DISASSOC_ACK" => "disassoc" \in t
  /\ v = "WAIT_PROBE_RESP" /\ steady => "probe" \in t

Steady == budget.switches = MaxSwitches
Budget == [lost : Nat, late : Nat, missed : Nat, disassoc : Nat,
           switches : 0 .. MaxSwitches]

Inv == /\ m_state \in [Stations -> MacState]
       /\ timers \in [Stations -> SUBSET Timers]
       /\ budget \in Budget
       /\ \A s \in Stations : Covered(m_state[s], timers[s], Steady)

\* A step that concerns the state and the timers of s only.
Moved(s) == \E v \in MacState, t \in SUBSET Timers :
              /\ m_state' = [m_state EXCEPT ![s] = v]
              /\ timers' = [timers EXCEPT ![s] = t]
              /\ Covered(v, t, Steady)

\* The budgets are only ever spent.
Spent == budget' \in Budget /\ budget'.switches <= budget.switches

LEMMA SpentSteady == ASSUME budget \in Budget, Spent PROVE Steady' => Steady
<1>1. /\ budget.switches \in 0 .. MaxSwitches
      /\ MaxSwitches \in Nat
  BY BoundAssumption DEF Budget
<1> QED
  BY <1>1 DEF Spent, Steady, Budget

LEMMA MovedInv == ASSUME Inv, NEW s \in Stations, Moved(s), Spent PROVE Inv'
<1>1. PICK v \in MacState, t \in SUBSET Timers :
        /\ m_state' = [m_state EXCEPT ![s] = v]
        /\ timers' = [timers EXCEPT ![s] = t]
        /\ Covered(v, t, Steady)
  BY DEF Moved
<1>2. Steady' => Steady
  BY SpentSteady DEF Inv
<1>3. \A x \in Stations : Covered(m_state'[x], timers'[x], Steady')
  <2> TAKE x \in Stations
  <2>1. CASE x = s
    BY <1>1, <1>2, <2>1 DEF Inv, Covered
  <2>2. CASE x # s
    <3>1. m_state'[x] = m_state[x] /\ timers'[x] = timers[x]
      BY <1>1, <2>2 DEF Inv
    <3> QED
      BY <1>2, <3>1 DEF Inv, Covered
  <2> QED
    BY <2>1, <2>2
<1>4. m_state' \in [Stations -> MacState] /\ timers' \in [Stations -> SUBSET Timers]
  BY <1>1 DEF Inv
<1>5. budget' \in Budget
  BY DEF Spent
<1> QED
  BY <1>3, <1>4, <1>5 DEF Inv

LEMMA StillInv ==
  ASSUME Inv, UNCHANGED <<m_state, timers>>, Spent
  PROVE  Inv'
<1>1. Steady' => Steady
  BY SpentSteady DEF Inv
<1> QED
  BY <1>1 DEF Inv, Covered, Spent

LEMMA UnspentSpent == ASSUME budget \in Budget, UNCHANGED budget PROVE Spent
BY BoundAssumption DEF Spent, Budget

-----------------------------------------------------------------------------
(* The operators that change the state of a station                        *)

LEMMA SendAuthenticationRequestMoves ==
  ASSUME NEW s \in Stations, NEW threshold, NEW distributed,
         NEW pending \in SUBSET Timers,
         SendAuthenticationRequest(s, threshold, distributed, pending)
  PROVE  Moved(s)
<1>1. CASE Admitted(s, threshold, distributed)
  BY <1>1 DEF SendAuthenticationRequest, SetState, SetTimers, Moved, Covered,
              MacState, Timers
<1>2. CASE ~Admitted(s, threshold, distributed)
  BY <1>2 DEF SendAuthenticationRequest, SetState, SetTimers, Moved, Covered,
              MacState, Timers
<1> QED
  BY <1>1, <1>2

LEMMA RequestMoves ==
  ASSUME NEW s \in Stations, NEW pending \in SUBSET Timers,
         \/ SendAssociationRequest(s, pending)
         \/ SendProbeRequest(s, pending)
         \/ SendDisAssociationRequest(s, pending)
  PROVE  Moved(s)
<1>1. CASE SendAssociationRequest(s, pending)
  BY <1>1 DEF SendAssociationRequest, SetState, SetTimers, Moved, Covered,
              MacState, Timers
<1>2. CASE SendProbeRequest(s, pending)
  BY <1>2 DEF SendProbeRequest, SetState, SetTimers, Moved, Covered, MacState, Timers
<1>3. CASE SendDisAssociationRequest(s, pending)
  BY <1>3 DEF SendDisAssociationRequest, SetState, SetTimers, Moved, Covered,
              MacState, Timers
<1> QED
  BY <1>1, <1>2, <1>3

\* An explicit state and set of timers.
LEMMA SetMoves ==
  ASSUME NEW s \in Stations, NEW v \in MacState, NEW t \in SUBSET Timers,
         SetState(s, v), SetTimers(s, t), Covered(v, t, Steady)
  PROVE  Moved(s)
BY DEF SetState, SetTimers, Moved

\* More timers, in the same state.
LEMMA MoreTimersMove ==
  ASSUME Inv, NEW s \in Stations, NEW t \in SUBSET Timers, timers[s] \subseteq t,
         SetTimers(s, t), UNCHANGED m_state
  PROVE  Moved(s)
<1>1. m_state[s] \in MacState /\ m_state' = [m_state EXCEPT ![s] = m_state[s]]
  BY DEF Inv
<1>2. Covered(m_state[s], t, Steady)
  BY DEF Inv, Covered
<1> QED
  BY <1>1, <1>2 DEF Moved, SetTimers

-----------------------------------------------------------------------------
(* One lemma for each group of actions                                     *)

LEMMA BeaconInv == ASSUME Inv, NEW s \in Stations, ReceiveBeacon(s) PROVE Inv'
<1>1. timers[s] \in SUBSET Timers /\ "watchdog" \in Timers /\ "slot" \in Timers
  BY DEF Inv, Timers
<1>2. Spent
  BY UnspentSpent DEF Inv, ReceiveBeacon, BeaconCentralized, BeaconDraw,
                      BeaconCount, BeaconIgnored, HearBeacon
<1>3. CASE BeaconCentralized(s)
  <2>1. timers[s] \cup {"watchdog"} \in SUBSET Timers
    BY <1>1
  <2>2. SendAuthenticationRequest(s, published, FALSE, timers[s] \cup {"watchdog"})
    BY <1>3 DEF BeaconCentralized
  <2> QED
    BY <1>2, <2>1, <2>2, SendAuthenticationRequestMoves, MovedInv
<1>4. CASE BeaconDraw(s) \/ BeaconCount(s) \/ BeaconIgnored(s)
  <2>1. UNCHANGED m_state
    BY <1>4 DEF BeaconDraw, BeaconCount, BeaconIgnored
  <2>2. PICK t \in SUBSET Timers : timers[s] \subseteq t /\ SetTimers(s, t)
    <3>1. timers[s] \cup {"watchdog"} \in SUBSET Timers
      BY <1>1
    <3>2. timers[s] \cup {"watchdog"} \cup {"slot"} \in SUBSET Timers
      BY <1>1
    <3>3. timers[s] \cup {"watchdog"} \cup {} = timers[s] \cup {"watchdog"}
      OBVIOUS
    <3>4. \/ SetTimers(s, timers[s] \cup {"watchdog"})
          \/ SetTimers(s, timers[s] \cup {"watchdog"} \cup {"slot"})
      <4>1. ASSUME BeaconCount(s)
            PROVE  \/ SetTimers(s, timers[s] \cup {"watchdog"})
                   \/ SetTimers(s, timers[s] \cup {"watchdog"} \cup {"slot"})
        BY <4>1, <3>3 DEF BeaconCount
      <4> QED
        BY <1>4, <4>1 DEF BeaconDraw, BeaconIgnored
    <3> QED
      BY <3>1, <3>2, <3>4
  <2> QED
    BY <1>2, <2>1, <2>2, MoreTimersMove, MovedInv
<1> QED
  BY <1>3, <1>4 DEF ReceiveBeacon

LEMMA TimeoutInv == ASSUME Inv, NEW s \in Stations, Timeout(s) PROVE Inv'
<1>1. /\ timers[s] \in SUBSET Timers
      /\ \A x : timers[s] \ {x} \in SUBSET Timers
  BY DEF Inv
<1>2. Spent
  <2>1. budget \in Budgets
    BY BoundAssumption DEF Inv, Budget, Budgets
  <2>2. budget' \in Budgets /\ budget'.switches = budget.switches
    BY <2>1, TimeoutBudget
  <2>3. QED
    BY <2>2, BoundAssumption DEF Inv, Spent, Budget, Budgets
<1>3. CASE AuthRequestTimeout(s)
  <2>1. ASSUME SetState(s, "BEACON_MISSED"), SetTimers(s, timers[s] \ {"auth"})
        PROVE  Moved(s)
    BY <1>1, <2>1, SetMoves DEF Covered, MacState
  <2>2. ASSUME SendAuthenticationRequest(s, fastAssocThreshold[s], FALSE,
                                         timers[s] \ {"auth"})
        PROVE  Moved(s)
    <3>1. timers[s] \ {"auth"} \in SUBSET Timers
      BY <1>1
    <3> QED
      BY <2>2, <3>1, SendAuthenticationRequestMoves
  <2> QED
    BY <1>2, <1>3, <2>1, <2>2, MovedInv DEF AuthRequestTimeout
<1>4. CASE AssocRequestTimeout(s)
  BY <1>1, <1>2, <1>4, RequestMoves, MovedInv DEF AssocRequestTimeout
<1>5. CASE ProbeRequestTimeout(s)
  BY <1>1, <1>2, <1>5, RequestMoves, MovedInv DEF ProbeRequestTimeout
<1>6. CASE DisassocTimeout(s)
  BY <1>1, <1>2, <1>6, RequestMoves, MovedInv DEF DisassocTimeout
<1>7. CASE CountSlot(s)
  BY <1>1, <1>2, <1>7, SendAuthenticationRequestMoves, MovedInv DEF CountSlot
<1> QED
  BY <1>3, <1>4, <1>5, <1>6, <1>7 DEF Timeout

LEMMA WatchdogInv == ASSUME Inv, NEW s \in Stations, MissedBeacons(s) PROVE Inv'
<1>1. timers[s] \ {"watchdog"} \in SUBSET Timers
  BY DEF Inv
<1>2. Spent
  BY BoundAssumption DEF Inv, Spent, Budget, MissedBeacons
<1>3. CASE m_activeProbing[s]
  BY <1>1, <1>2, <1>3, RequestMoves, MovedInv DEF MissedBeacons
<1>4. CASE ~m_activeProbing[s]
  <2>1. SetState(s, "BEACON_MISSED") /\ SetTimers(s, timers[s] \ {"watchdog"})
    BY <1>4 DEF MissedBeacons
  <2>2. Moved(s)
    BY <1>1, <2>1, SetMoves DEF Covered, MacState
  <2> QED
    BY <1>2, <2>2, MovedInv
<1> QED
  BY <1>3, <1>4

LEMMA UserInv ==
  ASSUME Inv, NEW s \in Stations,
         TryToEnsureAssociated(s) \/ SetActiveProbing(s) \/ Disassociate(s)
  PROVE  Inv'
<1>1. timers[s] \in SUBSET Timers /\ timers[s] \ {"probe"} \in SUBSET Timers
  BY DEF Inv
<1>2. CASE TryToEnsureAssociated(s)
  <2>1. Spent
    BY <1>2, UnspentSpent DEF Inv, TryToEnsureAssociated
  <2> QED
    BY <1>1, <1>2, <2>1, RequestMoves, MovedInv DEF TryToEnsureAssociated
<1>3. CASE Disassociate(s)
  <2>1. Spent
    BY <1>3, BoundAssumption DEF Inv, Spent, Budget, Disassociate
  <2> QED
    BY <1>1, <1>3, <2>1, RequestMoves, MovedInv DEF Disassociate
<1>4. CASE SetActiveProbing(s)
  <2>1. budget' \in Budget /\ ~Steady'
    BY <1>4, BoundAssumption DEF Inv, Budget, SetActiveProbing, Steady
  <2>2. /\ m_state' = m_state
        /\ timers' \in [Stations -> SUBSET Timers]
        /\ \A x \in Stations : timers[x] \ {"probe"} \subseteq timers'[x]
    BY <1>1, <1>4 DEF Inv, SetActiveProbing, SetTimers
  <2>3. \A x \in Stations : Covered(m_state'[x], timers'[x], Steady')
    BY <2>1, <2>2 DEF Inv, Covered
  <2> QED
    BY <2>1, <2>2, <2>3 DEF Inv
<1> QED
  BY <1>2, <1>3, <1>4

LEMMA SpendSpent ==
  ASSUME budget \in Budget, NEW outcome \in Outcomes, Spend(outcome)
  PROVE  Spent
<1>1. CASE outcome = "acked"
  BY <1>1, UnspentSpent DEF Spend
<1>2. CASE outcome # "acked"
  BY <1>2, BoundAssumption DEF Spend, Spent, Budget
<1> QED
  BY <1>1, <1>2

LEMMA StaTransmitInv ==
  ASSUME Inv, NEW s \in Stations, NEW outcome \in Outcomes, StaTransmit(s, outcome)
  PROVE  Inv'
<1>1. Spent
  BY SpendSpent DEF Inv, StaTransmit
<1>2. timers[s] \ {"disassoc"} \in SUBSET Timers
  BY DEF Inv
<1>3. CASE UNCHANGED <<m_state, timers>>
  BY <1>1, <1>3, StillInv
<1>4. CASE SetState(s, "REFUSED") /\ SetTimers(s, timers[s] \ {"disassoc"})
  <2>1. Moved(s)
    BY <1>2, <1>4, SetMoves DEF Covered, MacState
  <2> QED
    BY <1>1, <2>1, MovedInv
<1> QED
  BY <1>3, <1>4 DEF StaTransmit, StaTxOk

LEMMA StaReceiveInv ==
  ASSUME Inv, Spent, NEW s \in Stations, NEW answer, StaReceive(s, answer)
  PROVE  Inv'
<1>1. /\ timers[s] \in SUBSET Timers
      /\ \A x : timers[s] \ {x} \in SUBSET Timers
      /\ (timers[s] \ {"probe"}) \cup {"watchdog"} \in SUBSET Timers
  BY DEF Inv, Timers
<1>2. CASE UNCHANGED <<m_state, timers>>
  BY <1>2, StillInv
<1>3. CASE SendAuthenticationRequest(s, fastAssocThreshold[s], fasTAssocType[s],
                                     (timers[s] \ {"probe"}) \cup {"watchdog"})
  BY <1>1, <1>3, SendAuthenticationRequestMoves, MovedInv
<1>4. CASE SendAssociationRequest(s, timers[s] \ {"auth"})
  BY <1>1, <1>4, RequestMoves, MovedInv
<1>5. CASE /\ \/ SetState(s, "ASSOCIATED")
              \/ SetState(s, "REFUSED")
           /\ SetTimers(s, timers[s] \ {"assoc"})
  <2>1. Moved(s)
    BY <1>1, <1>5, SetMoves DEF Covered, MacState
  <2> QED
    BY <2>1, MovedInv
<1>6. \/ UNCHANGED <<m_state, timers>>
      \/ SendAuthenticationRequest(s, fastAssocThreshold[s], fasTAssocType[s],
                                   (timers[s] \ {"probe"}) \cup {"watchdog"})
      \/ SendAssociationRequest(s, timers[s] \ {"auth"})
      \/ /\ \/ SetState(s, "ASSOCIATED")
            \/ SetState(s, "REFUSED")
         /\ SetTimers(s, timers[s] \ {"assoc"})
  BY DEF StaReceive
<1> QED
  BY <1>2, <1>3, <1>4, <1>5, <1>6

LEMMA ApTransmitInv ==
  ASSUME Inv, NEW outcome \in Outcomes, ApTransmit(outcome),
         Head(apQueue).to \in Stations
  PROVE  Inv'
<1>1. Spent
  BY SpendSpent DEF Inv, ApTransmit
<1>2. CASE UNCHANGED <<m_state, timers>>
  BY <1>1, <1>2, StillInv
<1>3. CASE StaReceive(Head(apQueue).to, Head(apQueue).type)
  BY <1>1, <1>3, StaReceiveInv
<1> QED
  BY <1>2, <1>3 DEF ApTransmit

-----------------------------------------------------------------------------
(* The theorem                                                             *)

LEMMA InitInv == Init => Inv
<1> SUFFICES ASSUME Init PROVE Inv
  OBVIOUS
<1>1. budget \in Budget
  BY BoundAssumption DEF Init, Budget
<1>2. /\ m_state \in [Stations -> MacState]
      /\ timers \in [Stations -> SUBSET Timers]
      /\ \A s \in Stations : m_state[s] = "BEACON_MISSED"
  BY DEF Init, MacState
<1> QED
  BY <1>1, <1>2 DEF Inv, Covered

LEMMA NextInv == ASSUME TypeOK, Inv, [Next]_vars PROVE Inv'
<1>1. CASE UNCHANGED <<m_state, timers, budget>>
  BY <1>1, StillInv, UnspentSpent DEF Inv
<1>2. CASE UNCHANGED vars
  BY <1>1, <1>2 DEF vars
<1>3. CASE SendOneBeacon
  BY <1>1, <1>3 DEF SendOneBeacon
<1>4. ASSUME NEW outcome \in Outcomes, ApTransmit(outcome)
      PROVE  Inv'
  <2>1. apQueue # <<>>
    BY <1>4 DEF ApTransmit
  <2>2. Head(apQueue) \in Frames
    BY <2>1, HeadTailProperties DEF TypeOK
  <2> QED
    BY <1>4, <2>2, ApTransmitInv DEF Frames
<1>5. ASSUME NEW s \in Stations,
             \/ ReceiveBeacon(s)
             \/ Timeout(s)
             \/ MissedBeacons(s)
             \/ TryToEnsureAssociated(s)
             \/ SetActiveProbing(s)
             \/ Disassociate(s)
             \/ \E outcome \in Outcomes : StaTransmit(s, outcome)
      PROVE  Inv'
  BY <1>5, BeaconInv, TimeoutInv, WatchdogInv, UserInv, StaTransmitInv
<1> QED
  BY <1>2, <1>3, <1>4, <1>5 DEF Next

\* Whatever timers fire, frames are lost, beacons missed and answers late, a
\* station that waits for an answer has a timer that will end the wait.
THEOREM WaitsAreTimed == Spec => []NeverWaitsForever
<1>1. TypeOK /\ Inv /\ [Next]_vars => Inv'
  BY NextInv
<1>2. Inv => NeverWaitsForever
  BY DEF Inv, NeverWaitsForever, Covered, Steady
<1> QED
  BY InitTypes, NextTypes, InitInv, <1>1, <1>2, PTL DEF Spec

-----------------------------------------------------------------------------
(* No stale timer                                                          *)

\* The timers t fit the state v.
Fit(v, t) ==
  /\ "auth" \in t => v = "WAIT_AUTH_RESP"
  /\ "assoc" \in t => v = "WAIT_ASSOC_RESP"
  /\ "probe" \in t => v = "WAIT_PROBE_RESP"
  /\ "disassoc" \in t => v = "WAIT_DISASSOC_ACK"
  /\ "slot" \in t => Distributed /\ v = "BEACON_MISSED"

FitInv ==
  /\ budget.switches <= MaxSwitches /\ budget.missed <= MaxMissed
  /\ budget.switches = MaxSwitches => \A s \in Stations : m_activeProbing[s] = ActiveProbing
  /\ Undisturbed => \A s \in Stations : Fit(m_state[s], timers[s])

\* The budgets of FitInv, and ActiveProbing, as a step leaves them.
Quieter ==
  /\ budget' \in Budgets
  /\ budget'.switches <= budget.switches /\ budget'.missed <= budget.missed
  /\ budget'.switches = budget.switches => UNCHANGED m_activeProbing

LEMMA QuieterUndisturbed ==
  ASSUME TypeOK, FitInv, Quieter PROVE Undisturbed' => Undisturbed
BY TypeParts, BoundAssumption DEF FitInv, Quieter, Undisturbed, Probed, Budgets

LEMMA SameQuieter ==
  ASSUME TypeOK, UNCHANGED <<budget, m_activeProbing>> PROVE Quieter
BY TypeParts DEF Quieter, Budgets

\* The state and the timers of s alone change, to some that fit.
Refit(s) == \E v, t :
  /\ m_state' = [m_state EXCEPT ![s] = v]
  /\ timers' = [timers EXCEPT ![s] = t]
  /\ Undisturbed' => Fit(v, t)

LEMMA RefitInv ==
  ASSUME TypeOK, FitInv, Quieter, NEW s \in Stations,
         UNCHANGED <<m_state, timers>> \/ Refit(s)
  PROVE  FitInv'
<1>1. Undisturbed' => Undisturbed
  BY QuieterUndisturbed
<1>2. Undisturbed' => \A x \in Stations : Fit(m_state'[x], timers'[x])
  <2>1. CASE UNCHANGED <<m_state, timers>>
    BY <1>1, <2>1 DEF FitInv
  <2>2. CASE Refit(s)
    <3>1. PICK v, t : /\ m_state' = [m_state EXCEPT ![s] = v]
                      /\ timers' = [timers EXCEPT ![s] = t]
                      /\ Undisturbed' => Fit(v, t)
      BY <2>2 DEF Refit
    <3>2. SUFFICES ASSUME Undisturbed', NEW x \in Stations
                   PROVE  Fit(m_state'[x], timers'[x])
      OBVIOUS
    <3>3. CASE x = s
      <4>1. m_state'[x] = v /\ timers'[x] = t
        BY <3>1, <3>3, TypeParts DEF StationTypes
      <4>2. QED
        BY <3>1, <3>2, <4>1
    <3>4. CASE x # s
      <4>1. m_state'[x] = m_state[x] /\ timers'[x] = timers[x]
        BY <3>1, <3>4, TypeParts DEF StationTypes
      <4>2. QED
        BY <1>1, <3>2, <4>1 DEF FitInv
    <3>5. QED
      BY <3>3, <3>4
  <2>3. QED
    BY <2>1, <2>2
<1>3. /\ budget'.switches <= MaxSwitches /\ budget'.missed <= MaxMissed
      /\ budget'.switches = MaxSwitches =>
           \A x \in Stations : m_activeProbing'[x] = ActiveProbing
  BY BoundAssumption, TypeParts DEF FitInv, Quieter, Budgets
<1>4. QED
  BY <1>2, <1>3 DEF FitInv

LEMMA SendRefits ==
  ASSUME NEW s \in Stations, NEW pending, Undisturbed' => pending \subseteq {"watchdog"},
         \/ SendAssociationRequest(s, pending)
         \/ SendProbeRequest(s, pending)
         \/ SendDisAssociationRequest(s, pending)
         \/ \E threshold, distributed :
              SendAuthenticationRequest(s, threshold, distributed, pending)
  PROVE  Refit(s)
<1>1. CASE SendAssociationRequest(s, pending)
  BY <1>1 DEF SendAssociationRequest, SetState, SetTimers, Refit, Fit
<1>2. CASE SendProbeRequest(s, pending)
  BY <1>2 DEF SendProbeRequest, SetState, SetTimers, Refit, Fit
<1>3. CASE SendDisAssociationRequest(s, pending)
  BY <1>3 DEF SendDisAssociationRequest, SetState, SetTimers, Refit, Fit
<1>4. ASSUME NEW threshold, NEW distributed,
             SendAuthenticationRequest(s, threshold, distributed, pending)
      PROVE  Refit(s)
  <2>1. CASE Admitted(s, threshold, distributed)
    BY <1>4, <2>1 DEF SendAuthenticationRequest, SetState, SetTimers, Refit, Fit
  <2>2. CASE ~Admitted(s, threshold, distributed)
    BY <1>4, <2>2 DEF SendAuthenticationRequest, SetState, SetTimers, Refit, Fit
  <2>3. QED
    BY <2>1, <2>2
<1>5. QED
  BY <1>1, <1>2, <1>3, <1>4

LEMMA BeaconFit ==
  ASSUME TypeOK, FitInv, NEW s \in Stations, ReceiveBeacon(s) PROVE FitInv'
<1>1. Quieter
  BY SameQuieter DEF ReceiveBeacon, BeaconCentralized, BeaconDraw, BeaconCount,
                     BeaconIgnored, HearBeacon
<1>2. Undisturbed' => Fit(m_state[s], timers[s])
  BY <1>1, QuieterUndisturbed DEF FitInv
<1>3. m_state = [m_state EXCEPT ![s] = m_state[s]] /\ timers[s] \subseteq Timers
  BY TypeParts DEF StationTypes
<1>4. CASE BeaconCentralized(s)
  <2>1. Undisturbed' => timers[s] \cup {"watchdog"} \subseteq {"watchdog"}
    BY <1>2, <1>3, <1>4 DEF BeaconCentralized, Fit, Timers
  <2>2. QED
    BY <1>1, <1>4, <2>1, SendRefits, RefitInv DEF BeaconCentralized
<1>5. CASE BeaconDraw(s) \/ BeaconIgnored(s)
  <2>1. Undisturbed' => Fit(m_state[s], timers[s] \cup {"watchdog"})
    BY <1>2 DEF Fit
  <2>2. SetTimers(s, timers[s] \cup {"watchdog"}) /\ UNCHANGED m_state
    BY <1>5 DEF BeaconDraw, BeaconIgnored
  <2>3. Refit(s)
    BY <1>3, <2>1, <2>2 DEF SetTimers, Refit
  <2>4. QED
    BY <1>1, <2>3, RefitInv
<1>6. CASE BeaconCount(s)
  <2>1. PICK more \in {{}, {"slot"}} : SetTimers(s, timers[s] \cup {"watchdog"} \cup more)
    BY <1>6 DEF BeaconCount
  <2>2. Undisturbed' => Fit(m_state[s], timers[s] \cup {"watchdog"} \cup more)
    BY <1>2, <1>6 DEF Fit, BeaconCount
  <2>3. Refit(s)
    BY <1>3, <1>6, <2>1, <2>2 DEF SetTimers, Refit, BeaconCount
  <2>4. QED
    BY <1>1, <2>3, RefitInv
<1>7. QED
  BY <1>4, <1>5, <1>6 DEF ReceiveBeacon

LEMMA TimeoutQuieter ==
  ASSUME TypeOK, NEW s \in Stations, Timeout(s) PROVE Quieter
<1>1. UNCHANGED m_activeProbing
  BY DEF Timeout, AuthRequestTimeout, AssocRequestTimeout, ProbeRequestTimeout,
         DisassocTimeout, CountSlot
<1>2. /\ budget \in Budgets /\ budget' \in Budgets
      /\ budget'.switches = budget.switches /\ budget'.missed = budget.missed
  BY TypeParts, TimeoutBudget
<1>3. QED
  BY <1>1, <1>2 DEF Quieter, Budgets

LEMMA TimeoutFit ==
  ASSUME TypeOK, FitInv, NEW s \in Stations, Timeout(s) PROVE FitInv'
<1>1. Quieter
  BY TimeoutQuieter
<1>2. Undisturbed' => Fit(m_state[s], timers[s])
  BY <1>1, QuieterUndisturbed DEF FitInv
<1>3. timers[s] \subseteq Timers
  BY TypeParts DEF StationTypes
\* A timer that fires was the only one but the watchdog.
<1>4. ASSUME NEW x \in Timers, x # "watchdog", x \in timers[s]
      PROVE  Undisturbed' => timers[s] \ {x} \subseteq {"watchdog"}
  BY <1>2, <1>3, <1>4 DEF Fit, Timers
<1>5. CASE AuthRequestTimeout(s)
  <2>1. "auth" \in timers[s] /\ "auth" \in Timers
    BY <1>5 DEF AuthRequestTimeout, Fires, Timers
  <2>2. Undisturbed' => timers[s] \ {"auth"} \subseteq {"watchdog"}
    BY <1>4, <2>1
  <2>3. CASE fasTAssocType[s]
    <3>1. SetState(s, "BEACON_MISSED") /\ SetTimers(s, timers[s] \ {"auth"})
      BY <1>5, <2>3 DEF AuthRequestTimeout
    <3>2. Undisturbed' => Fit("BEACON_MISSED", timers[s] \ {"auth"})
      BY <2>2 DEF Fit
    <3>3. Refit(s)
      BY <3>1, <3>2 DEF SetState, SetTimers, Refit
    <3>4. QED
      BY <1>1, <3>3, RefitInv
  <2>4. CASE ~fasTAssocType[s]
    BY <1>1, <1>5, <2>2, <2>4, SendRefits, RefitInv DEF AuthRequestTimeout
  <2>5. QED
    BY <2>3, <2>4
<1>6. CASE AssocRequestTimeout(s) \/ ProbeRequestTimeout(s) \/ DisassocTimeout(s)
           \/ CountSlot(s)
  <2>1. PICK x \in {"assoc", "probe", "disassoc", "slot"} :
          /\ x \in timers[s]
          /\ \/ SendAssociationRequest(s, timers[s] \ {x})
             \/ SendProbeRequest(s, timers[s] \ {x})
             \/ SendDisAssociationRequest(s, timers[s] \ {x})
             \/ SendAuthenticationRequest(s, fastAssocThreshold[s], fasTAssocType[s],
                                          timers[s] \ {x})
    BY <1>6 DEF AssocRequestTimeout, ProbeRequestTimeout, DisassocTimeout, CountSlot, Fires
  <2>2. Undisturbed' => timers[s] \ {x} \subseteq {"watchdog"}
    BY <1>4, <2>1 DEF Timers
  <2>3. Refit(s)
    BY <2>1, <2>2, SendRefits
  <2>4. QED
    BY <1>1, <2>3, RefitInv
<1>7. QED
  BY <1>5, <1>6 DEF Timeout

LEMMA UserFit ==
  ASSUME TypeOK, FitInv, NEW s \in Stations,
         \/ MissedBeacons(s) \/ TryToEnsureAssociated(s)
         \/ SetActiveProbing(s) \/ Disassociate(s)
  PROVE  FitInv'
<1>1. Quieter
  BY TypeParts, NewTypes, SameQuieter, BoundAssumption
  DEF MissedBeacons, TryToEnsureAssociated, SetActiveProbing, Disassociate, Quieter, Budgets
<1>2. Undisturbed' => Undisturbed /\ Fit(m_state[s], timers[s])
  BY <1>1, QuieterUndisturbed DEF FitInv
<1>3. m_state = [m_state EXCEPT ![s] = m_state[s]] /\ timers[s] \subseteq Timers
  BY TypeParts DEF StationTypes
<1>4. CASE MissedBeacons(s)
  <2>1. ~Undisturbed'
    BY <1>4, TypeParts, BoundAssumption DEF MissedBeacons, Undisturbed, FitInv, Budgets
  <2>2. \E v, t : SetState(s, v) /\ SetTimers(s, t)
    BY <1>4 DEF MissedBeacons, SendProbeRequest
  <2>3. QED
    BY <1>1, <2>1, <2>2, RefitInv DEF Refit, SetState, SetTimers
<1>5. CASE TryToEnsureAssociated(s)
  <2>1. Undisturbed' => ~Distributed
    BY <1>2, <1>5, TypeParts, BoundAssumption
    DEF TryToEnsureAssociated, Undisturbed, Probed, FitInv, Budgets
  <2>2. Undisturbed' => timers[s] \subseteq {"watchdog"}
    BY <1>2, <1>3, <1>5, <2>1 DEF TryToEnsureAssociated, Fit, Timers
  <2>3. Refit(s)
    BY <1>5, <2>2, SendRefits DEF TryToEnsureAssociated
  <2>4. QED
    BY <1>1, <2>3, RefitInv
<1>6. CASE SetActiveProbing(s)
  <2>1. PICK t : SetTimers(s, t) /\ t \subseteq timers[s]
    BY <1>6 DEF SetActiveProbing
  <2>2. Undisturbed' => Fit(m_state[s], t)
    BY <1>2, <2>1 DEF Fit
  <2>3. Refit(s)
    BY <1>3, <1>6, <2>1, <2>2 DEF SetActiveProbing, Refit, SetTimers
  <2>4. QED
    BY <1>1, <2>3, RefitInv
<1>7. CASE Disassociate(s)
  <2>1. Undisturbed' => timers[s] \subseteq {"watchdog"}
    BY <1>2, <1>3, <1>7 DEF Disassociate, Fit, Timers
  <2>2. Refit(s)
    BY <1>7, <2>1, SendRefits DEF Disassociate
  <2>3. QED
    BY <1>1, <2>2, RefitInv
<1>8. QED
  BY <1>4, <1>5, <1>6, <1>7

LEMMA SpendQuieter ==
  ASSUME TypeOK, NEW outcome \in Outcomes, Spend(outcome), UNCHANGED m_activeProbing
  PROVE  Quieter
BY TypeParts, SpendTypes DEF Spend, Quieter, Budgets

LEMMA StaTransmitFit ==
  ASSUME TypeOK, FitInv, NEW s \in Stations, NEW outcome \in Outcomes,
         StaTransmit(s, outcome)
  PROVE  FitInv'
<1>1. Quieter
  BY SpendQuieter DEF StaTransmit
<1>2. CASE UNCHANGED <<m_state, timers>>
  BY <1>1, <1>2, RefitInv
<1>3. CASE /\ m_state[s] = "WAIT_DISASSOC_ACK"
           /\ SetState(s, "REFUSED") /\ SetTimers(s, timers[s] \ {"disassoc"})
  <2>1. Undisturbed' => Fit(m_state[s], timers[s])
    BY <1>1, QuieterUndisturbed DEF FitInv
  <2>2. Undisturbed' => Fit("REFUSED", timers[s] \ {"disassoc"})
    BY <1>3, <2>1 DEF Fit
  <2>3. QED
    BY <1>1, <1>3, <2>2, RefitInv DEF Refit, SetState, SetTimers
<1>4. QED
  BY <1>2, <1>3 DEF StaTransmit, StaTxOk

LEMMA ApTransmitFit ==
  ASSUME TypeOK, FitInv, NEW outcome \in Outcomes, ApTransmit(outcome)
  PROVE  FitInv'
<1>1. Quieter
  BY SpendQuieter DEF ApTransmit
<1>2. PICK s, answer : s = Head(apQueue).to /\ answer = Head(apQueue).type
  OBVIOUS
<1>3. s \in Stations
  <2>1. Head(apQueue) \in Frames
    BY TypeParts, HeadTailProperties DEF ApTransmit, ApTypes
  <2>2. QED
    BY <1>2, <2>1 DEF Frames
<1>4. Undisturbed' => Fit(m_state[s], timers[s])
  BY <1>1, <1>3, QuieterUndisturbed DEF FitInv
<1>5. timers[s] \subseteq Timers
  BY <1>3, TypeParts DEF StationTypes
<1>6. CASE UNCHANGED <<m_state, timers>>
  BY <1>1, <1>3, <1>6, RefitInv
<1>7. CASE StaReceive(s, answer) /\ Expected(s, answer)
  <2>1. CASE answer = "ProbeResp"
    <3>1. Undisturbed' => (timers[s] \ {"probe"}) \cup {"watchdog"} \subseteq {"watchdog"}
      BY <1>4, <1>5, <1>7, <2>1 DEF Expected, Fit, Timers
    <3>2. Refit(s)
      BY <1>3, <1>7, <2>1, <3>1, SendRefits DEF StaReceive
    <3>3. QED
      BY <1>1, <1>3, <3>2, RefitInv
  <2>2. CASE answer = "AuthResp"
    <3>1. Undisturbed' => timers[s] \ {"auth"} \subseteq {"watchdog"}
      BY <1>4, <1>5, <1>7, <2>2 DEF Expected, Fit, Timers
    <3>2. Refit(s)
      BY <1>3, <1>7, <2>2, <3>1, SendRefits DEF StaReceive
    <3>3. QED
      BY <1>1, <1>3, <3>2, RefitInv
  <2>3. CASE answer \in {"AssocResp", "AssocRefused"}
    <3>1. Undisturbed' => timers[s] \ {"assoc"} \subseteq {"watchdog"}
      BY <1>4, <1>5, <1>7, <2>3 DEF Expected, Fit, Timers
    <3>2. PICK v \in {"ASSOCIATED", "REFUSED"} :
              SetState(s, v) /\ SetTimers(s, timers[s] \ {"assoc"})
      BY <1>7, <2>3 DEF StaReceive
    <3>3. Undisturbed' => Fit(v, timers[s] \ {"assoc"})
      BY <3>1 DEF Fit
    <3>4. QED
      BY <1>1, <1>3, <3>2, <3>3, RefitInv DEF Refit, SetState, SetTimers
  <2>4. QED
    BY <1>7, <2>1, <2>2, <2>3 DEF Expected
<1>8. QED
  BY <1>2, <1>6, <1>7 DEF ApTransmit, StaReceive

LEMMA InitFit == Init => FitInv
BY BoundAssumption DEF Init, FitInv, Fit

LEMMA NextFit == TypeOK /\ FitInv /\ [Next]_vars => FitInv'
<1> SUFFICES ASSUME TypeOK, FitInv, [Next]_vars PROVE FitInv'
  OBVIOUS
<1>1. CASE UNCHANGED vars \/ SendOneBeacon
  BY <1>1 DEF FitInv, Undisturbed, Probed, vars, SendOneBeacon
<1>2. CASE \E outcome \in Outcomes : ApTransmit(outcome)
  BY <1>2, ApTransmitFit
<1>3. ASSUME NEW s \in Stations, \E outcome \in Outcomes : StaTransmit(s, outcome)
      PROVE  FitInv'
  BY <1>3, StaTransmitFit
<1>4. QED
  BY <1>1, <1>2, <1>3, BeaconFit, TimeoutFit, UserFit DEF Next

\* As long as no watchdog has fired, every pending timer belongs to the state the
\* station is in: the handlers cancel what they leave behind.
THEOREM TimersFit == Spec => []NoStaleTimer
<1>1. FitInv => NoStaleTimer
  BY DEF FitInv, Fit, NoStaleTimer
<1>2. QED
  BY InitTypes, NextTypes, InitFit, NextFit, <1>1, PTL DEF Spec

-----------------------------------------------------------------------------
(* Queues                                                                  *)

Has(q, frame) == \E i \in DOMAIN q : q[i] = frame
Single(q, F) == \A i, j \in DOMAIN q : q[i] \in F /\ q[j] \in F => i = j
\* No request for association is queued behind a disassociation.
Ordered(q) == \A i, j \in DOMAIN q :
                q[i] = "Disassociation" /\ q[j] = "AssocReq" => j < i

LEMMA EnqueuedAt ==
  ASSUME NEW S, NEW q \in Seq(S), NEW f \in S
  PROVE  \A i \in DOMAIN Enqueued(q, f) :
           \/ i \in DOMAIN q /\ Enqueued(q, f)[i] = q[i]
           \/ /\ i = Len(q) + 1 /\ Enqueued(q, f)[i] = f
<1>1. /\ Len(Append(q, f)) = Len(q) + 1
      /\ \A i \in 1 .. Len(q) : Append(q, f)[i] = q[i]
      /\ Append(q, f)[Len(q) + 1] = f
      /\ Append(q, f) \in Seq(S)
  BY AppendProperties
<1>2. DOMAIN q = 1 .. Len(q) /\ DOMAIN Append(q, f) = 1 .. Len(q) + 1 /\ Len(q) \in Nat
  BY <1>1
<1>3. QED
  BY <1>1, <1>2 DEF Enqueued

LEMMA EnqueuedHas ==
  ASSUME NEW S, NEW q \in Seq(S), NEW f \in S, NEW r, Has(Enqueued(q, f), r)
  PROVE  Has(q, r) \/ r = f
BY EnqueuedAt DEF Has

LEMMA EnqueuedSingle ==
  ASSUME NEW S, NEW q \in Seq(S), NEW f \in S, NEW F,
         Single(q, F), f \notin F \/ \A r \in F : ~Has(q, r)
  PROVE  Single(Enqueued(q, f), F)
BY EnqueuedAt DEF Has, Single

LEMMA EnqueuedOrdered ==
  ASSUME NEW S, NEW q \in Seq(S), NEW f \in S,
         Ordered(q), f = "AssocReq" => ~Has(q, "Disassociation")
  PROVE  Ordered(Enqueued(q, f))
<1>1. Len(q) \in Nat /\ DOMAIN q = 1 .. Len(q)
  OBVIOUS
<1>2. QED
  BY <1>1, EnqueuedAt DEF Has, Ordered

LEMMA TailAt ==
  ASSUME NEW S, NEW q \in Seq(S), q # <<>>
  PROVE  /\ 1 \in DOMAIN q /\ Head(q) = q[1]
         /\ \A i \in DOMAIN Tail(q) : /\ i + 1 \in DOMAIN q /\ Tail(q)[i] = q[i + 1]
                                      /\ i \in Nat \ {0}
<1>1. Head(q) = q[1] /\ Len(q) \in Nat \ {0} /\ DOMAIN q = 1 .. Len(q)
  OBVIOUS
<1>2. DOMAIN Tail(q) = 1 .. Len(q) - 1 /\ \A i \in 1 .. Len(q) - 1 : Tail(q)[i] = q[i + 1]
  OBVIOUS
<1>3. QED
  BY <1>1, <1>2

LEMMA TailHas ==
  ASSUME NEW S, NEW q \in Seq(S), q # <<>>
  PROVE  Has(q, Head(q)) /\ \A r : Has(Tail(q), r) => Has(q, r)
BY TailAt DEF Has

LEMMA TailSingle ==
  ASSUME NEW S, NEW q \in Seq(S), q # <<>>, NEW F, Single(q, F)
  PROVE  Single(Tail(q), F) /\ (Head(q) \in F => \A r \in F : ~Has(Tail(q), r))
<1>1. Single(Tail(q), F)
  BY TailAt DEF Single
<1>2. ASSUME Head(q) \in F, NEW r \in F, Has(Tail(q), r) PROVE FALSE
  <2>1. PICK i \in DOMAIN Tail(q) : Tail(q)[i] = r
    BY <1>2 DEF Has
  <2>2. i + 1 = 1 /\ i \in Nat \ {0}
    BY <1>2, <2>1, TailAt DEF Single
  <2>3. QED
    BY <2>2
<1>3. QED
  BY <1>1, <1>2

LEMMA TailOrdered ==
  ASSUME NEW S, NEW q \in Seq(S), q # <<>>, Ordered(q)
  PROVE  Ordered(Tail(q)) /\ (Head(q) = "Disassociation" => ~Has(Tail(q), "AssocReq"))
<1>1. Ordered(Tail(q))
  <2>1. SUFFICES ASSUME NEW i \in DOMAIN Tail(q), NEW j \in DOMAIN Tail(q),
                        Tail(q)[i] = "Disassociation", Tail(q)[j] = "AssocReq"
                 PROVE  j < i
    BY DEF Ordered
  <2>2. j + 1 < i + 1 /\ i \in Nat /\ j \in Nat
    BY <2>1, TailAt DEF Ordered
  <2>3. QED
    BY <2>2
<1>2. ASSUME Head(q) = "Disassociation", Has(Tail(q), "AssocReq") PROVE FALSE
  <2>1. PICK j \in DOMAIN Tail(q) : Tail(q)[j] = "AssocReq"
    BY <1>2 DEF Has
  <2>2. j + 1 < 1 /\ j \in Nat
    BY <1>2, <2>1, TailAt DEF Ordered
  <2>3. QED
    BY <2>2
<1>3. QED
  BY <1>1, <1>2

-----------------------------------------------------------------------------
(* How far the association of a station has come, on both sides            *)

Early == {"BEACON_MISSED", "WAIT_PROBE_RESP", "WAIT_AUTH_RESP"}
Resp(s, type) == [to |-> s, type |-> type]
AssocAnswers(s) == {Resp(s, "AssocResp"), Resp(s, "AssocRefused")}
Asked(s, q, p) == Has(q, "AssocReq") \/ \E r \in AssocAnswers(s) : Has(p, r)
Lossless == Undisturbed /\ budget.lost = MaxLost
Punctual == budget.late = MaxLate

\* What has been lost or late is counted, and never taken back.
Counted == /\ budget'.lost <= MaxLost /\ budget'.late <= MaxLate
           /\ Punctual' => Punctual

\* The state v of station s and the AP's state a of it fit each other, the queue
\* q of the station, the queue p of the AP and whether the AP has listed it.
Stage(s, v, a, q, p, listed) ==
  /\ v \in Early => a = "BRAND_NEW" /\ ~Asked(s, q, p)
  /\ v = "WAIT_ASSOC_RESP" => a \in {"BRAND_NEW", "WAIT_ASSOC_TX_OK"}
  /\ v \in {"ASSOCIATED", "WAIT_DISASSOC_ACK"} =>
       a \in {"WAIT_ASSOC_TX_OK", "GOT_ASSOC_TX_OK"}
  /\ v = "REFUSED" => \/ a = "BRAND_NEW" /\ s \notin Compatible
                      \/ a = "DISASSOC" /\ ~Has(q, "AssocReq")
  /\ a \in {"WAIT_ASSOC_TX_OK", "GOT_ASSOC_TX_OK"} => listed
  /\ Has(p, Resp(s, "AssocResp")) => a # "BRAND_NEW"
  /\ Has(p, Resp(s, "AssocRefused")) => s \notin Compatible
  /\ s \notin Compatible => a = "BRAND_NEW" /\ ~Has(q, "Disassociation")
  /\ Has(q, "Disassociation") => v \in {"WAIT_DISASSOC_ACK", "REFUSED"}
  /\ Ordered(q)

\* If no timer has fired too early, a request is repeated only when nothing of it
\* is left.
OneRequest(s, v, a, q, p) ==
  /\ Single(q, {"AssocReq"}) /\ Single(p, AssocAnswers(s))
  /\ ~(Has(q, "AssocReq") /\ \E r \in AssocAnswers(s) : Has(p, r))
  /\ Asked(s, q, p) => v = "WAIT_ASSOC_RESP"
  /\ v = "ASSOCIATED" => a = "GOT_ASSOC_TX_OK"

StationStage(s) ==
  /\ Stage(s, m_state[s], apState[s], staQueue[s], apQueue,
           s \in m_sensorList \cup m_OffloadList)
  /\ Punctual => OneRequest(s, m_state[s], apState[s], staQueue[s], apQueue)

StageInv == /\ budget.lost <= MaxLost /\ budget.late <= MaxLate
            /\ Lossless => \A s \in Stations : StationStage(s)

\* The AP's queue p2 holds no frame to s that p does not hold.
Fewer(s, p2, p) ==
  /\ \A type \in Answers : Has(p2, Resp(s, type)) => Has(p, Resp(s, type))
  /\ Single(p, AssocAnswers(s)) => Single(p2, AssocAnswers(s))

\* A step of station s.
Elsewhere(s) == \A x \in Stations \ {s} :
  /\ m_state'[x] = m_state[x] /\ apState'[x] = apState[x] /\ staQueue'[x] = staQueue[x]
  /\ x \in m_sensorList \cup m_OffloadList => x \in m_sensorList' \cup m_OffloadList'
  /\ Fewer(x, apQueue', apQueue)

LEMMA StageStep ==
  ASSUME StageInv, NEW s \in Stations, Elsewhere(s), Counted,
         Lossless' => Lossless /\ StationStage(s)'
  PROVE  StageInv'
<1>1. SUFFICES ASSUME Lossless', NEW x \in Stations, x # s PROVE StationStage(x)'
  BY DEF StageInv, Counted
<1>2. StationStage(x) /\ Fewer(x, apQueue', apQueue)
  BY <1>1 DEF StageInv, Elsewhere
<1>3. \A r \in AssocAnswers(x) : Has(apQueue', r) => Has(apQueue, r)
  BY <1>2 DEF Fewer, AssocAnswers, Answers
<1>4. Asked(x, staQueue[x], apQueue') => Asked(x, staQueue[x], apQueue)
  BY <1>3 DEF Asked
<1>5. /\ m_state'[x] = m_state[x] /\ apState'[x] = apState[x] /\ staQueue'[x] = staQueue[x]
      /\ x \in m_sensorList \cup m_OffloadList => x \in m_sensorList' \cup m_OffloadList'
  BY <1>1 DEF Elsewhere
<1>6. Stage(x, m_state[x], apState[x], staQueue[x], apQueue',
            x \in m_sensorList' \cup m_OffloadList')
  BY <1>2, <1>3, <1>4, <1>5 DEF StationStage, Stage, AssocAnswers
<1>7. Punctual' => OneRequest(x, m_state[x], apState[x], staQueue[x], apQueue')
  BY <1>2, <1>3, <1>4 DEF StationStage, OneRequest, Fewer, Counted
<1>8. QED
  BY <1>5, <1>6, <1>7 DEF StationStage

-----------------------------------------------------------------------------
(* What a station does by itself                                           *)

\* The station s goes from its state to v and queues the requests in more: none
\* or one.
Goes(s, v, more) ==
  \/ m_state[s] \in Early /\ v \in Early /\ more \subseteq {"ProbeReq", "AuthReq"}
  \/ v = m_state[s] /\ more = {}
  \/ /\ m_state[s] = "WAIT_ASSOC_RESP" /\ v = m_state[s] /\ more = {"AssocReq"}
     /\ Punctual' => ~Asked(s, staQueue[s], apQueue)
  \/ /\ m_state[s] \in {"ASSOCIATED", "WAIT_DISASSOC_ACK"} /\ v = "WAIT_DISASSOC_ACK"
     /\ more = {"Disassociation"}

Proceeds(s) == \E v : \E more \in SUBSET Requests :
  /\ m_state' = [m_state EXCEPT ![s] = v]
  /\ \/ more = {} /\ UNCHANGED staQueue
     \/ \E f \in Requests : more = {f} /\ Send(s, f)
  /\ Goes(s, v, more)

LEMMA ProceedsStage ==
  ASSUME TypeOK, StageInv, NEW s \in Stations, Lossless, Proceeds(s), Counted,
         UNCHANGED <<apQueue, apState, lists>>
  PROVE  StationStage(s)'
<1>1. PICK v : \E more \in SUBSET Requests :
        /\ m_state' = [m_state EXCEPT ![s] = v]
        /\ \/ more = {} /\ UNCHANGED staQueue
           \/ \E f \in Requests : more = {f} /\ Send(s, f)
        /\ Goes(s, v, more)
  BY DEF Proceeds
<1>2. PICK more \in SUBSET Requests :
        /\ m_state' = [m_state EXCEPT ![s] = v]
        /\ \/ more = {} /\ UNCHANGED staQueue
           \/ \E f \in Requests : more = {f} /\ Send(s, f)
        /\ Goes(s, v, more)
  BY <1>1
<1>3. PICK q2, q : q2 = staQueue'[s] /\ q = staQueue[s]
  OBVIOUS
<1>4. m_state'[s] = v /\ q \in Seq(Requests) /\ StationStage(s)
      /\ apState'[s] = apState[s] /\ apQueue' = apQueue
      /\ m_sensorList' = m_sensorList /\ m_OffloadList' = m_OffloadList
  BY <1>2, <1>3, TypeParts DEF StationTypes, StageInv, lists
<1>5. /\ \A r : Has(q2, r) => Has(q, r) \/ r \in more
      /\ Ordered(q) /\ ("AssocReq" \in more => ~Has(q, "Disassociation"))
           => Ordered(q2)
      /\ Single(q, {"AssocReq"}) /\ ("AssocReq" \in more => ~Has(q, "AssocReq"))
           => Single(q2, {"AssocReq"})
  <2>1. ASSUME NEW f \in Requests, more = {f}, Send(s, f)
        PROVE  <1>5!:
    <3>1. q2 = Enqueued(q, f)
      BY <1>3, <2>1, TypeParts DEF Send, StationTypes
    <3>2. \A r : Has(q2, r) => Has(q, r) \/ r = f
      BY <1>4, <3>1, EnqueuedHas
    <3>3. Ordered(q) /\ (f = "AssocReq" => ~Has(q, "Disassociation")) => Ordered(q2)
      BY <1>4, <3>1, EnqueuedOrdered
    <3>4. Single(q, {"AssocReq"}) /\ (f = "AssocReq" => ~Has(q, "AssocReq"))
             => Single(q2, {"AssocReq"})
      <4>1. SUFFICES ASSUME Single(q, {"AssocReq"}), f = "AssocReq" => ~Has(q, "AssocReq")
                     PROVE  Single(q2, {"AssocReq"})
        OBVIOUS
      <4>2. f \notin {"AssocReq"} \/ \A r \in {"AssocReq"} : ~Has(q, r)
        BY <4>1
      <4>3. QED
        BY <1>4, <3>1, <4>1, <4>2, EnqueuedSingle
    <3>5. QED
      BY <2>1, <3>2, <3>3, <3>4
  <2>2. CASE UNCHANGED staQueue
    BY <1>3, <2>2
  <2>3. QED
    BY <1>2, <2>1, <2>2
<1>6. Asked(s, q2, apQueue) => Asked(s, q, apQueue) \/ "AssocReq" \in more
  BY <1>5 DEF Asked
<1>7. Stage(s, v, apState[s], q2, apQueue, s \in m_sensorList \cup m_OffloadList)
  BY <1>2, <1>3, <1>4, <1>5, <1>6 DEF StationStage, Stage, Goes, Early
<1>8. Punctual' => OneRequest(s, v, apState[s], q2, apQueue)
  BY <1>2, <1>3, <1>4, <1>5, <1>6
  DEF StationStage, Stage, OneRequest, Goes, Early, Asked, Counted
<1>9. QED
  BY <1>3, <1>4, <1>7, <1>8 DEF StationStage

\* A step of station s that leaves the AP alone.
LEMMA OwnStep ==
  ASSUME TypeOK, StageInv, NEW s \in Stations, UNCHANGED <<apQueue, apState, lists>>,
         Counted, Lossless' => Lossless /\ Proceeds(s),
         \A x \in Stations \ {s} : m_state'[x] = m_state[x] /\ staQueue'[x] = staQueue[x]
  PROVE  StageInv'
<1>1. Elsewhere(s)
  BY DEF Elsewhere, Fewer, lists
<1>2. Lossless' => Lossless /\ StationStage(s)'
  BY ProceedsStage
<1>3. QED
  BY <1>1, <1>2, StageStep

LEMMA LosslessBefore ==
  ASSUME TypeOK, FitInv, StageInv, Quieter,
         budget'.lost <= budget.lost, budget'.late <= budget.late
  PROVE  Counted /\ (Lossless' => Lossless)
BY QuieterUndisturbed, TypeParts, BoundAssumption
DEF StageInv, Lossless, Quieter, Budgets, Counted, Punctual

LEMMA StaysProceeds ==
  ASSUME TypeOK, NEW s \in Stations, UNCHANGED <<m_state, staQueue>> PROVE Proceeds(s)
<1>1. Goes(s, m_state[s], {}) /\ m_state' = [m_state EXCEPT ![s] = m_state[s]]
  BY TypeParts DEF Goes, StationTypes
<1>2. QED
  BY <1>1 DEF Proceeds

LEMMA AuthProceeds ==
  ASSUME NEW s \in Stations, m_state[s] \in Early,
         NEW threshold, NEW distributed, NEW pending,
         SendAuthenticationRequest(s, threshold, distributed, pending)
  PROVE  Proceeds(s)
<1>1. CASE Admitted(s, threshold, distributed)
  <2>1. SetState(s, "WAIT_AUTH_RESP") /\ Send(s, "AuthReq") /\ "AuthReq" \in Requests
    BY <1>1 DEF SendAuthenticationRequest, Requests
  <2>2. Goes(s, "WAIT_AUTH_RESP", {"AuthReq"})
    BY DEF Goes, Early
  <2>3. QED
    BY <2>1, <2>2 DEF Proceeds, SetState
<1>2. CASE ~Admitted(s, threshold, distributed)
  <2>1. SetState(s, "BEACON_MISSED") /\ UNCHANGED staQueue
    BY <1>2 DEF SendAuthenticationRequest
  <2>2. Goes(s, "BEACON_MISSED", {})
    BY DEF Goes, Early
  <2>3. QED
    BY <2>1, <2>2 DEF Proceeds, SetState
<1>3. QED
  BY <1>1, <1>2

LEMMA ProbeProceeds ==
  ASSUME NEW s \in Stations, m_state[s] \in Early, NEW pending, SendProbeRequest(s, pending)
  PROVE  Proceeds(s)
<1>1. Goes(s, "WAIT_PROBE_RESP", {"ProbeReq"}) /\ "ProbeReq" \in Requests
  BY DEF Goes, Early, Requests
<1>2. QED
  BY <1>1 DEF Proceeds, SendProbeRequest, SetState

LEMMA AssocProceeds ==
  ASSUME NEW s \in Stations, m_state[s] = "WAIT_ASSOC_RESP", NEW pending,
         SendAssociationRequest(s, pending),
         Punctual' => ~Asked(s, staQueue[s], apQueue)
  PROVE  Proceeds(s)
<1>1. Goes(s, "WAIT_ASSOC_RESP", {"AssocReq"}) /\ "AssocReq" \in Requests
  BY DEF Goes, Requests
<1>2. QED
  BY <1>1 DEF Proceeds, SendAssociationRequest, SetState

LEMMA LeaveProceeds ==
  ASSUME NEW s \in Stations, m_state[s] \in {"ASSOCIATED", "WAIT_DISASSOC_ACK"},
         NEW pending, SendDisAssociationRequest(s, pending)
  PROVE  Proceeds(s)
<1>1. Goes(s, "WAIT_DISASSOC_ACK", {"Disassociation"}) /\ "Disassociation" \in Requests
  BY DEF Goes, Requests
<1>2. QED
  BY <1>1 DEF Proceeds, SendDisAssociationRequest, SetState

\* What the requests, timers and states of s leave alone.
LEMMA OthersStay ==
  ASSUME TypeOK, NEW s \in Stations,
         UNCHANGED m_state \/ \E v : SetState(s, v),
         UNCHANGED staQueue \/ \E f : Send(s, f)
  PROVE  \A x \in Stations \ {s} : m_state'[x] = m_state[x] /\ staQueue'[x] = staQueue[x]
BY TypeParts DEF StationTypes, SetState, Send

LEMMA BeaconStage ==
  ASSUME TypeOK, FitInv, StageInv, NEW s \in Stations, ReceiveBeacon(s)
  PROVE  StageInv'
<1>1. UNCHANGED <<budget, m_activeProbing, apQueue, apState, lists>>
  BY DEF ReceiveBeacon, BeaconCentralized, BeaconDraw, BeaconCount, BeaconIgnored,
         HearBeacon, apVars
<1>2. Counted /\ (Lossless' => Lossless)
  BY <1>1, SameQuieter, LosslessBefore, TypeParts DEF Budgets
<1>3. Proceeds(s)
  <2>1. CASE BeaconCentralized(s)
    BY <2>1, AuthProceeds DEF BeaconCentralized, Early
  <2>2. CASE UNCHANGED <<m_state, staQueue>>
    BY <2>2, StaysProceeds
  <2>3. QED
    BY <2>1, <2>2 DEF ReceiveBeacon, BeaconDraw, BeaconCount, BeaconIgnored
<1>4. \A x \in Stations \ {s} : m_state'[x] = m_state[x] /\ staQueue'[x] = staQueue[x]
  BY OthersStay DEF ReceiveBeacon, BeaconCentralized, BeaconDraw, BeaconCount, BeaconIgnored,
                    SendAuthenticationRequest
<1>5. QED
  BY <1>1, <1>2, <1>3, <1>4, OwnStep

LEMMA TimeoutStage ==
  ASSUME TypeOK, FitInv, StageInv, NEW s \in Stations, Timeout(s)
  PROVE  StageInv'
<1>1. UNCHANGED <<apQueue, apState, lists>>
  BY DEF Timeout, AuthRequestTimeout, AssocRequestTimeout, ProbeRequestTimeout,
         DisassocTimeout, CountSlot, apVars
<1>2. Counted /\ (Lossless' => Lossless)
  <2>1. /\ budget \in Budgets /\ budget'.lost = budget.lost
        /\ budget'.late <= budget.late
    BY TypeParts, TimeoutBudget
  <2>2. QED
    BY <2>1, TimeoutQuieter, LosslessBefore DEF Budgets
<1>3. ASSUME Lossless PROVE Proceeds(s)
  <2>1. Fit(m_state[s], timers[s])
    BY <1>3 DEF FitInv, Lossless
  <2>2. CASE AuthRequestTimeout(s)
    <3>1. m_state[s] \in Early
      BY <2>1, <2>2 DEF AuthRequestTimeout, Fires, Fit, Early
    <3>2. CASE fasTAssocType[s]
      <4>1. SetState(s, "BEACON_MISSED") /\ UNCHANGED staQueue
        BY <2>2, <3>2 DEF AuthRequestTimeout
      <4>2. Goes(s, "BEACON_MISSED", {})
        BY <3>1 DEF Goes, Early
      <4>3. QED
        BY <4>1, <4>2 DEF Proceeds, SetState
    <3>3. CASE ~fasTAssocType[s]
      BY <2>2, <3>1, <3>3, AuthProceeds DEF AuthRequestTimeout
    <3>4. QED
      BY <3>2, <3>3
  <2>3. CASE AssocRequestTimeout(s)
    <3>1. m_state[s] = "WAIT_ASSOC_RESP"
      BY <2>1, <2>3 DEF AssocRequestTimeout, Fires, Fit
    <3>2. Punctual' => ~Asked(s, staQueue[s], apQueue)
      <4>1. Fires(s, "assoc", "AssocReq", {"AssocResp", "AssocRefused"})
        BY <2>3 DEF AssocRequestTimeout
      <4>2. Punctual' => ~InFlight(s, "AssocReq", {"AssocResp", "AssocRefused"})
        BY <4>1, TypeParts, BoundAssumption DEF Fires, Punctual, StageInv, Budgets
      <4>3. QED
        BY <4>2 DEF InFlight, Asked, Has, AssocAnswers, Resp
    <3>3. QED
      BY <2>3, <3>1, <3>2, AssocProceeds DEF AssocRequestTimeout
  <2>4. CASE ProbeRequestTimeout(s)
    BY <2>1, <2>4, ProbeProceeds DEF ProbeRequestTimeout, Fires, Fit, Early
  <2>5. CASE DisassocTimeout(s)
    BY <2>1, <2>5, LeaveProceeds DEF DisassocTimeout, Fires, Fit
  <2>6. CASE CountSlot(s)
    BY <2>1, <2>6, AuthProceeds DEF CountSlot, Fit, Early
  <2>7. QED
    BY <2>2, <2>3, <2>4, <2>5, <2>6 DEF Timeout
<1>4. \A x \in Stations \ {s} : m_state'[x] = m_state[x] /\ staQueue'[x] = staQueue[x]
  BY OthersStay DEF Timeout, AuthRequestTimeout, AssocRequestTimeout, ProbeRequestTimeout,
         DisassocTimeout, CountSlot, SendAuthenticationRequest, SendAssociationRequest,
         SendProbeRequest, SendDisAssociationRequest
<1>5. QED
  BY <1>1, <1>2, <1>3, <1>4, OwnStep

LEMMA UserStage ==
  ASSUME TypeOK, FitInv, StageInv, NEW s \in Stations,
         \/ MissedBeacons(s) \/ TryToEnsureAssociated(s)
         \/ SetActiveProbing(s) \/ Disassociate(s)
  PROVE  StageInv'
<1>1. UNCHANGED <<apQueue, apState, lists>> /\ Quieter
      /\ budget'.lost <= budget.lost /\ budget'.late <= budget.late
  BY TypeParts, SameQuieter
  DEF MissedBeacons, TryToEnsureAssociated, SetActiveProbing, Disassociate, Quieter, Budgets,
      apVars
<1>2. Counted /\ (Lossless' => Lossless)
  BY <1>1, LosslessBefore
<1>3. ASSUME Lossless' PROVE Proceeds(s)
  <2>1. ~MissedBeacons(s)
    BY <1>3, TypeParts, BoundAssumption
    DEF MissedBeacons, Lossless, Undisturbed, FitInv, Budgets
  <2>2. CASE TryToEnsureAssociated(s)
    BY <2>2, ProbeProceeds DEF TryToEnsureAssociated, Early
  <2>3. CASE SetActiveProbing(s)
    BY <2>3, StaysProceeds DEF SetActiveProbing
  <2>4. CASE Disassociate(s)
    BY <2>4, LeaveProceeds DEF Disassociate
  <2>5. QED
    BY <2>1, <2>2, <2>3, <2>4
<1>4. \A x \in Stations \ {s} : m_state'[x] = m_state[x] /\ staQueue'[x] = staQueue[x]
  BY OthersStay DEF MissedBeacons, TryToEnsureAssociated, SetActiveProbing, Disassociate,
         SendProbeRequest, SendDisAssociationRequest
<1>5. QED
  BY <1>1, <1>2, <1>3, <1>4, OwnStep

-----------------------------------------------------------------------------
(* Frames that arrive                                                      *)

\* What the AP's queue holds once it has queued an answer to s.
LEMMA Answered ==
  ASSUME TypeOK, NEW s \in Stations, NEW type \in Answers, Answer(s, type)
  PROVE  /\ \A x \in Stations \ {s} : Fewer(x, apQueue', apQueue)
         /\ \A t \in Answers :
              Has(apQueue', Resp(s, t)) => Has(apQueue, Resp(s, t)) \/ t = type
         /\ (/\ Single(apQueue, AssocAnswers(s))
             /\ \/ type \notin {"AssocResp", "AssocRefused"}
                \/ \A r \in AssocAnswers(s) : ~Has(apQueue, r))
              => Single(apQueue', AssocAnswers(s))
<1>1. PICK frame, p, p2 : frame = Resp(s, type) /\ p = apQueue /\ p2 = apQueue'
  OBVIOUS
<1>2. p2 = Enqueued(p, frame) /\ p \in Seq(Frames) /\ frame \in Frames
  BY <1>1, TypeParts DEF Answer, Resp, ApTypes, Frames
<1>3. \A r : Has(p2, r) => Has(p, r) \/ r = frame
  BY <1>2, EnqueuedHas
<1>4. \A F : Single(p, F) /\ (frame \notin F \/ \A r \in F : ~Has(p, r)) => Single(p2, F)
  BY <1>2, EnqueuedSingle
<1>5. \A x : \A t \in Answers : frame = Resp(x, t) => x = s /\ t = type
  BY <1>1 DEF Resp
<1>6. ASSUME NEW x \in Stations \ {s} PROVE Fewer(x, p2, p)
  <2>1. frame \notin AssocAnswers(x)
    BY <1>5 DEF AssocAnswers, Answers
  <2>2. Single(p, AssocAnswers(x)) => Single(p2, AssocAnswers(x))
    BY <1>4, <2>1
  <2>3. \A t \in Answers : Has(p2, Resp(x, t)) => Has(p, Resp(x, t))
    BY <1>3, <1>5
  <2>4. QED
    BY <2>2, <2>3 DEF Fewer
<1>7. \A t \in Answers : Has(p2, Resp(s, t)) => Has(p, Resp(s, t)) \/ t = type
  BY <1>3, <1>5
<1>8. type \notin {"AssocResp", "AssocRefused"} => frame \notin AssocAnswers(s)
  BY <1>5 DEF AssocAnswers, Answers
<1>9. QED
  BY <1>1, <1>4, <1>6, <1>7, <1>8

\* Losses are counted, so that nothing has been lost in a lossless state.
LEMMA SpendStage ==
  ASSUME TypeOK, FitInv, StageInv, NEW outcome \in Outcomes, Spend(outcome),
         UNCHANGED m_activeProbing
  PROVE  /\ Counted /\ Punctual' = Punctual
         /\ Lossless' => Lossless /\ outcome = "acked"
<1>1. /\ budget'.lost <= budget.lost /\ (outcome # "acked" => budget'.lost # MaxLost)
      /\ budget'.late = budget.late /\ budget.late \in Nat
  BY TypeParts, BoundAssumption DEF Spend, StageInv, Budgets
<1>2. Quieter
  BY SpendQuieter
<1>3. Counted /\ (Lossless' => Lossless)
  BY <1>1, <1>2, LosslessBefore
<1>4. QED
  BY <1>1, <1>3 DEF Lossless, Punctual

LEMMA StaTransmitStage ==
  ASSUME TypeOK, FitInv, StageInv, NEW s \in Stations, NEW outcome \in Outcomes,
         StaTransmit(s, outcome)
  PROVE  StageInv'
<1>1. /\ Counted /\ Punctual' = Punctual
      /\ Lossless' => Lossless /\ outcome = "acked"
  BY SpendStage DEF StaTransmit
<1>2. PICK r, q, q2 : r = Head(staQueue[s]) /\ q = staQueue[s] /\ q2 = staQueue'[s]
  OBVIOUS
<1>3. /\ q \in Seq(Requests) /\ q # <<>> /\ r = Head(q) /\ q2 = Tail(q)
      /\ \A x \in Stations \ {s} : staQueue'[x] = staQueue[x]
  BY <1>2, TypeParts DEF StaTransmit, StationTypes
<1>4. \A x \in Stations \ {s} : m_state'[x] = m_state[x]
  BY TypeParts DEF StaTransmit, StaTxOk, SetState, StationTypes
<1>5. /\ \A x \in Stations \ {s} : apState'[x] = apState[x]
      /\ \A x \in Stations \ {s} : x \in m_sensorList \cup m_OffloadList
           => x \in m_sensorList' \cup m_OffloadList'
  BY TypeParts DEF StaTransmit, ApReceive, Record, lists, ApTypes
<1>6. UNCHANGED apQueue \/ \E type \in Answers : Answer(s, type)
  BY DEF StaTransmit, ApReceive, Answers
<1>7. \A x \in Stations \ {s} : Fewer(x, apQueue', apQueue)
  <2>1. CASE UNCHANGED apQueue
    BY <2>1 DEF Fewer
  <2>2. QED
    BY <1>6, <2>1, Answered
<1>8. Elsewhere(s)
  BY <1>3, <1>4, <1>5, <1>7 DEF Elsewhere
<1>9. ASSUME Lossless' PROVE StationStage(s)'
  <2>1. Lossless /\ ApReceive(s, r) /\ StaTxOk(s, r) /\ StationStage(s)
    BY <1>1, <1>2, <1>9 DEF StaTransmit, Received, StageInv
  <2>2. /\ Has(q, r) /\ \A x : Has(q2, x) => Has(q, x)
        /\ Single(q, {"AssocReq"}) => /\ Single(q2, {"AssocReq"})
                                      /\ r = "AssocReq" => ~Has(q2, "AssocReq")
    BY <1>3, TailHas, TailSingle
  <2>3. Ordered(q) => /\ Ordered(q2)
                      /\ r = "Disassociation" => ~Has(q2, "AssocReq")
    BY <1>3, TailOrdered
  <2>4. PICK v, v2, a, a2, l, l2, p, p2, on :
           /\ v = m_state[s] /\ v2 = m_state'[s] /\ a = apState[s] /\ a2 = apState'[s]
           /\ l = (s \in m_sensorList \cup m_OffloadList)
           /\ l2 = (s \in m_sensorList' \cup m_OffloadList')
           /\ p = apQueue /\ p2 = apQueue' /\ on = Punctual /\ on = Punctual'
    BY <1>1
  <2>5. Stage(s, v, a, q, p, l) /\ (on => OneRequest(s, v, a, q, p))
    BY <1>2, <2>1, <2>4 DEF StationStage
  <2>6. SUFFICES Stage(s, v2, a2, q2, p2, l2)
                 /\ (on => OneRequest(s, v2, a2, q2, p2))
    BY <1>2, <2>4 DEF StationStage
  <2>7. CASE r \in {"ProbeReq", "AuthReq"}
    <3>1. v2 = v /\ a2 = a /\ l2 = l
      BY <2>1, <2>4, <2>7 DEF StaTxOk, ApReceive, lists
    <3>2. PICK type \in {"ProbeResp", "AuthResp"} : Answer(s, type)
      BY <2>1, <2>7 DEF ApReceive
    <3>3. /\ \A x \in AssocAnswers(s) : Has(p2, x) => Has(p, x)
          /\ Single(p, AssocAnswers(s)) => Single(p2, AssocAnswers(s))
      BY <2>4, <3>2, Answered DEF AssocAnswers, Answers
    <3>4. Asked(s, q2, p2) => Asked(s, q, p)
      BY <2>2, <3>3 DEF Asked
    <3>5. QED
      BY <2>2, <2>3, <2>5, <3>1, <3>3, <3>4 DEF Stage, OneRequest, AssocAnswers
  <2>8. CASE r = "AssocReq" /\ s \in Compatible
    <3>1. v2 = v /\ a2 = "WAIT_ASSOC_TX_OK" /\ l2
      BY <2>1, <2>4, <2>8, TypeParts DEF StaTxOk, ApReceive, Record, ApTypes
    <3>2. Answer(s, "AssocResp") /\ "AssocResp" \in Answers
      BY <2>1, <2>8 DEF ApReceive, Answers
    <3>3. /\ Has(p2, Resp(s, "AssocRefused")) => Has(p, Resp(s, "AssocRefused"))
          /\ (/\ Single(p, AssocAnswers(s))
              /\ \A x \in AssocAnswers(s) : ~Has(p, x)) => Single(p2, AssocAnswers(s))
      BY <2>4, <3>2, Answered DEF Answers
    <3>4. v \notin Early /\ (on => v = "WAIT_ASSOC_RESP")
      BY <2>2, <2>5, <2>8 DEF Stage, OneRequest, Asked
    <3>5. Stage(s, v2, a2, q2, p2, l2)
      BY <2>2, <2>3, <2>5, <2>8, <3>1, <3>3, <3>4 DEF Stage
    <3>6. on => OneRequest(s, v2, a2, q2, p2)
      BY <2>2, <2>5, <2>8, <3>1, <3>3, <3>4 DEF OneRequest
    <3>7. QED
      BY <3>5, <3>6
  <2>9. CASE r = "AssocReq" /\ s \notin Compatible
    <3>1. v2 = v /\ a2 = a /\ l2 = l
      BY <2>1, <2>4, <2>9 DEF StaTxOk, ApReceive, lists
    <3>2. Answer(s, "AssocRefused") /\ "AssocRefused" \in Answers
      BY <2>1, <2>9 DEF ApReceive, Answers
    <3>3. /\ Has(p2, Resp(s, "AssocResp")) => Has(p, Resp(s, "AssocResp"))
          /\ (/\ Single(p, AssocAnswers(s))
              /\ \A x \in AssocAnswers(s) : ~Has(p, x)) => Single(p2, AssocAnswers(s))
      BY <2>4, <3>2, Answered DEF Answers
    <3>4. v \notin Early /\ (on => v = "WAIT_ASSOC_RESP")
      BY <2>2, <2>5, <2>9 DEF Stage, OneRequest, Asked
    <3>5. Stage(s, v2, a2, q2, p2, l2)
      BY <2>2, <2>3, <2>5, <2>9, <3>1, <3>3, <3>4 DEF Stage
    <3>6. on => OneRequest(s, v2, a2, q2, p2)
      BY <2>2, <2>5, <2>9, <3>1, <3>3, <3>4 DEF OneRequest
    <3>7. QED
      BY <3>5, <3>6
  <2>10. CASE r = "Disassociation"
    <3>1. v \in {"WAIT_DISASSOC_ACK", "REFUSED"} /\ s \in Compatible
      BY <2>2, <2>5, <2>10 DEF Stage
    <3>2. v2 = "REFUSED" /\ a2 = "DISASSOC" /\ p2 = p
      BY <2>1, <2>4, <2>10, <3>1, TypeParts
      DEF StaTxOk, SetState, ApReceive, Record, ApTypes, StationTypes
    <3>3. ~Has(q2, "AssocReq")
      BY <2>3, <2>5, <2>10 DEF Stage
    <3>4. Stage(s, v2, a2, q2, p2, l2)
      BY <2>2, <2>3, <2>5, <3>1, <3>2, <3>3 DEF Stage, Early
    <3>5. on => OneRequest(s, v2, a2, q2, p2)
      BY <2>2, <2>5, <3>1, <3>2, <3>3 DEF OneRequest, Asked
    <3>6. QED
      BY <3>4, <3>5
  <2>11. r \in Requests
    BY <1>3
  <2>12. QED
    BY <2>7, <2>8, <2>9, <2>10, <2>11 DEF Requests
<1>10. QED
  BY <1>1, <1>8, <1>9, StageStep

LEMMA ApTransmitStage ==
  ASSUME TypeOK, FitInv, StageInv, NEW outcome \in Outcomes, ApTransmit(outcome)
  PROVE  StageInv'
<1>1. /\ Counted /\ Punctual' = Punctual
      /\ Lossless' => Lossless /\ outcome = "acked"
  BY SpendStage DEF ApTransmit
<1>2. PICK s, type, frame : frame = Head(apQueue) /\ s = frame.to /\ type = frame.type
  OBVIOUS
<1>3. /\ apQueue \in Seq(Frames) /\ apQueue # <<>> /\ apQueue' = Tail(apQueue)
      /\ s \in Stations /\ type \in Answers /\ frame = Resp(s, type)
  <2>1. apQueue \in Seq(Frames) /\ apQueue # <<>> /\ apQueue' = Tail(apQueue)
    BY TypeParts DEF ApTransmit, ApTypes
  <2>2. frame \in Frames
    BY <1>2, <2>1, HeadTailProperties
  <2>3. QED
    BY <1>2, <2>1, <2>2 DEF Frames, Resp
<1>4. /\ Has(apQueue, frame) /\ \A r : Has(apQueue', r) => Has(apQueue, r)
      /\ \A F : Single(apQueue, F) => /\ Single(apQueue', F)
                                      /\ frame \in F => \A r \in F : ~Has(apQueue', r)
  BY <1>2, <1>3, TailHas, TailSingle
<1>5. \/ UNCHANGED <<m_state, staQueue>>
      \/ StaReceive(s, type) /\ Expected(s, type)
  BY <1>2 DEF ApTransmit, StaReceive
<1>6. ApTxDone(s, type, outcome) /\ UNCHANGED lists
  BY <1>2 DEF ApTransmit
<1>7. Elsewhere(s)
  <2>1. \A x \in Stations \ {s} : m_state'[x] = m_state[x] /\ staQueue'[x] = staQueue[x]
    BY <1>3, <1>5, OthersStay DEF StaReceive, SendAuthenticationRequest,
                                  SendAssociationRequest, SetState
  <2>2. \A x \in Stations \ {s} : apState'[x] = apState[x]
    BY <1>6, TypeParts DEF ApTxDone, Record, ApTypes
  <2>3. \A x \in Stations \ {s} : Fewer(x, apQueue', apQueue)
    BY <1>4 DEF Fewer
  <2>4. QED
    BY <1>6, <2>1, <2>2, <2>3 DEF Elsewhere, lists
<1>8. ASSUME Lossless' PROVE StationStage(s)'
  <2>1. Lossless /\ outcome = "acked" /\ StationStage(s)
    BY <1>1, <1>3, <1>8 DEF StageInv
  <2>2. PICK v, v2, a, a2, q, q2, p, p2, l, on :
           /\ v = m_state[s] /\ v2 = m_state'[s] /\ a = apState[s] /\ a2 = apState'[s]
           /\ q = staQueue[s] /\ q2 = staQueue'[s] /\ p = apQueue /\ p2 = apQueue'
           /\ l = (s \in m_sensorList \cup m_OffloadList)
           /\ l = (s \in m_sensorList' \cup m_OffloadList')
           /\ on = Punctual /\ on = Punctual'
    BY <1>1, <1>6 DEF lists
  <2>3. Stage(s, v, a, q, p, l) /\ (on => OneRequest(s, v, a, q, p))
    BY <2>1, <2>2 DEF StationStage
  <2>4. SUFFICES Stage(s, v2, a2, q2, p2, l)
                 /\ (on => OneRequest(s, v2, a2, q2, p2))
    BY <2>2 DEF StationStage
  <2>5. /\ Has(p, Resp(s, type)) /\ \A r : Has(p2, r) => Has(p, r)
        /\ Single(p, AssocAnswers(s)) => Single(p2, AssocAnswers(s))
    BY <1>3, <1>4, <2>2
  <2>6. Asked(s, q, p2) => Asked(s, q, p)
    BY <2>5 DEF Asked
  <2>7. CASE type \in {"ProbeResp", "AuthResp"}
    <3>1. a2 = a
      BY <1>6, <2>2, <2>7 DEF ApTxDone
    <3>2. CASE UNCHANGED <<m_state, staQueue>>
      <4>1. v2 = v /\ q2 = q
        BY <2>2, <3>2
      <4>2. QED
        BY <2>3, <2>5, <2>6, <3>1, <4>1 DEF Stage, OneRequest
    <3>3. CASE type = "ProbeResp" /\ StaReceive(s, type) /\ Expected(s, type)
      <4>1. v \in Early /\ ~Asked(s, q, p)
        BY <2>2, <2>3, <3>3 DEF Expected, Early, Stage
      <4>2. v2 \in Early /\ (q2 = q \/ q2 = Enqueued(q, "AuthReq"))
        BY <1>3, <2>2, <3>3, TypeParts
        DEF StaReceive, SendAuthenticationRequest, SetState, Send, StationTypes, Early
      <4>3. q \in Seq(Requests) /\ "AuthReq" \in Requests
        BY <1>3, <2>2, TypeParts DEF StationTypes, Requests
      <4>4. /\ \A r : Has(q2, r) => Has(q, r) \/ r = "AuthReq"
            /\ Ordered(q) => Ordered(q2)
            /\ Single(q, {"AssocReq"}) => Single(q2, {"AssocReq"})
        <5>1. CASE q2 = q
          BY <5>1
        <5>2. CASE q2 = Enqueued(q, "AuthReq")
          BY <4>3, <5>2, EnqueuedHas, EnqueuedOrdered, EnqueuedSingle
        <5>3. QED
          BY <4>2, <5>1, <5>2
      <4>5. ~Asked(s, q2, p2) /\ ~Has(q2, "Disassociation")
        BY <2>3, <2>5, <4>1, <4>4 DEF Asked, Stage, Early
      <4>6. Stage(s, v2, a2, q2, p2, l)
        BY <2>3, <2>5, <3>1, <4>1, <4>2, <4>4, <4>5 DEF Stage, Early
      <4>7. on => OneRequest(s, v2, a2, q2, p2)
        BY <2>3, <2>5, <4>2, <4>4, <4>5 DEF OneRequest, Asked, Early
      <4>8. QED
        BY <4>6, <4>7
    <3>4. CASE type = "AuthResp" /\ StaReceive(s, type) /\ Expected(s, type)
      <4>1. v = "WAIT_AUTH_RESP" /\ a = "BRAND_NEW" /\ ~Asked(s, q, p)
            /\ ~Has(q, "Disassociation")
        BY <2>2, <2>3, <3>4 DEF Expected, Early, Stage
      <4>2. v2 = "WAIT_ASSOC_RESP" /\ q2 = Enqueued(q, "AssocReq")
        BY <1>3, <2>2, <3>4, TypeParts
        DEF StaReceive, SendAssociationRequest, SetState, Send, StationTypes
      <4>3. q \in Seq(Requests) /\ "AssocReq" \in Requests
        BY <1>3, <2>2, TypeParts DEF StationTypes, Requests
      <4>4. \A r : Has(q2, r) => Has(q, r) \/ r = "AssocReq"
        BY <4>2, <4>3, EnqueuedHas
      <4>5. Ordered(q2)
        BY <2>3, <4>1, <4>2, <4>3, EnqueuedOrdered DEF Stage
      <4>6. on => Single(q2, {"AssocReq"})
        BY <2>3, <4>1, <4>2, <4>3, EnqueuedSingle DEF OneRequest, Asked
      <4>7. Stage(s, v2, a2, q2, p2, l)
        BY <2>3, <2>5, <3>1, <4>1, <4>2, <4>4, <4>5 DEF Stage, Early
      <4>8. on => OneRequest(s, v2, a2, q2, p2)
        BY <2>3, <2>5, <4>1, <4>2, <4>6 DEF OneRequest, Asked
      <4>9. QED
        BY <4>7, <4>8
    <3>5. QED
      BY <1>5, <2>7, <3>2, <3>3, <3>4
  <2>8. CASE type \in {"AssocResp", "AssocRefused"}
    <3>1. q2 = q
      BY <1>5, <2>2, <2>8 DEF StaReceive
    <3>2. a2 = IF a = "WAIT_ASSOC_TX_OK" THEN "GOT_ASSOC_TX_OK" ELSE a
      BY <1>3, <1>6, <2>1, <2>2, <2>8, TypeParts DEF ApTxDone, Record, ApTypes
    <3>3. v2 = IF v # "WAIT_ASSOC_RESP" THEN v
               ELSE IF type = "AssocResp" THEN "ASSOCIATED" ELSE "REFUSED"
      <4>1. ApTransmit(outcome) /\ Received(outcome)
        BY <2>1 DEF Received
      <4>2. StaReceive(s, type)
        BY <1>2, <4>1 DEF ApTransmit
      <4>3. QED
        BY <1>3, <2>2, <2>8, <4>2, TypeParts DEF StaReceive, Expected, SetState, StationTypes
    <3>4. v \notin Early
      <4>1. Resp(s, type) \in AssocAnswers(s)
        BY <2>8 DEF AssocAnswers
      <4>2. QED
        BY <2>3, <2>5, <4>1 DEF Stage, Asked
    <3>5. Stage(s, v2, a2, q2, p2, l)
      BY <2>3, <2>5, <2>8, <3>1, <3>2, <3>3, <3>4 DEF Stage, Early
    <3>6. on => OneRequest(s, v2, a2, q2, p2)
      <4>1. SUFFICES ASSUME on PROVE OneRequest(s, v2, a2, q2, p2)
        OBVIOUS
      <4>2. Resp(s, type) \in AssocAnswers(s)
        BY <2>8 DEF AssocAnswers
      <4>3. v = "WAIT_ASSOC_RESP" /\ ~Has(q, "AssocReq")
        BY <2>3, <2>5, <4>1, <4>2 DEF OneRequest, Asked
      <4>4. \A r \in AssocAnswers(s) : ~Has(p2, r)
        BY <1>3, <1>4, <2>2, <2>3, <4>1, <4>2 DEF OneRequest
      <4>5. a = "WAIT_ASSOC_TX_OK" \/ type = "AssocRefused"
        BY <2>3, <2>5, <2>8, <4>3 DEF Stage
      <4>6. QED
        BY <2>3, <2>5, <3>1, <3>2, <3>3, <4>1, <4>3, <4>4, <4>5 DEF OneRequest, Asked
    <3>7. QED
      BY <3>5, <3>6
  <2>9. QED
    BY <1>3, <2>7, <2>8 DEF Answers
<1>9. QED
  BY <1>1, <1>3, <1>7, <1>8, StageStep

LEMMA InitStage == Init => StageInv
<1> SUFFICES ASSUME Init PROVE StageInv
  OBVIOUS
<1>1. ASSUME NEW s \in Stations PROVE StationStage(s)
  BY DEF Init, StationStage, Stage, OneRequest, Asked, Has, Single, Ordered, Early
<1>2. QED
  BY <1>1, BoundAssumption DEF Init, StageInv

LEMMA NextStage == TypeOK /\ FitInv /\ StageInv /\ [Next]_vars => StageInv'
<1> SUFFICES ASSUME TypeOK, FitInv, StageInv, [Next]_vars PROVE StageInv'
  OBVIOUS
<1>1. CASE UNCHANGED vars \/ SendOneBeacon
  <2>1. UNCHANGED <<m_state, staQueue, apQueue, apState, lists, budget>>
    BY <1>1 DEF vars, apVars, SendOneBeacon
  <2>2. QED
    BY <2>1 DEF StageInv, Lossless, Undisturbed, Probed, StationStage, Punctual, lists
<1>2. CASE \E outcome \in Outcomes : ApTransmit(outcome)
  BY <1>2, ApTransmitStage
<1>3. ASSUME NEW s \in Stations, \E outcome \in Outcomes : StaTransmit(s, outcome)
      PROVE  StageInv'
  BY <1>3, StaTransmitStage
<1>4. QED
  BY <1>1, <1>2, <1>3, BeaconStage, TimeoutStage, UserStage DEF Next

\* While nothing has been lost and no watchdog has fired, the AP and a station with
\* nothing under way agree on whether the station is associated.
THEOREM SidesAgree == Spec => []Agreement
<1>1. TypeOK /\ StageInv => Agreement
  <2>1. SUFFICES ASSUME TypeOK, StageInv, Lossless, NEW s \in Stations, Settled(s)
                 PROVE  /\ apState[s] = "GOT_ASSOC_TX_OK" => m_state[s] = "ASSOCIATED"
                        /\ m_state[s] = "ASSOCIATED" =>
                             /\ s \in m_sensorList \cup m_OffloadList
                             /\ \/ apState[s] = "GOT_ASSOC_TX_OK"
                                \/ apState[s] = "WAIT_ASSOC_TX_OK" /\ budget.late < MaxLate
    BY DEF Agreement, Lossless
  <2>2. StationStage(s) /\ m_state[s] \in MacState \ {"WAIT_DISASSOC_ACK"}
    BY <2>1, TypeParts DEF StageInv, StationTypes, Settled
  <2>3. QED
    <3>1. Punctual \/ budget.late < MaxLate
      BY <2>1, TypeParts, BoundAssumption DEF StageInv, Budgets, Punctual
    <3>2. QED
      BY <2>2, <3>1 DEF StationStage, Stage, OneRequest, MacState, Early
<1>2. QED
  BY InitTypes, NextTypes, InitFit, NextFit, InitStage, NextStage, <1>1, PTL DEF Spec

-----------------------------------------------------------------------------
(* Only admitted stations are taken in                                     *)

\* No threshold has let station s in, and nothing but probing is under way.
ShutOut(s) ==
  /\ fasTAssocType[s] = FALSE /\ fastAssocThreshold[s] <= assocVaule[s]
  /\ m_state[s] \in {"BEACON_MISSED", "WAIT_PROBE_RESP"}
  /\ timers[s] \subseteq {"probe", "watchdog"}
  /\ \A r : Has(staQueue[s], r) => r = "ProbeReq"
  /\ \A type \in Answers : Has(apQueue, Resp(s, type)) => type = "ProbeResp"
  /\ apState[s] = "BRAND_NEW"

\* A step of another station.
Apart(s) ==
  /\ fasTAssocType'[s] = fasTAssocType[s] /\ fastAssocThreshold'[s] = fastAssocThreshold[s]
  /\ m_state'[s] = m_state[s] /\ timers'[s] = timers[s] /\ staQueue'[s] = staQueue[s]
  /\ apState'[s] = apState[s] /\ Fewer(s, apQueue', apQueue)

LEMMA ApartShutOut == ASSUME NEW s \in Stations, ShutOut(s), Apart(s) PROVE ShutOut(s)'
BY DEF ShutOut, Apart, Fewer

LEMMA OthersApart ==
  ASSUME TypeOK, NEW s \in Stations, NEW x \in Stations \ {s},
         \/ ReceiveBeacon(x) \/ Timeout(x) \/ MissedBeacons(x)
         \/ TryToEnsureAssociated(x) \/ SetActiveProbing(x) \/ Disassociate(x)
  PROVE  Apart(s)
<1>1. UNCHANGED <<apQueue, apState>> /\ Fewer(s, apQueue, apQueue)
  BY DEF ReceiveBeacon, BeaconCentralized, BeaconDraw, BeaconCount, BeaconIgnored,
         HearBeacon, Timeout, AuthRequestTimeout, AssocRequestTimeout, ProbeRequestTimeout,
         DisassocTimeout, CountSlot, MissedBeacons, TryToEnsureAssociated,
         SetActiveProbing, Disassociate, apVars, Fewer
<1>2. /\ UNCHANGED m_state \/ \E v : SetState(x, v)
      /\ UNCHANGED timers \/ \E t : SetTimers(x, t)
      /\ UNCHANGED staQueue \/ \E f : Send(x, f)
      /\ UNCHANGED heard \/ HearBeacon(x)
  <2>1. CASE ReceiveBeacon(x)
    BY <2>1 DEF ReceiveBeacon, BeaconCentralized, BeaconDraw, BeaconCount, BeaconIgnored,
                SendAuthenticationRequest
  <2>2. CASE Timeout(x)
    BY <2>2 DEF Timeout, AuthRequestTimeout, AssocRequestTimeout, ProbeRequestTimeout,
         DisassocTimeout, CountSlot, SendAuthenticationRequest, SendAssociationRequest,
         SendProbeRequest, SendDisAssociationRequest
  <2>3. CASE MissedBeacons(x) \/ TryToEnsureAssociated(x) \/ SetActiveProbing(x)
             \/ Disassociate(x)
    BY <2>3 DEF MissedBeacons, TryToEnsureAssociated, SetActiveProbing, Disassociate,
                SendProbeRequest, SendDisAssociationRequest
  <2>4. QED
    BY <2>1, <2>2, <2>3
<1>3. QED
  BY <1>1, <1>2, TypeParts
  DEF Apart, SetState, SetTimers, Send, HearBeacon, heard, StationTypes, HeardTypes

\* The gate stays shut for s.
LEMMA AuthShut ==
  ASSUME TypeOK, NEW s \in Stations, NEW threshold \in Nat, threshold <= assocVaule[s],
         NEW pending, SendAuthenticationRequest(s, threshold, FALSE, pending)
  PROVE  m_state'[s] = "BEACON_MISSED" /\ timers'[s] = pending /\ UNCHANGED staQueue
<1>1. ~Admitted(s, threshold, FALSE)
  BY ValueAssumption DEF Admitted
<1>2. QED
  BY <1>1, TypeParts DEF SendAuthenticationRequest, SetState, SetTimers, StationTypes

LEMMA ProbeShut ==
  ASSUME TypeOK, NEW s \in Stations, NEW pending, SendProbeRequest(s, pending)
  PROVE  /\ m_state'[s] = "WAIT_PROBE_RESP" /\ timers'[s] = pending \cup {"probe"}
         /\ \A r : Has(staQueue'[s], r) => Has(staQueue[s], r) \/ r = "ProbeReq"
<1>1. staQueue'[s] = Enqueued(staQueue[s], "ProbeReq") /\ staQueue[s] \in Seq(Requests)
      /\ "ProbeReq" \in Requests
  BY TypeParts DEF SendProbeRequest, Send, StationTypes, Requests
<1>2. \A r : Has(staQueue'[s], r) => Has(staQueue[s], r) \/ r = "ProbeReq"
  BY <1>1, EnqueuedHas
<1>3. QED
  BY <1>2, TypeParts DEF SendProbeRequest, SetState, SetTimers, StationTypes

LEMMA BeaconShut ==
  ASSUME TypeOK, NEW s \in Stations, ShutOut(s), ~Distributed,
         ~(published > assocVaule[s]), ReceiveBeacon(s)
  PROVE  ShutOut(s)'
<1>1. published \in Nat /\ published <= assocVaule[s]
  <2>1. published \in Nat /\ assocVaule[s] \in Nat
    BY TypeParts, ValueAssumption
  <2>2. QED
    BY <2>1
<1>2. HearBeacon(s)
  BY DEF ReceiveBeacon, BeaconCentralized, BeaconDraw, BeaconCount, BeaconIgnored
<1>3. /\ fasTAssocType'[s] = FALSE /\ fastAssocThreshold'[s] <= assocVaule[s]
      /\ UNCHANGED <<apQueue, apState>>
  BY <1>1, <1>2, TypeParts, FlagAssumption DEF HearBeacon, HeardTypes, apVars
<1>4. CASE BeaconCentralized(s)
  <2>1. m_state'[s] = "BEACON_MISSED" /\ timers'[s] = timers[s] \cup {"watchdog"}
        /\ UNCHANGED staQueue
    BY <1>1, <1>4, AuthShut DEF BeaconCentralized
  <2>2. QED
    BY <1>3, <2>1 DEF ShutOut
<1>5. CASE BeaconIgnored(s)
  <2>1. UNCHANGED <<m_state, staQueue>> /\ timers'[s] = timers[s] \cup {"watchdog"}
    BY <1>5, TypeParts DEF BeaconIgnored, SetTimers, StationTypes
  <2>2. QED
    BY <1>3, <2>1 DEF ShutOut
<1>6. QED
  BY <1>4, <1>5 DEF ReceiveBeacon, BeaconDraw, BeaconCount

LEMMA OwnShut ==
  ASSUME TypeOK, NEW s \in Stations, ShutOut(s),
         \/ Timeout(s) \/ MissedBeacons(s) \/ TryToEnsureAssociated(s)
         \/ SetActiveProbing(s) \/ Disassociate(s)
  PROVE  ShutOut(s)'
<1>1. UNCHANGED <<heard, apQueue, apState>>
  BY DEF Timeout, AuthRequestTimeout, AssocRequestTimeout, ProbeRequestTimeout,
         DisassocTimeout, CountSlot, MissedBeacons, TryToEnsureAssociated,
         SetActiveProbing, Disassociate, apVars
<1>2. ~AuthRequestTimeout(s) /\ ~AssocRequestTimeout(s) /\ ~DisassocTimeout(s)
      /\ ~CountSlot(s) /\ ~Disassociate(s)
  BY DEF ShutOut, AuthRequestTimeout, AssocRequestTimeout, DisassocTimeout, CountSlot,
         Disassociate, Fires
<1>3. CASE \E t \in SUBSET timers[s] : SendProbeRequest(s, t)
  BY <1>1, <1>3, ProbeShut DEF ShutOut, heard
<1>4. CASE /\ \E t \in SUBSET timers[s] : SetTimers(s, t)
           /\ UNCHANGED m_state \/ SetState(s, "BEACON_MISSED")
           /\ UNCHANGED staQueue
  BY <1>1, <1>4, TypeParts DEF ShutOut, heard, SetTimers, SetState, StationTypes
<1>5. ProbeRequestTimeout(s) \/ MissedBeacons(s) \/ TryToEnsureAssociated(s)
      \/ SetActiveProbing(s)
  BY <1>2 DEF Timeout
<1>6. \A t : timers[s] \ t \in SUBSET timers[s]
  OBVIOUS
<1>7. timers[s] \in SUBSET timers[s]
  OBVIOUS
<1>8. QED
  BY <1>3, <1>4, <1>5, <1>6, <1>7
  DEF ProbeRequestTimeout, MissedBeacons, TryToEnsureAssociated, SetActiveProbing

LEMMA StaTransmitShut ==
  ASSUME TypeOK, NEW s \in Stations, ShutOut(s), NEW x \in Stations, NEW outcome \in Outcomes,
         StaTransmit(x, outcome)
  PROVE  ShutOut(s)'
<1>1. UNCHANGED heard
  BY DEF StaTransmit
<1>2. CASE x # s
  <2>1. m_state'[s] = m_state[s] /\ timers'[s] = timers[s] /\ staQueue'[s] = staQueue[s]
        /\ apState'[s] = apState[s]
    BY <1>2, TypeParts DEF StaTransmit, StaTxOk, SetState, SetTimers, StationTypes,
                           ApReceive, Record, ApTypes
  <2>2. Fewer(s, apQueue', apQueue)
    <3>1. CASE UNCHANGED apQueue
      BY <3>1 DEF Fewer
    <3>2. CASE \E type \in Answers : Answer(x, type)
      BY <1>2, <3>2, Answered
    <3>3. QED
      BY <3>1, <3>2 DEF StaTransmit, ApReceive, Answers
  <2>3. QED
    BY <1>1, <2>1, <2>2, ApartShutOut DEF Apart, heard
<1>3. CASE x = s
  <2>1. staQueue[s] \in Seq(Requests) /\ staQueue[s] # <<>> /\ staQueue'[s] = Tail(staQueue[s])
    BY <1>3, TypeParts DEF StaTransmit, StationTypes
  <2>2. Head(staQueue[s]) = "ProbeReq" /\ \A r : Has(staQueue'[s], r) => r = "ProbeReq"
    BY <2>1, TailHas DEF ShutOut
  <2>3. UNCHANGED <<m_state, timers, apState>>
        /\ (UNCHANGED apQueue \/ Answer(s, "ProbeResp"))
    BY <1>3, <2>2 DEF StaTransmit, StaTxOk, ApReceive
  <2>4. \A type \in Answers : Has(apQueue', Resp(s, type)) => type = "ProbeResp"
    BY <2>3, Answered DEF ShutOut, Answers
  <2>5. QED
    BY <1>1, <2>2, <2>3, <2>4 DEF ShutOut, heard
<1>4. QED
  BY <1>2, <1>3

LEMMA ApTransmitShut ==
  ASSUME TypeOK, NEW s \in Stations, ShutOut(s), NEW outcome \in Outcomes,
         ApTransmit(outcome)
  PROVE  ShutOut(s)'
<1>1. UNCHANGED heard
  BY DEF ApTransmit
<1>2. PICK x, type, frame : frame = Head(apQueue) /\ x = frame.to /\ type = frame.type
  OBVIOUS
<1>3. /\ apQueue \in Seq(Frames) /\ apQueue # <<>> /\ apQueue' = Tail(apQueue)
      /\ x \in Stations /\ type \in Answers /\ frame = Resp(x, type)
  <2>1. apQueue \in Seq(Frames) /\ apQueue # <<>> /\ apQueue' = Tail(apQueue)
    BY TypeParts DEF ApTransmit, ApTypes
  <2>2. frame \in Frames
    BY <1>2, <2>1, HeadTailProperties
  <2>3. QED
    BY <1>2, <2>1, <2>2 DEF Frames, Resp
<1>4. /\ Has(apQueue, frame) /\ \A r : Has(apQueue', r) => Has(apQueue, r)
      /\ \A F : Single(apQueue, F) => Single(apQueue', F)
  BY <1>2, <1>3, TailHas, TailSingle
<1>5. /\ ApTxDone(x, type, outcome)
      /\ \/ UNCHANGED <<m_state, timers, staQueue>>
         \/ StaReceive(x, type) /\ Expected(x, type)
  BY <1>2 DEF ApTransmit, StaReceive
<1>6. CASE x # s
  <2>1. m_state'[s] = m_state[s] /\ timers'[s] = timers[s] /\ staQueue'[s] = staQueue[s]
    BY <1>3, <1>5, <1>6, TypeParts
    DEF StaReceive, SendAuthenticationRequest, SendAssociationRequest, SetState, SetTimers,
        Send, StationTypes
  <2>2. apState'[s] = apState[s]
    BY <1>5, <1>6, TypeParts DEF ApTxDone, Record, ApTypes
  <2>3. Fewer(s, apQueue', apQueue)
    BY <1>4 DEF Fewer
  <2>4. QED
    BY <1>1, <2>1, <2>2, <2>3, ApartShutOut DEF Apart, heard
<1>7. CASE x = s
  <2>1. type = "ProbeResp"
    BY <1>3, <1>4, <1>7 DEF ShutOut
  <2>2. UNCHANGED apState /\ \A t \in Answers : Has(apQueue', Resp(s, t)) => t = "ProbeResp"
    BY <1>4, <1>5, <2>1 DEF ApTxDone, ShutOut
  <2>3. CASE UNCHANGED <<m_state, timers, staQueue>>
    BY <1>1, <2>2, <2>3 DEF ShutOut, heard
  <2>4. CASE StaReceive(s, type)
    <3>1. CASE UNCHANGED <<m_state, timers, staQueue>>
      BY <2>3, <3>1
    <3>2. CASE SendAuthenticationRequest(s, fastAssocThreshold[s], fasTAssocType[s],
                                         (timers[s] \ {"probe"}) \cup {"watchdog"})
      <4>1. fastAssocThreshold[s] \in Nat /\ fastAssocThreshold[s] <= assocVaule[s]
            /\ fasTAssocType[s] = FALSE
        <5>1. fastAssocThreshold[s] \in {0} \cup Thresholds
          BY TypeParts DEF HeardTypes
        <5>2. fastAssocThreshold[s] \in Nat
          <6>1. {0} \cup Thresholds \subseteq Nat
            BY ValueAssumption
          <6>2. QED
            BY <5>1, <6>1, Zenon
        <5>3. QED
          BY <5>2 DEF ShutOut
      <4>2. m_state'[s] = "BEACON_MISSED" /\ UNCHANGED staQueue
            /\ timers'[s] = (timers[s] \ {"probe"}) \cup {"watchdog"}
        BY <3>2, <4>1, AuthShut
      <4>3. QED
        BY <1>1, <2>2, <4>2 DEF ShutOut, heard
    <3>3. QED
      BY <2>1, <2>4, <3>1, <3>2 DEF StaReceive
  <2>5. QED
    BY <1>5, <1>7, <2>3, <2>4
<1>8. QED
  BY <1>6, <1>7

LEMMA InitShut == ASSUME Init, NEW s \in Stations PROVE ShutOut(s)
BY ValueAssumption DEF Init, ShutOut, Has

LEMMA NextShut ==
  ASSUME TypeOK, NEW s \in Stations, ShutOut(s), ~Distributed,
         ~(published > assocVaule[s]), [Next]_vars
  PROVE  ShutOut(s)'
<1>1. CASE UNCHANGED vars \/ SendOneBeacon
  BY <1>1 DEF ShutOut, vars, heard, apVars, SendOneBeacon
<1>2. CASE \E outcome \in Outcomes : ApTransmit(outcome)
  BY <1>2, ApTransmitShut
<1>3. ASSUME NEW x \in Stations, \E outcome \in Outcomes : StaTransmit(x, outcome)
      PROVE  ShutOut(s)'
  BY <1>3, StaTransmitShut
<1>4. ASSUME NEW x \in Stations,
             \/ ReceiveBeacon(x) \/ Timeout(x) \/ MissedBeacons(x)
             \/ TryToEnsureAssociated(x) \/ SetActiveProbing(x) \/ Disassociate(x)
      PROVE  ShutOut(s)'
  <2>1. CASE x = s
    BY <1>4, <2>1, BeaconShut, OwnShut
  <2>2. CASE x # s
    BY <1>4, <2>2, OthersApart, ApartShutOut
  <2>3. QED
    BY <2>1, <2>2
<1>5. QED
  BY <1>1, <1>2, <1>3, <1>4 DEF Next

\* A station whose value no published threshold exceeds is never taken in: as long as
\* no threshold lets it in, no more than its probing is ever under way.
THEOREM OnlyAdmittedJoin == Spec => OnlyAdmitted
<1>1. ASSUME ~Distributed, NEW s \in Stations
      PROVE  Spec => <>(published > assocVaule[s]) \/ [](apState[s] = "BRAND_NEW")
  <2>1. Init => ShutOut(s)
    BY InitShut
  <2>2. TypeOK /\ ShutOut(s) /\ ~(published > assocVaule[s]) /\ [Next]_vars => ShutOut(s)'
    BY <1>1, NextShut
  <2>3. ShutOut(s) => apState[s] = "BRAND_NEW"
    BY DEF ShutOut
  <2>4. QED
    BY InitTypes, NextTypes, <2>1, <2>2, <2>3, PTL DEF Spec
<1>2. QED
  BY <1>1 DEF OnlyAdmitted
=============================================================================
