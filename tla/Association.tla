----------------------------- MODULE Association -----------------------------
(***************************************************************************)
(* How 802.11ah stations authenticate and associate with the access point  *)
(* under authentication control: src/wifi/model/sta-wifi-mac.cc on the     *)
(* station's side, the frame handlers of src/wifi/model/ap-wifi-mac.cc and *)
(* the association state of the remote station manager on the other.       *)
(*                                                                         *)
(* A station hears beacons that carry either the centralized threshold or  *)
(* the parameters of the distributed protocol, asks for authentication,    *)
(* then for association, and repeats a request when its timer fires.  Time *)
(* is abstract: a pending timer may fire at any moment, a frame waits in a *)
(* queue for as long as it likes.  The channel may lose a frame or its     *)
(* acknowledgement after all the retries of the lower MAC, a frame may stay*)
(* in a queue beyond its lifetime, and a station may miss so many beacons  *)
(* that its watchdog fires; the numbers of these faults are bounded.       *)
(***************************************************************************)
EXTENDS Naturals, Sequences

CONSTANTS
  Stations,
  assocVaule,        \* [Stations -> Nat], drawn once by each station
  Thresholds,        \* the centralized thresholds the AP may publish
  Distributed,       \* attribute "AuthenProtocol" is 1, not 0
  m_minTI, m_maxTI,  \* attributes "TIMin", "TIMax" of the distributed protocol
  ActiveProbing,     \* attribute "ActiveProbing", as it is set at the start
  Compatible,        \* the stations that support the AP's basic rate set
  Sensors,           \* the stations of type 1; the others are of type 2
  MaxSize,           \* m_maxSize of the management queues
  MaxLost,           \* bound of the model: frames or acknowledgements lost
  MaxLate,           \* bound of the model: request timers that fire although
                     \* the request or its answer is on its way
  MaxMissed,         \* bound of the model: firings of the watchdogs
  MaxDisassoc,       \* bound of the model: disassociations by the user
  MaxSwitches        \* bound of the model: changes of ActiveProbing

ASSUME ValueAssumption == assocVaule \in [Stations -> Nat] /\ Thresholds \subseteq Nat
ASSUME FlagAssumption ==
  /\ {Distributed, ActiveProbing} \subseteq BOOLEAN
  /\ Compatible \subseteq Stations
  /\ Sensors \subseteq Stations
ASSUME IntervalAssumption ==
  /\ m_minTI \in Nat \ {0}
  /\ m_maxTI \in Nat
  /\ m_minTI <= m_maxTI
ASSUME BoundAssumption ==
  /\ MaxSize \in Nat \ {0}
  /\ {MaxLost, MaxLate, MaxMissed, MaxDisassoc, MaxSwitches} \subseteq Nat

VARIABLES
  m_state,             \* [Stations -> MacState]
  fasTAssocType,       \* [Stations -> BOOLEAN]: the last beacon was distributed
  fastAssocThreshold,  \* [Stations -> Nat]: the threshold of the last beacon
  m_activeProbing,     \* [Stations -> BOOLEAN]
  timers,              \* [Stations -> SUBSET Timers]: the scheduled events
  m_localTI,           \* [Stations -> Nat]: the distributed backoff interval
  m_beaconsLeft,       \* [Stations -> Nat]: beacons left to count
  m_countingBeacons,   \* [Stations -> BOOLEAN]
  staQueue,            \* [Stations -> Seq(...)]: m_dca of each station
  apQueue,             \* m_dca of the AP: frames with their destination
  apState,             \* [Stations -> ...]: WifiRemoteStationState at the AP
  m_sensorList,        \* the stations in the AP's list of sensors
  m_OffloadList,       \* the stations in the AP's list of offload stations
  published,           \* the threshold of the AP's latest beacon
  budget               \* the faults and user actions that are left

backoff == <<m_localTI, m_beaconsLeft, m_countingBeacons>>
heard   == <<fasTAssocType, fastAssocThreshold>>
lists   == <<m_sensorList, m_OffloadList>>
apVars  == <<apQueue, apState, lists, published>>
vars    == <<m_state, heard, m_activeProbing, timers, backoff, staQueue, apVars,
             budget>>

MacState == {"ASSOCIATED", "WAIT_PROBE_RESP", "WAIT_ASSOC_RESP",
             "WAIT_DISASSOC_ACK", "BEACON_MISSED", "REFUSED", "WAIT_AUTH_RESP"}
Timers   == {"probe", "auth", "assoc", "disassoc", "slot", "watchdog"}
Requests == {"ProbeReq", "AuthReq", "AssocReq", "Disassociation"}
Answers  == {"ProbeResp", "AuthResp", "AssocResp", "AssocRefused"}

Init ==
  /\ m_state = [s \in Stations |-> "BEACON_MISSED"]
  /\ fasTAssocType = [s \in Stations |-> FALSE]
  /\ fastAssocThreshold = [s \in Stations |-> 0]
  /\ m_activeProbing = [s \in Stations |-> ActiveProbing]
  /\ timers = [s \in Stations |-> {}]
  /\ m_localTI = [s \in Stations |-> 0]
  /\ m_beaconsLeft = [s \in Stations |-> 0]
  /\ m_countingBeacons = [s \in Stations |-> FALSE]
  /\ staQueue = [s \in Stations |-> <<>>]
  /\ apQueue = <<>>
  /\ apState = [s \in Stations |-> "BRAND_NEW"]
  /\ m_sensorList = {}
  /\ m_OffloadList = {}
  /\ published \in Thresholds
  /\ budget = [lost |-> MaxLost, late |-> MaxLate, missed |-> MaxMissed,
               disassoc |-> MaxDisassoc, switches |-> MaxSwitches]

-----------------------------------------------------------------------------
(* What the handlers of a station share                                    *)

\* WifiMacQueue::Enqueue drops the frame when the queue is full.
Enqueued(queue, frame) == IF Len(queue) < MaxSize THEN Append(queue, frame)
                                                  ELSE queue

SetState(s, value)  == m_state' = [m_state EXCEPT ![s] = value]
SetTimers(s, value) == timers' = [timers EXCEPT ![s] = value]
Send(s, frame) == staQueue' = [staQueue EXCEPT ![s] = Enqueued(@, frame)]

\* (Variant for OnlyAdmitted: the comparison off by one.)
Admitted_Inclusive(s, threshold, distributed) ==
  assocVaule[s] <= threshold \/ distributed

\* The station holds, by the threshold it has heard last, a turn to
\* authenticate; in the distributed protocol the turn came by counting.
Admitted(s, threshold, distributed) == assocVaule[s] < threshold \/ distributed

\* (Variant for NeverWaitsForever: the callers have set WAIT_AUTH_RESP, and a
\* shut gate does not take it back.)
SendAuthenticationRequest_KeepState(s, threshold, distributed, pending) ==
  /\ m_countingBeacons' = [m_countingBeacons EXCEPT ![s] = @ /\ ~distributed]
  /\ IF Admitted(s, threshold, distributed)
     THEN /\ SetState(s, "WAIT_AUTH_RESP")
          /\ Send(s, "AuthReq")
          /\ SetTimers(s, pending \cup {"auth"})
     ELSE SetTimers(s, pending) /\ UNCHANGED <<m_state, staQueue>>

\* SendAuthenticationRequest, after a beacon that said threshold and type
\* distributed, with the events in pending scheduled.
SendAuthenticationRequest(s, threshold, distributed, pending) ==
  /\ m_countingBeacons' = [m_countingBeacons EXCEPT ![s] = @ /\ ~distributed]
  /\ IF Admitted(s, threshold, distributed)
     THEN /\ SetState(s, "WAIT_AUTH_RESP")
          /\ Send(s, "AuthReq")
          /\ SetTimers(s, pending \cup {"auth"})
     ELSE /\ SetState(s, "BEACON_MISSED")
          /\ SetTimers(s, pending)
          /\ UNCHANGED staQueue

SendAssociationRequest(s, pending) ==
  /\ SetState(s, "WAIT_ASSOC_RESP")
  /\ Send(s, "AssocReq")
  /\ SetTimers(s, pending \cup {"assoc"})

SendProbeRequest(s, pending) ==
  /\ SetState(s, "WAIT_PROBE_RESP")
  /\ Send(s, "ProbeReq")
  /\ SetTimers(s, pending \cup {"probe"})

SendDisAssociationRequest(s, pending) ==
  /\ SetState(s, "WAIT_DISASSOC_ACK")
  /\ Send(s, "Disassociation")
  /\ SetTimers(s, pending \cup {"disassoc"})

-----------------------------------------------------------------------------
(* Beacons                                                                 *)

\* SendOneBeacon with the threshold the authentication controller has chosen.
SendOneBeacon == /\ published' \in Thresholds
                 /\ UNCHANGED <<m_state, heard, m_activeProbing, timers, backoff,
                                staQueue, apQueue, apState, lists, budget>>

\* What every S1G beacon does: the watchdog is scheduled (or its end is moved)
\* and the authentication control element is stored.
HearBeacon(s) ==
  /\ fasTAssocType' = [fasTAssocType EXCEPT ![s] = Distributed]
  /\ fastAssocThreshold' = [fastAssocThreshold EXCEPT ![s] =
                              IF Distributed THEN @ ELSE published]
  /\ UNCHANGED <<m_activeProbing, apVars, budget>>

LocalTI(s) == IF m_localTI[s] = 0 THEN m_minTI ELSE m_localTI[s]

BeaconCentralized(s) ==
  /\ ~Distributed
  /\ m_state[s] = "BEACON_MISSED"
  /\ HearBeacon(s)
  /\ SendAuthenticationRequest(s, published, FALSE, timers[s] \cup {"watchdog"})
  /\ UNCHANGED <<m_localTI, m_beaconsLeft>>

\* The first beacon of the distributed protocol draws the beacons to count.
BeaconDraw(s) ==
  /\ Distributed
  /\ m_state[s] = "BEACON_MISSED"
  /\ ~m_countingBeacons[s]
  /\ HearBeacon(s)
  /\ SetTimers(s, timers[s] \cup {"watchdog"})
  /\ m_localTI' = [m_localTI EXCEPT ![s] = LocalTI(s)]
  /\ \E left \in 0 .. LocalTI(s) - 1 :
       m_beaconsLeft' = [m_beaconsLeft EXCEPT ![s] = left]
  /\ m_countingBeacons' = [m_countingBeacons EXCEPT ![s] = TRUE]
  /\ UNCHANGED <<m_state, staQueue>>

\* Count one beacon; the last one schedules the request in a slot of this
\* beacon interval, so that it fires before the next beacon.
BeaconCount(s) ==
  LET left == IF m_beaconsLeft[s] > 0 THEN m_beaconsLeft[s] - 1 ELSE 0
  IN  /\ Distributed
      /\ m_state[s] = "BEACON_MISSED"
      /\ m_countingBeacons[s]
      /\ "slot" \notin timers[s]
      /\ HearBeacon(s)
      /\ m_beaconsLeft' = [m_beaconsLeft EXCEPT ![s] = left]
      /\ SetTimers(s, timers[s] \cup {"watchdog"}
                                \cup (IF left = 0 THEN {"slot"} ELSE {}))
      /\ m_localTI' = [m_localTI EXCEPT ![s] = LocalTI(s)]
      /\ UNCHANGED <<m_state, staQueue, m_countingBeacons>>

BeaconIgnored(s) ==
  /\ m_state[s] # "BEACON_MISSED"
  /\ "slot" \notin timers[s]
  /\ HearBeacon(s)
  /\ SetTimers(s, timers[s] \cup {"watchdog"})
  /\ m_localTI' = [m_localTI EXCEPT ![s] = IF Distributed THEN LocalTI(s) ELSE @]
  /\ UNCHANGED <<m_state, staQueue, m_beaconsLeft, m_countingBeacons>>

ReceiveBeacon(s) == \/ BeaconCentralized(s) \/ BeaconDraw(s)
                    \/ BeaconCount(s)       \/ BeaconIgnored(s)

-----------------------------------------------------------------------------
(* Timers of a station                                                     *)

InFlight(s, request, answers) ==
  \/ \E i \in DOMAIN staQueue[s] : staQueue[s][i] = request
  \/ \E i \in DOMAIN apQueue : apQueue[i].to = s /\ apQueue[i].type \in answers

\* The timer t of s fires; while its request or the answer is on its way, that
\* is a late answer.
Fires(s, t, request, answers) ==
  /\ t \in timers[s]
  /\ IF InFlight(s, request, answers)
     THEN budget.late > 0 /\ budget' = [budget EXCEPT !.late = @ - 1]
     ELSE UNCHANGED budget

\* (Variant for TypeOK: doubling without the cap.)
DoubledTI_Uncapped(s) == 2 * m_localTI[s]
DoubledTI(s) == IF 2 * m_localTI[s] < m_maxTI THEN 2 * m_localTI[s] ELSE m_maxTI

\* Centralized: ask again, if the threshold heard last still admits the
\* station.  Distributed: back to counting with the doubled interval.
AuthRequestTimeout(s) ==
  /\ Fires(s, "auth", "AuthReq", {"AuthResp"})
  /\ IF fasTAssocType[s]
     THEN /\ SetState(s, "BEACON_MISSED")
          /\ SetTimers(s, timers[s] \ {"auth"})
          /\ m_localTI' = [m_localTI EXCEPT ![s] = DoubledTI(s)]
          /\ UNCHANGED <<staQueue, m_countingBeacons>>
     ELSE /\ SendAuthenticationRequest(s, fastAssocThreshold[s], FALSE,
                                       timers[s] \ {"auth"})
          /\ UNCHANGED m_localTI
  /\ UNCHANGED <<heard, m_activeProbing, m_beaconsLeft, apVars>>

\* (Variant for EveryStationJoins: the timer fires but nothing is sent again.)
AssocRequestTimeout_Once(s) ==
  /\ Fires(s, "assoc", "AssocReq", {"AssocResp", "AssocRefused"})
  /\ SetTimers(s, timers[s] \ {"assoc"})
  /\ UNCHANGED <<m_state, heard, m_activeProbing, backoff, staQueue, apVars>>

AssocRequestTimeout(s) ==
  /\ Fires(s, "assoc", "AssocReq", {"AssocResp", "AssocRefused"})
  /\ SendAssociationRequest(s, timers[s] \ {"assoc"})
  /\ UNCHANGED <<heard, m_activeProbing, backoff, apVars>>

ProbeRequestTimeout(s) ==
  /\ Fires(s, "probe", "ProbeReq", {"ProbeResp"})
  /\ SendProbeRequest(s, timers[s] \ {"probe"})
  /\ UNCHANGED <<heard, m_activeProbing, backoff, apVars>>

\* (Variant for LeaveCompletes: the leave is not repeated.)
DisassocTimeout_Once(s) ==
  /\ Fires(s, "disassoc", "Disassociation", {})
  /\ SetTimers(s, timers[s] \ {"disassoc"})
  /\ UNCHANGED <<m_state, heard, m_activeProbing, backoff, staQueue, apVars>>

DisassocTimeout(s) ==
  /\ Fires(s, "disassoc", "Disassociation", {})
  /\ SendDisAssociationRequest(s, timers[s] \ {"disassoc"})
  /\ UNCHANGED <<heard, m_activeProbing, backoff, apVars>>

\* The slot of the distributed protocol has come.
CountSlot(s) ==
  /\ "slot" \in timers[s]
  /\ SendAuthenticationRequest(s, fastAssocThreshold[s], fasTAssocType[s],
                               timers[s] \ {"slot"})
  /\ UNCHANGED <<heard, m_activeProbing, m_localTI, m_beaconsLeft, apVars, budget>>

\* No beacon for MaxMissedBeacons intervals.  The other events stay scheduled.
MissedBeacons(s) ==
  /\ "watchdog" \in timers[s]
  /\ budget.missed > 0
  /\ budget' = [budget EXCEPT !.missed = @ - 1]
  /\ IF m_activeProbing[s]
     THEN SendProbeRequest(s, timers[s] \ {"watchdog"})
     ELSE /\ SetState(s, "BEACON_MISSED")
          /\ SetTimers(s, timers[s] \ {"watchdog"})
          /\ UNCHANGED staQueue
  /\ UNCHANGED <<heard, m_activeProbing, backoff, apVars>>

Timeout(s) == \/ AuthRequestTimeout(s)  \/ AssocRequestTimeout(s)
              \/ ProbeRequestTimeout(s) \/ DisassocTimeout(s) \/ CountSlot(s)

-----------------------------------------------------------------------------
(* The user of a station                                                   *)

\* A data frame is handed to a station that is not associated (Enqueue), or
\* active probing has been switched on.
TryToEnsureAssociated(s) ==
  /\ m_activeProbing[s]
  /\ m_state[s] = "BEACON_MISSED"
  /\ SendProbeRequest(s, timers[s])
  /\ UNCHANGED <<heard, m_activeProbing, backoff, apVars, budget>>

\* Switching active probing off cancels the pending probe request timeout.
SetActiveProbing(s) ==
  /\ budget.switches > 0
  /\ budget' = [budget EXCEPT !.switches = @ - 1]
  /\ m_activeProbing' = [m_activeProbing EXCEPT ![s] = ~@]
  /\ SetTimers(s, IF m_activeProbing[s] THEN timers[s] \ {"probe"} ELSE timers[s])
  /\ UNCHANGED <<m_state, heard, backoff, staQueue, apVars>>

Disassociate(s) ==
  /\ m_state[s] = "ASSOCIATED"
  /\ budget.disassoc > 0
  /\ budget' = [budget EXCEPT !.disassoc = @ - 1]
  /\ SendDisAssociationRequest(s, timers[s])
  /\ UNCHANGED <<heard, m_activeProbing, backoff, apVars>>

-----------------------------------------------------------------------------
(* Transmission: what the lower MAC, with its retries and its filter for   *)
(* duplicates, makes of the frame at the head of a queue: received and     *)
(* acknowledged, received but never acknowledged, not received, or removed *)
(* from the queue because its lifetime is over.                            *)

Outcomes == {"acked", "unacked", "lost", "expired"}
Received(outcome) == outcome \in {"acked", "unacked"}

Spend(outcome) ==
  /\ outcome # "acked" => budget.lost > 0
  /\ budget' = IF outcome = "acked" THEN budget
                                    ELSE [budget EXCEPT !.lost = @ - 1]

Answer(s, type) == apQueue' = Enqueued(apQueue, [to |-> s, type |-> type])

\* The AP's remote station manager records what it believes of s.
Record(s, state) == apState' = [apState EXCEPT ![s] = state]

\* ApWifiMac::Receive of a request of s.
ApReceive(s, request) ==
  \/ /\ request = "ProbeReq"
     /\ Answer(s, "ProbeResp")
     /\ UNCHANGED <<apState, lists>>
  \/ /\ request = "AuthReq"
     /\ Answer(s, "AuthResp")
     /\ UNCHANGED <<apState, lists>>
  \/ /\ request = "AssocReq"
     /\ s \in Compatible
     /\ Record(s, "WAIT_ASSOC_TX_OK")
     /\ m_sensorList' = m_sensorList \cup ({s} \cap Sensors)
     /\ m_OffloadList' = m_OffloadList \cup ({s} \ Sensors)
     /\ Answer(s, "AssocResp")
  \/ /\ request = "AssocReq"
     /\ s \notin Compatible
     /\ Answer(s, "AssocRefused")
     /\ UNCHANGED <<apState, lists>>
  \/ /\ request = "Disassociation"
     /\ Record(s, "DISASSOC")
     /\ m_sensorList' = m_sensorList \ {s}
     /\ UNCHANGED <<apQueue, m_OffloadList>>

\* The station's TxOk matters for a disassociation only.
StaTxOk(s, request) ==
  IF request = "Disassociation" /\ m_state[s] = "WAIT_DISASSOC_ACK"
  THEN SetState(s, "REFUSED") /\ SetTimers(s, timers[s] \ {"disassoc"})
  ELSE UNCHANGED <<m_state, timers>>

StaTransmit(s, outcome) ==
  /\ staQueue[s] # <<>>
  /\ Spend(outcome)
  /\ staQueue' = [staQueue EXCEPT ![s] = Tail(@)]
  /\ IF Received(outcome) THEN ApReceive(s, Head(staQueue[s]))
                          ELSE UNCHANGED <<apQueue, apState, lists>>
  /\ IF outcome = "acked" THEN StaTxOk(s, Head(staQueue[s]))
                          ELSE UNCHANGED <<m_state, timers>>
  /\ UNCHANGED <<heard, m_activeProbing, backoff, published>>

\* (Variant for NoStaleTimer: a late answer is taken.)
Expected_Always(s, answer) == TRUE

\* StaWifiMac::Receive of an answer; a late answer is ignored.
Expected(s, answer) == \/ answer = "ProbeResp" /\ m_state[s] = "WAIT_PROBE_RESP"
                       \/ answer = "AuthResp" /\ m_state[s] = "WAIT_AUTH_RESP"
                       \/ /\ answer \in {"AssocResp", "AssocRefused"}
                          /\ m_state[s] = "WAIT_ASSOC_RESP"

StaReceive(s, answer) ==
  \/ /\ ~Expected(s, answer)
     /\ UNCHANGED <<m_state, timers, staQueue, backoff>>
  \/ /\ Expected(s, answer)
     /\ answer = "ProbeResp"
     /\ SendAuthenticationRequest(s, fastAssocThreshold[s], fasTAssocType[s],
                                  (timers[s] \ {"probe"}) \cup {"watchdog"})
     /\ UNCHANGED <<m_localTI, m_beaconsLeft>>
  \/ /\ Expected(s, answer)
     /\ answer = "AuthResp"
     /\ m_localTI' = [m_localTI EXCEPT ![s] = 0]
     /\ SendAssociationRequest(s, timers[s] \ {"auth"})
     /\ UNCHANGED <<m_beaconsLeft, m_countingBeacons>>
  \/ /\ Expected(s, answer)
     /\ answer \in {"AssocResp", "AssocRefused"}
     /\ SetState(s, IF answer = "AssocResp" THEN "ASSOCIATED" ELSE "REFUSED")
     /\ SetTimers(s, timers[s] \ {"assoc"})
     /\ UNCHANGED <<staQueue, backoff>>

\* (Variant for Agreement: the AP forgets to ask whether it still waits.)
ApTxDone_AnyState(s, answer, outcome) ==
  IF answer \in {"AssocResp", "AssocRefused"} /\ outcome # "expired"
  THEN Record(s, IF outcome = "acked" THEN "GOT_ASSOC_TX_OK" ELSE "DISASSOC")
  ELSE UNCHANGED apState

\* ApWifiMac::TxOk and TxFailed of a response to an association request, if
\* the AP still waits for one; neither is called for an expired frame.
ApTxDone(s, answer, outcome) ==
  IF /\ answer \in {"AssocResp", "AssocRefused"}
     /\ apState[s] = "WAIT_ASSOC_TX_OK"
     /\ outcome # "expired"
  THEN Record(s, IF outcome = "acked" THEN "GOT_ASSOC_TX_OK" ELSE "DISASSOC")
  ELSE UNCHANGED apState

ApTransmit(outcome) ==
  /\ apQueue # <<>>
  /\ Spend(outcome)
  /\ apQueue' = Tail(apQueue)
  /\ LET frame == Head(apQueue)
     IN  /\ ApTxDone(frame.to, frame.type, outcome)
         /\ IF Received(outcome)
            THEN StaReceive(frame.to, frame.type)
            ELSE UNCHANGED <<m_state, timers, staQueue, backoff>>
  /\ UNCHANGED <<heard, m_activeProbing, lists, published>>

-----------------------------------------------------------------------------
Next == \/ SendOneBeacon
        \/ \E outcome \in Outcomes : ApTransmit(outcome)
        \/ \E s \in Stations :
             \/ ReceiveBeacon(s)
             \/ Timeout(s)
             \/ MissedBeacons(s)
             \/ TryToEnsureAssociated(s)
             \/ SetActiveProbing(s)
             \/ Disassociate(s)
             \/ \E outcome \in Outcomes : StaTransmit(s, outcome)

Spec == Init /\ [][Next]_vars

\* Beacons keep being heard, scheduled events are run and queued frames are
\* sent; the user and the controller need not act.
Fairness ==
  /\ WF_vars(\E outcome \in Outcomes : ApTransmit(outcome))
  /\ \A s \in Stations :
       /\ WF_vars(ReceiveBeacon(s))
       /\ WF_vars(AuthRequestTimeout(s))
       /\ WF_vars(AssocRequestTimeout(s))
       /\ WF_vars(ProbeRequestTimeout(s))
       /\ WF_vars(DisassocTimeout(s))
       /\ WF_vars(CountSlot(s))
       /\ WF_vars(\E outcome \in Outcomes : StaTransmit(s, outcome))

FairSpec == Spec /\ Fairness

-----------------------------------------------------------------------------
(* Properties                                                              *)

Frames == [to : Stations, type : Answers]

\* The variables keep their ranges, the queues their size, and the backoff of
\* the distributed protocol its bounds: it doubles up to m_maxTI, and the count
\* of beacons starts below it.
TypeOK ==
  /\ m_state \in [Stations -> MacState]
  /\ fasTAssocType \in [Stations -> BOOLEAN]
  /\ fastAssocThreshold \in [Stations -> {0} \cup Thresholds]
  /\ m_activeProbing \in [Stations -> BOOLEAN]
  /\ timers \in [Stations -> SUBSET Timers]
  /\ m_localTI \in [Stations -> {0} \cup m_minTI .. m_maxTI]
  /\ m_beaconsLeft \in [Stations -> 0 .. m_maxTI - 1]
  /\ m_countingBeacons \in [Stations -> BOOLEAN]
  /\ staQueue \in [Stations -> Seq(Requests)]
  /\ \A s \in Stations : Len(staQueue[s]) <= MaxSize
  /\ apQueue \in Seq(Frames)
  /\ Len(apQueue) <= MaxSize
  /\ apState \in [Stations -> {"BRAND_NEW", "WAIT_ASSOC_TX_OK", "GOT_ASSOC_TX_OK",
                               "DISASSOC"}]
  /\ m_sensorList \subseteq Sensors
  /\ m_OffloadList \subseteq Stations \ Sensors
  /\ published \in Thresholds
  /\ budget \in [lost : Nat, late : Nat, missed : Nat, disassoc : Nat, switches : Nat]

\* A station never waits for an answer without a timer that ends the wait,
\* however timers, late answers and missed beacons interleave.  Probing is the
\* exception once the user has switched it off.
NeverWaitsForever ==
  \A s \in Stations :
    /\ m_state[s] = "WAIT_AUTH_RESP" => "auth" \in timers[s]
    /\ m_state[s] = "WAIT_ASSOC_RESP" => "assoc" \in timers[s]
    /\ m_state[s] = "WAIT_DISASSOC_ACK" => "disassoc" \in timers[s]
    /\ m_state[s] = "WAIT_PROBE_RESP" /\ budget.switches = MaxSwitches
         => "probe" \in timers[s]

\* As long as no watchdog has fired, a timer that is pending belongs to the state
\* the station is in: none is left over from an earlier wait to disturb a later
\* one.  (With active probing the slot of the distributed protocol can interrupt
\* a wait and leaves its timer behind.)
Probed == ActiveProbing \/ budget.switches < MaxSwitches
Undisturbed == budget.missed = MaxMissed /\ ~(Distributed /\ Probed)
NoStaleTimer ==
  Undisturbed => \A s \in Stations :
    /\ "auth" \in timers[s] => m_state[s] = "WAIT_AUTH_RESP"
    /\ "assoc" \in timers[s] => m_state[s] = "WAIT_ASSOC_RESP"
    /\ "probe" \in timers[s] => m_state[s] = "WAIT_PROBE_RESP"
    /\ "disassoc" \in timers[s] => m_state[s] = "WAIT_DISASSOC_ACK"

\* The two sides agree: while nothing has been lost and no watchdog has fired,
\* and neither a frame of a station nor its leave is under way, the AP believes
\* that the station is associated exactly when the station does, and then has
\* it on a list.  (A request repeated too early, whose answer a full queue has
\* dropped, can leave the AP waiting.)
Settled(s) == /\ staQueue[s] = <<>>
              /\ \A i \in DOMAIN apQueue : apQueue[i].to # s
              /\ m_state[s] # "WAIT_DISASSOC_ACK"
Agreement ==
  (Undisturbed /\ budget.lost = MaxLost) =>
    \A s \in Stations : Settled(s) =>
      /\ apState[s] = "GOT_ASSOC_TX_OK" => m_state[s] = "ASSOCIATED"
      /\ m_state[s] = "ASSOCIATED" =>
           /\ s \in m_sensorList \cup m_OffloadList
           /\ \/ apState[s] = "GOT_ASSOC_TX_OK"
              \/ apState[s] = "WAIT_ASSOC_TX_OK" /\ budget.late < MaxLate

\* A station whose value no published threshold ever exceeds is never taken in
\* by the AP, whatever timers, probes and repeated requests do.
OnlyAdmitted ==
  \A s \in Stations :
    ~Distributed => \/ <>(published > assocVaule[s])
                    \/ [](apState[s] = "BRAND_NEW")

\* When the gate stays open for a station the AP can accept (or the protocol is
\* distributed), the station finally associates and stays so, although frames
\* have been lost and timers have fired too early: requests are repeated until one
\* is answered.  This is about stations that hear their beacons and do not leave
\* and whose probing nobody switches (off, it would strand one that probes).
Stays == budget.disassoc = MaxDisassoc /\ budget.switches = MaxSwitches /\ Undisturbed
EveryStationJoins ==
  \A s \in Compatible :
    []Stays /\ (Distributed \/ <>[](published > assocVaule[s]))
      => <>[](m_state[s] = "ASSOCIATED")

\* A station that leaves goes on asking until the AP has acknowledged it, unless
\* its watchdog fires (a leave it interrupts goes on beside the new attempt to
\* associate, and the two can undo each other for ever).
LeaveCompletes ==
  \A s \in Stations :
    m_state[s] = "WAIT_DISASSOC_ACK" ~>
      m_state[s] = "REFUSED" \/ budget.missed < MaxMissed

=============================================================================
