------------------------------ MODULE AuthSystem ------------------------------
(***************************************************************************)
(* The stations and the access point of Association under the controller   *)
(* an access point uses by default, Algorithm_3 of HalvingControl: the loop*)
(* of src/wifi/model/ap-wifi-mac.cc and sta-wifi-mac.cc that decides       *)
(* whether a crowd of stations gets in.  At each beacon the controller     *)
(* reads the length of the management queue, which the answers to the      *)
(* stations fill, and publishes the threshold the stations compare with.   *)
(*                                                                         *)
(* A beacon is sent once and heard, or missed, before the next one; how    *)
(* many frames are sent and timers fire in between is arbitrary.  The      *)
(* watchdog and the user of a station are left to Association.             *)
(***************************************************************************)
EXTENDS Association

CONSTANTS FullThreshold, Width, WaitStart

VARIABLES m_delta, m_cac_state, m_cac_improve, m_cac_wait_counter, m_queueLast,
          unheard,   \* the stations the last beacon has not reached yet
          fetched    \* the AP's m_dca holds the first frame as m_currentPacket

controller == <<m_delta, m_cac_state, m_cac_improve, m_cac_wait_counter, m_queueLast>>
systemVars == <<vars, controller, unheard, fetched>>

Algorithm3 == INSTANCE HalvingControl WITH AuthenThreshold <- published,
                                           QueueSizes <- 0 .. MaxSize

SystemInit == Init /\ Algorithm3!Init /\ unheard = {} /\ fetched = FALSE

\* The frame DcaTxop has fetched no longer counts.
MgtQueueSize == Len(apQueue) - (IF fetched THEN 1 ELSE 0)

\* SendOneBeacon, with Algorithm_3.
Beacon == /\ unheard = {}
          /\ Algorithm3!Step(MgtQueueSize)
          /\ m_queueLast' = MgtQueueSize
          /\ SendOneBeacon
          /\ unheard' = Stations
          /\ UNCHANGED fetched

Hear(s) == /\ s \in unheard
           /\ ReceiveBeacon(s)
           /\ unheard' = unheard \ {s}
           /\ UNCHANGED <<controller, fetched>>

Miss(s) == /\ s \in unheard
           /\ budget.lost > 0
           /\ budget' = [budget EXCEPT !.lost = @ - 1]
           /\ unheard' = unheard \ {s}
           /\ UNCHANGED <<m_state, heard, m_activeProbing, timers, backoff,
                          staQueue, apVars, controller, fetched>>

\* DcaTxop::NotifyAccessGranted takes a frame off the queue, and holds it until
\* it is acknowledged or given up; one whose lifetime ends is still in the queue.
Fetch == /\ apQueue # <<>> /\ ~fetched
         /\ fetched' = TRUE
         /\ UNCHANGED <<vars, controller, unheard>>

Deliver == /\ \E outcome \in Outcomes : /\ fetched = (outcome # "expired")
                                       /\ ApTransmit(outcome)
           /\ fetched' = FALSE
           /\ UNCHANGED <<controller, unheard>>

Request(s) == /\ \E outcome \in Outcomes : StaTransmit(s, outcome)
              /\ UNCHANGED <<controller, unheard, fetched>>

Retry(s) == Timeout(s) /\ UNCHANGED <<controller, unheard, fetched>>

SystemNext == \/ Beacon \/ Fetch \/ Deliver
              \/ \E s \in Stations : Hear(s) \/ Miss(s) \/ Request(s) \/ Retry(s)

SystemSpec == SystemInit /\ [][SystemNext]_systemVars

\* Beacons are sent for ever and arrive; scheduled events are run and queued
\* frames are sent.
SystemFairness ==
  /\ WF_systemVars(Beacon) /\ WF_systemVars(Fetch) /\ WF_systemVars(Deliver)
  /\ \A s \in Stations : /\ WF_systemVars(Hear(s))
                         /\ WF_systemVars(Request(s))
                         /\ WF_systemVars(Retry(s))

FairSystem == SystemSpec /\ SystemFairness

-----------------------------------------------------------------------------
\* Nobody opens the gate but the controller, which sees nothing but its queue;
\* still every station the AP can accept gets in, in whatever order they ask,
\* whichever MaxLost frames are lost on the way and wherever the beacons fall.
\* An attempt of the controller fails because of an answer in the queue; this is
\* about crowds that have fewer answers, the repeated ones included, than the
\* threshold has halvings, since after the last one the gate is shut for ever.
AllGetIn == <>[](\A s \in Compatible : m_state[s] = "ASSOCIATED")
=============================================================================
