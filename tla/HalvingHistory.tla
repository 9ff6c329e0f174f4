---------------------------- MODULE HalvingHistory ----------------------------
(***************************************************************************)
(* HalvingControl with a history variable: the code forgets the threshold  *)
(* of an attempt that congested the queue as soon as it shuts the gate, so *)
(* what it promises of the following attempts cannot be said without it.   *)
(***************************************************************************)
EXTENDS HalvingControl

\* The threshold of the last attempt that left frames in the queue since this
\* learning began; a learning begins because the full threshold did.
VARIABLE failed

hvars == <<vars, failed>>

HistoryInit == Init /\ failed = FullThreshold

BeginsLearning == m_cac_state = "WAIT" /\ m_cac_state' = "LEARN"
AttemptFails   == m_cac_state = "LEARN" /\ AuthenThreshold # 0 /\ m_queueLast' # 0

Remember == failed' = IF BeginsLearning THEN FullThreshold
                      ELSE IF AttemptFails THEN AuthenThreshold
                      ELSE failed

HistoryNext == Next /\ Remember
HistorySpec == HistoryInit /\ [][HistoryNext]_hvars

\* While the queue stays empty, beacons that find it empty keep coming.
FairHistorySpec == HistorySpec /\ WF_hvars(QuietBeacon /\ Remember)

-----------------------------------------------------------------------------
(* Properties                                                              *)

\* However many busy beacons, drainings and attempts lie in between, LEARN of
\* Algorithm_3 reopens with exactly half of the threshold that last congested
\* the queue, never wider, and it gives up (shut for good, with a step of 0)
\* only when a single station did.
NeverWider ==
  m_cac_state = "LEARN" => /\ AuthenThreshold \in {0, failed \div 2}
                           /\ Exhausted => failed = 1
=============================================================================
