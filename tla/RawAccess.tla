------------------------------ MODULE RawAccess ------------------------------
(***************************************************************************)
(* The restricted access window of src/wifi/model/sta-wifi-mac.cc.  The    *)
(* beacons of the access point carry the RPS element, a list of RAW        *)
(* assignments.  A station that hears one closes its transmit queues, opens*)
(* them for its own slot, and opens them again when all windows are over.  *)
(* Every step is a timer of the station; the queues (dca-txop.cc and       *)
(* edca-txop-n.cc) ask the channel access manager for the medium.          *)
(*                                                                         *)
(* One transmit queue per station is modelled, of the kind Queue says.     *)
(***************************************************************************)
EXTENDS Integers, Sequences

CONSTANTS
  Stations,
  Queue,      \* "Edca" or "Dca": the class of the queue
  AID,        \* the association identifier of a station
  Rpsset,     \* the RPS elements, used in rotation: a sequence of sequences of
              \* [paged, first, last, slots, duration]
  Interval,   \* the beacon interval
  Jitter,     \* how late channel access may send a beacon
  MaxQueue    \* bound of the model: frames in a queue

VARIABLES
  RpsIndex,   \* the RPS element the next beacon carries
  next,       \* time until the next beacon is sent
  late,       \* by how much the last beacon was late
  since,      \* time since the last beacon
  associated, \* m_aid is not 8192
  follows,    \* the station obeys the windows of the last beacon
  stray,      \* a slot of an earlier beacon was still to start at the last one
  AccessIfRaw,
  m_accessRequested,
  current,    \* m_currentPacket: "none", "held" for a retry, or "sent"
  queue,      \* the frames in m_queue
  outside,    \* m_outsideRawEvent: time left, Idle if it is not running
  inside,     \* m_insideBackoffEvent
  slotStarts, \* the RawSlotStartBackoff events, which nothing can cancel
  m_currentslotDuration

air    == <<RpsIndex, next, late, since>>
frames == <<current, queue>>
timers == <<outside, inside, slotStarts, m_currentslotDuration>>
access == <<AccessIfRaw, m_accessRequested>>
vars   == <<air, associated, follows, stray, access, frames, timers>>

-----------------------------------------------------------------------------
(* What a station reads from an RPS element.                               *)

Idle == -1

\* When the windows end: after the k-th assignment, end[k] is m_lastRawDurationus,
\* and the m_currentRAW_start of the next assignment.
Ends(rps) ==
  LET end[k \in 0 .. Len(rps)] ==
        IF k = 0 THEN 0 ELSE end[k - 1] + rps[k].slots * rps[k].duration
  IN  end

LengthOf(rps) == Ends(rps)[Len(rps)]

\* The elements have their ranges (Receive divides by the number of slots).  The
\* configuration of the AP may well give windows that outlast the interval.
Assignments == [paged : BOOLEAN, first : Nat, last : Nat,
                slots : Nat \ {0}, duration : Nat \ {0}]

ASSUME RawAssumption ==
  /\ AID \in [Stations -> Nat]
  /\ Interval \in Nat \ {0} /\ Jitter \in 0 .. Interval /\ MaxQueue \in Nat
  /\ Rpsset \in Seq(Seq(Assignments)) /\ Rpsset # <<>>
  /\ \A i \in DOMAIN Rpsset : Rpsset[i] # <<>>

\* The assignment a station keeps is the last one that covers its AID.
Mine(s, rps)    == {k \in DOMAIN rps : AID[s] \in rps[k].first .. rps[k].last}
InGroup(s, rps) == Mine(s, rps) # {}
LastOf(s, rps)  == CHOOSE k \in Mine(s, rps) : \A j \in Mine(s, rps) : j <= k

\* m_pagedStaRaw is left by the last assignment, whoever it covers.
Paged(rps) == rps[Len(rps)].paged

\* (Variant for SlotsObserved: m_currentRAW_start has grown too far.)
SlotStart_Later(s, rps) ==
  LET k == LastOf(s, rps)
  IN  Ends(rps)[k] + (AID[s] % rps[k].slots) * rps[k].duration
SlotStart(s, rps) ==
  LET k == LastOf(s, rps)
  IN  Ends(rps)[k - 1] + (AID[s] % rps[k].slots) * rps[k].duration

SlotDuration(s, rps) == rps[LastOf(s, rps)].duration

-----------------------------------------------------------------------------
(* The transmit queue.                                                     *)

\* What StartAccessIfNeededRaw looks at: in a DcaTxop not at m_currentPacket.
\* (Variant for NoForgottenFrame: an EdcaTxopN does not either.)
NeedsAccessRaw_Queue(s) == queue[s] > 0
NeedsAccessRaw(s) == queue[s] > 0 \/ (Queue = "Edca" /\ current[s] # "none")

\* RawStart and OutsideRawStart forget the request and ask again.
StartAccessRaw(s, allowed) ==
  /\ AccessIfRaw' = [AccessIfRaw EXCEPT ![s] = allowed]
  /\ m_accessRequested' = [m_accessRequested EXCEPT ![s] = allowed /\ NeedsAccessRaw(s)]

\* Queue, with StartAccessIfNeeded.
Enqueue(s) ==
  /\ queue[s] < MaxQueue
  /\ queue' = [queue EXCEPT ![s] = @ + 1]
  /\ m_accessRequested' = [m_accessRequested EXCEPT
       ![s] = @ \/ (current[s] = "none" /\ AccessIfRaw[s])]
  /\ UNCHANGED <<air, associated, follows, stray, AccessIfRaw, current, timers>>

\* (Variant for TypeOK: a queue is taken to be non-empty if it has asked; it may
\* have asked for the frame under way when its slot opened.)
NotifyAccessGranted_Unchecked(s) ==
  /\ m_accessRequested[s]
  /\ \A t \in Stations : current[t] # "sent"
  /\ m_accessRequested' = [m_accessRequested EXCEPT ![s] = FALSE]
  /\ IF ~AccessIfRaw[s] THEN UNCHANGED frames
     ELSE /\ current' = [current EXCEPT ![s] = "sent"]
          /\ queue' = [queue EXCEPT ![s] = IF current[s] = "held" THEN @ ELSE @ - 1]
  /\ UNCHANGED <<air, associated, follows, stray, AccessIfRaw, timers>>

\* The backoff is over and the medium idle.  A queue that may not transmit
\* loses its request.
NotifyAccessGranted(s) ==
  /\ m_accessRequested[s]
  /\ \A t \in Stations : current[t] # "sent"
  /\ m_accessRequested' = [m_accessRequested EXCEPT ![s] = FALSE]
  /\ IF ~AccessIfRaw[s] THEN UNCHANGED frames
     ELSE IF current[s] = "held"
       THEN current' = [current EXCEPT ![s] = "sent"] /\ UNCHANGED queue
     ELSE IF queue[s] > 0
       THEN /\ current' = [current EXCEPT ![s] = "sent"]
            /\ queue' = [queue EXCEPT ![s] = @ - 1]
     ELSE UNCHANGED frames
  /\ UNCHANGED <<air, associated, follows, stray, AccessIfRaw, timers>>

\* GotAck, or MissedAck with or without a retry, with RestartAccessIfNeeded.
EndOfTransmission(s) ==
  /\ current[s] = "sent"
  /\ \E left \in {"none", "held"} :
       /\ current' = [current EXCEPT ![s] = left]
       /\ m_accessRequested' = [m_accessRequested EXCEPT
            ![s] = @ \/ (AccessIfRaw[s] /\ (left = "held" \/ queue[s] > 0))]
  /\ UNCHANGED <<air, associated, follows, stray, AccessIfRaw, queue, timers>>

-----------------------------------------------------------------------------
(* The station.                                                            *)

\* Receive and S1gBeaconReceived, of a station that hears the beacon; buffered
\* is m_dataBuffered.  The queues stay closed until the timers open them; a
\* member of a paged RAW without data falls through every case.
Heard(s, rps, buffered) ==
  IF ~associated[s]
  THEN [allowed |-> Queue = "Dca" \/ AccessIfRaw[s], asks |-> m_accessRequested[s],
        outside |-> Idle, starts |-> {}, follows |-> FALSE]
  ELSE IF InGroup(s, rps) /\ Paged(rps) /\ ~buffered
  THEN [allowed |-> AccessIfRaw[s], asks |-> m_accessRequested[s],
        outside |-> Idle, starts |-> {}, follows |-> FALSE]
  ELSE IF InGroup(s, rps) /\ ~Paged(rps)
  THEN [allowed |-> FALSE, asks |-> m_accessRequested[s],
        outside |-> LengthOf(rps), starts |-> {SlotStart(s, rps)}, follows |-> TRUE]
  ELSE [allowed |-> FALSE, asks |-> FALSE,
        outside |-> LengthOf(rps), starts |-> {}, follows |-> TRUE]

Missed(s) ==
  [allowed |-> AccessIfRaw[s], asks |-> m_accessRequested[s],
   outside |-> outside[s], starts |-> {}, follows |-> FALSE]

Due(s) == outside[s] = 0 \/ inside[s] = 0 \/ 0 \in slotStarts[s]
Settled == next > 0 /\ \A s \in Stations : ~Due(s)

\* A beacon of the access point with the next RPS element; the set of stations
\* that hear it is arbitrary.  Timers due at the same time are older events.
SendOneBeacon ==
  /\ next = 0 /\ \A s \in Stations : ~Due(s)
  /\ late' \in 0 .. Jitter
  /\ next' = Interval - late + late'
  /\ since' = 0
  /\ RpsIndex' = 1 + (RpsIndex % Len(Rpsset))
  /\ \E hearing \in SUBSET Stations, buffering \in SUBSET Stations :
       LET rps   == Rpsset[RpsIndex]
           After == [s \in Stations |->
                       IF s \in hearing THEN Heard(s, rps, s \in buffering)
                                        ELSE Missed(s)]
       IN  /\ AccessIfRaw' = [s \in Stations |-> After[s].allowed]
           /\ m_accessRequested' = [s \in Stations |-> After[s].asks]
           /\ outside' = [s \in Stations |-> After[s].outside]
           /\ slotStarts' = [s \in Stations |-> slotStarts[s] \cup After[s].starts]
           /\ follows' = [s \in Stations |-> After[s].follows]
           /\ stray' = [s \in Stations |-> slotStarts[s] # {}]
           /\ m_currentslotDuration' = [s \in Stations |->
                IF s \in hearing /\ InGroup(s, rps)
                  THEN SlotDuration(s, rps) ELSE m_currentslotDuration[s]]
  /\ UNCHANGED <<associated, frames, inside>>

RawSlotStartBackoff(s) ==
  /\ 0 \in slotStarts[s]
  /\ slotStarts' = [slotStarts EXCEPT ![s] = @ \ {0}]
  /\ inside' = [inside EXCEPT ![s] = m_currentslotDuration[s]]
  /\ StartAccessRaw(s, TRUE)
  /\ UNCHANGED <<air, associated, follows, stray, frames, outside, m_currentslotDuration>>

InsideBackoff(s) ==
  /\ inside[s] = 0
  /\ inside' = [inside EXCEPT ![s] = Idle]
  /\ AccessIfRaw' = [AccessIfRaw EXCEPT ![s] = FALSE]
  /\ UNCHANGED <<air, associated, follows, stray, m_accessRequested, frames, outside,
                 slotStarts, m_currentslotDuration>>

\* (Variant for AccessReturns: access stays as the window left it.)
OutsideRawStartBackoff_Closed(s) ==
  /\ outside[s] = 0
  /\ outside' = [outside EXCEPT ![s] = Idle]
  /\ inside' = [inside EXCEPT ![s] = Idle]
  /\ StartAccessRaw(s, AccessIfRaw[s])
  /\ UNCHANGED <<air, associated, follows, stray, frames, slotStarts, m_currentslotDuration>>

OutsideRawStartBackoff(s) ==
  /\ outside[s] = 0
  /\ outside' = [outside EXCEPT ![s] = Idle]
  /\ inside' = [inside EXCEPT ![s] = Idle]
  /\ StartAccessRaw(s, TRUE)
  /\ UNCHANGED <<air, associated, follows, stray, frames, slotStarts, m_currentslotDuration>>

\* SendDisAssociationRequest sets m_aid to 8192, and SetAID, on an association
\* response, gives it one.
ChangeAssociation(s) ==
  /\ associated' = [associated EXCEPT ![s] = ~@]
  /\ UNCHANGED <<air, follows, stray, access, frames, timers>>

Elapse(timer) == IF timer = Idle THEN Idle ELSE timer - 1

Tick ==
  /\ Settled
  /\ next' = next - 1
  /\ since' = since + 1
  /\ outside' = [s \in Stations |-> Elapse(outside[s])]
  /\ inside' = [s \in Stations |-> Elapse(inside[s])]
  /\ slotStarts' = [s \in Stations |-> {start - 1 : start \in slotStarts[s]}]
  /\ UNCHANGED <<RpsIndex, late, associated, follows, stray, access, frames,
                 m_currentslotDuration>>

Init ==
  /\ RpsIndex = 1 /\ next = 0 /\ late = 0 /\ since = Interval
  /\ associated = [s \in Stations |-> TRUE]
  /\ follows = [s \in Stations |-> FALSE]
  /\ stray = [s \in Stations |-> FALSE]
  /\ AccessIfRaw = [s \in Stations |-> TRUE]
  /\ m_accessRequested = [s \in Stations |-> FALSE]
  /\ current = [s \in Stations |-> "none"]
  /\ queue = [s \in Stations |-> 0]
  /\ outside = [s \in Stations |-> Idle]
  /\ inside = [s \in Stations |-> Idle]
  /\ slotStarts = [s \in Stations |-> {}]
  /\ m_currentslotDuration = [s \in Stations |-> 1]

Station(s) == \/ Enqueue(s) \/ NotifyAccessGranted(s) \/ EndOfTransmission(s)
              \/ RawSlotStartBackoff(s) \/ InsideBackoff(s)
              \/ OutsideRawStartBackoff(s) \/ ChangeAssociation(s)

Next == SendOneBeacon \/ Tick \/ \E s \in Stations : Station(s)

Spec == Init /\ [][Next]_vars

\* The simulator runs every event and time advances.
FairSpec == /\ Spec /\ WF_vars(Tick) /\ WF_vars(SendOneBeacon)
            /\ \A s \in Stations : /\ WF_vars(RawSlotStartBackoff(s))
                                   /\ WF_vars(InsideBackoff(s))
                                   /\ WF_vars(OutsideRawStartBackoff(s))

-----------------------------------------------------------------------------
(* Properties                                                              *)

\* The times a timer may have to go: up to the length of the longest windows.
Span == UNION {Idle .. LengthOf(Rpsset[i]) : i \in DOMAIN Rpsset}

\* The variables keep their ranges; no timer is missed.
TypeOK ==
  /\ RpsIndex \in DOMAIN Rpsset
  /\ next \in 0 .. Interval + Jitter /\ since \in 0 .. Interval + Jitter
  /\ late \in 0 .. Jitter
  /\ {associated, follows, stray, AccessIfRaw, m_accessRequested}
       \subseteq [Stations -> BOOLEAN]
  /\ current \in [Stations -> {"none", "held", "sent"}]
  /\ queue \in [Stations -> 0 .. MaxQueue]
  /\ outside \in [Stations -> Span] /\ inside \in [Stations -> Span]
  /\ slotStarts \in [Stations -> SUBSET Span]
  /\ m_currentslotDuration \in [Stations -> Span \ {Idle, 0}]

\* The RPS element of the last beacon; whether the time since then lies in the
\* last of its windows that covers the station, and in the station's slot there.
LastRps == Rpsset[IF RpsIndex = 1 THEN Len(Rpsset) ELSE RpsIndex - 1]
OwnSlotNow(s) ==
  /\ ~Paged(LastRps)
  /\ \E k \in Mine(s, LastRps) :
       LET begin == Ends(LastRps)[k - 1]
       IN  /\ \A j \in Mine(s, LastRps) : j <= k
           /\ since \in begin .. Ends(LastRps)[k] - 1
           /\ (since - begin) \div LastRps[k].duration = AID[s] % LastRps[k].slots

\* While the windows of a beacon last, a station that follows them may transmit
\* in its own slot and at no other time, although the end of the windows or of
\* a slot of an earlier beacon may still be pending.  Only an earlier slot that
\* is still to start, which nothing can cancel, breaks in.
SlotsObserved ==
  Settled /\ since < LengthOf(LastRps) =>
    \A s \in Stations : follows[s] /\ ~stray[s] => (AccessIfRaw[s] <=> OwnSlotNow(s))

\* A queue that may transmit and has a frame, new or to be retried, has asked
\* for the medium: no closing and opening of the window makes it forget.
NoForgottenFrame ==
  Settled => \A s \in Stations :
    /\ AccessIfRaw[s]
    /\ current[s] = "held" \/ (current[s] = "none" /\ queue[s] > 0)
    => m_accessRequested[s]

\* A closed queue is opened again, whichever beacons are lost, if no timer of the
\* station is ever pending when a beacon is sent, or if it keeps following beacons
\* whose windows end before the next one.  (Windows that outlast the interval can
\* shut it out: each beacon cancels the timer that would open the queue, and one
\* with a paged RAW does not start it again.)
Outlived(s) == /\ next = 0 /\ \A t \in Stations : ~Due(t)
               /\ outside[s] # Idle \/ inside[s] # Idle \/ slotStarts[s] # {}
InTime(s) == follows[s] /\ LengthOf(LastRps) + Jitter <= Interval
AccessReturns ==
  \A s \in Stations : []~Outlived(s) \/ []<>InTime(s) => []<>AccessIfRaw[s]
=============================================================================
