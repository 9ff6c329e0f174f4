--------------------------- MODULE RawAccess_proofs ---------------------------
(***************************************************************************)
(* The theorems about RawAccess, for any stations, windows, intervals and  *)
(* lengths of the queues.                                                  *)
(*                                                                         *)
(* An EDCA queue never forgets a frame: the invariant needs neither the    *)
(* timers nor the windows, only that whatever opens the queue, sends or    *)
(* takes a frame also asks for the medium again.                           *)
(*                                                                         *)
(* A station that follows the windows of a beacon keeps to its slot: the   *)
(* invariant says where the station stands, before, in or past its slot,   *)
(* and ties the timers to the time since that beacon.  It leaves the end   *)
(* of an earlier slot arbitrary, for all that does is to shut the queue.   *)
(***************************************************************************)
EXTENDS RawAccess, WellFoundedInduction, TLAPS

-----------------------------------------------------------------------------
(* No frame is forgotten                                                   *)

\* The state of the transmit queues.
QueueTypes ==
  /\ AccessIfRaw \in [Stations -> BOOLEAN]
  /\ m_accessRequested \in [Stations -> BOOLEAN]
  /\ current \in [Stations -> {"none", "held", "sent"}]
  /\ queue \in [Stations -> Nat]

Waiting(s) == current[s] = "held" \/ (current[s] = "none" /\ queue[s] > 0)

\* NoForgottenFrame at every moment, also while timers are due.
Asked == \A s \in Stations : AccessIfRaw[s] /\ Waiting(s) => m_accessRequested[s]

Inv == QueueTypes /\ Asked

LEMMA InitInv == Init => Inv
BY DEF Init, Inv, QueueTypes, Asked, Waiting

\* A step that touches the queue of one station only.
LEMMA OneQueue ==
  ASSUME Inv, NEW s \in Stations, QueueTypes',
         \A t \in Stations \ {s} : /\ AccessIfRaw'[t] = AccessIfRaw[t]
                                   /\ m_accessRequested'[t] = m_accessRequested[t]
                                   /\ current'[t] = current[t] /\ queue'[t] = queue[t],
         AccessIfRaw'[s] /\ Waiting(s)' => m_accessRequested'[s]
  PROVE  Inv'
BY DEF Inv, Asked, Waiting

LEMMA OpeningInv ==
  ASSUME Inv, Queue = "Edca", NEW s \in Stations, NEW allowed \in BOOLEAN,
         StartAccessRaw(s, allowed), UNCHANGED frames
  PROVE  Inv'
<1>1. NeedsAccessRaw(s) \in BOOLEAN
  BY DEF NeedsAccessRaw
<1>2. QueueTypes'
  BY <1>1 DEF Inv, QueueTypes, StartAccessRaw, frames
<1>3. AccessIfRaw'[s] /\ Waiting(s)' => m_accessRequested'[s]
  BY DEF Inv, QueueTypes, StartAccessRaw, NeedsAccessRaw, Waiting, frames
<1>4. QED
  BY <1>2, <1>3, OneQueue DEF Inv, QueueTypes, StartAccessRaw, frames

LEMMA EnqueueInv ==
  ASSUME Inv, NEW s \in Stations, Enqueue(s)
  PROVE  Inv'
<1>1. QueueTypes'
  BY DEF Inv, QueueTypes, Enqueue
<1>2. AccessIfRaw'[s] /\ Waiting(s)' => m_accessRequested'[s]
  BY DEF Inv, QueueTypes, Asked, Waiting, Enqueue
<1>3. QED
  BY <1>1, <1>2, OneQueue DEF Inv, QueueTypes, Enqueue

LEMMA GrantInv ==
  ASSUME Inv, NEW s \in Stations, NotifyAccessGranted(s)
  PROVE  Inv'
<1>1. QueueTypes'
  BY DEF Inv, QueueTypes, NotifyAccessGranted, frames
<1>2. AccessIfRaw'[s] => ~Waiting(s)'
  BY DEF Inv, QueueTypes, Waiting, NotifyAccessGranted, frames
<1>3. QED
  BY <1>1, <1>2, OneQueue DEF Inv, QueueTypes, NotifyAccessGranted, frames

LEMMA EndOfTransmissionInv ==
  ASSUME Inv, NEW s \in Stations, EndOfTransmission(s)
  PROVE  Inv'
<1>1. PICK left \in {"none", "held"} :
        /\ current' = [current EXCEPT ![s] = left]
        /\ m_accessRequested' = [m_accessRequested EXCEPT
             ![s] = @ \/ (AccessIfRaw[s] /\ (left = "held" \/ queue[s] > 0))]
  BY DEF EndOfTransmission
<1>2. QueueTypes'
  BY <1>1 DEF Inv, QueueTypes, EndOfTransmission
<1>3. AccessIfRaw'[s] /\ Waiting(s)' => m_accessRequested'[s]
  BY <1>1 DEF Inv, QueueTypes, Waiting, EndOfTransmission
<1>4. QED
  BY <1>1, <1>2, <1>3, OneQueue DEF Inv, QueueTypes, EndOfTransmission

\* A beacon leaves the queue of a station as it was, or closes it.
LEMMA BeaconInv ==
  ASSUME Inv, Queue = "Edca", SendOneBeacon
  PROVE  Inv'
<1>1. PICK hearing \in SUBSET Stations, buffering \in SUBSET Stations :
        LET After == [s \in Stations |->
                        IF s \in hearing THEN Heard(s, Rpsset[RpsIndex], s \in buffering)
                                         ELSE Missed(s)]
        IN  /\ AccessIfRaw' = [s \in Stations |-> After[s].allowed]
            /\ m_accessRequested' = [s \in Stations |-> After[s].asks]
  BY DEF SendOneBeacon
<1>2. \A s \in Stations :
        \/ AccessIfRaw'[s] = AccessIfRaw[s] /\ m_accessRequested'[s] = m_accessRequested[s]
        \/ AccessIfRaw'[s] = FALSE /\ m_accessRequested'[s] \in BOOLEAN
  <2> SUFFICES ASSUME NEW s \in Stations
               PROVE  \/ /\ AccessIfRaw'[s] = AccessIfRaw[s]
                         /\ m_accessRequested'[s] = m_accessRequested[s]
                      \/ AccessIfRaw'[s] = FALSE /\ m_accessRequested'[s] \in BOOLEAN
    OBVIOUS
  <2>1. CASE s \notin hearing
    BY <1>1, <2>1 DEF Missed
  <2>2. CASE s \in hearing
    BY <1>1, <2>2 DEF Heard, Inv, QueueTypes
  <2>3. QED
    BY <2>1, <2>2
<1>3. QueueTypes'
  BY <1>1, <1>2 DEF SendOneBeacon, Inv, QueueTypes, frames
<1>4. Asked'
  BY <1>2 DEF SendOneBeacon, Inv, Asked, Waiting, frames
<1>5. QED
  BY <1>3, <1>4 DEF Inv

LEMMA NextInv ==
  ASSUME Inv, Queue = "Edca", [Next]_vars
  PROVE  Inv'
<1>1. CASE UNCHANGED vars
  BY <1>1 DEF vars, access, frames, Inv, QueueTypes, Asked, Waiting
<1>2. CASE SendOneBeacon
  BY <1>2, BeaconInv
<1>3. CASE Tick
  BY <1>3 DEF Tick, access, frames, Inv, QueueTypes, Asked, Waiting
<1>4. ASSUME NEW s \in Stations, Station(s)
      PROVE  Inv'
  <2>1. CASE Enqueue(s) \/ NotifyAccessGranted(s) \/ EndOfTransmission(s)
    BY <2>1, EnqueueInv, GrantInv, EndOfTransmissionInv
  <2>2. CASE RawSlotStartBackoff(s) \/ OutsideRawStartBackoff(s)
    BY <2>2, OpeningInv DEF RawSlotStartBackoff, OutsideRawStartBackoff
  <2>3. CASE InsideBackoff(s)
    <3>1. QueueTypes'
      BY <2>3 DEF InsideBackoff, Inv, QueueTypes, frames
    <3>2. AccessIfRaw'[s] = FALSE
      BY <2>3 DEF InsideBackoff, Inv, QueueTypes
    <3>3. QED
      BY <2>3, <3>1, <3>2, OneQueue DEF InsideBackoff, Inv, QueueTypes, frames
  <2>4. CASE ChangeAssociation(s)
    BY <2>4 DEF ChangeAssociation, access, frames, Inv, QueueTypes, Asked, Waiting
  <2>5. QED
    BY <1>4, <2>1, <2>2, <2>3, <2>4 DEF Station
<1>5. QED
  BY <1>1, <1>2, <1>3, <1>4 DEF Next

\* A queue of class EdcaTxopN that may transmit and has a frame, new or to be
\* retried, has asked for the medium, whatever opened and shut it before.
THEOREM NothingForgotten ==
  ASSUME Queue = "Edca"
  PROVE  Spec => []NoForgottenFrame
<1>1. Init => Inv
  BY InitInv
<1>2. Inv /\ [Next]_vars => Inv'
  BY NextInv
<1>3. Inv => NoForgottenFrame
  BY DEF Inv, Asked, Waiting, NoForgottenFrame
<1>4. QED
  BY <1>1, <1>2, <1>3, PTL DEF Spec

-----------------------------------------------------------------------------
(* Where the windows of an RPS element lie                                 *)

LEMMA Least ==
  ASSUME NEW T, T \subseteq Nat, T # {}
  PROVE  \E x \in T : \A y \in T : x <= y
<1> DEFINE R == OpToRel(<, Nat)
<1>1. IsWellFoundedOn(R, Nat)
  BY NatLessThanWellFounded
<1>2. \A x, y \in Nat : y < x => <<y, x>> \in R
  BY DEF OpToRel
<1> HIDE DEF R
<1>3. PICK x \in T : \A y \in T : ~ (<<y, x>> \in R)
  BY <1>1, WFMin
<1>4. \A y \in T : ~ (y < x)
  BY <1>2, <1>3
<1>5. QED
  BY <1>4

\* Induction over the natural numbers, for a set instead of a predicate.
LEMMA Upward ==
  ASSUME NEW S, S \subseteq Nat, 0 \in S, \A n \in S : n + 1 \in S
  PROVE  S = Nat
<1> DEFINE T == Nat \ S
<1>1. SUFFICES ASSUME T # {} PROVE FALSE
  OBVIOUS
<1>2. PICK x \in T : \A y \in T : x <= y
  BY <1>1, Least
<1>3. x - 1 \in Nat /\ x - 1 \notin T
  BY <1>2
<1>4. QED
  BY <1>3, <1>2

\* The length of the k-th window.
Window(rps, k) == rps[k].slots * rps[k].duration

LEMMA WindowType ==
  ASSUME NEW rps \in Seq(Assignments), NEW k \in 1 .. Len(rps)
  PROVE  /\ rps[k] \in Assignments /\ rps[k].slots \in Nat \ {0}
         /\ rps[k].duration \in Nat \ {0} /\ Window(rps, k) \in Nat
<1>1. rps[k] \in Assignments
  OBVIOUS
<1>2. rps[k].slots \in Nat \ {0} /\ rps[k].duration \in Nat \ {0}
  BY <1>1 DEF Assignments
<1>3. QED
  BY <1>1, <1>2 DEF Window

\* The recursion of Ends has a solution.
LEMMA EndsExist ==
  ASSUME NEW rps \in Seq(Assignments)
  PROVE  \E f : f = [k \in 0 .. Len(rps) |-> IF k = 0 THEN 0 ELSE f[k - 1] + Window(rps, k)]
<1> DEFINE Upto(f, n) == f[0] = 0 /\ \A k \in 1 .. n : f[k] = f[k - 1] + Window(rps, k)
           S == {n \in Nat : n <= Len(rps) => \E f \in [0 .. n -> Nat] : Upto(f, n)}
<1>1. 0 \in S
  <2>1. PICK z : z = [k \in 0 .. 0 |-> 0]
    OBVIOUS
  <2>2. z \in [0 .. 0 -> Nat] /\ z[0] = 0 /\ 1 .. 0 = {}
    BY <2>1
  <2>3. QED
    BY <2>2
<1>2. ASSUME NEW n \in S PROVE n + 1 \in S
  <2> HIDE DEF Upto
  <2>1. n \in Nat /\ n + 1 \in Nat
    OBVIOUS
  <2>2. SUFFICES ASSUME n + 1 <= Len(rps)
                 PROVE  \E g \in [0 .. n + 1 -> Nat] : Upto(g, n + 1)
    BY <2>1
  <2> USE DEF Upto
  <2>3. PICK f \in [0 .. n -> Nat] : Upto(f, n)
    <3>1. n <= Len(rps)
      BY <2>1, <2>2
    <3>2. QED
      BY <2>1, <3>1
  <2>4. PICK g : g = [k \in 0 .. n + 1 |-> IF k = n + 1 THEN f[n] + Window(rps, n + 1)
                                                        ELSE f[k]]
    OBVIOUS
  <2>5. Window(rps, n + 1) \in Nat /\ f[n] \in Nat
    BY <2>1, <2>2, WindowType
  <2>6. g \in [0 .. n + 1 -> Nat]
    BY <2>1, <2>4, <2>5
  <2>7. g[0] = 0
    BY <2>1, <2>3, <2>4
  <2>8. ASSUME NEW k \in 1 .. n + 1 PROVE g[k] = g[k - 1] + Window(rps, k)
    <3>1. CASE k = n + 1
      BY <2>1, <2>4, <3>1
    <3>2. CASE k # n + 1
      <4>1. k \in 1 .. n /\ k - 1 \in 0 .. n
        BY <2>1, <3>2
      <4>2. g[k] = f[k] /\ g[k - 1] = f[k - 1]
        BY <2>1, <2>4, <4>1
      <4>3. QED
        BY <2>3, <4>1, <4>2
    <3>3. QED
      BY <3>1, <3>2
  <2>9. QED
    BY <2>6, <2>7, <2>8
<1>3. S = Nat
  <2> HIDE DEF S
  <2>1. S \subseteq Nat
    BY DEF S
  <2>2. QED
    BY <1>1, <1>2, <2>1, Upward
<1>4. Len(rps) \in S /\ Len(rps) \in Nat
  BY <1>3
<1>5. PICK f \in [0 .. Len(rps) -> Nat] : Upto(f, Len(rps))
  BY <1>4
<1>6. f = [k \in 0 .. Len(rps) |-> IF k = 0 THEN 0 ELSE f[k - 1] + Window(rps, k)]
  BY <1>4, <1>5
<1>7. QED
  BY <1>6

LEMMA EndsRecursion ==
  ASSUME NEW rps \in Seq(Assignments)
  PROVE  Ends(rps) = [k \in 0 .. Len(rps) |->
                        IF k = 0 THEN 0 ELSE Ends(rps)[k - 1] + Window(rps, k)]
<1>1. PICK f : f = [k \in 0 .. Len(rps) |-> IF k = 0 THEN 0 ELSE f[k - 1] + Window(rps, k)]
  BY EndsExist
<1>2. QED
  BY <1>1 DEF Ends, Window

LEMMA EndsAre ==
  ASSUME NEW rps \in Seq(Assignments)
  PROVE  /\ \A k \in 0 .. Len(rps) : Ends(rps)[k] \in Nat
         /\ \A k \in 1 .. Len(rps) : Ends(rps)[k] = Ends(rps)[k - 1] + Window(rps, k)
         /\ \A k \in 0 .. Len(rps) : Ends(rps)[k] <= LengthOf(rps)
<1>1. PICK e : e = Ends(rps)
  OBVIOUS
<1>2. Len(rps) \in Nat /\ \A k \in 1 .. Len(rps) : Window(rps, k) \in Nat
  BY WindowType
<1>3. e[0] = 0 /\ \A k \in 1 .. Len(rps) : e[k] = e[k - 1] + Window(rps, k)
  <2>1. e = [k \in 0 .. Len(rps) |-> IF k = 0 THEN 0 ELSE e[k - 1] + Window(rps, k)]
    BY <1>1, EndsRecursion
  <2>2. QED
    BY <1>2, <2>1
<1>4. \A k \in 0 .. Len(rps) : e[k] \in Nat
  <2> DEFINE S == {n \in Nat : n <= Len(rps) => e[n] \in Nat}
  <2>1. 0 \in S
    BY <1>3
  <2>2. ASSUME NEW n \in S PROVE n + 1 \in S
    <3>1. n + 1 <= Len(rps) => n + 1 \in 1 .. Len(rps) /\ n <= Len(rps)
      BY <1>2
    <3>2. n + 1 <= Len(rps) => e[n + 1] = e[n] + Window(rps, n + 1)
      BY <1>3, <3>1
    <3>3. QED
      BY <1>2, <3>1, <3>2
  <2>3. S = Nat
    <3> HIDE DEF S
    <3>1. S \subseteq Nat
      BY DEF S
    <3>2. QED
      BY <2>1, <2>2, <3>1, Upward
  <2>4. QED
    BY <1>2, <2>3
<1>5. ASSUME NEW k \in 0 .. Len(rps) PROVE e[k] <= e[Len(rps)]
  <2> DEFINE S == {n \in Nat : k + n <= Len(rps) => e[k] <= e[k + n]}
  <2>1. 0 \in S
    BY <1>4
  <2>2. ASSUME NEW n \in S PROVE n + 1 \in S
    <3>1. SUFFICES ASSUME k + (n + 1) <= Len(rps) PROVE e[k] <= e[k + (n + 1)]
      OBVIOUS
    <3>2. k + (n + 1) \in 1 .. Len(rps) /\ k + n \in 0 .. Len(rps)
      BY <1>2, <3>1
    <3>3. e[k] <= e[k + n] /\ e[k + (n + 1)] = e[k + n] + Window(rps, k + (n + 1))
      BY <1>2, <1>3, <3>2
    <3>4. e[k] \in Nat /\ e[k + n] \in Nat /\ Window(rps, k + (n + 1)) \in Nat
      BY <1>2, <1>4, <3>2
    <3>5. QED
      BY <3>3, <3>4
  <2>3. S = Nat
    <3> HIDE DEF S
    <3>1. S \subseteq Nat
      BY DEF S
    <3>2. QED
      BY <2>1, <2>2, <3>1, Upward
  <2>4. Len(rps) - k \in Nat /\ k + (Len(rps) - k) = Len(rps)
    BY <1>2
  <2>5. Len(rps) - k \in S
    BY <2>3, <2>4
  <2>6. QED
    BY <1>2, <2>4, <2>5
<1>6. QED
  BY <1>1, <1>3, <1>4, <1>5 DEF LengthOf

\* Of the assignments that cover a station there is a last one.
LEMMA LastIs ==
  ASSUME NEW s, NEW rps \in Seq(Assignments), InGroup(s, rps)
  PROVE  /\ LastOf(s, rps) \in Mine(s, rps) /\ LastOf(s, rps) \in 1 .. Len(rps)
         /\ \A j \in Mine(s, rps) : j <= LastOf(s, rps)
<1>1. Mine(s, rps) \subseteq 1 .. Len(rps) /\ Mine(s, rps) # {} /\ Len(rps) \in Nat
  BY DEF Mine, InGroup
<1> DEFINE T == {Len(rps) - k : k \in Mine(s, rps)}
<1>2. T \subseteq Nat /\ T # {}
  BY <1>1
<1>3. PICK x \in T : \A y \in T : x <= y
  BY <1>2, Least
<1>4. PICK k \in Mine(s, rps) : x = Len(rps) - k
  BY <1>3
<1>5. ASSUME NEW j \in Mine(s, rps) PROVE j <= k
  <2>1. Len(rps) - k <= Len(rps) - j
    BY <1>3, <1>4
  <2>2. j \in 1 .. Len(rps) /\ k \in 1 .. Len(rps)
    BY <1>1
  <2>3. QED
    BY <1>1, <2>1, <2>2
<1>6. LastOf(s, rps) \in Mine(s, rps) /\ \A j \in Mine(s, rps) : j <= LastOf(s, rps)
  BY <1>5 DEF LastOf
<1>7. QED
  BY <1>1, <1>6

LEMMA SlotInWindow ==
  ASSUME NEW d \in Nat \ {0}, NEW n \in Nat \ {0}, NEW o \in 0 .. n - 1
  PROVE  o * d \in Nat /\ o * d + d <= n * d
OBVIOUS

LEMMA SlotOfTime ==
  ASSUME NEW d \in Nat \ {0}, NEW o \in Nat, NEW e \in Nat
  PROVE  e \div d = o <=> o * d <= e /\ e < o * d + d
OBVIOUS

\* The slot of a station lies within the windows.
LEMMA SlotFits ==
  ASSUME NEW s \in Stations, NEW rps \in Seq(Assignments), InGroup(s, rps)
  PROVE  /\ SlotStart(s, rps) \in Nat /\ SlotDuration(s, rps) \in Nat \ {0}
         /\ SlotStart(s, rps) + SlotDuration(s, rps) <= LengthOf(rps)
         /\ LengthOf(rps) \in Nat
         /\ \A t \in Nat :
              LET k     == LastOf(s, rps)
                  begin == Ends(rps)[k - 1]
              IN  /\ t \in begin .. Ends(rps)[k] - 1
                  /\ (t - begin) \div rps[k].duration = AID[s] % rps[k].slots
                  <=> t \in SlotStart(s, rps) ..
                              SlotStart(s, rps) + SlotDuration(s, rps) - 1
<1>1. PICK k : k = LastOf(s, rps)
  OBVIOUS
<1>2. k \in Mine(s, rps) /\ k \in 1 .. Len(rps) /\ Len(rps) \in Nat
  BY <1>1, LastIs
<1>3. PICK d \in Nat \ {0} : d = rps[k].duration
  BY <1>2, WindowType
<1>4. PICK n \in Nat \ {0} : n = rps[k].slots
  BY <1>2, WindowType
<1>5. PICK begin \in Nat : begin = Ends(rps)[k - 1]
  BY <1>2, EndsAre
<1>6. PICK end \in Nat : end = Ends(rps)[k]
  BY <1>2, EndsAre
<1>7. end = begin + n * d /\ end <= LengthOf(rps) /\ LengthOf(rps) \in Nat
  BY <1>2, <1>3, <1>4, <1>5, <1>6, EndsAre DEF Window, LengthOf
<1>8. PICK o \in 0 .. n - 1 : o = AID[s] % n
  <2>1. AID[s] \in Nat
    BY RawAssumption
  <2>2. QED
    BY <1>4, <2>1
<1>9. PICK off \in Nat : off = o * d
  BY <1>8, SlotInWindow
<1>10. begin + off + d <= end
  <2>1. PICK length : length = n * d
    OBVIOUS
  <2>2. off + d <= length
    BY <1>9, <2>1, SlotInWindow
  <2>3. end = begin + length
    BY <1>7, <2>1
  <2>4. length \in Nat
    BY <2>1
  <2>5. QED
    BY <2>2, <2>3, <2>4
<1>11. SlotStart(s, rps) = begin + off /\ SlotDuration(s, rps) = d
  BY <1>1, <1>3, <1>4, <1>5, <1>8, <1>9 DEF SlotStart, SlotDuration
<1>12. /\ SlotStart(s, rps) \in Nat
       /\ SlotStart(s, rps) + SlotDuration(s, rps) <= LengthOf(rps)
  BY <1>7, <1>10, <1>11
<1>13. ASSUME NEW t \in Nat
       PROVE  /\ t \in begin .. end - 1
              /\ (t - begin) \div d = o
              <=> t \in begin + off .. begin + off + d - 1
  <2>1. CASE t < begin
    BY <2>1
  <2>2. CASE t >= begin
    <3>1. PICK e \in Nat : e = t - begin
      BY <2>2
    <3>2. o \in Nat
      OBVIOUS
    <3>3. e \div d = o <=> off <= e /\ e < off + d
      BY <1>9, <3>1, <3>2, SlotOfTime
    <3>4. off <= e /\ e < off + d <=> t \in begin + off .. begin + off + d - 1
      BY <2>2, <3>1
    <3>5. t \in begin + off .. begin + off + d - 1 => t \in begin .. end - 1
      BY <1>10
    <3>6. QED
      BY <3>1, <3>3, <3>4, <3>5
  <2>3. QED
    BY <2>1, <2>2
<1>14. QED
  BY <1>1, <1>3, <1>4, <1>5, <1>6, <1>7, <1>8, <1>11, <1>12, <1>13

\* The own slot of a station is told by the time.
LEMMA OwnSlotIs ==
  ASSUME NEW s \in Stations, LastRps \in Seq(Assignments), InGroup(s, LastRps),
         ~Paged(LastRps), since \in Nat
  PROVE  OwnSlotNow(s) <=>
           since \in SlotStart(s, LastRps) ..
                       SlotStart(s, LastRps) + SlotDuration(s, LastRps) - 1
<1>1. PICK rps \in Seq(Assignments) : rps = LastRps
  OBVIOUS
<1>2. PICK last : last = LastOf(s, rps)
  OBVIOUS
<1>3. last \in Mine(s, rps) /\ \A j \in Mine(s, rps) : j <= last
  BY <1>1, <1>2, LastIs
<1>4. ASSUME NEW k \in Mine(s, rps), \A j \in Mine(s, rps) : j <= k
      PROVE  k = last
  <2>1. Mine(s, rps) \subseteq 1 .. Len(rps)
    BY <1>1 DEF Mine
  <2>2. k \in Int /\ last \in Int /\ k <= last /\ last <= k
    BY <1>3, <1>4, <2>1
  <2>3. QED
    BY <2>2
<1>5. OwnSlotNow(s) <=>
        /\ since \in Ends(rps)[last - 1] .. Ends(rps)[last] - 1
        /\ (since - Ends(rps)[last - 1]) \div rps[last].duration = AID[s] % rps[last].slots
  BY <1>1, <1>3, <1>4 DEF OwnSlotNow
<1>6. QED
  BY <1>1, <1>2, <1>5, SlotFits

-----------------------------------------------------------------------------
(* The types and the clock                                                 *)

\* TypeOK, with what keeps a timer in its range: none runs past its time.
Types ==
  /\ RpsIndex \in 1 .. Len(Rpsset)
  /\ associated \in [Stations -> BOOLEAN] /\ follows \in [Stations -> BOOLEAN]
  /\ stray \in [Stations -> BOOLEAN]
  /\ AccessIfRaw \in [Stations -> BOOLEAN]
  /\ m_accessRequested \in [Stations -> BOOLEAN]
  /\ current \in [Stations -> {"none", "held", "sent"}]
  /\ queue \in [Stations -> 0 .. MaxQueue]
  /\ outside \in [Stations -> Span] /\ inside \in [Stations -> Span]
  /\ slotStarts \in [Stations -> SUBSET (Span \ {Idle})]
  /\ m_currentslotDuration \in [Stations -> Span \ {Idle, 0}]

Clock ==
  /\ next \in 0 .. Interval + Jitter /\ late \in 0 .. Jitter /\ since \in Nat
  /\ next + since <= Interval + Jitter

SlotEnd(s) == SlotStart(s, LastRps) + SlotDuration(s, LastRps)

\* Where a station that obeys the last beacon stands in its windows: its slot is
\* to come, is under way, or is past, or the windows have none for it.
Upcoming(s) ==
  /\ slotStarts[s] = {SlotStart(s, LastRps) - since} /\ since <= SlotStart(s, LastRps)
  /\ m_currentslotDuration[s] = SlotDuration(s, LastRps)
  /\ ~AccessIfRaw[s]
UnderWay(s) ==
  /\ slotStarts[s] = {} /\ inside[s] = SlotEnd(s) - since
  /\ since \in SlotStart(s, LastRps) .. SlotEnd(s)
  /\ AccessIfRaw[s]
Past(s) ==
  /\ slotStarts[s] = {} /\ inside[s] = Idle /\ since >= SlotEnd(s)
  /\ ~AccessIfRaw[s]
Member(s)   == InGroup(s, LastRps) /\ ~Paged(LastRps)
Excluded(s) == slotStarts[s] = {} /\ ~AccessIfRaw[s]

Windowed(s) ==
  /\ outside[s] = LengthOf(LastRps) - since /\ since <= LengthOf(LastRps)
  /\ IF Member(s) THEN Upcoming(s) \/ UnderWay(s) \/ Past(s) ELSE Excluded(s)
Over(s) == slotStarts[s] = {} /\ since >= LengthOf(LastRps)

\* No slot that an earlier beacon set can start any more.
Phase(s) == follows[s] /\ ~stray[s] => Windowed(s) \/ Over(s)

SlotInv == Types /\ Clock /\ \A s \in Stations : Phase(s)

LEMMA Constants ==
  /\ Interval \in Nat \ {0} /\ Jitter \in Nat /\ Jitter <= Interval /\ MaxQueue \in Nat
  /\ Len(Rpsset) \in Nat \ {0}
  /\ \A i \in 1 .. Len(Rpsset) :
       /\ Rpsset[i] \in Seq(Assignments) /\ Rpsset[i] # <<>>
       /\ LengthOf(Rpsset[i]) \in Nat
<1>1. /\ Interval \in Nat \ {0} /\ Jitter \in Nat /\ Jitter <= Interval /\ MaxQueue \in Nat
      /\ Rpsset \in Seq(Seq(Assignments)) /\ Rpsset # <<>>
  BY RawAssumption
<1>2. Len(Rpsset) \in Nat \ {0} /\ DOMAIN Rpsset = 1 .. Len(Rpsset)
  BY <1>1
<1>3. ASSUME NEW i \in 1 .. Len(Rpsset)
      PROVE  /\ Rpsset[i] \in Seq(Assignments) /\ Rpsset[i] # <<>>
             /\ LengthOf(Rpsset[i]) \in Nat
  <2>1. Rpsset[i] \in Seq(Assignments)
    BY <1>1
  <2>2. LengthOf(Rpsset[i]) \in Nat
    BY <2>1, EndsAre DEF LengthOf
  <2>3. Rpsset[i] # <<>>
    BY <1>2, RawAssumption
  <2>4. QED
    BY <2>1, <2>2, <2>3
<1>4. QED
  BY <1>1, <1>2, <1>3

\* A timer has at most the length of some windows to go.
LEMMA Spans ==
  /\ Idle \in Span /\ Span \subseteq Int /\ \A x \in Span : x >= Idle
  /\ \A x \in Span \ {Idle, 0} : x - 1 \in Span \ {Idle}
  /\ \A i \in 1 .. Len(Rpsset) : \A x \in 0 .. LengthOf(Rpsset[i]) : x \in Span \ {Idle}
<1>1. DOMAIN Rpsset = 1 .. Len(Rpsset) /\ Idle = -1
  BY RawAssumption DEF Idle
<1>2. Span = UNION {Idle .. LengthOf(Rpsset[i]) : i \in 1 .. Len(Rpsset)}
  BY <1>1 DEF Span
<1>3. \A i \in 1 .. Len(Rpsset) : Idle .. LengthOf(Rpsset[i]) \subseteq Span
  BY <1>2
<1>4. \A i \in 1 .. Len(Rpsset) : LengthOf(Rpsset[i]) \in Nat
  BY Constants
<1>5. 1 \in 1 .. Len(Rpsset)
  BY Constants
<1>6. Idle \in Span
  BY <1>1, <1>3, <1>4, <1>5
<1>7. ASSUME NEW x \in Span
      PROVE  /\ x \in Int /\ x >= Idle
             /\ x # Idle /\ x # 0 => x - 1 \in Span /\ x - 1 # Idle
  <2>1. PICK i \in 1 .. Len(Rpsset) : x \in Idle .. LengthOf(Rpsset[i])
    BY <1>2
  <2>2. x \in Int /\ x >= Idle
    BY <1>1, <1>4, <2>1
  <2>3. x # Idle /\ x # 0 => x - 1 \in Idle .. LengthOf(Rpsset[i]) /\ x - 1 # Idle
    BY <1>1, <1>4, <2>1
  <2>4. QED
    BY <1>3, <2>2, <2>3
<1>8. ASSUME NEW i \in 1 .. Len(Rpsset), NEW x \in 0 .. LengthOf(Rpsset[i])
      PROVE  x \in Span \ {Idle}
  <2>1. x \in Idle .. LengthOf(Rpsset[i]) /\ x # Idle
    BY <1>1, <1>4
  <2>2. QED
    BY <1>3, <2>1
<1>9. QED
  BY <1>6, <1>7, <1>8

LEMMA LastRpsIs ==
  ASSUME Types
  PROVE  /\ \E i \in 1 .. Len(Rpsset) : LastRps = Rpsset[i]
         /\ LastRps \in Seq(Assignments) /\ LengthOf(LastRps) \in Nat
<1>1. PICK i : i = IF RpsIndex = 1 THEN Len(Rpsset) ELSE RpsIndex - 1
  OBVIOUS
<1>2. i \in 1 .. Len(Rpsset)
  BY <1>1, Constants DEF Types
<1>3. LastRps = Rpsset[i]
  BY <1>1 DEF LastRps
<1>4. QED
  BY <1>2, <1>3, Constants

\* The slot of a member of the last windows.
LEMMA MemberSlot ==
  ASSUME Types, NEW s \in Stations, Member(s)
  PROVE  /\ SlotStart(s, LastRps) \in Nat /\ SlotDuration(s, LastRps) \in Nat \ {0}
         /\ SlotEnd(s) \in Nat /\ SlotStart(s, LastRps) < SlotEnd(s)
         /\ SlotEnd(s) <= LengthOf(LastRps)
<1>1. LastRps \in Seq(Assignments) /\ InGroup(s, LastRps)
  BY LastRpsIs DEF Member
<1>2. QED
  BY <1>1, SlotFits DEF SlotEnd

\* Some windows have a length, so the initial duration of a slot is in range.
LEMMA OneInSpan == 1 \in Span \ {Idle, 0}
<1>1. PICK rps : rps = Rpsset[1]
  OBVIOUS
<1>2. rps \in Seq(Assignments) /\ rps # <<>> /\ LengthOf(rps) \in Nat /\ 1 \in 1 .. Len(Rpsset)
  BY <1>1, Constants
<1>3. 1 \in 1 .. Len(rps) /\ 0 \in 0 .. Len(rps) /\ 1 \in 0 .. Len(rps)
  BY <1>2
<1>4. PICK d \in Nat \ {0} : d = rps[1].duration
  BY <1>2, <1>3, WindowType
<1>5. PICK n \in Nat \ {0} : n = rps[1].slots
  BY <1>2, <1>3, WindowType
<1>6. 0 \in 0 .. n - 1
  OBVIOUS
<1>7. 0 * d + d <= n * d /\ n * d \in Nat
  BY <1>6, SlotInWindow
<1>8. PICK w \in Nat : w = n * d
  BY <1>7
<1>9. w >= 1 /\ w = Window(rps, 1)
  BY <1>4, <1>5, <1>7, <1>8 DEF Window
<1>10. Ends(rps)[0] \in Nat /\ Ends(rps)[1] = Ends(rps)[0] + w /\ Ends(rps)[1] <= LengthOf(rps)
  BY <1>2, <1>3, <1>9, EndsAre
<1>11. 1 \in 0 .. LengthOf(rps)
  BY <1>2, <1>9, <1>10
<1>12. QED
  BY <1>1, <1>2, <1>11, Spans

LEMMA InitSlots == Init => SlotInv
<1> SUFFICES ASSUME Init PROVE SlotInv
  OBVIOUS
<1>1. Types
  BY Constants, Spans, OneInSpan DEF Init, Types
<1>2. Clock
  BY Constants DEF Init, Clock
<1>3. ASSUME NEW s \in Stations PROVE Phase(s)
  BY DEF Init, Phase
<1>4. QED
  BY <1>1, <1>2, <1>3 DEF SlotInv

\* A step that neither time nor a beacon takes.
LEMMA SameMoment ==
  ASSUME Types, Clock, UNCHANGED air
  PROVE  Clock' /\ LastRps' = LastRps /\ since' = since /\ RpsIndex' \in 1 .. Len(Rpsset)
BY DEF air, Clock, LastRps, Types

LEMMA OtherStation ==
  ASSUME Types, Clock, UNCHANGED air, NEW s \in Stations, Phase(s),
         /\ outside'[s] = outside[s] /\ inside'[s] = inside[s]
         /\ slotStarts'[s] = slotStarts[s] /\ follows'[s] = follows[s]
         /\ stray'[s] = stray[s] /\ AccessIfRaw'[s] = AccessIfRaw[s]
         /\ m_currentslotDuration'[s] = m_currentslotDuration[s]
  PROVE  Phase(s)'
<1>1. LastRps' = LastRps /\ since' = since
  BY SameMoment
<1>2. /\ Member(s)' = Member(s) /\ Upcoming(s)' = Upcoming(s) /\ UnderWay(s)' = UnderWay(s)
      /\ Past(s)' = Past(s) /\ Excluded(s)' = Excluded(s)
  BY <1>1 DEF Member, Upcoming, UnderWay, Past, Excluded, SlotEnd
<1>3. Windowed(s)' = Windowed(s) /\ Over(s)' = Over(s)
  BY <1>1, <1>2 DEF Windowed, Over
<1>4. QED
  BY <1>3 DEF Phase

-----------------------------------------------------------------------------
(* The steps                                                               *)

\* What only moves frames and requests leaves the timers alone.
LEMMA FramesSlots ==
  ASSUME SlotInv, NEW s \in Stations,
         Enqueue(s) \/ NotifyAccessGranted(s) \/ EndOfTransmission(s) \/ ChangeAssociation(s)
  PROVE  SlotInv'
<1>1. /\ UNCHANGED <<air, follows, stray, AccessIfRaw, timers>>
      /\ Types /\ Clock
  BY DEF Enqueue, NotifyAccessGranted, EndOfTransmission, ChangeAssociation, access, SlotInv
<1>2. Types'
  <2>1. /\ UNCHANGED <<follows, stray, AccessIfRaw, outside, inside, slotStarts,
                       m_currentslotDuration, RpsIndex>>
    BY <1>1 DEF timers, air
  <2>2. /\ associated' \in [Stations -> BOOLEAN]
        /\ m_accessRequested' \in [Stations -> BOOLEAN]
        /\ current' \in [Stations -> {"none", "held", "sent"}]
    BY <1>1 DEF Enqueue, NotifyAccessGranted, EndOfTransmission, ChangeAssociation,
                access, frames, Types
  <2>3. queue' \in [Stations -> 0 .. MaxQueue]
    <3>1. queue' = queue \/ \E n \in 0 .. MaxQueue : queue' = [queue EXCEPT ![s] = n]
      <4>1. queue[s] \in 0 .. MaxQueue /\ MaxQueue \in Nat
        BY <1>1, Constants DEF Types
      <4>2. CASE Enqueue(s)
        <5>1. queue[s] + 1 \in 0 .. MaxQueue /\ queue' = [queue EXCEPT ![s] = queue[s] + 1]
          BY <4>1, <4>2 DEF Enqueue
        <5>2. QED
          BY <5>1
      <4>3. CASE NotifyAccessGranted(s)
        <5>1. queue' = queue \/ (queue[s] > 0 /\ queue' = [queue EXCEPT ![s] = queue[s] - 1])
          BY <4>3 DEF NotifyAccessGranted, frames
        <5>2. queue[s] > 0 => queue[s] - 1 \in 0 .. MaxQueue
          BY <4>1
        <5>3. QED
          BY <5>1, <5>2
      <4>4. CASE EndOfTransmission(s) \/ ChangeAssociation(s)
        BY <4>4 DEF EndOfTransmission, ChangeAssociation, frames
      <4>5. QED
        BY <4>2, <4>3, <4>4
    <3>2. QED
      BY <1>1, <3>1 DEF Types
  <2>4. QED
    BY <1>1, <2>1, <2>2, <2>3 DEF Types
<1>3. ASSUME NEW t \in Stations PROVE Phase(t)'
  BY <1>1, OtherStation DEF SlotInv, timers
<1>4. QED
  BY <1>1, <1>2, <1>3, SameMoment DEF SlotInv

LEMMA SlotStartSlots ==
  ASSUME SlotInv, NEW s \in Stations, RawSlotStartBackoff(s)
  PROVE  SlotInv'
<1>1. /\ UNCHANGED <<air, associated, follows, stray, frames, outside, m_currentslotDuration>>
      /\ Types /\ Clock /\ 0 \in slotStarts[s] /\ Phase(s)
      /\ slotStarts' = [slotStarts EXCEPT ![s] = slotStarts[s] \ {0}]
      /\ inside' = [inside EXCEPT ![s] = m_currentslotDuration[s]]
      /\ AccessIfRaw' = [AccessIfRaw EXCEPT ![s] = TRUE]
      /\ m_accessRequested' = [m_accessRequested EXCEPT ![s] = TRUE /\ NeedsAccessRaw(s)]
  BY DEF RawSlotStartBackoff, SlotInv, StartAccessRaw
<1>2. NeedsAccessRaw(s) \in BOOLEAN
  BY DEF NeedsAccessRaw
<1>3. Types'
  BY <1>1, <1>2 DEF Types, air, frames
<1>4. LastRps' = LastRps /\ since' = since /\ Clock'
  BY <1>1, SameMoment
<1>5. Phase(s)'
  <2>1. SUFFICES ASSUME follows[s], ~stray[s] PROVE Windowed(s)'
    BY <1>1 DEF Phase
  <2>2. Windowed(s) /\ Member(s) /\ Upcoming(s)
    BY <1>1, <2>1 DEF Phase, Over, Windowed, Excluded, UnderWay, Past
  <2>3. PICK begin \in Nat : begin = SlotStart(s, LastRps)
    BY <1>1, <2>2, MemberSlot
  <2>4. PICK d \in Nat \ {0} : d = SlotDuration(s, LastRps)
    BY <1>1, <2>2, MemberSlot
  <2>5. since = begin /\ slotStarts[s] = {0}
    <3>1. since \in Nat /\ 0 = begin - since
      BY <1>1, <2>2, <2>3 DEF Upcoming, Clock
    <3>2. QED
      BY <2>2, <2>3, <3>1 DEF Upcoming
  <2>6. slotStarts'[s] = {} /\ inside'[s] = d /\ AccessIfRaw'[s] /\ outside'[s] = outside[s]
    BY <1>1, <2>2, <2>4, <2>5 DEF Types, Upcoming
  <2>7. SlotEnd(s)' = begin + d /\ SlotStart(s, LastRps)' = begin /\ Member(s)'
    BY <1>4, <2>2, <2>3, <2>4 DEF SlotEnd, Member
  <2>8. UnderWay(s)'
    BY <1>4, <2>5, <2>6, <2>7 DEF UnderWay
  <2>9. QED
    BY <1>4, <2>2, <2>6, <2>7, <2>8 DEF Windowed
<1>6. ASSUME NEW t \in Stations, t # s PROVE Phase(t)'
  BY <1>1, <1>6, OtherStation DEF SlotInv, Types
<1>7. QED
  BY <1>3, <1>4, <1>5, <1>6 DEF SlotInv

\* The end of the slot, or of one of an earlier beacon: the queue is shut.
LEMMA InsideSlots ==
  ASSUME SlotInv, NEW s \in Stations, InsideBackoff(s)
  PROVE  SlotInv'
<1>1. /\ UNCHANGED <<air, associated, follows, stray, m_accessRequested, frames, outside,
                     slotStarts, m_currentslotDuration>>
      /\ Types /\ Clock /\ Phase(s) /\ inside[s] = 0
      /\ inside' = [inside EXCEPT ![s] = Idle]
      /\ AccessIfRaw' = [AccessIfRaw EXCEPT ![s] = FALSE]
  BY DEF InsideBackoff, SlotInv
<1>2. Types'
  BY <1>1, Spans DEF Types, air, frames
<1>3. LastRps' = LastRps /\ since' = since /\ Clock'
  BY <1>1, SameMoment
<1>4. Phase(s)'
  <2>1. inside'[s] = Idle /\ AccessIfRaw'[s] = FALSE
    BY <1>1 DEF Types
  <2>2. SUFFICES ASSUME follows[s], ~stray[s], Windowed(s) PROVE Windowed(s)'
    BY <1>1, <1>3 DEF Phase, Over
  <2>3. Member(s)' = Member(s) /\ SlotEnd(s)' = SlotEnd(s)
    BY <1>3 DEF Member, SlotEnd
  <2>4. CASE Member(s) /\ Upcoming(s)
    BY <1>1, <1>3, <2>1, <2>2, <2>3, <2>4 DEF Windowed, Upcoming
  <2>5. CASE Member(s) /\ UnderWay(s)
    <3>1. SlotEnd(s) \in Nat /\ since \in Nat /\ SlotEnd(s) - since = 0
      BY <1>1, <2>5, MemberSlot DEF UnderWay, Clock
    <3>2. Past(s)'
      BY <1>1, <1>3, <2>1, <2>3, <2>5, <3>1 DEF Past, UnderWay
    <3>3. QED
      BY <1>1, <1>3, <2>2, <2>3, <2>5, <3>2 DEF Windowed
  <2>6. CASE Member(s) /\ Past(s)
    BY <1>1, <2>6 DEF Past, Idle
  <2>7. CASE ~Member(s)
    BY <1>1, <1>3, <2>1, <2>2, <2>3, <2>7 DEF Windowed, Excluded
  <2>8. QED
    BY <2>2, <2>4, <2>5, <2>6, <2>7 DEF Windowed
<1>5. ASSUME NEW t \in Stations, t # s PROVE Phase(t)'
  BY <1>1, <1>5, OtherStation DEF SlotInv, Types
<1>6. QED
  BY <1>2, <1>3, <1>4, <1>5 DEF SlotInv

\* The windows are over when the last timer opens the queue again.
LEMMA OutsideSlots ==
  ASSUME SlotInv, NEW s \in Stations, OutsideRawStartBackoff(s)
  PROVE  SlotInv'
<1>1. /\ UNCHANGED <<air, associated, follows, stray, frames, slotStarts,
                     m_currentslotDuration>>
      /\ Types /\ Clock /\ Phase(s) /\ outside[s] = 0
      /\ outside' = [outside EXCEPT ![s] = Idle]
      /\ inside' = [inside EXCEPT ![s] = Idle]
      /\ AccessIfRaw' = [AccessIfRaw EXCEPT ![s] = TRUE]
      /\ m_accessRequested' = [m_accessRequested EXCEPT ![s] = TRUE /\ NeedsAccessRaw(s)]
  BY DEF OutsideRawStartBackoff, SlotInv, StartAccessRaw
<1>2. NeedsAccessRaw(s) \in BOOLEAN
  BY DEF NeedsAccessRaw
<1>3. Types'
  BY <1>1, <1>2, Spans DEF Types, air, frames
<1>4. LastRps' = LastRps /\ since' = since /\ Clock'
  BY <1>1, SameMoment
<1>5. Phase(s)'
  <2>1. SUFFICES ASSUME follows[s], ~stray[s], Windowed(s) PROVE Over(s)
    BY <1>1, <1>4 DEF Phase, Over
  <2>2. PICK length \in Nat : length = LengthOf(LastRps)
    BY <1>1, LastRpsIs
  <2>3. since = length /\ since \in Nat
    BY <1>1, <2>1, <2>2 DEF Windowed, Clock
  <2>4. slotStarts[s] = {}
    <3>1. Member(s) => SlotStart(s, LastRps) \in Nat /\ SlotStart(s, LastRps) < length
      BY <1>1, <2>2, MemberSlot
    <3>2. ~(Member(s) /\ Upcoming(s))
      BY <2>3, <3>1 DEF Upcoming
    <3>3. QED
      BY <2>1, <3>2 DEF Windowed, Excluded, UnderWay, Past
  <2>5. QED
    BY <2>2, <2>3, <2>4 DEF Over
<1>6. ASSUME NEW t \in Stations, t # s PROVE Phase(t)'
  BY <1>1, <1>6, OtherStation DEF SlotInv, Types
<1>7. QED
  BY <1>3, <1>4, <1>5, <1>6 DEF SlotInv

\* Time passes when no timer is due.
LEMMA TickSlots ==
  ASSUME SlotInv, Tick
  PROVE  SlotInv'
<1>1. /\ UNCHANGED <<RpsIndex, late, associated, follows, stray, AccessIfRaw,
                     m_accessRequested, current, queue, m_currentslotDuration>>
      /\ next > 0 /\ next' = next - 1 /\ since' = since + 1
      /\ outside' = [s \in Stations |-> Elapse(outside[s])]
      /\ inside' = [s \in Stations |-> Elapse(inside[s])]
      /\ slotStarts' = [s \in Stations |-> {start - 1 : start \in slotStarts[s]}]
      /\ \A s \in Stations : outside[s] # 0 /\ inside[s] # 0 /\ 0 \notin slotStarts[s]
      /\ Types /\ Clock
  BY DEF Tick, Settled, Due, SlotInv, access, frames
<1>2. Types'
  <2>1. \A x \in Span : x # 0 => Elapse(x) \in Span
    BY Spans DEF Elapse
  <2>2. outside' \in [Stations -> Span] /\ inside' \in [Stations -> Span]
    BY <1>1, <2>1 DEF Types
  <2>3. slotStarts' \in [Stations -> SUBSET (Span \ {Idle})]
    <3>1. ASSUME NEW s \in Stations, NEW x \in slotStarts[s]
          PROVE  x - 1 \in Span \ {Idle}
      BY <1>1, Spans DEF Types
    <3>2. QED
      BY <1>1, <3>1
  <2>4. QED
    BY <1>1, <2>2, <2>3 DEF Types
<1>3. Clock' /\ since \in Nat
  BY <1>1, Constants DEF Clock
<1>4. LastRps' = LastRps
  BY <1>1 DEF LastRps
<1>5. ASSUME NEW s \in Stations PROVE Phase(s)'
  <2>1. SUFFICES ASSUME follows[s], ~stray[s] PROVE Windowed(s)' \/ Over(s)'
    BY <1>1 DEF Phase
  <2>2. PICK length \in Nat : length = LengthOf(LastRps)
    BY <1>1, LastRpsIs
  <2>3. CASE Over(s)
    BY <1>1, <1>3, <1>4, <2>2, <2>3 DEF Over
  <2>4. CASE Windowed(s)
    <3>1. outside[s] = length - since /\ since < length
      BY <1>1, <1>3, <2>2, <2>4 DEF Windowed
    <3>2. outside'[s] = length - since' /\ since' <= length
      BY <1>1, <1>3, <3>1 DEF Elapse, Idle
    <3>3. Member(s)' = Member(s) /\ SlotEnd(s)' = SlotEnd(s)
      BY <1>4 DEF Member, SlotEnd
    <3>4. CASE ~Member(s)
      <4>1. Excluded(s)'
        BY <1>1, <2>4, <3>4 DEF Windowed, Excluded
      <4>2. QED
        BY <1>4, <2>2, <3>2, <3>3, <3>4, <4>1 DEF Windowed
    <3>5. CASE Member(s)
      <4>1. PICK begin \in Nat : begin = SlotStart(s, LastRps)
        BY <1>1, <3>5, MemberSlot
      <4>2. PICK end \in Nat : end = SlotEnd(s)
        BY <1>1, <3>5, MemberSlot
      <4>3. ASSUME Upcoming(s) PROVE Upcoming(s)'
        <5>1. since < begin /\ slotStarts[s] = {begin - since}
          BY <1>1, <1>3, <4>1, <4>3 DEF Upcoming
        <5>2. slotStarts'[s] = {begin - since'} /\ since' <= begin
          BY <1>1, <1>3, <5>1
        <5>3. QED
          BY <1>1, <1>4, <4>1, <4>3, <5>2 DEF Upcoming
      <4>4. ASSUME UnderWay(s) PROVE UnderWay(s)'
        <5>1. inside[s] = end - since /\ since >= begin /\ since < end
          BY <1>1, <1>3, <4>1, <4>2, <4>4 DEF UnderWay
        <5>2. inside'[s] = end - since' /\ since' \in begin .. end
          BY <1>1, <1>3, <5>1 DEF Elapse, Idle
        <5>3. QED
          BY <1>1, <1>4, <3>3, <4>1, <4>2, <4>4, <5>2 DEF UnderWay
      <4>5. ASSUME Past(s) PROVE Past(s)'
        <5>1. since' >= end
          BY <1>1, <1>3, <4>2, <4>5 DEF Past
        <5>2. QED
          BY <1>1, <3>3, <4>2, <4>5, <5>1 DEF Past, Elapse
      <4>6. Upcoming(s)' \/ UnderWay(s)' \/ Past(s)'
        BY <2>4, <3>5, <4>3, <4>4, <4>5 DEF Windowed
      <4>7. QED
        BY <1>4, <2>2, <3>2, <3>3, <3>5, <4>6 DEF Windowed
    <3>6. QED
      BY <3>4, <3>5
  <2>5. QED
    BY <2>1, <2>3, <2>4, <1>1 DEF Phase, SlotInv
<1>6. QED
  BY <1>2, <1>3, <1>5 DEF SlotInv

\* What a station makes of a beacon.
Reply == [allowed : BOOLEAN, asks : BOOLEAN, outside : Span,
          starts : SUBSET (Span \ {Idle}), follows : BOOLEAN]

LEMMA ReplyType ==
  ASSUME Types, NEW s \in Stations, NEW i \in 1 .. Len(Rpsset), NEW buffering,
         NEW r, r = Heard(s, Rpsset[i], s \in buffering) \/ r = Missed(s)
  PROVE  r \in Reply
<1>1. PICK rps \in Seq(Assignments) : rps = Rpsset[i]
  BY Constants
<1>2. LengthOf(rps) \in Nat /\ LengthOf(rps) \in Span /\ Idle \in Span
  <2>1. LengthOf(rps) \in 0 .. LengthOf(rps) /\ LengthOf(rps) \in Nat
    BY <1>1, Constants
  <2>2. QED
    BY <1>1, <2>1, Spans
<1>3. InGroup(s, rps) => SlotStart(s, rps) \in Span \ {Idle}
  <2>1. SUFFICES ASSUME InGroup(s, rps) PROVE SlotStart(s, rps) \in 0 .. LengthOf(rps)
    BY <1>1, Spans
  <2>2. QED
    BY <1>2, <2>1, SlotFits
<1>4. /\ AccessIfRaw[s] \in BOOLEAN /\ m_accessRequested[s] \in BOOLEAN
      /\ outside[s] \in Span
  BY DEF Types
<1>5. CASE r = Missed(s)
  BY <1>2, <1>4, <1>5 DEF Missed, Reply
<1>6. CASE r = Heard(s, rps, s \in buffering)
  <2>1. (Queue = "Dca" \/ AccessIfRaw[s]) \in BOOLEAN
    OBVIOUS
  <2>2. QED
    BY <1>2, <1>3, <1>4, <1>6, <2>1 DEF Heard, Reply
<1>7. QED
  BY <1>1, <1>5, <1>6

LEMMA BeaconSlots ==
  ASSUME SlotInv, SendOneBeacon
  PROVE  SlotInv'
<1>1. PICK rps : rps = Rpsset[RpsIndex]
  OBVIOUS
<1>2. /\ Types /\ Clock /\ RpsIndex \in 1 .. Len(Rpsset)
      /\ rps \in Seq(Assignments) /\ LengthOf(rps) \in Nat
  BY <1>1, Constants DEF SlotInv, Types
<1>3. PICK hearing \in SUBSET Stations, buffering \in SUBSET Stations :
        LET After == [s \in Stations |->
                        IF s \in hearing THEN Heard(s, Rpsset[RpsIndex], s \in buffering)
                                         ELSE Missed(s)]
        IN  /\ AccessIfRaw' = [s \in Stations |-> After[s].allowed]
            /\ m_accessRequested' = [s \in Stations |-> After[s].asks]
            /\ outside' = [s \in Stations |-> After[s].outside]
            /\ slotStarts' = [s \in Stations |-> slotStarts[s] \cup After[s].starts]
            /\ follows' = [s \in Stations |-> After[s].follows]
            /\ stray' = [s \in Stations |-> slotStarts[s] # {}]
            /\ m_currentslotDuration' = [s \in Stations |->
                 IF s \in hearing /\ InGroup(s, Rpsset[RpsIndex])
                   THEN SlotDuration(s, Rpsset[RpsIndex]) ELSE m_currentslotDuration[s]]
  BY DEF SendOneBeacon
<1>4. PICK After : After = [s \in Stations |->
                              IF s \in hearing THEN Heard(s, rps, s \in buffering)
                                               ELSE Missed(s)]
  OBVIOUS
<1>5. /\ AccessIfRaw' = [s \in Stations |-> After[s].allowed]
      /\ m_accessRequested' = [s \in Stations |-> After[s].asks]
      /\ outside' = [s \in Stations |-> After[s].outside]
      /\ slotStarts' = [s \in Stations |-> slotStarts[s] \cup After[s].starts]
      /\ follows' = [s \in Stations |-> After[s].follows]
      /\ stray' = [s \in Stations |-> slotStarts[s] # {}]
      /\ m_currentslotDuration' = [s \in Stations |->
           IF s \in hearing /\ InGroup(s, rps)
             THEN SlotDuration(s, rps) ELSE m_currentslotDuration[s]]
  BY <1>1, <1>3, <1>4
<1>6. UNCHANGED <<associated, current, queue, inside>> /\ since' = 0
  BY DEF SendOneBeacon, frames
<1>7. \A s \in Stations : After[s] \in Reply
  <2> SUFFICES ASSUME NEW s \in Stations PROVE After[s] \in Reply
    OBVIOUS
  <2>1. After[s] = Heard(s, rps, s \in buffering) \/ After[s] = Missed(s)
    BY <1>4
  <2>2. QED
    BY <1>1, <1>2, <2>1, ReplyType
<1>8. \A s \in Stations : InGroup(s, rps) => SlotDuration(s, rps) \in Span \ {Idle, 0}
  <2> SUFFICES ASSUME NEW s \in Stations, InGroup(s, rps)
               PROVE  SlotDuration(s, rps) \in Span \ {Idle, 0}
    OBVIOUS
  <2>1. /\ SlotStart(s, rps) \in Nat /\ SlotDuration(s, rps) \in Nat \ {0}
        /\ SlotStart(s, rps) + SlotDuration(s, rps) <= LengthOf(rps)
    BY <1>2, SlotFits
  <2>2. SlotDuration(s, rps) \in 0 .. LengthOf(rps) /\ SlotDuration(s, rps) # 0
    BY <1>2, <2>1
  <2>3. QED
    BY <1>1, <1>2, <2>2, Spans
<1>9. RpsIndex' \in 1 .. Len(Rpsset) /\ LastRps' = rps
  <2>1. /\ RpsIndex' = 1 + (RpsIndex % Len(Rpsset)) /\ RpsIndex \in 1 .. Len(Rpsset)
        /\ Len(Rpsset) \in Nat \ {0}
    BY <1>2, Constants DEF SendOneBeacon, Types
  <2>2. CASE RpsIndex = Len(Rpsset)
    <3>1. RpsIndex % Len(Rpsset) = 0
      BY <2>1, <2>2
    <3>2. RpsIndex' = 1
      BY <2>1, <3>1
    <3>3. QED
      BY <1>1, <2>1, <2>2, <3>2 DEF LastRps
  <2>3. CASE RpsIndex # Len(Rpsset)
    <3>1. RpsIndex % Len(Rpsset) = RpsIndex
      BY <2>1, <2>3
    <3>2. RpsIndex' = 1 + RpsIndex /\ RpsIndex' # 1 /\ RpsIndex' - 1 = RpsIndex
      BY <2>1, <3>1
    <3>3. RpsIndex' \in 1 .. Len(Rpsset)
      BY <2>1, <2>3, <3>2
    <3>4. QED
      BY <1>1, <3>2, <3>3 DEF LastRps
  <2>4. QED
    BY <2>2, <2>3
<1>10. Types'
  <2>1. /\ AccessIfRaw' \in [Stations -> BOOLEAN]
        /\ m_accessRequested' \in [Stations -> BOOLEAN]
        /\ follows' \in [Stations -> BOOLEAN] /\ outside' \in [Stations -> Span]
        /\ stray' \in [Stations -> BOOLEAN]
    BY <1>5, <1>7 DEF Reply
  <2>2. slotStarts' \in [Stations -> SUBSET (Span \ {Idle})]
    BY <1>2, <1>5, <1>7 DEF Reply, Types
  <2>3. m_currentslotDuration' \in [Stations -> Span \ {Idle, 0}]
    BY <1>2, <1>5, <1>8 DEF Types
  <2>4. QED
    BY <1>2, <1>6, <1>9, <2>1, <2>2, <2>3 DEF Types
<1>11. Clock'
  <2>1. PICK before \in 0 .. Jitter : before = late
    BY <1>2 DEF Clock
  <2>2. PICK after \in 0 .. Jitter : after = late'
    BY DEF SendOneBeacon
  <2>3. PICK wait : wait = Interval - before + after
    OBVIOUS
  <2>4. Jitter \in Nat /\ Interval \in Nat /\ Jitter <= Interval
    BY Constants
  <2>5. wait \in Nat /\ wait <= Interval + Jitter
    BY <2>3, <2>4
  <2>6. next' = wait /\ late' \in 0 .. Jitter /\ since' = 0
    BY <2>1, <2>2, <2>3 DEF SendOneBeacon
  <2>7. QED
    BY <2>4, <2>5, <2>6 DEF Clock
<1>12. ASSUME NEW s \in Stations PROVE Phase(s)'
  <2>1. SUFFICES ASSUME After[s].follows, slotStarts[s] = {} PROVE Windowed(s)'
    BY <1>5 DEF Phase
  <2>2. After[s] = Heard(s, rps, s \in buffering) /\ s \in hearing
    BY <1>4, <2>1 DEF Missed
  <2>3. /\ After[s].outside = LengthOf(rps) /\ After[s].allowed = FALSE
        /\ IF InGroup(s, rps) /\ ~Paged(rps)
             THEN After[s].starts = {SlotStart(s, rps)} ELSE After[s].starts = {}
    BY <2>1, <2>2 DEF Heard
  <2>4. /\ outside'[s] = LengthOf(rps) /\ AccessIfRaw'[s] = FALSE
        /\ slotStarts'[s] = After[s].starts
        /\ InGroup(s, rps) => m_currentslotDuration'[s] = SlotDuration(s, rps)
    BY <1>5, <2>1, <2>2, <2>3
  <2>5. Member(s)' = (InGroup(s, rps) /\ ~Paged(rps))
    BY <1>9 DEF Member
  <2>6. outside'[s] = LengthOf(rps) - since' /\ since' <= LengthOf(rps)
    BY <1>2, <1>6, <2>4
  <2>7. CASE InGroup(s, rps) /\ ~Paged(rps)
    <3>1. PICK begin \in Nat : begin = SlotStart(s, rps)
      BY <1>2, <2>7, SlotFits
    <3>2. slotStarts'[s] = {begin - since'} /\ since' <= begin
      BY <1>6, <2>3, <2>4, <2>7, <3>1
    <3>3. Upcoming(s)'
      BY <1>9, <2>4, <2>7, <3>1, <3>2 DEF Upcoming
    <3>4. QED
      BY <1>9, <2>5, <2>6, <2>7, <3>3 DEF Windowed
  <2>8. CASE ~(InGroup(s, rps) /\ ~Paged(rps))
    <3>1. Excluded(s)'
      BY <2>3, <2>4, <2>8 DEF Excluded
    <3>2. QED
      BY <1>9, <2>5, <2>6, <2>8, <3>1 DEF Windowed
  <2>9. QED
    BY <2>7, <2>8
<1>13. QED
  BY <1>10, <1>11, <1>12 DEF SlotInv

LEMMA NextSlots == SlotInv /\ [Next]_vars => SlotInv'
<1> SUFFICES ASSUME SlotInv, [Next]_vars PROVE SlotInv'
  OBVIOUS
<1>1. CASE SendOneBeacon
  BY <1>1, BeaconSlots
<1>2. CASE Tick
  BY <1>2, TickSlots
<1>3. ASSUME NEW s \in Stations, Station(s) PROVE SlotInv'
  BY <1>3, FramesSlots, SlotStartSlots, InsideSlots, OutsideSlots DEF Station
<1>4. CASE UNCHANGED vars
  <2>1. Types' /\ UNCHANGED air
    BY <1>4 DEF vars, air, access, frames, timers, Types, SlotInv
  <2>2. ASSUME NEW t \in Stations PROVE Phase(t)'
    BY <1>4, <2>1, OtherStation DEF SlotInv, vars, access, timers
  <2>3. QED
    BY <2>1, <2>2, SameMoment DEF SlotInv
<1>5. QED
  BY <1>1, <1>2, <1>3, <1>4 DEF Next

LEMMA SlotInductive == Spec => []SlotInv
BY InitSlots, NextSlots, PTL DEF Spec

\* The variables keep their ranges: a timer that runs has at most the length of
\* some windows to go, and no timer is passed over when time advances.
THEOREM TypeCorrect == Spec => []TypeOK
<1>1. ASSUME SlotInv PROVE TypeOK
  <2>1. Types /\ Clock /\ Interval \in Nat /\ Jitter \in Nat
    BY <1>1, Constants DEF SlotInv
  <2>2. since \in 0 .. Interval + Jitter
    BY <2>1 DEF Clock
  <2>3. {associated, follows, stray, AccessIfRaw, m_accessRequested}
          \subseteq [Stations -> BOOLEAN]
    BY <2>1 DEF Types
  <2>4. RpsIndex \in DOMAIN Rpsset
    <3>1. DOMAIN Rpsset = 1 .. Len(Rpsset)
      BY RawAssumption
    <3>2. QED
      BY <2>1, <3>1 DEF Types
  <2>5. slotStarts \in [Stations -> SUBSET Span]
    BY <2>1 DEF Types
  <2>6. QED
    BY <2>1, <2>2, <2>3, <2>4, <2>5 DEF TypeOK, Types, Clock
<1>2. QED
  BY <1>1, SlotInductive, PTL

\* While the windows of a beacon last, a station that follows them may transmit
\* in its own slot and at no other time: for any windows, also such as outlast
\* the beacon interval, whichever beacons are lost, and although the end of the
\* windows or of a slot of an earlier beacon is pending.
THEOREM OwnSlotOnly == Spec => []SlotsObserved
<1>1. ASSUME SlotInv PROVE SlotsObserved
  <2> SUFFICES ASSUME Settled, since < LengthOf(LastRps),
                      NEW s \in Stations, follows[s], ~stray[s]
               PROVE  AccessIfRaw[s] <=> OwnSlotNow(s)
    BY DEF SlotsObserved
  <2>1. Types /\ LastRps \in Seq(Assignments) /\ LengthOf(LastRps) \in Nat /\ since \in Nat
    BY <1>1, LastRpsIs DEF SlotInv, Clock
  <2>2. inside[s] # 0 /\ 0 \notin slotStarts[s]
    BY DEF Settled, Due
  <2>3. Windowed(s)
    BY <1>1, <2>1 DEF SlotInv, Phase, Over
  <2>4. CASE ~Member(s)
    <3>1. ~AccessIfRaw[s]
      BY <2>3, <2>4 DEF Windowed, Excluded
    <3>2. ~OwnSlotNow(s)
      BY <2>4 DEF Member, OwnSlotNow, InGroup
    <3>3. QED
      BY <3>1, <3>2
  <2>5. CASE Member(s)
    <3>1. PICK begin \in Nat : begin = SlotStart(s, LastRps)
      BY <2>1, <2>5, MemberSlot
    <3>2. PICK end \in Nat : end = SlotEnd(s)
      BY <2>1, <2>5, MemberSlot
    <3>3. OwnSlotNow(s) <=> since \in begin .. end - 1
      <4>1. InGroup(s, LastRps) /\ ~Paged(LastRps)
        BY <2>5 DEF Member
      <4>2. PICK d \in Nat : d = SlotDuration(s, LastRps)
        BY <2>1, <2>5, MemberSlot
      <4>3. end = begin + d
        BY <3>1, <3>2, <4>2 DEF SlotEnd
      <4>4. OwnSlotNow(s) <=> since \in begin .. begin + d - 1
        BY <2>1, <3>1, <4>1, <4>2, OwnSlotIs
      <4>5. QED
        BY <4>3, <4>4
    <3>4. CASE Upcoming(s)
      <4>1. since < begin
        BY <2>1, <2>2, <3>1, <3>4 DEF Upcoming
      <4>2. QED
        BY <2>1, <3>3, <3>4, <4>1 DEF Upcoming
    <3>5. CASE UnderWay(s)
      <4>1. since \in begin .. end /\ end - since # 0
        BY <2>2, <3>1, <3>2, <3>5 DEF UnderWay
      <4>2. QED
        BY <2>1, <3>3, <3>5, <4>1 DEF UnderWay
    <3>6. CASE Past(s)
      BY <2>1, <3>2, <3>3, <3>6 DEF Past
    <3>7. QED
      BY <2>3, <2>5, <3>4, <3>5, <3>6 DEF Windowed
  <2>6. QED
    BY <2>4, <2>5
<1>2. QED
  BY <1>1, SlotInductive, PTL
=============================================================================
