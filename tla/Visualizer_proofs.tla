--------------------------- MODULE Visualizer_proofs ---------------------------
(* What holds of the two threads of the visualizer for every number of      *)
(* timeouts, every sample period and every number of clicks: the calls of   *)
(* update_model and the nested callbacks are bounded, and so is what is     *)
(* simulated after a pause was asked for.                                   *)
EXTENDS VisualizerHistory, SequenceTheorems, FiniteSetTheorems, TLAPS

-----------------------------------------------------------------------------
(* The stack of callbacks                                                  *)

Places == {"try", "spin", "end", "model", "join"}
CallFrames == [at : Places, timer : Timers \cup {None}, messages : BOOLEAN]

\* Where the innermost callback is, if there is one.
Upper(frames) == IF frames = <<>> THEN "loop" ELSE frames[Len(frames)].at
\* The timeouts that are being dispatched.
Running(frames) == {frames[i].timer : i \in DOMAIN frames} \ {None}
One(condition) == IF condition THEN 1 ELSE 0

\* Only the busy wait of update_view_timeout lets another callback start.
Nested(frames) ==
  /\ frames \in Seq(CallFrames)
  /\ \A i \in 1 .. Len(frames) :
       /\ i # Len(frames) => frames[i].at = "spin"
       /\ frames[i].timer = None <=> frames[i].at \in {"model", "join"}

\* There is a frame for each timeout and one more for update_model or _quit.
Shallow(frames) ==
  /\ IsFiniteSet(Running(frames))
  /\ Len(frames) <= Cardinality(Running(frames)) + One(Upper(frames) \in {"model", "join"})

LEMMA LastOf ==
  ASSUME NEW S, NEW q \in Seq(S), q # <<>>
  PROVE  /\ Len(q) \in Nat \ {0} /\ Len(q) \in 1 .. Len(q) /\ q[Len(q)] \in S
         /\ Len(q) \in DOMAIN q
OBVIOUS

\* u is q without its last element.
IsUnder(u, q) ==
  /\ Len(u) = Len(q) - 1 /\ Len(u) \in Nat
  /\ \A i \in DOMAIN u : i \in 1 .. Len(q) /\ i # Len(q) /\ u[i] = q[i]
  /\ \A i \in DOMAIN q : i \in DOMAIN u \/ i = Len(q)
  /\ DOMAIN u = 1 .. Len(u) /\ DOMAIN q = 1 .. Len(q)

LEMMA WithoutLast ==
  ASSUME NEW S, NEW q \in Seq(S), q # <<>>, NEW u, u = SubSeq(q, 1, Len(q) - 1)
  PROVE  u \in Seq(S) /\ IsUnder(u, q)
<1>1. PICK n : n = Len(q) - 1
  OBVIOUS
<1>2. n \in Nat /\ n + 1 = Len(q) /\ \A i \in 1 .. n : q[i] \in S
  BY <1>1, LastOf
<1>3. /\ u \in Seq(S) /\ Len(u) = n /\ \A i \in 1 .. n : u[i] = q[i]
  <2>1. /\ SubSeq(q, 1, n) \in Seq(S)
        /\ Len(SubSeq(q, 1, n)) = IF 1 <= n THEN n - 1 + 1 ELSE 0
        /\ \A i \in 1 .. n - 1 + 1 : SubSeq(q, 1, n)[i] = q[1 + i - 1]
    BY <1>2, SubSeqProperties
  <2>2. QED
    BY <1>1, <1>2, <2>1
<1>4. DOMAIN u = 1 .. n /\ DOMAIN q = 1 .. n + 1
  BY <1>2, <1>3
<1>5. QED
  BY <1>2, <1>3, <1>4 DEF IsUnder

LEMMA CallStack ==
  ASSUME NEW frames, Nested(frames), Shallow(frames), Upper(frames) \in {"loop", "spin"},
         NEW f \in CallFrames, f.timer = None <=> f.at \in {"model", "join"}
  PROVE  /\ Nested(Append(frames, f))
         /\ f.timer \notin Running(frames) => Shallow(Append(frames, f))
         /\ Upper(Append(frames, f)) = f.at
         /\ Running(Append(frames, f)) = Running(frames) \cup ({f.timer} \ {None})
<1>1. PICK more : more = Append(frames, f)
  OBVIOUS
<1>2. /\ more \in Seq(CallFrames) /\ Len(frames) \in Nat /\ Len(more) = Len(frames) + 1
      /\ \A i \in 1 .. Len(frames) : more[i] = frames[i]
      /\ more[Len(frames) + 1] = f
      /\ DOMAIN frames = 1 .. Len(frames) /\ DOMAIN more = 1 .. Len(frames) + 1
      /\ more # <<>> /\ (Len(frames) # 0 => frames # <<>>)
  BY <1>1, AppendProperties, EmptySeq DEF Nested
<1>3. Upper(more) = f.at
  BY <1>2 DEF Upper
<1>4. Nested(more)
  <2>1. ASSUME Len(frames) # 0 PROVE frames[Len(frames)].at = "spin"
    <3>1. frames # <<>> /\ frames[Len(frames)] \in CallFrames
      BY <1>2, <2>1, LastOf DEF Nested
    <3>2. frames[Len(frames)].at \in Places
      BY <3>1 DEF CallFrames
    <3>3. QED
      BY <3>1, <3>2 DEF Upper, Places
  <2>2. ASSUME NEW i \in 1 .. Len(more)
        PROVE  /\ i # Len(more) => more[i].at = "spin"
               /\ more[i].timer = None <=> more[i].at \in {"model", "join"}
    <3>1. CASE i = Len(more)
      BY <1>2, <3>1
    <3>2. CASE i # Len(more)
      <4>1. i \in 1 .. Len(frames) /\ more[i] = frames[i] /\ Len(frames) # 0
        BY <1>2, <3>2
      <4>2. CASE i = Len(frames)
        BY <2>1, <4>1, <4>2 DEF Nested
      <4>3. CASE i # Len(frames)
        BY <4>1, <4>3 DEF Nested
      <4>4. QED
        BY <4>2, <4>3
    <3>3. QED
      BY <3>1, <3>2
  <2>3. QED
    BY <1>2, <2>2 DEF Nested
<1>5. Running(more) = Running(frames) \cup ({f.timer} \ {None})
  BY <1>2 DEF Running
<1>6. ASSUME f.timer \notin Running(frames) PROVE Shallow(more)
  <2>1. CASE f.timer = None
    <3>1. Running(more) = Running(frames) /\ Upper(more) \in {"model", "join"}
      BY <1>3, <1>5, <2>1
    <3>2. Cardinality(Running(frames)) \in Nat
      BY FS_CardinalityType DEF Shallow
    <3>3. QED
      BY <1>2, <3>1, <3>2 DEF Shallow, One
  <2>2. CASE f.timer # None
    <3>1. Running(more) = Running(frames) \cup {f.timer}
      BY <1>5, <2>2
    <3>2. /\ IsFiniteSet(Running(more))
          /\ Cardinality(Running(more)) = Cardinality(Running(frames)) + 1
      BY <1>6, <3>1, FS_AddElement DEF Shallow
    <3>3. Cardinality(Running(frames)) \in Nat
      BY FS_CardinalityType DEF Shallow
    <3>4. QED
      BY <1>2, <3>2, <3>3 DEF Shallow, One
  <2>3. QED
    BY <2>1, <2>2
<1>7. QED
  BY <1>1, <1>3, <1>4, <1>5, <1>6

\* The callbacks under the innermost one.
LEMMA UnderStack ==
  ASSUME NEW frames, Nested(frames), Shallow(frames), frames # <<>>,
         NEW under, under = SubSeq(frames, 1, Len(frames) - 1)
  PROVE  /\ Nested(under) /\ Shallow(under) /\ Upper(under) \in {"loop", "spin"}
         /\ Running(under) \subseteq Running(frames)
         /\ Running(frames) = Running(under) \cup ({frames[Len(frames)].timer} \ {None})
<1>1. frames \in Seq(CallFrames) /\ Len(frames) \in Nat \ {0}
  BY LastOf DEF Nested
<1>2. /\ under \in Seq(CallFrames) /\ Len(under) = Len(frames) - 1 /\ Len(under) \in Nat
      /\ \A i \in DOMAIN under : i \in 1 .. Len(frames) /\ i # Len(frames)
                                 /\ under[i] = frames[i]
      /\ \A i \in DOMAIN frames : i \in DOMAIN under \/ i = Len(frames)
      /\ DOMAIN under = 1 .. Len(under) /\ DOMAIN frames = 1 .. Len(frames)
      /\ Len(frames) \in 1 .. Len(frames)
  <2>1. under \in Seq(CallFrames) /\ IsUnder(under, frames)
    BY <1>1, WithoutLast
  <2>2. Len(frames) \in 1 .. Len(frames)
    BY <1>1
  <2>3. QED
    BY <2>1, <2>2 DEF IsUnder
<1>3. \A i \in 1 .. Len(under) :
        /\ under[i].at = "spin"
        /\ under[i].timer = None <=> under[i].at \in {"model", "join"}
  BY <1>2 DEF Nested
<1>4. Nested(under) /\ Upper(under) \in {"loop", "spin"}
  <2>1. under # <<>> => Len(under) \in 1 .. Len(under)
    BY <1>2, LastOf
  <2>2. QED
    BY <1>2, <1>3, <2>1 DEF Nested, Upper
<1>5. Running(frames) = Running(under) \cup ({frames[Len(frames)].timer} \ {None})
  BY <1>2 DEF Running
<1>6. Shallow(under)
  <2>1. PICK t : t = frames[Len(frames)].timer
    OBVIOUS
  <2>2. IsFiniteSet(Running(under)) /\ Cardinality(Running(under)) \in Nat
    BY <1>5, FS_Subset, FS_CardinalityType DEF Shallow
  <2>3. CASE t = None
    <3>1. Running(frames) = Running(under)
      BY <1>5, <2>1, <2>3
    <3>2. QED
      BY <1>1, <1>2, <1>4, <2>2, <3>1 DEF Shallow, One
  <2>4. CASE t # None
    <3>1. Running(frames) = Running(under) \cup {t}
      BY <1>5, <2>1, <2>4
    <3>2. \/ Cardinality(Running(frames)) = Cardinality(Running(under))
          \/ Cardinality(Running(frames)) = Cardinality(Running(under)) + 1
      BY <2>2, <3>1, FS_AddElement
    <3>3. Upper(frames) \notin {"model", "join"}
      BY <1>1, <2>1, <2>4 DEF Nested, Upper
    <3>4. QED
      BY <1>1, <1>2, <1>4, <2>2, <3>2, <3>3 DEF Shallow, One
  <2>5. QED
    BY <2>3, <2>4
<1>7. QED
  BY <1>4, <1>5, <1>6

-----------------------------------------------------------------------------
(* The invariant                                                           *)

Types ==
  /\ active \in BOOLEAN /\ go \in BOOLEAN /\ quit \in BOOLEAN /\ over \in BOOLEAN
  /\ live \subseteq Timers /\ _update_timeout_id \in Timers \cup {None}
  /\ sample_period \in Periods
  /\ behind \in Nat /\ \E p \in Periods : behind <= p
  /\ idle \in Nat /\ clicks \in 0 .. MaxClicks
  /\ pc \in {"top", "wait", "clear", "test", "lock", "running", "ended"}
  /\ pause_messages \in BOOLEAN /\ samples \in {"none", "fresh", "read"}

\* Each call of update_model that waits was a go signal, and before that a callback
\* of the timer; such a callback starts only while no call waits.
Granted == {"test", "lock", "running"}
Flow == /\ pc = "clear" => go = TRUE
        /\ idle + One(go = TRUE) + One(pc \in Granted)
             + One(Upper(stack) \in {"try", "end"}) <= 3

\* A new timeout takes a click.
Sources == /\ IsFiniteSet(live \cup Running(stack))
           /\ Cardinality(live \cup Running(stack)) + clicks <= MaxClicks + 1

VInv == Types /\ Nested(stack) /\ Shallow(stack) /\ Flow /\ Sources

LEMMA CallStep ==
  ASSUME Nested(stack), Shallow(stack), InLoop, NEW f \in CallFrames,
         f.timer = None <=> f.at \in {"model", "join"}, f.timer \notin Running(stack),
         Call(f)
  PROVE  /\ Nested(stack') /\ Shallow(stack') /\ Upper(stack') = f.at
         /\ Upper(stack) \in {"loop", "spin"}
         /\ Running(stack') = Running(stack) \cup ({f.timer} \ {None})
<1>1. Upper(stack) \in {"loop", "spin"}
  BY DEF InLoop, At, Top, Upper
<1>2. QED
  BY <1>1, CallStack DEF Call

LEMMA ReturnStep ==
  ASSUME Nested(stack), Shallow(stack), stack # <<>>, Return
  PROVE  /\ Nested(stack') /\ Shallow(stack') /\ Upper(stack') \in {"loop", "spin"}
         /\ Running(stack') \subseteq Running(stack)
<1>1. PICK under : under = Under
  OBVIOUS
<1>2. /\ Nested(under) /\ Shallow(under) /\ Upper(under) \in {"loop", "spin"}
      /\ Running(stack) = Running(under) \cup ({Top.timer} \ {None})
  BY <1>1, UnderStack DEF Under, Top
<1>3. stack' = under
  BY <1>1 DEF Return
<1>4. QED
  BY <1>2, <1>3

LEMMA GotoStep ==
  ASSUME Nested(stack), Shallow(stack), stack # <<>>, Top.at \in {"try", "spin"},
         NEW f \in CallFrames, f.timer = Top.timer, f.at \in {"try", "spin", "end"}, Goto(f)
  PROVE  /\ Nested(stack') /\ Shallow(stack') /\ Upper(stack') = f.at
         /\ Running(stack') = Running(stack)
<1>1. PICK under : under = Under
  OBVIOUS
<1>2. /\ Nested(under) /\ Shallow(under) /\ Upper(under) \in {"loop", "spin"}
      /\ Running(stack) = Running(under) \cup ({Top.timer} \ {None})
  BY <1>1, UnderStack DEF Under, Top
<1>3. f.timer # None /\ f.at \notin {"model", "join"}
  <2>1. Top.timer = None <=> Top.at \in {"model", "join"}
    BY LastOf DEF Nested, Top
  <2>2. QED
    BY <2>1
<1>4. /\ Nested(stack') /\ Upper(stack') = f.at
      /\ Running(stack') = Running(under) \cup ({f.timer} \ {None})
  BY <1>1, <1>2, <1>3, CallStack DEF Goto
<1>5. Running(stack') = Running(stack)
  BY <1>2, <1>4
<1>6. Len(stack') = Len(stack)
  <2>1. Len(under) = Len(stack) - 1 /\ Len(under) \in Nat /\ Len(stack) \in Nat
    <3>1. stack \in Seq(CallFrames) /\ under = SubSeq(stack, 1, Len(stack) - 1)
      BY <1>1 DEF Nested, Under
    <3>2. IsUnder(under, stack) /\ Len(stack) \in Nat
      BY <3>1, WithoutLast, LastOf
    <3>3. QED
      BY <3>2 DEF IsUnder
  <2>2. Len(stack') = Len(under) + 1
    BY <1>1, <1>2, AppendProperties DEF Goto, Nested
  <2>3. QED
    BY <2>1, <2>2
<1>7. Shallow(stack')
  <2>1. Upper(stack) \notin {"model", "join"} /\ Upper(stack') \notin {"model", "join"}
    BY <1>3, <1>4 DEF Upper, Top
  <2>2. QED
    BY <1>5, <1>6, <2>1 DEF Shallow, One
<1>8. QED
  BY <1>4, <1>5, <1>7

\* The sources when the timers that are live or dispatched are no more than before,
\* or one more and a click less.
LEMMA FewerSources ==
  ASSUME Types, Sources, clicks' \in Nat, clicks' <= clicks,
         live' \cup Running(stack') \subseteq live \cup Running(stack)
  PROVE  Sources'
<1>1. /\ IsFiniteSet(live' \cup Running(stack'))
      /\ Cardinality(live' \cup Running(stack')) <= Cardinality(live \cup Running(stack))
      /\ Cardinality(live' \cup Running(stack')) \in Nat
      /\ Cardinality(live \cup Running(stack)) \in Nat
  BY FS_Subset, FS_CardinalityType DEF Sources
<1>2. QED
  BY <1>1, VisualizerAssumption DEF Sources, Types

LEMMA OneMoreSource ==
  ASSUME Types, Sources, clicks > 0, clicks' = clicks - 1, UNCHANGED stack, StartTimer
  PROVE  Sources'
<1>1. PICK t : live' = (live \ {_update_timeout_id}) \cup {t}
  BY DEF StartTimer
<1>2. PICK old, new : old = live \cup Running(stack) /\ new = live' \cup Running(stack')
  OBVIOUS
<1>3. IsFiniteSet(old) /\ Cardinality(old) \in Nat /\ Cardinality(old) + clicks <= MaxClicks + 1
  BY <1>2, FS_CardinalityType DEF Sources
<1>4. new \subseteq old \cup {t} /\ IsFiniteSet(old \cup {t})
      /\ \/ Cardinality(old \cup {t}) = Cardinality(old)
         \/ Cardinality(old \cup {t}) = Cardinality(old) + 1
  BY <1>1, <1>2, <1>3, FS_AddElement
<1>5. IsFiniteSet(new) /\ Cardinality(new) \in Nat
      /\ Cardinality(new) <= Cardinality(old \cup {t})
  BY <1>4, FS_Subset, FS_CardinalityType
<1>6. QED
  BY <1>2, <1>3, <1>4, <1>5, VisualizerAssumption DEF Sources, Types

-----------------------------------------------------------------------------
(* The user                                                                *)

LEMMA UserStep == ASSUME VInv, User PROVE VInv'
<1> USE DEF VInv
<1>1. clicks > 0 /\ clicks' = clicks - 1 /\ clicks' \in 0 .. MaxClicks /\ InLoop /\ idle = 0
  <2>1. clicks > 0 /\ clicks' = clicks - 1 /\ InLoop /\ idle = 0
    BY DEF User, PlayButton, SpeedChanged, Quit, UserEvent
  <2>2. clicks \in 0 .. MaxClicks
    BY DEF Types
  <2>3. QED
    BY <2>1, <2>2, VisualizerAssumption
<1>2. CASE PlayButton \/ SpeedChanged
  <2>1. UNCHANGED <<stack, idle, simulation>>
    BY <1>2 DEF PlayButton, SpeedChanged
  <2>2. Types'
    <3>1. /\ active' \in BOOLEAN /\ sample_period' \in Periods /\ over' \in BOOLEAN
          /\ live' \subseteq Timers /\ _update_timeout_id' \in Timers \cup {None}
      BY <1>2 DEF PlayButton, SpeedChanged, StartTimer, Fresh, Types
    <3>2. QED
      BY <1>1, <2>1, <3>1 DEF Types, simulation
  <2>3. Sources'
    <3>1. CASE StartTimer
      BY <1>1, <2>1, <3>1, OneMoreSource
    <3>2. CASE live' = live \ {_update_timeout_id}
      BY <1>1, <2>1, <3>2, FewerSources, VisualizerAssumption DEF Types
    <3>3. QED
      BY <1>2, <3>1, <3>2 DEF PlayButton, SpeedChanged
  <2>4. Nested(stack)' /\ Shallow(stack)' /\ Flow'
    BY <2>1 DEF Flow, simulation
  <2>5. QED
    BY <2>2, <2>3, <2>4
<1>3. CASE Quit
  <2> DEFINE f == Frame("join", None, FALSE)
  <2>1. f \in CallFrames /\ f.timer = None /\ f.at = "join" /\ Call(f)
    BY <1>3 DEF Quit, Frame, CallFrames, Places
  <2> HIDE DEF f
  <2>2. /\ Nested(stack') /\ Shallow(stack') /\ Upper(stack') = "join"
        /\ Running(stack') = Running(stack)
    <3>1. f.timer \notin Running(stack)
      BY <2>1 DEF Running
    <3>2. QED
      BY <1>1, <2>1, <3>1, CallStep
  <2>3. /\ live' = live \ {_update_timeout_id} /\ _update_timeout_id' = None
        /\ quit' = TRUE /\ go' = TRUE
        /\ UNCHANGED <<active, sample_period, idle, over, pc, behind, pause_messages, samples>>
    BY <1>3 DEF Quit
  <2>4. Types'
    BY <1>1, <2>3 DEF Types
  <2>5. Sources'
    <3>1. live' \cup Running(stack') \subseteq live \cup Running(stack)
      BY <2>2, <2>3
    <3>2. QED
      BY <1>1, <3>1, FewerSources, VisualizerAssumption DEF Types
  <2>6. Flow'
    BY <1>1, <2>2, <2>3 DEF Flow, One
  <2>7. QED
    BY <2>2, <2>4, <2>5, <2>6
<1>4. QED
  BY <1>2, <1>3 DEF User

-----------------------------------------------------------------------------
(* The thread of the simulation                                            *)

LEMMA SimStep == ASSUME VInv, Sim PROVE VInv'
<1> USE DEF VInv
<1>1. UNCHANGED <<stack, live, clicks>>
  BY DEF Sim, Loop, Wake, Clear, Test, Lock, RunUntil, user, loop
<1>2. Types'
  <2>1. CASE Loop \/ Wake \/ Clear \/ Test \/ Lock
    BY <2>1 DEF Loop, Wake, Clear, Test, Lock, user, loop, Thread, Types
  <2>2. CASE RunUntil
    <3>1. pause_messages' \in BOOLEAN
      BY <2>2 DEF RunUntil, Types
    <3>2. /\ pc' = "top" /\ samples' = "fresh" /\ idle' \in Nat
          /\ UNCHANGED <<user, over, clicks, go, quit>>
      BY <2>2 DEF RunUntil, Thread, Types
    <3>3. behind' \in Nat /\ \E p \in Periods : behind' <= p
      <4>1. behind' \in 0 .. behind /\ behind \in Nat
        BY <2>2 DEF RunUntil, Types
      <4>2. PICK p \in Periods : behind <= p
        BY DEF Types
      <4>3. p \in Nat
        BY VisualizerAssumption
      <4>4. behind' <= p
        BY <4>1, <4>2, <4>3
      <4>5. QED
        BY <4>1, <4>4
    <3>4. QED
      BY <3>1, <3>2, <3>3 DEF Types, user
  <2>3. QED
    BY <2>1, <2>2 DEF Sim
<1>3. Nested(stack)' /\ Shallow(stack)' /\ Sources'
  BY <1>1 DEF Sources
<1>4. Flow'
  <2>1. One(Upper(stack) \in {"try", "end"}) \in {0, 1}
    BY DEF One
  <2>2. CASE Loop \/ Wake \/ Clear \/ Test \/ Lock
    BY <1>1, <2>1, <2>2
    DEF Loop, Wake, Clear, Test, Lock, Thread, loop, Types, Flow, One, Granted
  <2>3. CASE RunUntil
    BY <1>1, <2>1, <2>3 DEF RunUntil, Thread, Types, Flow, One, Granted
  <2>4. QED
    BY <2>2, <2>3 DEF Sim
<1>5. QED
  BY <1>2, <1>3, <1>4

-----------------------------------------------------------------------------
(* The callbacks of the GUI                                                *)

LEMMA UpdateModelStep ==
  ASSUME VInv, Joined \/ UpdateModel \/ ReadSamples
  PROVE  VInv'
<1> USE DEF VInv
<1>1. /\ UNCHANGED <<active, live, _update_timeout_id, sample_period, clicks, pc, go, quit,
                    behind, pause_messages>>
      /\ idle' \in Nat /\ idle' <= idle /\ over' \in BOOLEAN
      /\ samples' \in {"none", "fresh", "read"}
  <2>1. CASE Joined
    BY <2>1 DEF Joined, user, simulation, Types
  <2>2. CASE UpdateModel
    BY <2>2 DEF UpdateModel, user, simulation, Types
  <2>3. CASE ReadSamples
    BY <2>3 DEF ReadSamples, user, Types
  <2>4. QED
    BY <2>1, <2>2, <2>3
<1>2. Types'
  BY <1>1 DEF Types
<1>3. /\ Nested(stack') /\ Shallow(stack') /\ Running(stack') \subseteq Running(stack)
      /\ Upper(stack') \notin {"try", "end"}
  <2>1. CASE UpdateModel
    <3> DEFINE f == Frame("model", None, FALSE)
    <3>1. f \in CallFrames /\ f.timer = None /\ f.at = "model" /\ Call(f) /\ InLoop
      BY <2>1 DEF UpdateModel, Frame, CallFrames, Places
    <3> HIDE DEF f
    <3>2. f.timer \notin Running(stack)
      BY <3>1 DEF Running
    <3>3. /\ Nested(stack') /\ Shallow(stack') /\ Upper(stack') = f.at
          /\ Running(stack') = Running(stack) \cup ({f.timer} \ {None})
      BY <3>1, <3>2, CallStep
    <3>4. QED
      BY <3>1, <3>3
  <2>2. CASE Joined \/ ReadSamples
    BY <2>2, ReturnStep DEF Joined, ReadSamples, At
  <2>3. QED
    BY <2>1, <2>2
<1>4. Sources'
  BY <1>1, <1>3, FewerSources, VisualizerAssumption DEF Types
<1>5. Flow'
  <2>1. /\ One(Upper(stack) \in {"try", "end"}) \in {0, 1}
        /\ One(go = TRUE) \in {0, 1} /\ One(pc \in Granted) \in {0, 1}
        /\ One(Upper(stack') \in {"try", "end"}) = 0
    BY <1>3 DEF One
  <2>2. idle + One(go = TRUE) + One(pc \in Granted) <= 3
    BY <2>1 DEF Flow, Types
  <2>3. idle' + One(go = TRUE) + One(pc \in Granted) <= 3
    BY <1>1, <2>1, <2>2 DEF Types
  <2>4. QED
    BY <1>1, <2>1, <2>3 DEF Flow
<1>6. QED
  BY <1>2, <1>3, <1>4, <1>5

LEMMA TimerFiresStep == ASSUME VInv, TimerFires PROVE VInv'
<1> USE DEF VInv
<1>1. /\ UNCHANGED <<active, live, _update_timeout_id, sample_period, idle, over, clicks, pc,
                    go, quit, behind, pause_messages, samples>>
      /\ idle = 0 /\ InLoop
  BY DEF TimerFires, user, simulation
<1>2. PICK t \in live \ Dispatching : Call(Frame("try", t, FALSE))
  BY DEF TimerFires
<1>3. PICK f : f = Frame("try", t, FALSE)
  OBVIOUS
<1>4. f \in CallFrames /\ f.timer = t /\ t \in live /\ t # None /\ f.at = "try" /\ Call(f)
  BY <1>2, <1>3, VisualizerAssumption DEF Frame, CallFrames, Places, Types
<1>5. /\ Nested(stack') /\ Shallow(stack') /\ Upper(stack') = "try"
      /\ Upper(stack) \in {"loop", "spin"}
      /\ Running(stack') = Running(stack) \cup {t}
  <2>1. f.timer \notin Running(stack)
    BY <1>2, <1>4 DEF Running, Dispatching
  <2>2. /\ Nested(stack') /\ Shallow(stack') /\ Upper(stack') = f.at
        /\ Upper(stack) \in {"loop", "spin"}
        /\ Running(stack') = Running(stack) \cup ({f.timer} \ {None})
    BY <1>1, <1>4, <2>1, CallStep
  <2>3. QED
    BY <1>4, <2>2
<1>6. Types'
  BY <1>1 DEF Types
<1>7. Sources'
  <2>1. live' \cup Running(stack') \subseteq live \cup Running(stack)
    BY <1>1, <1>4, <1>5
  <2>2. QED
    BY <1>1, <2>1, FewerSources, VisualizerAssumption DEF Types
<1>8. Flow'
  BY <1>1, <1>5 DEF Flow, One
<1>9. QED
  BY <1>5, <1>6, <1>7, <1>8

LEMMA UpdateViewStep == ASSUME VInv, Spin \/ Retry \/ UpdateView PROVE VInv'
<1> USE DEF VInv
<1>1. stack # <<>> /\ Top.at \in {"try", "spin"}
  BY DEF Spin, Retry, UpdateView, At
<1>2. Top \in CallFrames
  BY <1>1, LastOf DEF Top, Nested
<1>3. PICK f : /\ f \in {[Top EXCEPT !.at = "spin"], [Top EXCEPT !.at = "try"],
                         Frame("end", Top.timer, pause_messages)}
               /\ Goto(f)
               /\ Spin \/ UpdateView => Top.at = "try"
               /\ Retry => Top.at = "spin" /\ idle = 0
  BY DEF Spin, Retry, UpdateView, At
<1>4. f \in CallFrames /\ f.timer = Top.timer /\ f.at \in {"try", "spin", "end"}
  BY <1>2, <1>3 DEF CallFrames, Places, Frame, Types
<1>5. /\ Nested(stack') /\ Shallow(stack') /\ Upper(stack') = f.at
      /\ Running(stack') = Running(stack)
  BY <1>1, <1>3, <1>4, GotoStep
<1>6. /\ UNCHANGED <<active, live, _update_timeout_id, sample_period, idle, over, clicks, pc,
                    go, quit, samples>>
      /\ \/ UNCHANGED <<behind, pause_messages>>
         \/ behind' = sample_period /\ pause_messages' = FALSE
  BY DEF Spin, Retry, UpdateView, user, simulation
<1>7. Types'
  <2>1. CASE UNCHANGED <<behind, pause_messages>>
    BY <1>6, <2>1 DEF Types
  <2>2. CASE behind' = sample_period /\ pause_messages' = FALSE
    <3>1. sample_period \in Nat /\ sample_period \in Periods
      BY VisualizerAssumption DEF Types
    <3>2. behind' \in Nat /\ \E p \in Periods : behind' <= p
      BY <2>2, <3>1
    <3>3. QED
      BY <1>6, <2>2, <3>2 DEF Types
  <2>3. QED
    BY <1>6, <2>1, <2>2
<1>8. Sources'
  BY <1>5, <1>6, FewerSources, VisualizerAssumption DEF Types
<1>9. Flow'
  <2>1. Upper(stack) = Top.at
    BY <1>1 DEF Upper, Top
  <2>2. /\ One(Upper(stack') \in {"try", "end"}) \in {0, 1}
        /\ One(go = TRUE) \in {0, 1} /\ One(pc \in Granted) \in {0, 1}
    BY DEF One
  <2>3. CASE Spin \/ UpdateView
    <3>1. One(Upper(stack) \in {"try", "end"}) = 1
      BY <1>3, <2>1, <2>3 DEF One
    <3>2. idle + One(go = TRUE) + One(pc \in Granted)
            + One(Upper(stack') \in {"try", "end"}) <= 3
      BY <2>2, <3>1 DEF Flow, Types
    <3>3. QED
      BY <1>6, <3>2 DEF Flow
  <2>4. CASE Retry
    <3>1. idle + One(go = TRUE) + One(pc \in Granted)
            + One(Upper(stack') \in {"try", "end"}) <= 3
      BY <1>3, <2>2, <2>4
    <3>2. QED
      BY <1>6, <3>1 DEF Flow
  <2>5. QED
    BY <2>3, <2>4
<1>10. QED
  BY <1>5, <1>7, <1>8, <1>9

LEMMA EndTimeoutStep == ASSUME VInv, EndTimeout PROVE VInv'
<1> USE DEF VInv
<1>1. stack # <<>> /\ Upper(stack) = "end" /\ Return
  BY DEF EndTimeout, At, Upper, Top
<1>2. /\ Nested(stack') /\ Shallow(stack') /\ Upper(stack') \in {"loop", "spin"}
      /\ Running(stack') \subseteq Running(stack)
  BY <1>1, ReturnStep
<1>3. /\ UNCHANGED <<sample_period, idle, over, clicks, pc, quit, behind, pause_messages,
                    samples>>
      /\ live' \subseteq live /\ _update_timeout_id' \in {_update_timeout_id, None}
      /\ go' = TRUE \/ go' = go
  BY DEF EndTimeout
<1>4. active' \in BOOLEAN
  BY DEF EndTimeout, Types
<1>5. Types'
  <2>1. go' \in BOOLEAN
    BY <1>3 DEF Types
  <2>2. QED
    BY <1>3, <1>4, <2>1 DEF Types
<1>6. Sources'
  <2>1. live' \cup Running(stack') \subseteq live \cup Running(stack)
    BY <1>2, <1>3
  <2>2. QED
    BY <1>3, <2>1, FewerSources, VisualizerAssumption DEF Types
<1>7. Flow'
  BY <1>1, <1>2, <1>3 DEF Flow, One, Types
<1>8. QED
  BY <1>2, <1>5, <1>6, <1>7

-----------------------------------------------------------------------------
(* The theorems                                                            *)

LEMMA InitVInv == Init => VInv
<1> SUFFICES ASSUME Init PROVE VInv
  OBVIOUS
<1>1. Types
  <2>1. PICK t \in Timers : live = {t} /\ _update_timeout_id = t
    BY DEF Init
  <2>2. live \subseteq Timers /\ _update_timeout_id \in Timers \cup {None}
    BY <2>1
  <2>3. clicks \in 0 .. MaxClicks /\ idle \in Nat
    BY VisualizerAssumption DEF Init
  <2>4. behind \in Nat /\ \E p \in Periods : behind <= p
    <3>1. PICK p \in Periods : p \in Nat
      BY VisualizerAssumption
    <3>2. behind = 0
      BY DEF Init
    <3>3. behind <= p
      BY <3>1, <3>2
    <3>4. QED
      BY <3>2, <3>3
  <2>5. QED
    BY <2>2, <2>3, <2>4 DEF Init, Types
<1>2. stack = <<>> /\ Running(stack) = {} /\ Len(stack) = 0
  BY DEF Init, Running
<1>3. Nested(stack) /\ Shallow(stack)
  <2>1. IsFiniteSet({}) /\ Cardinality({}) = 0
    BY FS_EmptySet
  <2>2. QED
    BY <1>2, <2>1 DEF Nested, Shallow, One, Upper
<1>4. Flow
  BY <1>2 DEF Init, Flow, One, Granted, Upper
<1>5. Sources
  <2>1. PICK t : live = {t}
    BY DEF Init
  <2>2. live \cup Running(stack) = {t} /\ clicks = MaxClicks
    BY <1>2, <2>1 DEF Init
  <2>3. QED
    BY <2>2, FS_Singleton, VisualizerAssumption DEF Sources
<1>6. QED
  BY <1>1, <1>3, <1>4, <1>5 DEF VInv

LEMMA NextVInv == VInv /\ [Next]_vars => VInv'
<1> SUFFICES ASSUME VInv, [Next]_vars PROVE VInv'
  OBVIOUS
<1>1. CASE UNCHANGED vars
  BY <1>1 DEF VInv, Types, Flow, Sources, vars, user, loop, simulation
<1>2. CASE Gui
  BY <1>2, UpdateModelStep, TimerFiresStep, UpdateViewStep, EndTimeoutStep DEF Gui
<1>3. QED
  BY <1>1, <1>2, UserStep, SimStep DEF Next

\* The variables keep their types; the callbacks on the stack are bounded by the
\* clicks, and no more than three calls of update_model ever wait.
THEOREM TypeCorrect == Spec => []TypeOK
<1>1. VInv => TypeOK
  <2> SUFFICES ASSUME VInv PROVE TypeOK
    OBVIOUS
  <2>1. idle \in 0 .. 3
    BY DEF VInv, Flow, One, Types
  <2>2. Len(stack) <= MaxClicks + 2
    <3>1. /\ Cardinality(Running(stack)) <= Cardinality(live \cup Running(stack))
          /\ Cardinality(Running(stack)) \in Nat
          /\ Cardinality(live \cup Running(stack)) \in Nat
      BY FS_Subset, FS_CardinalityType DEF VInv, Sources
    <3>2. Cardinality(live \cup Running(stack)) <= MaxClicks + 1
      BY <3>1, VisualizerAssumption DEF VInv, Sources, Types
    <3>3. Len(stack) \in Nat /\ Len(stack) <= Cardinality(Running(stack)) + 1
      BY <3>1 DEF VInv, Nested, Shallow, One
    <3>4. QED
      BY <3>1, <3>2, <3>3, VisualizerAssumption
  <2>3. \A i \in DOMAIN stack : stack[i] \in CallFrames
    BY ElementOfSeq DEF VInv, Nested
  <2>4. QED
    BY <2>1, <2>2, <2>3 DEF VInv, Types, TypeOK, CallFrames, Places
<1>2. QED
  BY InitVInv, NextVInv, <1>1, PTL DEF Spec

-----------------------------------------------------------------------------
(* What is simulated after a pause was asked for                           *)

\* Some callback has taken messages that it has not shown yet; only the innermost
\* one can, just before it returns.
Shown(frames) == \E i \in DOMAIN frames : frames[i].messages
ShownLast(frames) ==
  \A i \in DOMAIN frames : frames[i].messages => i = Len(frames) /\ frames[i].at = "end"

LEMMA CallShown ==
  ASSUME NEW frames \in Seq(CallFrames), ~Shown(frames),
         NEW f \in CallFrames, f.messages => f.at = "end"
  PROVE  /\ ShownLast(Append(frames, f))
         /\ Shown(Append(frames, f)) <=> f.messages
<1>1. PICK more : more = Append(frames, f)
  OBVIOUS
<1>2. /\ Len(frames) \in Nat /\ Len(more) = Len(frames) + 1
      /\ \A i \in 1 .. Len(frames) : more[i] = frames[i]
      /\ more[Len(frames) + 1] = f
      /\ DOMAIN frames = 1 .. Len(frames) /\ DOMAIN more = 1 .. Len(frames) + 1
  BY <1>1, AppendProperties
<1>3. \A i \in 1 .. Len(frames) : ~more[i].messages
  BY <1>2 DEF Shown
<1>4. Len(more) \in DOMAIN more /\ more[Len(more)] = f
  BY <1>2
<1>5. \A i \in DOMAIN more : i \in 1 .. Len(frames) \/ i = Len(more)
  BY <1>2
<1>6. ShownLast(more) /\ (Shown(more) <=> f.messages)
  BY <1>3, <1>4, <1>5 DEF ShownLast, Shown
<1>7. QED
  BY <1>1, <1>6

LEMMA UnderShown ==
  ASSUME NEW frames \in Seq(CallFrames), frames # <<>>, ShownLast(frames),
         NEW under, under = SubSeq(frames, 1, Len(frames) - 1)
  PROVE  under \in Seq(CallFrames) /\ ~Shown(under)
<1>1. under \in Seq(CallFrames) /\ IsUnder(under, frames)
  BY WithoutLast
<1>2. \A i \in DOMAIN under : i \in DOMAIN frames /\ i # Len(frames) /\ under[i] = frames[i]
  BY <1>1 DEF IsUnder
<1>3. QED
  BY <1>1, <1>2 DEF Shown, ShownLast

LEMMA OpenShown ==
  ASSUME NEW frames \in Seq(CallFrames), ShownLast(frames), Upper(frames) # "end"
  PROVE  ~Shown(frames)
<1>1. SUFFICES ASSUME NEW i \in DOMAIN frames, frames[i].messages PROVE FALSE
  BY DEF Shown
<1>2. i = Len(frames) /\ frames[i].at = "end"
  BY <1>1 DEF ShownLast
<1>3. frames # <<>>
  OBVIOUS
<1>4. QED
  BY <1>2, <1>3 DEF Upper

\* The main loop handles an event only when nothing waits to be shown.
LEMMA LoopShowsNothing ==
  ASSUME Nested(stack), ShownLast(stack), InLoop
  PROVE  ~Shown(stack) /\ Upper(stack) # "end"
<1>1. Upper(stack) # "end"
  BY DEF InLoop, At, Top, Upper
<1>2. QED
  BY <1>1, OpenShown DEF Nested

LEMMA CallShowsNothing ==
  ASSUME Nested(stack), ShownLast(stack), InLoop,
         NEW f \in CallFrames, ~f.messages, f.at # "end", Call(f)
  PROVE  ShownLast(stack') /\ ~Shown(stack') /\ Upper(stack') # "end"
<1>1. stack \in Seq(CallFrames) /\ stack' = Append(stack, f)
  BY DEF Nested, Call
<1>2. ShownLast(stack') /\ ~Shown(stack')
  BY <1>1, LoopShowsNothing, CallShown
<1>3. Len(stack') = Len(stack) + 1 /\ stack'[Len(stack) + 1] = f /\ stack' # <<>>
  BY <1>1, AppendProperties, EmptySeq
<1>4. QED
  BY <1>2, <1>3 DEF Upper

LEMMA ReturnShowsNothing ==
  ASSUME Nested(stack), Shallow(stack), ShownLast(stack), stack # <<>>, Return
  PROVE  ShownLast(stack') /\ ~Shown(stack') /\ Upper(stack') # "end"
<1>1. ~Shown(stack')
  BY UnderShown DEF Nested, Return, Under
<1>2. Upper(stack') \in {"loop", "spin"}
  BY ReturnStep
<1>3. QED
  BY <1>1, <1>2 DEF Shown, ShownLast

LEMMA GotoShown ==
  ASSUME Nested(stack), ShownLast(stack), stack # <<>>, Top.at # "end",
         NEW f \in CallFrames, f.messages => f.at = "end", Goto(f)
  PROVE  /\ ShownLast(stack') /\ (Shown(stack') <=> f.messages)
         /\ Upper(stack') = f.at
         /\ ~Shown(stack) /\ Upper(stack) # "end"
<1>1. PICK under : under = Under
  OBVIOUS
<1>2. under \in Seq(CallFrames) /\ ~Shown(under)
  BY <1>1, UnderShown DEF Nested, Under
<1>3. stack' = Append(under, f)
  BY <1>1 DEF Goto
<1>4. Len(stack') = Len(under) + 1 /\ stack'[Len(under) + 1] = f /\ stack' # <<>>
  BY <1>2, <1>3, AppendProperties, EmptySeq
<1>5. Upper(stack) # "end"
  BY DEF Upper, Top
<1>6. ShownLast(stack') /\ (Shown(stack') <=> f.messages)
  BY <1>2, <1>3, CallShown
<1>7. QED
  BY <1>4, <1>5, <1>6, OpenShown DEF Upper, Nested

\* What can still start a period: a go signal, the thread that has taken one, and
\* a callback that is about to give one.  The thread takes none after quit.
Promised == pc \in {"lock", "running"} \/ (pc = "test" /\ quit = FALSE)
Closing  == Upper(stack) = "end" /\ ~Shown(stack)
Signal   == One(go = TRUE /\ quit = FALSE)
Tokens   == Signal + One(Promised) + One(active = TRUE /\ Closing)

\* Each of them is worth one period; before a pause is asked for nothing counts.
PInv == /\ overrun \in Nat /\ ShownLast(stack)
        /\ PauseAsked => overrun + Tokens <= 2
        /\ ~PauseAsked => overrun = 0

LEMMA OneType == ASSUME NEW c \in BOOLEAN PROVE One(c) \in {0, 1}
BY DEF One

LEMMA TokensType == Tokens \in 0 .. 3 /\ Signal \in {0, 1} /\ One(Promised) \in {0, 1}
<1>1. Signal \in {0, 1}
  BY DEF One, Signal
<1>2. One(Promised) \in {0, 1} /\ One(active = TRUE /\ Closing) \in {0, 1}
  BY DEF One
<1>3. QED
  BY <1>1, <1>2 DEF Tokens

LEMMA Counted ==
  ASSUME PInv, Count, ShownLast(stack'), Tokens' \in 0 .. 3,
         PauseAsked /\ PauseAsked' => Tokens' <= Tokens,
         PauseAsked /\ PauseAsked' /\ RunUntil => Tokens' + 1 <= Tokens,
         ~PauseAsked /\ PauseAsked' => Tokens' <= 2
  PROVE  PInv'
<1>1. PICK n, m, o : n = Tokens /\ m = Tokens' /\ o = overrun'
  OBVIOUS
<1>2. n \in 0 .. 3 /\ m \in 0 .. 3
  BY <1>1, TokensType
<1>3. CASE ~PauseAsked'
  <2>1. overrun' = 0
    BY <1>3 DEF Count
  <2>2. QED
    BY <1>3, <2>1 DEF PInv
<1>4. CASE PauseAsked' /\ ~PauseAsked
  <2>1. overrun' = overrun /\ overrun = 0
    BY <1>4 DEF PInv, Count
  <2>2. o = 0 /\ m <= 2
    BY <1>1, <1>4, <2>1
  <2>3. o \in Nat /\ o + m <= 2
    BY <1>2, <2>2
  <2>4. QED
    BY <1>1, <1>4, <2>3 DEF PInv
<1>5. CASE PauseAsked' /\ PauseAsked
  <2>1. overrun \in Nat /\ overrun + n <= 2 /\ m <= n
    BY <1>1, <1>5 DEF PInv
  <2>2. o = overrun \/ (o = overrun + 1 /\ RunUntil)
    BY <1>1, <1>5 DEF Count
  <2>3. o = overrun + 1 => m + 1 <= n
    <3>1. CASE o = overrun
      BY <2>1, <3>1
    <3>2. CASE RunUntil
      BY <1>1, <1>5, <3>2
    <3>3. QED
      BY <2>2, <3>1, <3>2
  <2>4. o \in Nat /\ o + m <= 2
    BY <1>2, <2>1, <2>2, <2>3
  <2>5. overrun' \in Nat /\ overrun' + Tokens' <= 2
    BY <1>1, <2>4
  <2>6. QED
    BY <1>5, <2>5 DEF PInv
<1>6. QED
  BY <1>3, <1>4, <1>5

LEMMA TokensPrimed == Tokens' \in 0 .. 3
<1>1. /\ One(go' = TRUE /\ quit' = FALSE) \in {0, 1}
      /\ One(Promised') \in {0, 1} /\ One(active' = TRUE /\ Closing') \in {0, 1}
  BY DEF One
<1>2. QED
  BY <1>1 DEF Tokens, Signal

\* A step after which no callback is about to give the signal.
LEMMA NoneClosing ==
  ASSUME PInv, Count, ShownLast(stack'), ~Closing', Signal' = Signal,
         One(Promised') = One(Promised), ~RunUntil
  PROVE  PInv'
<1>1. /\ Signal \in {0, 1} /\ One(Promised) \in {0, 1}
      /\ One(active = TRUE /\ Closing) \in {0, 1} /\ One(active' = TRUE /\ Closing') = 0
  BY TokensType DEF One
<1>2. Tokens' = Signal + One(Promised) /\ Tokens' <= Tokens /\ Tokens' <= 2
  BY <1>1 DEF Tokens
<1>3. QED
  BY <1>2, TokensPrimed, Counted

LEMMA UserPInv == ASSUME VInv, PInv, User, Count PROVE PInv'
<1> USE DEF VInv
<1>1. InLoop /\ ~RunUntil
  BY DEF User, PlayButton, SpeedChanged, Quit, UserEvent, RunUntil, Thread, simulation, Types
<1>2. ShownLast(stack) /\ ~Shown(stack) /\ Upper(stack) # "end"
  BY <1>1, LoopShowsNothing DEF PInv
<1>3. CASE PlayButton \/ SpeedChanged
  <2>1. UNCHANGED <<stack, pc, go, quit>>
    BY <1>3 DEF PlayButton, SpeedChanged, simulation
  <2>2. ShownLast(stack') /\ ~Closing' /\ Signal' = Signal /\ One(Promised') = One(Promised)
    BY <1>2, <2>1 DEF Closing, Signal, Promised
  <2>3. QED
    BY <1>1, <2>2, NoneClosing
<1>4. CASE Quit
  <2>1. PICK f : f = Frame("join", None, FALSE)
    OBVIOUS
  <2>2. f \in CallFrames /\ ~f.messages /\ f.at # "end" /\ Call(f)
    BY <1>4, <2>1 DEF Quit, Frame, CallFrames, Places
  <2>3. ShownLast(stack') /\ Upper(stack') # "end"
    BY <1>1, <1>2, <2>2, CallShowsNothing
  <2>4. quit = FALSE /\ quit' = TRUE /\ UNCHANGED pc
    BY <1>4 DEF Quit, Types
  <2>5. One(Promised') <= One(Promised) /\ Signal' = 0 /\ One(active' = TRUE /\ Closing') = 0
    BY <2>3, <2>4 DEF Promised, One, Signal, Closing
  <2>6. /\ One(Promised') \in {0, 1} /\ One(Promised) \in {0, 1} /\ Signal \in {0, 1}
        /\ One(active = TRUE /\ Closing) \in {0, 1}
    BY TokensType DEF One
  <2>7. Tokens' <= Tokens /\ Tokens' <= 2
    BY <2>5, <2>6 DEF Tokens
  <2>8. QED
    BY <1>1, <2>3, <2>7, TokensPrimed, Counted
<1>5. QED
  BY <1>3, <1>4 DEF User

LEMMA SimPInv == ASSUME VInv, PInv, Sim, Count PROVE PInv'
<1> USE DEF VInv
<1>1. UNCHANGED <<stack, active, quit>>
  BY DEF Sim, Loop, Wake, Clear, Test, Lock, RunUntil, user, loop
<1>2. /\ ShownLast(stack') /\ ShownLast(stack)
      /\ One(active' = TRUE /\ Closing') = One(active = TRUE /\ Closing)
  BY <1>1 DEF PInv, Closing
<1>3. /\ One(active = TRUE /\ Closing) \in {0, 1} /\ Signal \in {0, 1}
      /\ One(Promised) \in {0, 1} /\ One(Promised') \in {0, 1}
  BY TokensType DEF One
<1>4. CASE Loop \/ Wake \/ Clear \/ Test \/ Lock
  <2>1. ~RunUntil /\ UNCHANGED pause_messages
    BY <1>4 DEF Loop, Wake, Clear, Test, Lock, RunUntil, Thread
  <2>2. PauseAsked' <=> PauseAsked
    BY <1>1, <2>1 DEF PauseAsked
  <2>3. Signal' + One(Promised') <= Signal + One(Promised)
    <3>1. CASE Loop \/ Wake \/ Lock
      BY <1>1, <3>1, <1>3 DEF Loop, Wake, Lock, Thread, Signal, Promised
    <3>2. CASE Clear
      <4>1. go = TRUE /\ go' = FALSE /\ pc = "clear" /\ pc' = "test"
        BY <3>2 DEF Clear, Thread, Flow
      <4>2. Signal' = 0 /\ One(Promised) = 0 /\ One(Promised') = Signal
        BY <1>1, <4>1 DEF Signal, Promised, One
      <4>3. QED
        BY <1>3, <4>2
    <3>3. CASE Test
      <4>1. go' = go /\ pc = "test" /\ pc' = IF quit THEN "ended" ELSE "lock"
        BY <3>3 DEF Test, Thread
      <4>2. quit \in BOOLEAN
        BY DEF Types
      <4>3. Signal' = Signal /\ One(Promised') <= One(Promised)
        BY <1>1, <4>1, <4>2 DEF Signal, Promised, One
      <4>4. QED
        BY <1>3, <4>3
    <3>4. QED
      BY <1>4, <3>1, <3>2, <3>3
  <2>4. Signal' \in {0, 1}
    BY DEF Signal, One
  <2>5. Tokens' <= Tokens
    BY <1>2, <1>3, <2>3, <2>4 DEF Tokens
  <2>6. QED
    BY <1>2, <2>1, <2>2, <2>5, TokensPrimed, Counted
<1>5. CASE RunUntil
  <2>1. pc = "running" /\ pc' = "top" /\ go' = go
    BY <1>5 DEF RunUntil, Thread
  <2>2. One(Promised) = 1 /\ One(Promised') = 0 /\ Signal' = Signal
    BY <1>1, <2>1 DEF Promised, One, Signal
  <2>3. Tokens' + 1 = Tokens /\ Tokens' <= 2
    BY <1>2, <1>3, <2>2 DEF Tokens
  <2>4. QED
    <3>1. Tokens' <= Tokens
      BY <1>2, <1>3, <2>2 DEF Tokens
    <3>2. QED
      BY <1>2, <2>3, <3>1, TokensPrimed, Counted
<1>6. QED
  BY <1>4, <1>5 DEF Sim

LEMMA GuiPInv == ASSUME VInv, PInv, Gui, Count PROVE PInv'
<1> USE DEF VInv
<1>1. UNCHANGED <<pc, quit>> /\ ~RunUntil
  BY DEF Gui, Joined, UpdateModel, ReadSamples, TimerFires, Spin, Retry, UpdateView,
         EndTimeout, simulation, RunUntil, Thread
<1>2. One(Promised') = One(Promised) /\ ShownLast(stack)
  BY <1>1 DEF Promised, PInv
<1>3. ASSUME go' = go, ShownLast(stack'), ~Closing' PROVE PInv'
  BY <1>1, <1>2, <1>3, NoneClosing DEF Signal
<1>4. CASE UpdateModel \/ TimerFires
  <2>1. PICK f : f \in CallFrames /\ ~f.messages /\ f.at # "end" /\ Call(f)
    BY <1>4, VisualizerAssumption
    DEF UpdateModel, TimerFires, Frame, CallFrames, Places, Types
  <2>2. InLoop /\ go' = go
    BY <1>4 DEF UpdateModel, TimerFires, simulation
  <2>3. QED
    BY <1>2, <1>3, <2>1, <2>2, CallShowsNothing DEF Closing
<1>5. CASE Joined \/ ReadSamples
  <2>1. stack # <<>> /\ Return /\ go' = go
    BY <1>5 DEF Joined, ReadSamples, At, simulation
  <2>2. QED
    BY <1>2, <1>3, <2>1, ReturnShowsNothing DEF Closing
<1>6. CASE Spin \/ Retry
  <2>1. stack # <<>> /\ Top.at \in {"try", "spin"} /\ go' = go
    BY <1>6 DEF Spin, Retry, At, simulation
  <2>2. Top \in CallFrames
    BY <2>1, LastOf DEF Top, Nested
  <2>3. ~Top.messages
    <3>1. Len(stack) \in DOMAIN stack
      BY <2>1, LastOf DEF Nested
    <3>2. QED
      BY <1>2, <2>1, <3>1 DEF ShownLast, Top
  <2>4. PICK f : f \in CallFrames /\ ~f.messages /\ f.at \in {"try", "spin"} /\ Goto(f)
    BY <1>6, <2>2, <2>3 DEF Spin, Retry, CallFrames, Places
  <2>5. QED
    BY <1>2, <1>3, <2>1, <2>4, GotoShown DEF Closing
<1>7. CASE UpdateView
  <2>1. /\ stack # <<>> /\ Top.at = "try" /\ go' = go /\ active' = active
        /\ pause_messages' = FALSE
    BY <1>7 DEF UpdateView, At, user
  <2>2. Top \in CallFrames
    BY <2>1, LastOf DEF Top, Nested
  <2>3. PICK f : f \in CallFrames /\ f.messages = pause_messages /\ f.at = "end" /\ Goto(f)
    BY <1>7, <2>2 DEF UpdateView, Frame, CallFrames, Places, Types
  <2>4. /\ ShownLast(stack') /\ (Shown(stack') <=> pause_messages)
        /\ ~Shown(stack) /\ Upper(stack) # "end"
    BY <1>2, <2>1, <2>3, GotoShown
  <2>5. PauseAsked' <=> PauseAsked
    BY <2>1, <2>4 DEF PauseAsked, Shown
  <2>6. PauseAsked => Tokens' <= Tokens
    <3>1. Signal' = Signal /\ One(active = TRUE /\ Closing) = 0
      BY <1>1, <2>1, <2>4 DEF Signal, Closing, One
    <3>2. PauseAsked => ~(active' = TRUE /\ Closing')
      BY <2>1, <2>4 DEF PauseAsked, Closing, Shown
    <3>3. PauseAsked => One(active' = TRUE /\ Closing') = 0
      BY <3>2 DEF One
    <3>4. QED
      BY <1>2, <3>1, <3>3, TokensType DEF Tokens
  <2>7. QED
    BY <1>1, <2>4, <2>5, <2>6, TokensPrimed, Counted
<1>8. CASE EndTimeout
  <2>1. /\ stack # <<>> /\ Upper(stack) = "end" /\ Return
        /\ active' = (active /\ ~Top.messages)
        /\ IF active' THEN go' = TRUE ELSE go' = go
    BY <1>8 DEF EndTimeout, At, Upper, Top
  <2>2. ShownLast(stack') /\ ~Closing'
    BY <1>2, <2>1, ReturnShowsNothing DEF Closing
  <2>3. CASE ~active'
    BY <1>3, <2>1, <2>2, <2>3
  <2>4. CASE active'
    <3>1. ~Shown(stack)
      BY <1>2, <2>1, <2>4 DEF Shown, ShownLast, Top
    <3>2. active = TRUE /\ Closing
      BY <2>1, <2>4, <3>1 DEF Closing, Types
    <3>3. /\ One(active = TRUE /\ Closing) = 1 /\ One(active' = TRUE /\ Closing') = 0
          /\ Signal' \in {0, 1}
      BY <2>2, <3>2 DEF One, Signal
    <3>4. Tokens' <= Tokens /\ Tokens' <= 2
      BY <1>2, <3>3, TokensType DEF Tokens
    <3>5. QED
      BY <1>1, <2>2, <3>4, TokensPrimed, Counted
  <2>5. QED
    BY <2>3, <2>4
<1>9. QED
  BY <1>4, <1>5, <1>6, <1>7, <1>8 DEF Gui

LEMMA InitPInv == HistoryInit => PInv
<1> SUFFICES ASSUME HistoryInit PROVE PInv
  OBVIOUS
<1>1. overrun = 0 /\ stack = <<>> /\ go = FALSE /\ pc = "top" /\ active = FALSE
  BY DEF HistoryInit, Init
<1>2. ShownLast(stack)
  BY <1>1 DEF ShownLast
<1>3. Tokens = 0
  BY <1>1 DEF Tokens, Signal, Promised, One
<1>4. QED
  BY <1>1, <1>2, <1>3 DEF PInv

LEMMA NextPInv == VInv /\ PInv /\ [HistoryNext]_hvars => PInv'
<1> SUFFICES ASSUME VInv, PInv, [HistoryNext]_hvars PROVE PInv'
  OBVIOUS
<1>1. CASE UNCHANGED hvars
  BY <1>1 DEF PInv, PauseAsked, Tokens, Signal, Promised, Closing, ShownLast, Shown, Upper,
              One, hvars, vars, user, loop, simulation
<1>2. QED
  BY <1>1, UserPInv, GuiPInv, SimPInv DEF HistoryNext, Next

\* Whatever the timers, the nested callbacks and the signals in flight, a pause that
\* was asked for is reached after two more periods of simulation at most.
THEOREM PauseReached == HistorySpec => []PauseStops
<1>1. VInv /\ PInv => PauseStops
  BY TokensType DEF PInv, PauseStops
<1>2. HistoryInit => VInv
  BY InitVInv DEF HistoryInit
<1>3. VInv /\ [HistoryNext]_hvars => VInv'
  BY NextVInv DEF HistoryNext, hvars
<1>4. QED
  BY <1>1, <1>2, <1>3, InitPInv, NextPInv, PTL DEF HistorySpec
=============================================================================
