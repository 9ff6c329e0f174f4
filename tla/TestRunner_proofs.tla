-------------------------- MODULE TestRunner_proofs --------------------------
(***************************************************************************)
(* A success of test.py is earned and its report complete, for any number  *)
(* of jobs and workers.                                                    *)
(*                                                                         *)
(* The main thread only counts: it reports success if as many jobs passed  *)
(* or were skipped as it has sent.  That this is enough rests on every job *)
(* being in one place only, of which no variable speaks.  The invariant    *)
(* says that the places of all the jobs can be named by one function.  The *)
(* report is complete by a second invariant, further down, on the sets of  *)
(* the jobs that were reported and of those that were thrown back.         *)
(***************************************************************************)
EXTENDS TestRunner, FiniteSetTheorems, FunctionTheorems, SequenceTheorems, TLAPS

-----------------------------------------------------------------------------
(* The invariant                                                           *)

Places == {"unsent", "in", "held", "out", "hand", "passed", "gone"}

Good(j) == j \in is_skip \/ (j \in ran /\ returncode[j] = "0")

\* The jobs in a queue are in that place, none of them twice.
Queued(q, place, here) ==
  \A i \in 1 .. Len(q) : q[i] # Break =>
    /\ place[q[i]] = here
    /\ \A k \in 1 .. Len(q) : q[k] = q[i] => k = i

Busy(w) == worker[w].pc \in {"check", "run"}

\* A worker that has a job is the only one that has it.
Held(place) ==
  \A w \in Workers : Busy(w) =>
    /\ worker[w].job \in Jobs /\ place[worker[w].job] = "held"
    /\ \A v \in Workers : Busy(v) /\ worker[v].job = worker[w].job => v = w

PassedJobs(place) == {j \in Jobs : place[j] = "passed"}

Placed(place) ==
  /\ place \in [Jobs -> Places]
  /\ \A j \in Jobs : j > sent => place[j] = "unsent"
  /\ Queued(input_queue, place, "in")
  /\ Held(place)
  /\ Queued(output_queue, place, "out")
  /\ main = "report" => job \in Jobs /\ place[job] = "hand"
  /\ \A j \in Jobs :
       /\ place[j] = "out" => j \in is_break \cup is_skip \cup ran
       /\ place[j] = "hand" => j \in is_skip \cup ran
       /\ place[j] = "passed" => Good(j)
  /\ passed + skipped <= Cardinality(PassedJobs(place))

Types ==
  /\ sent \in Nat /\ passed \in Nat /\ skipped \in Nat
  /\ input_queue \in Seq(0 .. N) /\ output_queue \in Seq(Jobs)
  /\ worker \in [Workers -> [pc : {"get", "check", "run", "ended", "dead"}, job : 0 .. N]]
  /\ is_skip \subseteq Jobs /\ is_break \subseteq Jobs /\ ran \subseteq Jobs
  /\ returncode \in [Jobs -> Outcomes]

Earned == retval = 0 => (\A j \in Jobs : Good(j)) /\ \A w \in Workers : Ended(w)

Inv == Types /\ (\E place : Placed(place)) /\ Earned

-----------------------------------------------------------------------------
(* Queues and places                                                       *)

LEMMA JobsAreNumbers == Jobs \subseteq 0 .. N /\ Break \notin Jobs /\ N \in Nat
BY RunnerAssumption DEF Jobs, Break

LEMMA Appended ==
  ASSUME NEW S, NEW q \in Seq(S), NEW x \in S
  PROVE  /\ Append(q, x) \in Seq(S) /\ Len(Append(q, x)) = Len(q) + 1
         /\ \A i \in 1 .. Len(q) : Append(q, x)[i] = q[i]
         /\ Append(q, x)[Len(q) + 1] = x
OBVIOUS

LEMMA Cut ==
  ASSUME NEW S, NEW q \in Seq(S), q # <<>>
  PROVE  /\ Tail(q) \in Seq(S) /\ Len(q) \in Nat \ {0} /\ Len(Tail(q)) = Len(q) - 1
         /\ \A i \in 1 .. Len(q) - 1 : Tail(q)[i] = q[i + 1]
         /\ Head(q) = q[1] /\ Head(q) \in S
OBVIOUS

LEMMA QueuedOther ==
  ASSUME NEW q \in Seq(0 .. N), NEW place \in [Jobs -> Places], NEW here \in Places,
         Queued(q, place, here), NEW j \in Jobs, place[j] # here, NEW p \in Places
  PROVE  Queued(q, [place EXCEPT ![j] = p], here)
<1> SUFFICES ASSUME NEW i \in 1 .. Len(q), q[i] # Break
             PROVE  [place EXCEPT ![j] = p][q[i]] = here
  BY DEF Queued
<1>1. \A k \in 1 .. Len(q) : q[k] # Break => q[k] \in Jobs
  BY RunnerAssumption DEF Jobs, Break
<1>2. q[i] \in Jobs /\ place[q[i]] = here
  BY <1>1 DEF Queued
<1>3. QED
  BY <1>2

LEMMA QueuedAppend ==
  ASSUME NEW q \in Seq(0 .. N), NEW place \in [Jobs -> Places], NEW here \in Places,
         Queued(q, place, here), NEW j \in Jobs, place[j] # here
  PROVE  Queued(Append(q, j), [place EXCEPT ![j] = here], here)
<1> DEFINE new == [place EXCEPT ![j] = here]
           a   == Append(q, j)
<1>1. /\ Len(a) = Len(q) + 1 /\ a[Len(q) + 1] = j /\ Len(q) \in Nat
      /\ \A i \in 1 .. Len(q) : a[i] = q[i]
  BY JobsAreNumbers, Appended
<1>2. \A i \in 1 .. Len(q) : q[i] # Break => q[i] \in Jobs
  BY RunnerAssumption DEF Jobs, Break
<1>3. \A i \in 1 .. Len(q) : q[i] # Break => q[i] # j /\ new[q[i]] = here
  BY <1>2 DEF Queued
<1>4. new[j] = here
  OBVIOUS
<1> HIDE DEF new, a
<1>5. SUFFICES ASSUME NEW i \in 1 .. Len(a), a[i] # Break
               PROVE  /\ new[a[i]] = here
                      /\ \A k \in 1 .. Len(a) : a[k] = a[i] => k = i
  BY DEF Queued, new, a
<1>6. CASE i = Len(q) + 1
  BY <1>1, <1>3, <1>4, <1>5, <1>6, JobsAreNumbers
<1>7. CASE i \in 1 .. Len(q)
  <2>1. new[a[i]] = here /\ a[i] # j
    BY <1>1, <1>3, <1>5, <1>7
  <2>2. ASSUME NEW k \in 1 .. Len(a), a[k] = a[i]
        PROVE  k = i
    <3>1. k \in 1 .. Len(q)
      BY <1>1, <2>1, <2>2
    <3>2. QED
      BY <1>1, <1>5, <1>7, <2>2, <3>1 DEF Queued
  <2>3. QED
    BY <2>1, <2>2
<1>8. QED
  BY <1>1, <1>5, <1>6, <1>7

LEMMA QueuedBreak ==
  ASSUME NEW q \in Seq(0 .. N), NEW place, NEW here, Queued(q, place, here)
  PROVE  Queued(Append(q, Break), place, here)
<1> DEFINE a == Append(q, Break)
<1>1. /\ Len(a) = Len(q) + 1 /\ a[Len(q) + 1] = Break /\ Len(q) \in Nat
      /\ \A i \in 1 .. Len(q) : a[i] = q[i]
  BY RunnerAssumption, Appended DEF Break
<1> HIDE DEF a
<1>2. SUFFICES ASSUME NEW i \in 1 .. Len(a), a[i] # Break
               PROVE  /\ place[a[i]] = here
                      /\ \A k \in 1 .. Len(a) : a[k] = a[i] => k = i
  BY DEF Queued, a
<1>3. i \in 1 .. Len(q) /\ \A k \in 1 .. Len(a) : a[k] = a[i] => k \in 1 .. Len(q)
  BY <1>1, <1>2
<1>4. QED
  BY <1>1, <1>2, <1>3 DEF Queued

\* A job that leaves a queue was nowhere else in it.
LEMMA QueuedTail ==
  ASSUME NEW q \in Seq(0 .. N), NEW place \in [Jobs -> Places], NEW here \in Places,
         Queued(q, place, here), q # <<>>
  PROVE  /\ Queued(Tail(q), place, here)
         /\ Head(q) # Break => /\ Head(q) \in Jobs /\ place[Head(q)] = here
                               /\ \A p \in Places :
                                    Queued(Tail(q), [place EXCEPT ![Head(q)] = p], here)
<1> DEFINE t == Tail(q)
<1>1. /\ Len(q) \in Nat \ {0} /\ Len(t) = Len(q) - 1 /\ Head(q) = q[1] /\ Head(q) \in 0 .. N
      /\ \A i \in 1 .. Len(q) - 1 : t[i] = q[i + 1]
  BY Cut
<1>2. \A i \in 1 .. Len(q) : q[i] # Break => q[i] \in Jobs
  BY RunnerAssumption DEF Jobs, Break
<1> HIDE DEF t
<1>3. Queued(t, place, here)
  <2> SUFFICES ASSUME NEW i \in 1 .. Len(t), t[i] # Break
               PROVE  /\ place[t[i]] = here
                      /\ \A k \in 1 .. Len(t) : t[k] = t[i] => k = i
    BY DEF Queued
  <2>1. /\ i + 1 \in 1 .. Len(q) /\ t[i] = q[i + 1]
        /\ \A k \in 1 .. Len(t) : k + 1 \in 1 .. Len(q) /\ t[k] = q[k + 1]
    BY <1>1
  <2>2. QED
    BY <2>1 DEF Queued
<1>4. ASSUME Head(q) # Break
      PROVE  /\ Head(q) \in Jobs /\ place[Head(q)] = here
             /\ \A p \in Places : Queued(t, [place EXCEPT ![Head(q)] = p], here)
  <2>1. 1 \in 1 .. Len(q) /\ q[1] # Break
    BY <1>1, <1>4
  <2>2. /\ q[1] \in Jobs /\ place[q[1]] = here
        /\ \A k \in 1 .. Len(q) : q[k] = q[1] => k = 1
    BY <1>2, <2>1 DEF Queued
  <2>3. ASSUME NEW p \in Places
        PROVE  Queued(t, [place EXCEPT ![q[1]] = p], here)
    <3> SUFFICES ASSUME NEW i \in 1 .. Len(t), t[i] # Break
                 PROVE  [place EXCEPT ![q[1]] = p][t[i]] = here
      BY <1>3 DEF Queued
    <3>1. i + 1 \in 1 .. Len(q) /\ t[i] = q[i + 1] /\ i + 1 # 1
      BY <1>1
    <3>2. t[i] # q[1] /\ t[i] \in Jobs
      BY <1>2, <2>2, <3>1
    <3>3. place[t[i]] = here
      BY <1>3 DEF Queued
    <3>4. QED
      BY <3>2, <3>3
  <2>4. QED
    BY <1>1, <2>2, <2>3
<1>5. QED
  BY <1>3, <1>4 DEF t

\* How a move changes the set of the jobs that passed.
LEMMA PassedFinite ==
  ASSUME NEW place
  PROVE  IsFiniteSet(PassedJobs(place)) /\ Cardinality(PassedJobs(place)) \in Nat
<1>1. IsFiniteSet(Jobs)
  BY RunnerAssumption, FS_Interval DEF Jobs
<1>2. IsFiniteSet(PassedJobs(place))
  BY <1>1, FS_Subset DEF PassedJobs
<1>3. QED
  BY <1>2, FS_CardinalityType

LEMMA PassedMore ==
  ASSUME NEW place \in [Jobs -> Places], NEW j \in Jobs, place[j] # "passed",
         NEW new \in [Jobs -> Places], new[j] = "passed",
         \A k \in Jobs : k # j => new[k] = place[k]
  PROVE  Cardinality(PassedJobs(new)) = Cardinality(PassedJobs(place)) + 1
<1>1. PassedJobs(new) = PassedJobs(place) \cup {j} /\ j \notin PassedJobs(place)
  BY DEF PassedJobs
<1>2. QED
  BY <1>1, PassedFinite, FS_AddElement

LEMMA PassedSame ==
  ASSUME NEW place \in [Jobs -> Places], NEW j \in Jobs, place[j] # "passed",
         NEW new \in [Jobs -> Places], new[j] # "passed",
         \A k \in Jobs : k # j => new[k] = place[k]
  PROVE  PassedJobs(new) = PassedJobs(place)
BY DEF PassedJobs

\* If as many jobs passed as there are, all of them did.
LEMMA AllPassed ==
  ASSUME NEW place, Cardinality(PassedJobs(place)) >= N
  PROVE  \A j \in Jobs : place[j] = "passed"
<1>1. IsFiniteSet(Jobs) /\ Cardinality(Jobs) = N
  BY RunnerAssumption, FS_Interval DEF Jobs
<1>2. /\ PassedJobs(place) \in SUBSET Jobs
      /\ Cardinality(PassedJobs(place)) <= Cardinality(Jobs)
      /\ Cardinality(Jobs) = Cardinality(PassedJobs(place)) => Jobs = PassedJobs(place)
  <2>1. PassedJobs(place) \in SUBSET Jobs
    BY DEF PassedJobs
  <2>2. QED
    BY <1>1, <2>1, FS_Subset
<1>3. Cardinality(PassedJobs(place)) \in Nat
  BY <1>1, <1>2, FS_Subset, FS_CardinalityType
<1>4. Jobs = PassedJobs(place)
  BY <1>1, <1>2, <1>3, RunnerAssumption
<1>5. QED
  BY <1>4 DEF PassedJobs

-----------------------------------------------------------------------------
(* The steps                                                               *)

LEMMA InitInv == Init => Inv
<1> SUFFICES ASSUME Init PROVE Inv
  OBVIOUS
<1> DEFINE nowhere == [j \in Jobs |-> "unsent"]
<1>1. Types
  BY RunnerAssumption DEF Init, Types, Idle, Break, Outcomes
<1>2. PassedJobs(nowhere) = {}
  BY DEF PassedJobs
<1>3. Cardinality(PassedJobs(nowhere)) = 0
  BY <1>2, FS_EmptySet
<1>4. nowhere \in [Jobs -> Places] /\ \A j \in Jobs : nowhere[j] = "unsent"
  BY DEF Places
<1>5. Placed(nowhere)
  <2> HIDE DEF nowhere
  <2>1. Queued(input_queue, nowhere, "in") /\ Queued(output_queue, nowhere, "out")
    BY DEF Init, Queued
  <2>2. Held(nowhere)
    BY DEF Init, Held, Busy, Idle
  <2>3. QED
    BY <1>3, <1>4, <2>1, <2>2 DEF Init, Placed
<1>6. QED
  BY <1>1, <1>5 DEF Inv, Earned, Init

LEMMA Numbers == Types => input_queue \in Seq(0 .. N) /\ output_queue \in Seq(0 .. N)
BY JobsAreNumbers, SeqMonotonic DEF Types

\* A worker takes the head of the input queue.
LEMMA GetInv ==
  ASSUME Types, NEW place, Placed(place), NEW w \in Workers, Get(w)
  PROVE  Types' /\ (\E p : Placed(p))'
<1>1. PICK h : h = Head(input_queue)
  OBVIOUS
<1>2. /\ place \in [Jobs -> Places] /\ Queued(input_queue, place, "in")
      /\ Queued(output_queue, place, "out") /\ Held(place) /\ input_queue # <<>>
      /\ input_queue \in Seq(0 .. N) /\ output_queue \in Seq(0 .. N)
  BY Numbers DEF Placed, Get
<1>3. h \in 0 .. N /\ Tail(input_queue) \in Seq(0 .. N)
  BY <1>1, <1>2, Cut
<1>4. /\ UNCHANGED <<sent, output_queue, attributes, mainVars>>
      /\ input_queue' = Tail(input_queue)
      /\ worker[w].pc = "get"
      /\ worker' = [worker EXCEPT ![w] = [pc |-> IF h = Break THEN "ended" ELSE "check",
                                          job |-> h]]
  BY <1>1 DEF Get
<1>5. Types'
  <2> DEFINE state == [pc |-> IF h = Break THEN "ended" ELSE "check", job |-> h]
  <2>1. state \in [pc : {"get", "check", "run", "ended", "dead"}, job : 0 .. N]
    BY <1>3
  <2>2. worker' = [worker EXCEPT ![w] = state]
    BY <1>4
  <2> HIDE DEF state
  <2>3. QED
    BY <1>3, <1>4, <2>1, <2>2 DEF Types, attributes, mainVars, results
<1>6. /\ Queued(Tail(input_queue), place, "in")
      /\ h # Break => /\ h \in Jobs /\ place[h] = "in"
                      /\ \A p \in Places : Queued(Tail(input_queue), [place EXCEPT ![h] = p], "in")
  BY <1>1, <1>2, QueuedTail DEF Places
<1>7. CASE h = Break
  <2>1. Held(place)'
    BY <1>2, <1>4, <1>7 DEF Held, Busy, Types
  <2>2. Placed(place)'
    BY <1>4, <1>6, <2>1 DEF Placed, Good, results, mainVars, attributes
  <2>3. QED
    BY <1>5, <2>2
<1>8. CASE h # Break
  <2>1. PICK new : new = [place EXCEPT ![h] = "held"]
    OBVIOUS
  <2>2. /\ new \in [Jobs -> Places] /\ new[h] = "held"
        /\ \A j \in Jobs : j # h => new[j] = place[j]
        /\ h \in Jobs /\ place[h] = "in"
    BY <1>2, <1>6, <1>8, <2>1 DEF Places
  <2>3. Queued(Tail(input_queue), new, "in")
    BY <1>6, <1>8, <2>1 DEF Places
  <2>4. Queued(output_queue, new, "out")
    BY <1>2, <2>1, <2>2, QueuedOther DEF Places
  <2>5. PassedJobs(new) = PassedJobs(place)
    BY <1>2, <2>2, PassedSame
  <2>6. Held(new)'
    <3>1. /\ worker'[w].pc = "check" /\ worker'[w].job = h
          /\ \A v \in Workers : v # w => worker'[v] = worker[v]
      BY <1>4, <1>8 DEF Types
    <3>2. \A v \in Workers : Busy(v) => worker[v].job \in Jobs /\ worker[v].job # h
      BY <1>2, <2>2 DEF Held
    <3>3. \A v \in Workers : v # w => (Busy(v)' <=> Busy(v))
      BY <3>1 DEF Busy
    <3>4. SUFFICES ASSUME NEW v \in Workers, Busy(v)'
                   PROVE  /\ worker'[v].job \in Jobs /\ new[worker'[v].job] = "held"
                          /\ \A u \in Workers :
                               Busy(u)' /\ worker'[u].job = worker'[v].job => u = v
      BY DEF Held
    <3>5. CASE v = w
      BY <2>2, <3>1, <3>2, <3>3, <3>5
    <3>6. CASE v # w
      <4>1. Busy(v) /\ worker'[v] = worker[v] /\ worker[v].job # h
        BY <3>1, <3>2, <3>3, <3>4, <3>6
      <4>2. worker[v].job \in Jobs /\ new[worker[v].job] = "held"
        BY <1>2, <2>2, <4>1 DEF Held
      <4>3. ASSUME NEW u \in Workers, Busy(u)', worker'[u].job = worker'[v].job
            PROVE  u = v
        <5>1. u # w
          BY <3>1, <4>1, <4>3
        <5>2. Busy(u) /\ worker[u].job = worker[v].job
          BY <3>1, <3>3, <4>1, <4>3, <5>1
        <5>3. QED
          BY <1>2, <4>1, <5>2 DEF Held
      <4>4. QED
        BY <4>1, <4>2, <4>3
    <3>7. QED
      BY <3>5, <3>6
  <2>7. \A j \in Jobs : j > sent => new[j] = "unsent"
    BY <2>2 DEF Placed
  <2>8. \A j \in Jobs : /\ new[j] = "out" => j \in is_break \cup is_skip \cup ran
                        /\ new[j] = "hand" => j \in is_skip \cup ran
                        /\ new[j] = "passed" => Good(j)
    BY <2>2 DEF Placed
  <2>9. main = "report" => job \in Jobs /\ new[job] = "hand"
    BY <2>2 DEF Placed
  <2>10. passed + skipped <= Cardinality(PassedJobs(new))
    BY <2>5 DEF Placed
  <2>11. Placed(new)'
    BY <1>4, <2>2, <2>3, <2>4, <2>6, <2>7, <2>8, <2>9, <2>10
    DEF Placed, Good, results, mainVars, attributes
  <2>12. QED
    BY <1>5, <2>11
<1>9. QED
  BY <1>7, <1>8

\* A worker gives its job back, with the attributes it now has.
LEMMA PutInv ==
  ASSUME Types, NEW place, Placed(place), NEW w \in Workers, Busy(w), Put(w),
         worker[w].job \in (is_break \cup is_skip \cup ran)',
         is_break \subseteq is_break', is_skip' = is_skip, ran \subseteq ran',
         is_break' \cup ran' \subseteq Jobs,
         returncode' \in [Jobs -> Outcomes],
         \A j \in Jobs : j # worker[w].job => returncode'[j] = returncode[j],
         UNCHANGED <<sent, input_queue, mainVars>>
  PROVE  Types' /\ (\E p : Placed(p))'
<1>1. PICK h : h = worker[w].job
  OBVIOUS
<1>2. PICK new : new = [place EXCEPT ![h] = "out"]
  OBVIOUS
<1>3. /\ place \in [Jobs -> Places] /\ Queued(input_queue, place, "in")
      /\ Queued(output_queue, place, "out") /\ Held(place)
      /\ input_queue \in Seq(0 .. N) /\ output_queue \in Seq(0 .. N)
  BY Numbers DEF Placed
<1>4. h \in Jobs /\ place[h] = "held"
  BY <1>1, <1>3 DEF Held
<1>5. /\ UNCHANGED <<sent, input_queue, main, job, passed, skipped>>
      /\ output_queue' = Append(output_queue, h)
  BY <1>1 DEF Put, results, mainVars
<1>6. Types'
  <2>1. Append(output_queue, h) \in Seq(Jobs)
    BY <1>4, Appended DEF Types
  <2>2. QED
    BY <1>5, <2>1, RunnerAssumption DEF Types, Put, Idle, Break
<1>7. /\ new \in [Jobs -> Places] /\ new[h] = "out"
      /\ \A j \in Jobs : j # h => new[j] = place[j]
  BY <1>2, <1>3, <1>4 DEF Places
<1>8. Queued(input_queue, new, "in")
  BY <1>2, <1>3, <1>4, QueuedOther DEF Places
<1>9. Queued(Append(output_queue, h), new, "out")
  BY <1>2, <1>3, <1>4, QueuedAppend DEF Places
<1>10. passed + skipped <= Cardinality(PassedJobs(new))
  <2>1. PassedJobs(new) = PassedJobs(place)
    BY <1>3, <1>4, <1>7, PassedSame
  <2>2. QED
    BY <2>1 DEF Placed
<1>11. Held(new)'
  <2>1. /\ ~Busy(w)'
        /\ \A v \in Workers : v # w => worker'[v] = worker[v]
    BY DEF Put, Idle, Types, Busy
  <2>2. SUFFICES ASSUME NEW v \in Workers, Busy(v)'
                 PROVE  /\ worker'[v].job \in Jobs /\ new[worker'[v].job] = "held"
                        /\ \A u \in Workers :
                             Busy(u)' /\ worker'[u].job = worker'[v].job => u = v
    BY DEF Held
  <2>3. v # w /\ Busy(v) /\ worker'[v] = worker[v]
    BY <2>1, <2>2 DEF Busy
  <2>4. worker[v].job \in Jobs /\ worker[v].job # h /\ place[worker[v].job] = "held"
    BY <1>1, <1>3, <2>3 DEF Held
  <2>5. new[worker'[v].job] = "held"
    BY <1>7, <2>3, <2>4
  <2>6. ASSUME NEW u \in Workers, Busy(u)', worker'[u].job = worker'[v].job
        PROVE  u = v
    <3>1. Busy(u) /\ worker[u].job = worker[v].job
      BY <2>1, <2>3, <2>6 DEF Busy
    <3>2. QED
      BY <1>3, <2>3, <3>1 DEF Held
  <2>7. QED
    BY <2>3, <2>4, <2>5, <2>6
<1>12. main = "report" => job \in Jobs /\ new[job] = "hand"
  BY <1>4, <1>7 DEF Placed
<1>13. \A j \in Jobs : /\ new[j] = "out" => j \in (is_break \cup is_skip \cup ran)'
                       /\ new[j] = "hand" => j \in (is_skip \cup ran)'
                       /\ new[j] = "passed" => Good(j)'
  <2> SUFFICES ASSUME NEW j \in Jobs, j # h
               PROVE  /\ new[j] = "out" => j \in (is_break \cup is_skip \cup ran)'
                      /\ new[j] = "hand" => j \in (is_skip \cup ran)'
                      /\ new[j] = "passed" => Good(j)'
    BY <1>1, <1>7
  <2>1. new[j] = place[j] /\ returncode'[j] = returncode[j]
    BY <1>1, <1>7
  <2>2. QED
    BY <2>1 DEF Placed, Good
<1>14. \A j \in Jobs : j > sent => new[j] = "unsent"
  BY <1>4, <1>7 DEF Placed
<1>15. Placed(new)'
  BY <1>5, <1>7, <1>8, <1>9, <1>10, <1>11, <1>12, <1>13, <1>14 DEF Placed
<1>16. QED
  BY <1>6, <1>15

\* A worker starts a process or ends in an exception: the job stays where it is.
LEMMA HoldInv ==
  ASSUME Types, NEW place, Placed(place), NEW w \in Workers, Launch(w) \/ Die(w)
  PROVE  Types' /\ (\E p : Placed(p))'
<1>1. /\ worker' \in [Workers -> [pc : {"get", "check", "run", "ended", "dead"}, job : 0 .. N]]
      /\ \A v \in Workers : worker'[v].job = worker[v].job /\ (Busy(v)' => Busy(v))
  <2>1. ASSUME NEW pc \in {"run", "dead"}, worker[w].pc \in {"check", "run"},
               worker' = [worker EXCEPT ![w].pc = pc]
        PROVE  /\ worker' \in [Workers -> [pc : {"get", "check", "run", "ended", "dead"},
                                           job : 0 .. N]]
               /\ \A v \in Workers : /\ worker'[v].job = worker[v].job
                                     /\ Busy(v)' => Busy(v)
    BY <2>1 DEF Types, Busy
  <2>2. QED
    BY <2>1 DEF Launch, Die
<1>2. UNCHANGED <<sent, input_queue, output_queue, attributes, mainVars>>
  BY DEF Launch, Die
<1>3. Types'
  BY <1>1, <1>2 DEF Types, attributes, mainVars, results
<1>4. Held(place)'
  BY <1>1 DEF Held, Placed
<1>5. Placed(place)'
  BY <1>2, <1>4 DEF Placed, Good, attributes, mainVars, results
<1>6. QED
  BY <1>3, <1>5

LEMMA WorkInv ==
  ASSUME Types, NEW place, Placed(place), NEW w \in Workers, Work(w) \/ Die(w)
  PROVE  Types' /\ (\E p : Placed(p))'
<1>1. CASE ThrowBack(w)
  <2>1. Busy(w) /\ worker[w].job \in Jobs
    BY <1>1 DEF ThrowBack, Busy, Placed, Held
  <2>2. QED
    BY <1>1, <2>1, PutInv DEF ThrowBack, Types
<1>2. CASE Skip(w)
  <2>1. Busy(w)
    BY <1>2 DEF Skip, Busy
  <2>2. QED
    BY <1>2, <2>1, PutInv DEF Skip, Types, attributes
<1>3. CASE Return(w)
  <2>1. Busy(w) /\ worker[w].job \in Jobs
    BY <1>3 DEF Return, Busy, Placed, Held
  <2>2. PICK code \in Outcomes : returncode' = [returncode EXCEPT ![worker[w].job] = code]
    BY <1>3 DEF Return
  <2>3. /\ returncode' \in [Jobs -> Outcomes]
        /\ \A j \in Jobs : j # worker[w].job => returncode'[j] = returncode[j]
    BY <2>2 DEF Types
  <2>4. QED
    BY <1>3, <2>1, <2>3, PutInv DEF Return, Types
<1>4. QED
  BY <1>1, <1>2, <1>3, GetInv, HoldInv DEF Work

LEMMA DispatchInv ==
  ASSUME Types, NEW place, Placed(place), Dispatch
  PROVE  Types' /\ (\E p : Placed(p))'
<1>1. PICK h : h = sent + 1
  OBVIOUS
<1>2. PICK new : new = [place EXCEPT ![h] = "in"]
  OBVIOUS
<1>3. /\ place \in [Jobs -> Places] /\ Queued(input_queue, place, "in")
      /\ Queued(output_queue, place, "out") /\ Held(place)
      /\ input_queue \in Seq(0 .. N) /\ output_queue \in Seq(0 .. N)
  BY Numbers DEF Placed
<1>4. h \in Jobs /\ place[h] = "unsent" /\ sent \in Nat /\ h = sent + 1
  BY <1>1, RunnerAssumption DEF Types, Dispatch, Jobs, Placed
<1>5. /\ UNCHANGED <<output_queue, worker, is_break, returncode, ran, main, job,
                     passed, skipped>>
      /\ input_queue' = Append(input_queue, h) /\ sent' = h
      /\ is_skip \subseteq is_skip' /\ is_skip' \subseteq Jobs
  BY <1>1, <1>4 DEF Dispatch, results, mainVars, Types
<1>6. Types'
  <2>1. Append(input_queue, h) \in Seq(0 .. N)
    BY <1>3, <1>4, Appended, JobsAreNumbers
  <2>2. QED
    BY <1>4, <1>5, <2>1 DEF Types
<1>7. /\ new \in [Jobs -> Places] /\ new[h] = "in"
      /\ \A j \in Jobs : j # h => new[j] = place[j]
  BY <1>2, <1>3, <1>4 DEF Places
<1>8. Queued(Append(input_queue, h), new, "in")
  BY <1>2, <1>3, <1>4, QueuedAppend DEF Places
<1>9. Queued(output_queue, new, "out")
  BY <1>2, <1>3, <1>4, QueuedOther DEF Places
<1>10. passed + skipped <= Cardinality(PassedJobs(new))
  <2>1. PassedJobs(new) = PassedJobs(place)
    BY <1>3, <1>4, <1>7, PassedSame
  <2>2. QED
    BY <2>1 DEF Placed
<1>11. Held(new)
  <2>1. \A w \in Workers : Busy(w) => worker[w].job \in Jobs /\ new[worker[w].job] = "held"
    BY <1>3, <1>4, <1>7 DEF Held
  <2>2. QED
    BY <1>3, <2>1 DEF Held
<1>12. main = "report" => job \in Jobs /\ new[job] = "hand"
  BY <1>4, <1>7 DEF Placed
<1>13. \A j \in Jobs : /\ new[j] = "out" => j \in is_break \cup is_skip \cup ran
                       /\ new[j] = "hand" => j \in is_skip \cup ran
                       /\ new[j] = "passed" => Good(j)
  BY <1>7 DEF Placed
<1>14. \A j \in Jobs : j > h => new[j] = "unsent"
  <2> SUFFICES ASSUME NEW j \in Jobs, j > h
               PROVE  new[j] = "unsent"
    OBVIOUS
  <2>1. j > sent /\ j # h
    BY <1>4 DEF Jobs
  <2>2. QED
    BY <1>7, <2>1 DEF Placed
<1>15. Placed(new)'
  <2>1. Held(new)'
    BY <1>5, <1>11 DEF Held, Busy
  <2>2. QED
    BY <1>5, <1>7, <1>8, <1>9, <1>10, <1>12, <1>13, <1>14, <2>1 DEF Placed, Good
<1>16. QED
  BY <1>6, <1>15

LEMMA PackUpInv ==
  ASSUME Types, NEW place, Placed(place), PackUp
  PROVE  Types' /\ (\E p : Placed(p))'
<1>1. /\ UNCHANGED <<output_queue, worker, attributes, mainVars>>
      /\ input_queue' = Append(input_queue, Break) /\ sent' = sent + 1
      /\ sent \in Nat
  BY DEF PackUp, Types
<1>2. Queued(Append(input_queue, Break), place, "in")
  BY QueuedBreak DEF Types, Placed
<1>3. Append(input_queue, Break) \in Seq(0 .. N)
  BY RunnerAssumption, Appended DEF Types, Break
<1>4. Types'
  BY <1>1, <1>3 DEF Types, attributes, mainVars, results
<1>5. \A j \in Jobs : j > sent + 1 => place[j] = "unsent"
  BY <1>1 DEF Placed, Jobs
<1>6. Held(place)'
  BY <1>1 DEF Placed, Held, Busy
<1>7. Placed(place)'
  BY <1>1, <1>2, <1>5, <1>6 DEF Placed, Good, attributes, mainVars, results
<1>8. QED
  BY <1>4, <1>7

LEMMA CollectInv ==
  ASSUME Types, NEW place, Placed(place), Collect
  PROVE  Types' /\ (\E p : Placed(p))'
<1>1. PICK h : h = Head(output_queue)
  OBVIOUS
<1>2. PICK p \in {"hand", "gone"} : p = IF h \in is_break THEN "gone" ELSE "hand"
  OBVIOUS
<1>3. PICK new : new = [place EXCEPT ![h] = p]
  OBVIOUS
<1>4. /\ place \in [Jobs -> Places] /\ Queued(input_queue, place, "in")
      /\ Queued(output_queue, place, "out") /\ Held(place) /\ output_queue # <<>>
      /\ input_queue \in Seq(0 .. N) /\ output_queue \in Seq(0 .. N)
  BY Numbers DEF Placed, Collect
<1>5. h \in Jobs /\ Tail(output_queue) \in Seq(Jobs)
  BY <1>1, <1>4, Cut DEF Types
<1>6. place[h] = "out" /\ Queued(Tail(output_queue), new, "out")
  BY <1>1, <1>2, <1>3, <1>4, <1>5, QueuedTail, JobsAreNumbers DEF Places
<1>7. /\ new \in [Jobs -> Places] /\ new[h] = p
      /\ \A j \in Jobs : j # h => new[j] = place[j]
  BY <1>2, <1>3, <1>4, <1>5 DEF Places
<1>8. /\ UNCHANGED <<sent, input_queue, worker, attributes, passed, skipped>>
      /\ output_queue' = Tail(output_queue)
      /\ main = "run" /\ main' = (IF h \in is_break THEN "run" ELSE "report")
      /\ h \notin is_break => job' = h
  BY <1>1 DEF Collect, Running, results
<1>9. Types'
  BY <1>5, <1>8 DEF Types, attributes
<1>10. Queued(input_queue, new, "in")
  BY <1>2, <1>3, <1>4, <1>5, <1>6, QueuedOther DEF Places
<1>11. passed + skipped <= Cardinality(PassedJobs(new))
  <2>1. PassedJobs(new) = PassedJobs(place)
    BY <1>2, <1>4, <1>5, <1>6, <1>7, PassedSame
  <2>2. QED
    BY <2>1 DEF Placed
<1>12. Held(new)
  <2>1. \A w \in Workers : Busy(w) => worker[w].job \in Jobs /\ new[worker[w].job] = "held"
    BY <1>4, <1>6, <1>7 DEF Held
  <2>2. QED
    BY <1>4, <2>1 DEF Held
<1>13. main' = "report" => job' \in Jobs /\ new[job'] = "hand"
  BY <1>2, <1>5, <1>7, <1>8
<1>14. \A j \in Jobs : /\ new[j] = "out" => j \in is_break \cup is_skip \cup ran
                       /\ new[j] = "hand" => j \in is_skip \cup ran
                       /\ new[j] = "passed" => Good(j)
  BY <1>2, <1>6, <1>7 DEF Placed
<1>15. \A j \in Jobs : j > sent => new[j] = "unsent"
  BY <1>6, <1>7 DEF Placed
<1>16. Placed(new)'
  <2>1. Held(new)'
    BY <1>8, <1>12 DEF Held, Busy
  <2>2. QED
    BY <1>6, <1>7, <1>8, <1>10, <1>11, <1>13, <1>14, <1>15, <2>1
    DEF Placed, Good, attributes
<1>17. QED
  BY <1>9, <1>16

\* A job that counts as passed or skipped is one that nobody counted before.
LEMMA ReportInv ==
  ASSUME Types, NEW place, Placed(place), Report
  PROVE  Types' /\ (\E p : Placed(p))'
<1>1. PICK h : h = job
  OBVIOUS
<1>2. PICK p \in {"passed", "gone"} :
           p = IF Status(h) \in {"PASS", "SKIP"} THEN "passed" ELSE "gone"
  OBVIOUS
<1>3. PICK new : new = [place EXCEPT ![h] = p]
  OBVIOUS
<1>4. /\ place \in [Jobs -> Places] /\ Queued(input_queue, place, "in")
      /\ Queued(output_queue, place, "out") /\ Held(place)
      /\ input_queue \in Seq(0 .. N) /\ output_queue \in Seq(0 .. N)
  BY Numbers DEF Placed
<1>5. h \in Jobs /\ place[h] = "hand"
  BY <1>1 DEF Placed, Report
<1>6. /\ new \in [Jobs -> Places] /\ new[h] = p
      /\ \A j \in Jobs : j # h => new[j] = place[j]
  BY <1>2, <1>3, <1>4, <1>5 DEF Places
<1>7. /\ UNCHANGED <<sent, input_queue, output_queue, worker, attributes>>
      /\ main' # "report"
  BY DEF Report
<1>8. /\ passed' \in Nat /\ skipped' \in Nat
      /\ passed' + skipped' = passed + skipped + (IF p = "passed" THEN 1 ELSE 0)
  BY <1>1, <1>2 DEF Report, Types
<1>9. Types'
  BY <1>7, <1>8 DEF Types, attributes
<1>10. Queued(input_queue, new, "in") /\ Queued(output_queue, new, "out")
  BY <1>2, <1>3, <1>4, <1>5, QueuedOther DEF Places
<1>11. passed' + skipped' <= Cardinality(PassedJobs(new))
  <2>1. /\ passed + skipped <= Cardinality(PassedJobs(place))
        /\ Cardinality(PassedJobs(place)) \in Nat /\ passed + skipped \in Nat
    BY PassedFinite DEF Placed, Types
  <2>2. CASE p = "passed"
    <3>1. Cardinality(PassedJobs(new)) = Cardinality(PassedJobs(place)) + 1
      BY <1>4, <1>5, <1>6, <2>2, PassedMore
    <3>2. QED
      BY <1>8, <2>1, <2>2, <3>1
  <2>3. CASE p = "gone"
    <3>1. PassedJobs(new) = PassedJobs(place)
      BY <1>4, <1>5, <1>6, <2>3, PassedSame
    <3>2. QED
      BY <1>8, <2>1, <2>3, <3>1
  <2>4. QED
    BY <1>2, <2>2, <2>3
<1>12. Held(new)
  <2>1. \A w \in Workers : Busy(w) => worker[w].job \in Jobs /\ new[worker[w].job] = "held"
    BY <1>4, <1>5, <1>6 DEF Held
  <2>2. QED
    BY <1>4, <2>1 DEF Held
<1>13. p = "passed" => Good(h)
  <2>1. h \in is_skip \/ h \in ran
    BY <1>5 DEF Placed
  <2>2. p = "passed" => h \in is_skip \/ returncode[h] = "0"
    BY <1>2, <1>5 DEF Status, Types, Outcomes
  <2>3. QED
    BY <2>1, <2>2 DEF Good
<1>14. \A j \in Jobs : /\ new[j] = "out" => j \in is_break \cup is_skip \cup ran
                       /\ new[j] = "hand" => j \in is_skip \cup ran
                       /\ new[j] = "passed" => Good(j)
  BY <1>2, <1>6, <1>13 DEF Placed
<1>15. \A j \in Jobs : j > sent => new[j] = "unsent"
  BY <1>5, <1>6 DEF Placed
<1>16. Placed(new)'
  <2>1. Held(new)'
    BY <1>7, <1>12 DEF Held, Busy
  <2>2. QED
    BY <1>6, <1>7, <1>10, <1>11, <1>14, <1>15, <2>1 DEF Placed, Good, attributes
<1>17. QED
  BY <1>9, <1>16

\* The main thread concludes, and nothing but the signal is left to happen.
LEMMA ConcludeInv ==
  ASSUME Types, NEW place, Placed(place), Earned, Conclude
  PROVE  Types' /\ (\E p : Placed(p))' /\ Earned'
<1>1. /\ UNCHANGED <<sent, input_queue, output_queue, worker, attributes, passed, skipped>>
      /\ main' # "report" /\ \A w \in Workers : Ended(w)
  BY DEF Conclude, Running, results
<1>2. Types'
  BY <1>1 DEF Types, attributes
<1>3. Placed(place)'
  <2>1. Held(place)'
    BY <1>1 DEF Placed, Held, Busy
  <2>2. QED
    BY <1>1, <2>1 DEF Placed, Good, attributes
<1>4. ASSUME passed + skipped = N
      PROVE  \A j \in Jobs : Good(j)
  <2>1. Cardinality(PassedJobs(place)) >= N
    BY <1>4, PassedFinite, RunnerAssumption DEF Placed
  <2>2. QED
    BY <2>1, AllPassed DEF Placed
<1>5. retval' = 0 => passed + skipped = N \/ retval = 0
  BY DEF Conclude
<1>6. Earned'
  <2>1. retval' = 0 => \A j \in Jobs : Good(j)
    BY <1>4, <1>5 DEF Earned
  <2>2. QED
    BY <1>1, <2>1 DEF Earned, Good, Ended, attributes
<1>7. QED
  BY <1>2, <1>3, <1>6

\* After a success no worker is left that could change what was earned.
LEMMA EarnedStays ==
  ASSUME Earned, retval' = retval, is_skip \subseteq is_skip',
         \/ UNCHANGED <<worker, ran, returncode>>
         \/ \E w \in Workers : ~Ended(w)
  PROVE  Earned'
BY DEF Earned, Good, Ended

LEMMA NextInv == Inv /\ [Next]_vars => Inv'
<1> SUFFICES ASSUME Inv, [Next]_vars PROVE Inv'
  OBVIOUS
<1> USE DEF Inv
<1>1. PICK place : Placed(place)
  OBVIOUS
<1>2. CASE Dispatch
  <2>1. Earned'
    BY <1>2, EarnedStays DEF Dispatch, mainVars
  <2>2. QED
    BY <1>1, <1>2, <2>1, DispatchInv
<1>3. CASE PackUp
  <2>1. Earned'
    BY <1>3, EarnedStays DEF PackUp, mainVars, attributes
  <2>2. QED
    BY <1>1, <1>3, <2>1, PackUpInv
<1>4. CASE Collect
  <2>1. Earned'
    BY <1>4, EarnedStays DEF Collect, attributes
  <2>2. QED
    BY <1>1, <1>4, <2>1, CollectInv
<1>5. CASE Report
  <2>1. Earned'
    BY <1>5, EarnedStays DEF Report, attributes
  <2>2. QED
    BY <1>1, <1>5, <2>1, ReportInv
<1>6. CASE Conclude
  BY <1>1, <1>6, ConcludeInv
<1>7. ASSUME NEW w \in Workers, Work(w) \/ Die(w)
      PROVE  Inv'
  <2>1. ~Ended(w) /\ UNCHANGED <<is_skip, mainVars>>
    BY <1>7 DEF Work, Die, Get, ThrowBack, Skip, Launch, Return, Ended, attributes
  <2>2. Earned'
    BY <2>1, EarnedStays DEF mainVars
  <2>3. QED
    BY <1>1, <1>7, <2>2, WorkInv
<1>8. CASE UNCHANGED <<sent, input_queue, output_queue, worker, attributes, deaths, mainVars>>
  <2>1. Types' /\ Placed(place)'
    <3>1. Held(place)'
      BY <1>1, <1>8 DEF Placed, Held, Busy
    <3>2. QED
      BY <1>1, <1>8, <3>1 DEF Types, Placed, Good, attributes, mainVars, results
  <2>2. Earned'
    BY <1>8, EarnedStays DEF attributes, mainVars
  <2>3. QED
    BY <2>1, <2>2
<1>9. QED
  BY <1>2, <1>3, <1>4, <1>5, <1>6, <1>7, <1>8
  DEF Next, Main, Interrupt, SigintHook, vars

-----------------------------------------------------------------------------
(* A success is earned                                                     *)

\* A run of test.py that returns success has run every job to the return code
\* 0, but for the jobs it was told to skip, whatever the number of jobs and of
\* workers, whenever the interrupt comes and however many workers die.
THEOREM SuccessEarned == Spec => []SuccessIsEarned
<1>1. Inv => SuccessIsEarned
  BY DEF Inv, Earned, SuccessIsEarned, Good
<1>2. QED
  BY InitInv, NextInv, <1>1, PTL DEF Spec

-----------------------------------------------------------------------------
(* What is reported adds up                                                *)
(*                                                                         *)
(* The main thread knows the jobs that were thrown back and those it wrote *)
(* an entry for only by their numbers.  The second invariant names both    *)
(* sets: the jobs that may still come back are in neither, so no job comes *)
(* back twice, and together they are as many as the rounds of the loop.    *)

Loose(j) ==
  \/ j > sent
  \/ \E i \in 1 .. Len(input_queue) : input_queue[i] = j
  \/ \E w \in Workers : Busy(w) /\ worker[w].job = j
  \/ \E i \in 1 .. Len(output_queue) : output_queue[i] = j

Hand == IF main = "report" THEN {job} ELSE {}

EntriesOf(file, j) == {i \in DOMAIN file : file[i].name = j}

Records == [name : Jobs, result : {"PASS", "FAIL", "SKIP", "VALGR", "CRASH"},
            readable : BOOLEAN]

\* The jobs in told have an entry, unless an exception ended the main thread.
Written(told) ==
  main # "raised" =>
    \A j \in Jobs : Cardinality(EntriesOf(xml, j)) = IF j \in told THEN 1 ELSE 0

Accounted(told, broken) ==
  /\ told \subseteq Jobs /\ broken \subseteq Jobs
  /\ told \cap broken = {} /\ Hand \cap (told \cup broken) = {}
  /\ Hand \subseteq Jobs
  /\ \A j \in Jobs : Loose(j) => j \notin Hand \cup told \cup broken
  /\ broken \subseteq is_break /\ is_break \cap (told \cup Hand) = {}
  /\ Cardinality(Hand \cup told \cup broken) = collected
  /\ Cardinality(told) = passed + skipped + others
  /\ Written(told)

\* What bounds the queues and the counters.
Bounded ==
  /\ sent <= N + Cardinality(Workers) /\ Len(input_queue) <= sent
  /\ others \in Nat /\ collected \in 0 .. N
  /\ passed + skipped + others + (IF main = "report" THEN 1 ELSE 0) <= collected
  /\ deaths \in 0 .. MaxDeaths
  /\ thread_exit \in BOOLEAN /\ sigint \in {"none", "pending", "handled"}
  /\ main \in {"run", "report", "done", "raised"} /\ job \in 0 .. N
  /\ retval \in {-1, 0, 1}

Complete == /\ xml \in Seq(Records)
            /\ main = "done" => collected = N
            /\ \E told, broken : Accounted(told, broken)

LEMMA WorkersFinite == Cardinality(Workers) \in Nat /\ N \in Nat /\ MaxDeaths \in Nat
BY RunnerAssumption, FS_CardinalityType

LEMMA JobsFinite ==
  ASSUME NEW S, S \subseteq Jobs
  PROVE  IsFiniteSet(S) /\ Cardinality(S) \in Nat
<1>1. IsFiniteSet(Jobs)
  BY RunnerAssumption, FS_Interval DEF Jobs
<1>2. QED
  BY <1>1, FS_Subset, FS_CardinalityType

LEMMA OneMore ==
  ASSUME NEW S, S \subseteq Jobs, NEW j \in Jobs, j \notin S
  PROVE  Cardinality(S \cup {j}) = Cardinality(S) + 1
BY JobsFinite, FS_AddElement

\* A queue that holds no job twice is no longer than there are jobs.
LEMMA ShortQueue ==
  ASSUME NEW q \in Seq(Jobs), NEW place, NEW here, Queued(q, place, here)
  PROVE  Len(q) <= N
<1>1. Len(q) \in Nat /\ q \in [1 .. Len(q) -> Jobs] /\ N \in Nat
  BY RunnerAssumption
<1>2. \A i, k \in 1 .. Len(q) : q[i] = q[k] => i = k
  <2>1. \A i \in 1 .. Len(q) : q[i] # Break
    BY <1>1, JobsAreNumbers
  <2>2. QED
    BY <2>1 DEF Queued
<1>3. q \in Injection(1 .. Len(q), Jobs)
  BY <1>1, <1>2, Fun_IsInj
<1>4. IsFiniteSet(Jobs) /\ Cardinality(Jobs) = N
  BY <1>1, FS_Interval DEF Jobs
<1>5. Cardinality(1 .. Len(q)) = Len(q)
  <2>1. Cardinality(1 .. Len(q)) = IF 1 > Len(q) THEN 0 ELSE Len(q) - 1 + 1
    BY <1>1, FS_Interval
  <2>2. QED
    BY <1>1, <2>1
<1>6. QED
  BY <1>3, <1>4, <1>5, FS_Injection

LEMMA InitBounded == Init => Bounded /\ Complete
<1> SUFFICES ASSUME Init PROVE Bounded /\ Complete
  OBVIOUS
<1>1. Bounded
  <2>1. Len(input_queue) = 0 /\ job = 0 /\ sent = 0 /\ main = "run"
    BY DEF Init, Break
  <2>2. /\ passed = 0 /\ skipped = 0 /\ others = 0 /\ collected = 0 /\ deaths = 0
        /\ thread_exit = FALSE /\ sigint = "none" /\ retval = -1
    BY DEF Init
  <2>3. /\ collected \in 0 .. N /\ deaths \in 0 .. MaxDeaths /\ job \in 0 .. N
        /\ sent <= N + Cardinality(Workers)
    BY <2>1, <2>2, WorkersFinite
  <2>4. passed + skipped + others + (IF main = "report" THEN 1 ELSE 0) <= collected
    BY <2>1, <2>2
  <2>5. Len(input_queue) <= sent /\ others \in Nat /\ retval \in {-1, 0, 1}
    BY <2>1, <2>2
  <2>6. thread_exit \in BOOLEAN /\ sigint \in {"none", "pending", "handled"}
    BY <2>2
  <2>7. main \in {"run", "report", "done", "raised"}
    BY <2>1
  <2>8. QED
    BY <2>3, <2>4, <2>5, <2>6, <2>7 DEF Bounded
<1>2. \A j : EntriesOf(xml, j) = {}
  BY DEF Init, EntriesOf
<1>3. Cardinality({}) = 0
  BY FS_EmptySet
<1>4. Hand = {} /\ is_break = {} /\ main = "run" /\ xml = <<>> /\ collected = 0
  BY DEF Init, Hand
<1>5. Written({})
  BY <1>2, <1>3 DEF Written
<1>6. Accounted({}, {})
  BY <1>3, <1>4, <1>5 DEF Accounted, Init
<1>7. QED
  BY <1>1, <1>4, <1>6 DEF Complete

LEMMA BoundedNext == Types /\ Bounded /\ [Next]_vars => Bounded'
<1> SUFFICES ASSUME Types, Bounded, [Next]_vars PROVE Bounded'
  OBVIOUS
<1> USE DEF Bounded
<1>1. /\ sent \in Nat /\ passed \in Nat /\ skipped \in Nat /\ Len(input_queue) \in Nat
      /\ Cardinality(Workers) \in Nat /\ N \in Nat /\ MaxDeaths \in Nat
  BY WorkersFinite DEF Types
<1>2. \A x \in 0 .. N : Len(Append(input_queue, x)) = Len(input_queue) + 1
  BY DEF Types
<1>3. CASE Dispatch
  <2>1. sent + 1 \in 0 .. N
    BY <1>1, <1>3 DEF Dispatch
  <2>2. Len(input_queue') = Len(input_queue) + 1 /\ sent' = sent + 1 /\ sent < N
    BY <1>2, <1>3, <2>1 DEF Dispatch
  <2>3. QED
    BY <1>1, <1>3, <2>2 DEF Dispatch, mainVars, results
<1>4. CASE PackUp
  <2>1. Len(input_queue') = Len(input_queue) + 1 /\ sent' = sent + 1
    BY <1>1, <1>2, <1>4 DEF PackUp, Break
  <2>2. QED
    BY <1>1, <1>4, <2>1 DEF PackUp, mainVars, results
<1>5. CASE Collect
  <2>1. job' \in 0 .. N
    <3>1. Head(output_queue) \in Jobs
      BY <1>5, Cut DEF Collect, Types
    <3>2. QED
      BY <1>5, <3>1, JobsAreNumbers DEF Collect
  <2>2. QED
    BY <1>1, <1>5, <2>1 DEF Collect, results, Running
<1>6. CASE Report
  <2>1. passed' + skipped' + others' = passed + skipped + others + 1 /\ others' \in Nat
    BY <1>1, <1>6 DEF Report
  <2>2. main' \in {"run", "raised"} /\ main = "report" /\ job' = 0
    BY <1>6 DEF Report, Break
  <2>3. QED
    BY <1>1, <1>6, <2>1, <2>2 DEF Report
<1>7. CASE Conclude
  BY <1>1, <1>7 DEF Conclude, results, Running
<1>8. ASSUME NEW w \in Workers, Work(w) \/ Die(w)
      PROVE  Bounded'
  <2>1. CASE Get(w)
    <3>1. Len(Tail(input_queue)) = Len(input_queue) - 1
      BY <2>1, Cut DEF Get, Types
    <3>2. QED
      BY <1>1, <2>1, <3>1 DEF Get, mainVars, results
  <2>2. CASE Die(w)
    <3>1. deaths' \in 0 .. MaxDeaths
      <4>1. deaths < MaxDeaths /\ deaths' = deaths + 1
        BY <2>2 DEF Die
      <4>2. QED
        BY <1>1, <4>1
    <3>2. UNCHANGED <<sent, input_queue, thread_exit, sigint, mainVars>>
      BY <2>2 DEF Die
    <3>3. QED
      BY <1>1, <3>1, <3>2 DEF mainVars, results
  <2>3. CASE ~Get(w) /\ ~Die(w)
    BY <1>1, <1>8, <2>3 DEF Work, ThrowBack, Skip, Launch, Return, mainVars, results
  <2>4. QED
    BY <2>1, <2>2, <2>3
<1>9. CASE Interrupt \/ SigintHook
  BY <1>1, <1>9 DEF Interrupt, SigintHook, mainVars, results
<1>10. CASE UNCHANGED vars
  BY <1>1, <1>10 DEF vars, mainVars, results
<1>11. QED
  BY <1>3, <1>4, <1>5, <1>6, <1>7, <1>8, <1>9, <1>10 DEF Next, Main

-----------------------------------------------------------------------------
(* The steps of the second invariant                                       *)

\* A step that leaves the main thread's results alone, and after which no job
\* may come back that could not before, keeps the account.
LEMMA Quiet ==
  ASSUME NEW told, NEW broken, Accounted(told, broken),
         UNCHANGED <<main, job, collected, passed, skipped, others, xml>>,
         \A j \in Jobs : Loose(j)' => Loose(j),
         is_break \subseteq is_break', \A j \in is_break' : j \in is_break \/ Loose(j),
         is_break' \subseteq Jobs
  PROVE  Accounted(told, broken)'
<1>1. Hand' = Hand /\ Written(told)'
  BY DEF Hand, Written, Accounted
<1>2. is_break' \cap (told \cup Hand) = {}
  BY DEF Accounted
<1>3. QED
  BY <1>1, <1>2 DEF Accounted

LEMMA LooseGet ==
  ASSUME Types, NEW w \in Workers, Get(w)
  PROVE  \A j \in Jobs : Loose(j)' => Loose(j)
<1>1. PICK h : h = Head(input_queue)
  OBVIOUS
<1>2. /\ Len(input_queue) \in Nat \ {0} /\ Len(input_queue') = Len(input_queue) - 1
      /\ \A i \in 1 .. Len(input_queue) - 1 : input_queue'[i] = input_queue[i + 1]
      /\ h = input_queue[1]
  BY <1>1, Cut DEF Get, Types
<1>3. /\ output_queue' = output_queue /\ sent' = sent
      /\ \A v \in Workers : v # w => worker'[v] = worker[v]
      /\ worker'[w].job = h
  BY <1>1 DEF Get, Types
<1>4. SUFFICES ASSUME NEW j \in Jobs, Loose(j)'
               PROVE  Loose(j)
  OBVIOUS
<1>5. CASE \E i \in 1 .. Len(input_queue') : input_queue'[i] = j
  <2>1. PICK i \in 1 .. Len(input_queue') : input_queue'[i] = j
    BY <1>5
  <2>2. i + 1 \in 1 .. Len(input_queue) /\ input_queue[i + 1] = j
    BY <1>2, <2>1
  <2>3. QED
    BY <2>2 DEF Loose
<1>6. CASE \E v \in Workers : Busy(v)' /\ worker'[v].job = j
  <2>1. PICK v \in Workers : Busy(v)' /\ worker'[v].job = j
    BY <1>6
  <2>2. CASE v = w
    <3>1. 1 \in 1 .. Len(input_queue) /\ input_queue[1] = j
      BY <1>2, <1>3, <2>1, <2>2
    <3>2. QED
      BY <3>1 DEF Loose
  <2>3. CASE v # w
    BY <1>3, <2>1, <2>3 DEF Loose, Busy
  <2>4. QED
    BY <2>2, <2>3
<1>7. QED
  BY <1>3, <1>4, <1>5, <1>6 DEF Loose

LEMMA LoosePut ==
  ASSUME Types, NEW w \in Workers, Busy(w), worker[w].job \in Jobs, Put(w),
         UNCHANGED <<sent, input_queue>>
  PROVE  \A j \in Jobs : Loose(j)' => Loose(j)
<1>1. PICK h \in Jobs : h = worker[w].job
  OBVIOUS
<1>2. /\ Len(output_queue) \in Nat /\ Len(output_queue') = Len(output_queue) + 1
      /\ \A i \in 1 .. Len(output_queue) : output_queue'[i] = output_queue[i]
      /\ output_queue'[Len(output_queue) + 1] = h
  BY <1>1, Appended DEF Put, Types
<1>3. \A v \in Workers : Busy(v)' => Busy(v) /\ worker'[v].job = worker[v].job
  BY DEF Put, Types, Busy, Idle
<1>4. SUFFICES ASSUME NEW j \in Jobs, Loose(j)'
               PROVE  Loose(j)
  OBVIOUS
<1>5. CASE \E i \in 1 .. Len(output_queue') : output_queue'[i] = j
  <2>1. PICK i \in 1 .. Len(output_queue') : output_queue'[i] = j
    BY <1>5
  <2>2. CASE i = Len(output_queue) + 1
    BY <1>1, <1>2, <2>1, <2>2 DEF Loose
  <2>3. CASE i # Len(output_queue) + 1
    <3>1. i \in 1 .. Len(output_queue) /\ output_queue[i] = j
      BY <1>2, <2>1, <2>3
    <3>2. QED
      BY <3>1 DEF Loose
  <2>4. QED
    BY <2>2, <2>3
<1>6. QED
  BY <1>3, <1>4, <1>5 DEF Loose

LEMMA LooseKept ==
  ASSUME UNCHANGED <<input_queue, output_queue>>, sent' = sent \/ sent' = sent + 1,
         Types, \A v \in Workers : Busy(v)' => Busy(v) /\ worker'[v].job = worker[v].job
  PROVE  \A j \in Jobs : Loose(j)' => Loose(j)
<1>1. \A j \in Jobs : j > sent' => j > sent
  BY RunnerAssumption DEF Jobs, Types
<1>2. QED
  BY <1>1 DEF Loose

LEMMA LooseMore ==
  ASSUME Types, NEW x \in 0 .. N, x = Break \/ x > sent,
         input_queue' = Append(input_queue, x), sent' = sent + 1,
         UNCHANGED <<output_queue, worker>>
  PROVE  \A j \in Jobs : Loose(j)' => Loose(j)
<1>1. /\ Len(input_queue) \in Nat /\ Len(input_queue') = Len(input_queue) + 1
      /\ \A i \in 1 .. Len(input_queue) : input_queue'[i] = input_queue[i]
      /\ input_queue'[Len(input_queue) + 1] = x
  BY Appended DEF Types
<1>2. SUFFICES ASSUME NEW j \in Jobs, Loose(j)'
               PROVE  Loose(j)
  OBVIOUS
<1>3. j > sent' => j > sent
  BY RunnerAssumption DEF Jobs, Types
<1>4. CASE \E i \in 1 .. Len(input_queue') : input_queue'[i] = j
  <2>1. PICK i \in 1 .. Len(input_queue') : input_queue'[i] = j
    BY <1>4
  <2>2. CASE i = Len(input_queue) + 1
    BY <1>1, <2>1, <2>2, JobsAreNumbers DEF Loose
  <2>3. CASE i # Len(input_queue) + 1
    <3>1. i \in 1 .. Len(input_queue) /\ input_queue[i] = j
      BY <1>1, <2>1, <2>3
    <3>2. QED
      BY <3>1 DEF Loose
  <2>4. QED
    BY <2>2, <2>3
<1>5. QED
  BY <1>2, <1>3, <1>4 DEF Loose, Busy

\* A worker leaves the account alone; it may throw back the job it holds only.
LEMMA WorkAccounted ==
  ASSUME Types, Types', NEW place, Placed(place), NEW w \in Workers, Work(w) \/ Die(w),
         NEW told, NEW broken, Accounted(told, broken)
  PROVE  Accounted(told, broken)' /\ UNCHANGED <<main, collected, xml>>
<1>1. /\ UNCHANGED <<main, job, collected, passed, skipped, others, xml>>
      /\ is_break' \subseteq Jobs
  BY DEF Work, Die, Get, ThrowBack, Skip, Launch, Return, attributes, mainVars, results,
         Types
<1>2. Busy(w) => worker[w].job \in Jobs
  BY DEF Placed, Held
<1>3. CASE Get(w)
  BY <1>1, <1>3, LooseGet, Quiet DEF Get, attributes
<1>4. CASE ThrowBack(w)
  <2>1. Busy(w)
    BY <1>4 DEF ThrowBack, Busy
  <2>2. \A j \in Jobs : Loose(j)' => Loose(j)
    BY <1>2, <1>4, <2>1, LoosePut DEF ThrowBack
  <2>3. Loose(worker[w].job)
    BY <2>1 DEF Loose
  <2>4. is_break \subseteq is_break' /\ \A j \in is_break' : j \in is_break \/ Loose(j)
    BY <1>4, <2>3 DEF ThrowBack
  <2>5. QED
    BY <1>1, <2>2, <2>4, Quiet
<1>5. CASE Skip(w) \/ Return(w)
  <2>1. Busy(w) /\ Put(w) /\ UNCHANGED <<sent, input_queue, is_break>>
    BY <1>5 DEF Skip, Return, Busy, attributes
  <2>2. \A j \in Jobs : Loose(j)' => Loose(j)
    BY <1>2, <2>1, LoosePut
  <2>3. QED
    BY <1>1, <2>1, <2>2, Quiet
<1>6. CASE Launch(w) \/ Die(w)
  <2>1. /\ UNCHANGED <<sent, input_queue, output_queue, is_break>>
        /\ \A v \in Workers : Busy(v)' => Busy(v) /\ worker'[v].job = worker[v].job
    <3>1. ASSUME NEW pc, worker[w].pc \in {"check", "run"},
                 worker' = [worker EXCEPT ![w].pc = pc]
          PROVE  \A v \in Workers : Busy(v)' => Busy(v) /\ worker'[v].job = worker[v].job
      BY <3>1 DEF Busy, Types
    <3>2. QED
      BY <1>6, <3>1 DEF Launch, Die, attributes
  <2>2. \A j \in Jobs : Loose(j)' => Loose(j)
    BY <2>1, LooseKept
  <2>3. QED
    BY <1>1, <2>1, <2>2, Quiet
<1>7. QED
  BY <1>3, <1>4, <1>5, <1>6 DEF Work

LEMMA SendAccounted ==
  ASSUME Types, Types', Dispatch \/ PackUp,
         NEW told, NEW broken, Accounted(told, broken)
  PROVE  Accounted(told, broken)' /\ UNCHANGED <<main, collected, xml>>
<1>1. /\ UNCHANGED <<main, job, collected, passed, skipped, others, xml>>
      /\ is_break' = is_break /\ is_break \subseteq Jobs
  BY DEF Dispatch, PackUp, attributes, mainVars, results, Types
<1>2. \A j \in Jobs : Loose(j)' => Loose(j)
  <2>1. CASE Dispatch
    <3>1. sent + 1 \in 0 .. N /\ sent + 1 > sent
      BY <2>1, RunnerAssumption DEF Dispatch, Types
    <3>2. QED
      BY <2>1, <3>1, LooseMore DEF Dispatch
  <2>2. CASE PackUp
    <3>1. Break \in 0 .. N
      BY RunnerAssumption DEF Break
    <3>2. QED
      BY <2>2, <3>1, LooseMore DEF PackUp
  <2>3. QED
    BY <2>1, <2>2
<1>3. QED
  BY <1>1, <1>2, Quiet

\* The job that is collected cannot come back again, and the others can as before.
LEMMA LooseCollect ==
  ASSUME Types, NEW place, Placed(place), Collect, NEW h, h = Head(output_queue)
  PROVE  /\ h \in Jobs /\ Loose(h) /\ ~Loose(h)'
         /\ \A j \in Jobs : Loose(j)' => Loose(j)
<1>1. /\ Len(output_queue) \in Nat \ {0} /\ Len(output_queue') = Len(output_queue) - 1
      /\ \A i \in 1 .. Len(output_queue) - 1 : output_queue'[i] = output_queue[i + 1]
      /\ h = output_queue[1] /\ h \in Jobs /\ 1 \in 1 .. Len(output_queue)
  BY Cut DEF Collect, Types
<1>2. UNCHANGED <<sent, input_queue, worker>>
  BY DEF Collect
<1>3. Loose(h)
  BY <1>1 DEF Loose
<1>4. ASSUME NEW j \in Jobs, \E i \in 1 .. Len(output_queue') : output_queue'[i] = j
      PROVE  j # h /\ Loose(j)
  <2>1. PICK i \in 1 .. Len(output_queue') : output_queue'[i] = j
    BY <1>4
  <2>2. i + 1 \in 1 .. Len(output_queue) /\ output_queue[i + 1] = j /\ i + 1 # 1
    BY <1>1, <2>1
  <2>3. \A k \in 1 .. Len(output_queue) : output_queue[k] = output_queue[1] => k = 1
    BY <1>1, JobsAreNumbers DEF Placed, Queued
  <2>4. QED
    BY <1>1, <2>2, <2>3 DEF Loose
<1>5. place[h] = "out"
  BY <1>1, JobsAreNumbers DEF Placed, Queued
<1>6. ~(h > sent)
  BY <1>1, <1>5 DEF Placed
<1>7. \A i \in 1 .. Len(input_queue) : input_queue[i] # h
  BY <1>1, <1>5, JobsAreNumbers DEF Placed, Queued
<1>8. \A w \in Workers : Busy(w) => worker[w].job # h
  BY <1>5 DEF Placed, Held
<1>9. ~Loose(h)'
  BY <1>1, <1>2, <1>4, <1>6, <1>7, <1>8 DEF Loose, Busy
<1>10. \A j \in Jobs : Loose(j)' => Loose(j)
  BY <1>2, <1>4 DEF Loose, Busy
<1>11. QED
  BY <1>1, <1>3, <1>9, <1>10

LEMMA CollectAccounted ==
  ASSUME Types, NEW place, Placed(place), Collect, Bounded,
         NEW told, NEW broken, Accounted(told, broken)
  PROVE  (\E t, b : Accounted(t, b))' /\ main' # "done" /\ UNCHANGED xml
<1>1. PICK h : h = Head(output_queue)
  OBVIOUS
<1>2. /\ h \in Jobs /\ Loose(h) /\ ~Loose(h)'
      /\ \A j \in Jobs : Loose(j)' => Loose(j)
  BY <1>1, LooseCollect
<1>3. /\ UNCHANGED <<is_break, passed, skipped, others, xml>>
      /\ main = "run" /\ collected' = collected + 1
      /\ h \in is_break => UNCHANGED <<main, job>>
      /\ h \notin is_break => main' = "report" /\ job' = h
  BY <1>1 DEF Collect, Running, results, attributes
<1>4. Hand = {} /\ h \notin told \cup broken /\ told \cup broken \subseteq Jobs
  BY <1>2, <1>3 DEF Hand, Accounted
<1>5. Cardinality((told \cup broken) \cup {h}) = collected + 1
  <2>1. Cardinality(told \cup broken) = collected
    BY <1>4 DEF Accounted
  <2>2. QED
    BY <1>2, <1>4, <2>1, OneMore
<1>6. Written(told)'
  BY <1>3 DEF Written, Accounted
<1>7. CASE h \in is_break
  <2>1. Hand' = {} /\ (told \cup broken) \cup {h} = Hand' \cup told \cup (broken \cup {h})
    BY <1>3, <1>7 DEF Hand
  <2>2. is_break' \cap (told \cup Hand') = {}
    BY <1>3, <2>1 DEF Accounted
  <2>3. Accounted(told, broken \cup {h})'
    BY <1>2, <1>3, <1>4, <1>5, <1>6, <1>7, <2>1, <2>2 DEF Accounted
  <2>4. QED
    BY <1>3, <1>7, <2>3
<1>8. CASE h \notin is_break
  <2>1. Hand' = {h} /\ (told \cup broken) \cup {h} = Hand' \cup told \cup broken
    BY <1>3, <1>8 DEF Hand
  <2>2. is_break' \cap (told \cup Hand') = {}
    BY <1>3, <1>8, <2>1 DEF Accounted
  <2>3. Accounted(told, broken)'
    BY <1>2, <1>3, <1>4, <1>5, <1>6, <1>8, <2>1, <2>2 DEF Accounted
  <2>4. QED
    BY <1>3, <1>8, <2>3
<1>9. QED
  BY <1>7, <1>8

\* A file that is given one more entry has one more of that job and of no other.
LEMMA OneEntry ==
  ASSUME NEW file \in Seq(Records), NEW e \in Records
  PROVE  /\ file \o <<e>> \in Seq(Records)
         /\ Cardinality(EntriesOf(file \o <<e>>, e.name))
              = Cardinality(EntriesOf(file, e.name)) + 1
         /\ \A j : j # e.name => EntriesOf(file \o <<e>>, j) = EntriesOf(file, j)
<1> DEFINE new == file \o <<e>>
<1>1. /\ new \in Seq(Records) /\ Len(new) = Len(file) + 1 /\ Len(file) \in Nat
      /\ \A i \in 1 .. Len(file) : new[i] = file[i]
      /\ new[Len(file) + 1] = e
      /\ DOMAIN new = 1 .. Len(file) + 1 /\ DOMAIN file = 1 .. Len(file)
  OBVIOUS
<1> HIDE DEF new
<1>2. /\ EntriesOf(new, e.name) = EntriesOf(file, e.name) \cup {Len(file) + 1}
      /\ Len(file) + 1 \notin EntriesOf(file, e.name)
  BY <1>1 DEF EntriesOf
<1>3. IsFiniteSet(EntriesOf(file, e.name))
  <2>1. IsFiniteSet(1 .. Len(file)) /\ EntriesOf(file, e.name) \subseteq 1 .. Len(file)
    BY <1>1, FS_Interval DEF EntriesOf
  <2>2. QED
    BY <2>1, FS_Subset
<1>4. Cardinality(EntriesOf(new, e.name)) = Cardinality(EntriesOf(file, e.name)) + 1
  BY <1>2, <1>3, FS_AddElement
<1>5. \A j : j # e.name => EntriesOf(new, j) = EntriesOf(file, j)
  BY <1>1 DEF EntriesOf
<1>6. QED
  BY <1>1, <1>4, <1>5 DEF new

LEMMA EntryOfJob ==
  ASSUME NEW j \in Jobs
  PROVE  \E e \in Records : Entries(j) = <<e>> /\ e.name = j
<1>1. Status(j) \in {"PASS", "FAIL", "SKIP", "VALGR", "CRASH"}
  BY DEF Status
<1>2. \A r \in {"PASS", "FAIL", "SKIP", "VALGR", "CRASH"}, b \in BOOLEAN :
        Entry(j, r, b) \in Records /\ Entry(j, r, b).name = j
  BY DEF Entry, Records
<1>3. QED
  BY <1>1, <1>2 DEF Entries

LEMMA ReportAccounted ==
  ASSUME Types, Bounded, Report, xml \in Seq(Records),
         NEW told, NEW broken, Accounted(told, broken)
  PROVE  (\E t, b : Accounted(t, b))' /\ main' # "done" /\ xml' \in Seq(Records)
<1>1. PICK h : h = job
  OBVIOUS
<1>2. Hand = {h} /\ h \in Jobs /\ h \notin told \cup broken /\ h \notin is_break
  BY <1>1 DEF Hand, Report, Accounted
<1>3. /\ UNCHANGED <<sent, input_queue, output_queue, worker, is_break, collected>>
      /\ main' \in {"run", "raised"} /\ main # "raised"
  BY DEF Report, attributes
<1>4. passed' + skipped' + others' = passed + skipped + others + 1
  BY DEF Report, Types, Bounded
<1>5. PICK new : new = told \cup {h}
  OBVIOUS
<1>6. Cardinality(new) = Cardinality(told) + 1 /\ new \subseteq Jobs
  BY <1>2, <1>5, OneMore DEF Accounted
<1>7. Hand' = {} /\ Hand' \cup new \cup broken = Hand \cup told \cup broken
  BY <1>2, <1>3, <1>5 DEF Hand
<1>8. \A j \in Jobs : Loose(j)' => Loose(j)
  BY <1>3 DEF Loose, Busy
<1>9. PICK e \in Records : Entries(h) = <<e>> /\ e.name = h
  BY <1>2, EntryOfJob
<1>10. xml' = xml \o <<e>> \/ (main' = "raised" /\ xml' = xml)
  BY <1>1, <1>9 DEF Report
<1>11. xml' \in Seq(Records)
  BY <1>10, OneEntry
<1>12. Written(new)'
  <2> SUFFICES ASSUME main' # "raised", NEW j \in Jobs
               PROVE  Cardinality(EntriesOf(xml', j)) = IF j \in new THEN 1 ELSE 0
    BY DEF Written
  <2>1. Cardinality(EntriesOf(xml, j)) = IF j \in told THEN 1 ELSE 0
    BY <1>3 DEF Accounted, Written
  <2>2. xml' = xml \o <<e>>
    BY <1>10
  <2>3. CASE j = h
    <3>1. Cardinality(EntriesOf(xml', h)) = Cardinality(EntriesOf(xml, h)) + 1
      BY <1>9, <2>2, OneEntry
    <3>2. QED
      BY <1>2, <1>5, <2>1, <2>3, <3>1
  <2>4. CASE j # h
    <3>1. EntriesOf(xml', j) = EntriesOf(xml, j)
      BY <1>9, <2>2, <2>4, OneEntry
    <3>2. QED
      BY <1>5, <2>1, <2>4, <3>1
  <2>5. QED
    BY <2>3, <2>4
<1>13. Accounted(new, broken)'
  <2>1. new \cap broken = {} /\ is_break' \cap (new \cup Hand') = {}
    BY <1>2, <1>3, <1>5, <1>7 DEF Accounted
  <2>2. Cardinality(Hand' \cup new \cup broken) = collected'
    BY <1>3, <1>7 DEF Accounted
  <2>3. Cardinality(new) = passed' + skipped' + others'
    BY <1>4, <1>6 DEF Accounted
  <2>4. \A j \in Jobs : Loose(j)' => j \notin Hand' \cup new \cup broken
    BY <1>7, <1>8 DEF Accounted
  <2>5. QED
    BY <1>3, <1>6, <1>7, <1>12, <2>1, <2>2, <2>3, <2>4 DEF Accounted
<1>14. QED
  BY <1>3, <1>11, <1>13

LEMMA ConcludeAccounted ==
  ASSUME Types, Types', Conclude, NEW told, NEW broken, Accounted(told, broken)
  PROVE  Accounted(told, broken)' /\ collected' = N /\ xml' = xml
<1>1. /\ UNCHANGED <<sent, input_queue, output_queue, worker, is_break, job, collected,
                     passed, skipped, others, xml>>
      /\ main = "run" /\ main' # "report" /\ collected = N
  BY DEF Conclude, Running, results, attributes
<1>2. Hand' = Hand /\ Written(told)'
  BY <1>1 DEF Hand, Written, Accounted
<1>3. \A j \in Jobs : Loose(j)' => Loose(j)
  BY <1>1 DEF Loose, Busy
<1>4. QED
  BY <1>1, <1>2, <1>3 DEF Accounted

LEMMA CompleteNext == Inv /\ Inv' /\ Bounded /\ Complete /\ [Next]_vars => Complete'
<1> SUFFICES ASSUME Inv, Inv', Bounded, Complete, [Next]_vars PROVE Complete'
  OBVIOUS
<1>1. PICK told, broken : Accounted(told, broken)
  BY DEF Complete
<1>2. PICK place : Placed(place)
  BY DEF Inv
<1>3. Types /\ Types' /\ xml \in Seq(Records) /\ (main = "done" => collected = N)
  BY DEF Inv, Complete
<1>4. ASSUME Accounted(told, broken)', UNCHANGED <<main, collected, xml>>
      PROVE  Complete'
  BY <1>3, <1>4 DEF Complete
<1>5. CASE Dispatch \/ PackUp
  BY <1>1, <1>3, <1>4, <1>5, SendAccounted
<1>6. CASE Collect
  BY <1>1, <1>2, <1>3, <1>6, CollectAccounted DEF Complete
<1>7. CASE Report
  BY <1>1, <1>3, <1>7, ReportAccounted DEF Complete
<1>8. CASE Conclude
  BY <1>1, <1>3, <1>8, ConcludeAccounted DEF Complete
<1>9. ASSUME NEW w \in Workers, Work(w) \/ Die(w)
      PROVE  Complete'
  BY <1>1, <1>2, <1>3, <1>4, <1>9, WorkAccounted
<1>10. CASE UNCHANGED <<sent, input_queue, output_queue, worker, attributes, mainVars>>
  <2>1. /\ UNCHANGED <<main, job, collected, passed, skipped, others, xml, is_break>>
        /\ \A j \in Jobs : Loose(j)' => Loose(j)
    BY <1>10 DEF attributes, mainVars, results, Loose, Busy
  <2>2. Accounted(told, broken)'
    BY <1>1, <1>3, <2>1, Quiet DEF Types
  <2>3. QED
    BY <1>4, <2>1, <2>2
<1>11. QED
  BY <1>5, <1>6, <1>7, <1>8, <1>9, <1>10
  DEF Next, Main, Interrupt, SigintHook, vars

LEMMA InductiveInv == Spec => [](Inv /\ Bounded /\ Complete)
<1>1. Inv /\ Bounded /\ Complete /\ [Next]_vars => (Inv /\ Bounded /\ Complete)'
  BY NextInv, BoundedNext, CompleteNext DEF Inv
<1>2. Init => Inv /\ Bounded /\ Complete
  BY InitInv, InitBounded
<1>3. QED
  BY <1>1, <1>2, PTL DEF Spec

\* The variables of test.py have their types: the queues never hold more than
\* was sent, and no counter passes the number of jobs.
THEOREM TypeCorrect == Spec => []TypeOK
<1>1. ASSUME Inv, Bounded
      PROVE  TypeOK
  <2>1. PICK place : Placed(place)
    BY <1>1 DEF Inv
  <2>2. Len(output_queue) <= N
    BY <1>1, <2>1, ShortQueue DEF Inv, Types, Placed
  <2>3. /\ SeqIn(input_queue, 0 .. N) /\ SeqIn(output_queue, Jobs)
        /\ sent \in 0 .. N + Cardinality(Workers)
    BY <1>1, <2>2, WorkersFinite DEF Inv, Types, Bounded, SeqIn
  <2>4. {passed, skipped, others} \subseteq 0 .. N
    <3>1. passed \in 0 .. N /\ skipped \in 0 .. N /\ others \in 0 .. N
      BY <1>1, WorkersFinite DEF Inv, Types, Bounded
    <3>2. QED
      BY <3>1
  <2>5. QED
    BY <1>1, <2>3, <2>4 DEF Inv, Types, Bounded, TypeOK
<1>2. QED
  BY <1>1, InductiveInv, PTL

\* A file with one entry for each of the jobs told names these and no others,
\* and holds no entry twice.
LEMMA OneEach ==
  ASSUME xml \in Seq(Records), NEW told \in SUBSET Jobs,
         \A j \in Jobs : Cardinality(EntriesOf(xml, j)) = IF j \in told THEN 1 ELSE 0
  PROVE  /\ {xml[i].name : i \in DOMAIN xml} = told
         /\ \A i, k \in DOMAIN xml : xml[i] = xml[k] => i = k
<1>1. DOMAIN xml = 1 .. Len(xml) /\ Len(xml) \in Nat
  OBVIOUS
<1>2. \A i \in DOMAIN xml : xml[i].name \in Jobs
  <2>1. \A i \in DOMAIN xml : xml[i] \in Records
    OBVIOUS
  <2>2. QED
    BY <2>1 DEF Records
<1>3. \A j \in Jobs : IsFiniteSet(EntriesOf(xml, j))
  <2>1. IsFiniteSet(DOMAIN xml)
    BY <1>1, FS_Interval
  <2>2. QED
    BY <2>1, FS_Subset DEF EntriesOf
<1>4. \A j \in Jobs \ told : EntriesOf(xml, j) = {}
  BY <1>3, FS_EmptySet
<1>5. \A j \in told : \E i : EntriesOf(xml, j) = {i}
  <2> SUFFICES ASSUME NEW j \in told
               PROVE  \E i : EntriesOf(xml, j) = {i}
    OBVIOUS
  <2>1. IsFiniteSet(EntriesOf(xml, j)) /\ Cardinality(EntriesOf(xml, j)) = 1
    BY <1>3
  <2>2. QED
    BY <2>1, FS_Singleton
<1>6. {xml[i].name : i \in DOMAIN xml} \subseteq told
  BY <1>2, <1>4 DEF EntriesOf
<1>7. told \subseteq {xml[i].name : i \in DOMAIN xml}
  BY <1>5 DEF EntriesOf
<1>8. ASSUME NEW i \in DOMAIN xml, NEW k \in DOMAIN xml, xml[i] = xml[k]
      PROVE  i = k
  <2>1. xml[i].name \in told
    BY <1>6
  <2>2. i \in EntriesOf(xml, xml[i].name) /\ k \in EntriesOf(xml, xml[i].name)
    BY <1>8 DEF EntriesOf
  <2>3. QED
    BY <1>5, <2>1, <2>2
<1>9. QED
  BY <1>6, <1>7, <1>8

\* When test.py comes to its end, the file of results names the jobs that no
\* worker threw back and no others, it holds no entry twice, and the counters
\* agree.
THEOREM ReportAddsUp == Spec => []ReportComplete
<1>1. ASSUME Inv, Bounded, Complete
      PROVE  ReportComplete
  <2> SUFFICES ASSUME main = "done"
               PROVE  ReportComplete
    BY DEF ReportComplete
  <2>1. PICK told, broken : Accounted(told, broken)
    BY <1>1 DEF Complete
  <2>2. Hand = {} /\ told \cup broken \subseteq Jobs /\ Cardinality(told \cup broken) = N
    BY <1>1, <2>1 DEF Complete, Accounted, Hand
  <2>3. IsFiniteSet(Jobs) /\ Cardinality(Jobs) = N
    BY RunnerAssumption, FS_Interval DEF Jobs
  <2>4. told \cup broken = Jobs
    BY <2>2, <2>3, FS_Subset
  <2>5. is_break = broken /\ told \cap is_break = {} /\ told = Jobs \ is_break
    BY <1>1, <2>1, <2>4 DEF Accounted, Inv, Types
  <2>6. /\ {xml[i].name : i \in DOMAIN xml} = Jobs \ is_break
        /\ \A i, k \in DOMAIN xml : xml[i] = xml[k] => i = k
    <3>1. xml \in Seq(Records) /\ told \in SUBSET Jobs
      BY <1>1, <2>1 DEF Complete, Accounted
    <3>2. \A j \in Jobs : Cardinality(EntriesOf(xml, j)) = IF j \in told THEN 1 ELSE 0
      BY <2>1 DEF Accounted, Written
    <3>3. QED
      BY <2>5, <3>1, <3>2, OneEach
  <2>7. passed + skipped + others = N - Cardinality(is_break)
    <3>1. Jobs \cap is_break = is_break
      BY <2>5, <2>4
    <3>2. Cardinality(Jobs \ is_break) = Cardinality(Jobs) - Cardinality(Jobs \cap is_break)
      BY <2>3, FS_Difference
    <3>3. QED
      BY <2>1, <2>3, <2>5, <3>1, <3>2 DEF Accounted
  <2>8. QED
    BY <2>6, <2>7 DEF ReportComplete
<1>2. QED
  BY <1>1, InductiveInv, PTL
=============================================================================
