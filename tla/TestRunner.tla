----------------------------- MODULE TestRunner -----------------------------
(***************************************************************************)
(* test.py: the main thread dispatches one job per test suite and example  *)
(* to a queue, worker threads run them as processes and put them on a      *)
(* second queue, and the main thread counts what comes back and writes the *)
(* file of results.                                                        *)
(*                                                                         *)
(* The threads share the two queues, the jobs themselves (a worker changes *)
(* is_break and returncode of a job the main thread reads later) and the   *)
(* flag thread_exit, which the handler of SIGINT sets.  Python runs a      *)
(* handler in the main thread, between two of its instructions: while the  *)
(* main thread is blocked on a queue or a join the signal stays pending.   *)
(***************************************************************************)
EXTENDS Integers, Sequences, FiniteSets

CONSTANTS
  Suites,      \* jobs 1 .. Suites are test suites, the others examples
  N,           \* total_tests
  Workers,     \* the worker threads, one per processor
  Translate,   \* --text or --html is among the options
  MaxDeaths    \* bound of the model: workers that end in an exception

ASSUME RunnerAssumption == /\ N \in Nat /\ Suites \in 0 .. N
                           /\ IsFiniteSet(Workers) /\ Workers # {}
                           /\ Translate \in BOOLEAN /\ MaxDeaths \in Nat

Jobs  == 1 .. N
Break == 0                       \* the job with is_break that ends a worker
IsSuite(j) == j <= Suites

\* What a job's process may come back with.  A suite that returns 1 may have
\* left no results file (valgrind that fails to start returns 1 as well).
Outcomes == {"0", "1", "1 without results", "2", "other"}

VARIABLES
  sent,          \* jobs and break tokens the main thread has dispatched
  input_queue,   \* Seq(Jobs \cup {Break})
  output_queue,  \* Seq(Jobs)
  worker,        \* [Workers -> what the thread does and the job it holds]
  is_skip, is_break, returncode,   \* attributes of the jobs
  ran,           \* history: jobs whose process has come back
  deaths,        \* workers that ended in an exception
  thread_exit,   \* the flag of the handler
  sigint,        \* "none", "pending" or "handled"
  main,          \* what the main thread does
  job,           \* the job the main thread has in hand
  collected,     \* times the collecting loop has gone round
  passed, skipped, others,   \* its counters
  xml,           \* entries of the results file, in the order written
  retval         \* what run_tests returns

attributes == <<is_skip, is_break, returncode, ran>>
results == <<passed, skipped, others, xml>>
mainVars == <<main, job, collected, results, retval>>
vars == <<sent, input_queue, output_queue, worker, attributes, deaths,
          thread_exit, sigint, mainVars>>

Idle == [pc |-> "get", job |-> Break]

Init == /\ sent = 0 /\ input_queue = <<>> /\ output_queue = <<>>
        /\ worker = [w \in Workers |-> Idle]
        /\ is_skip = {} /\ is_break = {} /\ ran = {}
        \* Job.__init__ sets returncode to False, which equals 0
        /\ returncode = [j \in Jobs |-> "0"]
        /\ deaths = 0
        /\ thread_exit = FALSE /\ sigint = "none"
        /\ main = "run" /\ job = Break /\ collected = 0
        /\ passed = 0 /\ skipped = 0 /\ others = 0 /\ xml = <<>>
        /\ retval = -1

-----------------------------------------------------------------------------
(* The signal.                                                             *)

Stopped == main \in {"done", "raised"}
Ended(w) == worker[w].pc \in {"ended", "dead"}

\* The main thread waits inside a call that no handler interrupts.
Blocked == /\ main = "run" /\ sent = N + Cardinality(Workers)
           /\ IF collected < N THEN output_queue = <<>>
                               ELSE \E w \in Workers : ~Ended(w)

Interrupt == /\ sigint = "none" /\ ~Stopped
             /\ sigint' = "pending"
             /\ UNCHANGED <<sent, input_queue, output_queue, worker, attributes,
                            deaths, thread_exit, mainVars>>

\* sigint_hook; it may still run before the main thread goes to sleep.
SigintHook == /\ sigint = "pending" /\ ~Stopped
              /\ sigint' = "handled" /\ thread_exit' = TRUE
              /\ UNCHANGED <<sent, input_queue, output_queue, worker, attributes,
                             deaths, mainVars>>

-----------------------------------------------------------------------------
(* The worker threads.                                                     *)

Get(w) ==
  /\ worker[w].pc = "get" /\ input_queue # <<>>
  /\ worker' = [worker EXCEPT ![w] = [pc |-> IF Head(input_queue) = Break
                                             THEN "ended" ELSE "check",
                                      job |-> Head(input_queue)]]
  /\ input_queue' = Tail(input_queue)
  /\ UNCHANGED <<sent, output_queue, attributes, deaths, thread_exit, sigint, mainVars>>

Put(w) == /\ output_queue' = Append(output_queue, worker[w].job)
          /\ worker' = [worker EXCEPT ![w] = Idle]

\* (Variant for SuccessIsEarned: the job that comes back is not marked.)
ThrowBack_Unmarked(w) ==
  /\ worker[w].pc = "check" /\ thread_exit
  /\ Put(w)
  /\ UNCHANGED <<sent, input_queue, attributes, deaths, thread_exit, sigint, mainVars>>

\* (Variant for RunEnds: after an interrupt the worker drops its job.)
ThrowBack_Silent(w) ==
  /\ worker[w].pc = "check" /\ thread_exit
  /\ worker' = [worker EXCEPT ![w] = Idle]
  /\ UNCHANGED <<sent, input_queue, output_queue, attributes, deaths, thread_exit,
                 sigint, mainVars>>

\* The flag is read once, before the process starts.
ThrowBack(w) ==
  /\ worker[w].pc = "check" /\ thread_exit
  /\ is_break' = is_break \cup {worker[w].job}
  /\ Put(w)
  /\ UNCHANGED <<sent, input_queue, is_skip, returncode, ran, deaths, thread_exit,
                 sigint, mainVars>>

Skip(w) ==
  /\ worker[w].pc = "check" /\ ~thread_exit /\ worker[w].job \in is_skip
  /\ Put(w)
  /\ UNCHANGED <<sent, input_queue, attributes, deaths, thread_exit, sigint, mainVars>>

Launch(w) ==
  /\ worker[w].pc = "check" /\ ~thread_exit /\ worker[w].job \notin is_skip
  /\ worker' = [worker EXCEPT ![w].pc = "run"]
  /\ UNCHANGED <<sent, input_queue, output_queue, attributes, deaths, thread_exit,
                 sigint, mainVars>>

\* run_job_synchronously returns.
Return(w) ==
  /\ worker[w].pc = "run"
  /\ \E code \in Outcomes :
       /\ code = "1 without results" => IsSuite(worker[w].job)
       /\ returncode' = [returncode EXCEPT ![worker[w].job] = code]
  /\ ran' = ran \cup {worker[w].job}
  /\ Put(w)
  /\ UNCHANGED <<sent, input_queue, is_skip, is_break, deaths, thread_exit, sigint,
                 mainVars>>

\* It raises (no process could be created, standard output is closed): the
\* thread ends and nobody answers for its job.
Die(w) ==
  /\ worker[w].pc = "run" /\ deaths < MaxDeaths
  /\ worker' = [worker EXCEPT ![w].pc = "dead"]
  /\ deaths' = deaths + 1
  /\ UNCHANGED <<sent, input_queue, output_queue, attributes, thread_exit, sigint,
                 mainVars>>

-----------------------------------------------------------------------------
(* The main thread.  A pending signal is handled before its next step.     *)

Running == main = "run" /\ sigint # "pending"

Dispatch ==
  /\ Running /\ sent < N
  /\ sent' = sent + 1
  /\ input_queue' = Append(input_queue, sent + 1)
  /\ is_skip' \in {is_skip, is_skip \cup {sent + 1}}
  /\ UNCHANGED <<output_queue, worker, is_break, returncode, ran, deaths, thread_exit,
                 sigint, mainVars>>

\* (Variant for TypeOK: one token too many.)
PackUp_OneMore ==
  /\ Running /\ sent \in N .. N + Cardinality(Workers)
  /\ sent' = sent + 1
  /\ input_queue' = Append(input_queue, Break)
  /\ UNCHANGED <<output_queue, worker, attributes, deaths, thread_exit, sigint, mainVars>>

PackUp ==
  /\ Running /\ sent \in N .. N + Cardinality(Workers) - 1
  /\ sent' = sent + 1
  /\ input_queue' = Append(input_queue, Break)
  /\ UNCHANGED <<output_queue, worker, attributes, deaths, thread_exit, sigint, mainVars>>

\* (Variant for ReportComplete: a job thrown back is reported like any other.)
Collect_Everything ==
  /\ Running /\ sent = N + Cardinality(Workers)
  /\ collected < N /\ output_queue # <<>>
  /\ output_queue' = Tail(output_queue)
  /\ collected' = collected + 1
  /\ main' = "report" /\ job' = Head(output_queue)
  /\ UNCHANGED <<sent, input_queue, worker, attributes, deaths, thread_exit, sigint,
                 results, retval>>

Collect ==
  /\ Running /\ sent = N + Cardinality(Workers)
  /\ collected < N /\ output_queue # <<>>
  /\ output_queue' = Tail(output_queue)
  /\ collected' = collected + 1
  /\ IF Head(output_queue) \in is_break
       THEN UNCHANGED <<main, job>>
       ELSE main' = "report" /\ job' = Head(output_queue)
  /\ UNCHANGED <<sent, input_queue, worker, attributes, deaths, thread_exit, sigint,
                 results, retval>>

Status(j) == IF j \in is_skip THEN "SKIP"
             ELSE CASE returncode[j] = "0" -> "PASS"
                    [] returncode[j] \in {"1", "1 without results"} -> "FAIL"
                    [] returncode[j] = "2" -> "VALGR"
                    [] OTHER -> "CRASH"

Entry(j, result, readable) == [name |-> j, result |-> result, readable |-> readable]

\* The entries a job adds.  A suite that ran to its end left its own in a file,
\* which says PASS when only valgrind complains; the VALGR entry that should
\* follow is written in a branch that a return code of 2 never reaches, and the
\* entry of a crashed suite closes another tag than it opens.
Entries(j) ==
  IF ~IsSuite(j) \/ j \in is_skip THEN <<Entry(j, Status(j), TRUE)>>
  ELSE IF returncode[j] \in {"0", "1", "1 without results", "2"}
         THEN <<Entry(j, IF returncode[j] = "1" THEN "FAIL" ELSE "PASS", TRUE)>>
         ELSE <<Entry(j, "CRASH", FALSE)>>

ResultsFileMissing == /\ IsSuite(job) /\ job \notin is_skip
                      /\ returncode[job] = "1 without results"

Report ==
  /\ main = "report" /\ sigint # "pending"
  /\ passed'  = passed  + (IF Status(job) = "PASS" THEN 1 ELSE 0)
  /\ skipped' = skipped + (IF Status(job) = "SKIP" THEN 1 ELSE 0)
  /\ others'  = others  + (IF Status(job) \in {"PASS", "SKIP"} THEN 0 ELSE 1)
  /\ IF ResultsFileMissing
       THEN main' = "raised" /\ UNCHANGED xml           \* IOError
       ELSE main' = "run" /\ xml' = xml \o Entries(job)
  /\ job' = Break
  /\ UNCHANGED <<sent, input_queue, output_queue, worker, attributes, deaths,
                 thread_exit, sigint, collected, retval>>

\* The threads are joined, the file is closed and translated.
Conclude ==
  /\ Running /\ sent = N + Cardinality(Workers) /\ collected = N
  /\ \A w \in Workers : Ended(w)
  /\ IF Translate /\ \E i \in DOMAIN xml : ~xml[i].readable
       THEN main' = "raised" /\ UNCHANGED retval        \* ParseError
       ELSE main' = "done" /\ retval' = IF passed + skipped = N THEN 0 ELSE 1
  /\ UNCHANGED <<sent, input_queue, output_queue, worker, attributes, deaths,
                 thread_exit, sigint, job, collected, results>>

-----------------------------------------------------------------------------
Main == Dispatch \/ PackUp \/ Collect \/ Report \/ Conclude
Work(w) == Get(w) \/ ThrowBack(w) \/ Skip(w) \/ Launch(w) \/ Return(w)

Next == \/ Interrupt \/ SigintHook \/ Main
        \/ \E w \in Workers : Work(w) \/ Die(w)

Spec == Init /\ [][Next]_vars

\* The threads are scheduled and every test process ends.
FairSpec == /\ Spec
            /\ WF_vars(Main) /\ WF_vars(SigintHook /\ ~Blocked)
            /\ \A w \in Workers : WF_vars(Work(w))

-----------------------------------------------------------------------------
SeqIn(q, S) == Len(q) <= N + Cardinality(Workers) /\ \A i \in DOMAIN q : q[i] \in S

\* The types of the variables.
TypeOK ==
  /\ sent \in 0 .. N + Cardinality(Workers)
  /\ SeqIn(input_queue, 0 .. N) /\ SeqIn(output_queue, Jobs)
  /\ worker \in [Workers -> [pc : {"get", "check", "run", "ended", "dead"},
                             job : 0 .. N]]
  /\ is_skip \subseteq Jobs /\ is_break \subseteq Jobs /\ ran \subseteq Jobs
  /\ returncode \in [Jobs -> Outcomes]
  /\ deaths \in 0 .. MaxDeaths
  /\ thread_exit \in BOOLEAN /\ sigint \in {"none", "pending", "handled"}
  /\ main \in {"run", "report", "done", "raised"}
  /\ job \in 0 .. N /\ collected \in 0 .. N
  /\ {passed, skipped, others} \subseteq 0 .. N
  /\ retval \in {-1, 0, 1}

\* A run that reports success has run every job to the return code 0, but for
\* the jobs it was told to skip: neither an interrupt nor a lost job is a success
\* (a job that nobody ran still holds False, which Python takes for 0).
SuccessIsEarned == retval = 0 =>
  \A j \in Jobs : j \in is_skip \/ (j \in ran /\ returncode[j] = "0")

\* What is reported adds up: at the end the file of results names the jobs that
\* no worker threw back and no others, it holds no entry twice, and the counters
\* agree.
ReportComplete == main = "done" =>
  /\ {xml[i].name : i \in DOMAIN xml} = Jobs \ is_break
  /\ \A i, k \in DOMAIN xml : xml[i] = xml[k] => i = k
  /\ passed + skipped + others = N - Cardinality(is_break)

\* What the comment before the report says: a suite that works and only fails
\* valgrind has its PASS entry, followed by a VALGR entry of the same name.
ValgrindReported == main = "done" =>
  \A j \in Jobs \ is_break : IsSuite(j) /\ j \in ran /\ returncode[j] = "2" =>
    \E i, k \in DOMAIN xml :
      i < k /\ xml[i] = Entry(j, "PASS", TRUE) /\ xml[k] = Entry(j, "VALGR", TRUE)

\* Unless a worker ends in an exception, with or without an interrupt and with
\* or without an exception in the main thread, every thread ends.
RunEnds == [](deaths = 0) => <>(Stopped /\ \A w \in Workers : Ended(w))

=============================================================================
