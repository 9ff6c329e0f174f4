# A verification of ns3_HaLowFa_gym

ns3_HaLowFa_gym is the network simulator ns-3 extended with IEEE 802.11ah
("HaLow") stations and access points, and with ns3-gym, which lets a Python
agent observe and steer a running simulation. What this repository adds to ns-3
is the **fast authentication and association** of many stations: the access
point (AP) throttles, by adaptive controllers, how many stations may start to
authenticate, and the agent may choose the controller. This directory models
that core in TLA+, together with two concurrent Python programs of the
repository (the test runner and the visualizer), checks it with TLC on small
instances and proves the safety properties of all its components, and one
refinement, with TLAPS for every value of the parameters.

Paths below are relative to the repository (`src/wifi/...`,
`contrib/opengym/...`, `scratch/...`).

## 1. Inventory

| component | code | state | operations | modelled |
|---|---|---|---|---|
| adaptive authentication controllers | `src/wifi/model/ap-wifi-mac.cc`, `Algorithm_0` .. `_10`, `SendOneBeacon` | `AuthenThreshold` (uint16), `m_delta`, `m_cac_state` (WAIT, LEARN, WORK), `m_cac_improve`, the counters, `m_cac_history`, `m_queueLast` | one step per beacon | `LearningControl`: 1, 2, 7, 8, 9, 10; `HalvingControl`: 3; `OracleControl`: 0, 4, 5, 6; `SwitchingControl`: all but 8, with `AssAlg`; `AuthSystem`: 3 in a closed loop with the stations |
| authentication and association, station | `src/wifi/model/sta-wifi-mac.cc` | `m_state`, the scheduled events, the last authentication control element heard, the distributed backoff | beacon received, frame received, five timeouts, watchdog, probing on/off, leave | `Association` |
| the same, AP | `ap-wifi-mac.cc` (`Receive`, `TxOk`, `TxFailed`), `wifi-remote-station-manager.cc` | association state per station, `m_sensorList`, `m_OffloadList` | four requests, two outcomes | `Association` |
| management queue | `wifi-mac-queue.cc` | frames with time stamps, `m_maxSize` | enqueue, dequeue, cleanup by lifetime | its limit and the expiry in `Association`, the size the controller reads in `AuthSystem` |
| channel access | `dca-txop.cc`, `edca-txop-n.cc`, `dcf-manager.cc`, `mac-low.cc` | backoff, NAV, retries | request, grant, acknowledgement, `AccessIfRaw` | requests and grants of a queue in `RawAccess`, else the outcome of a transmission |
| restricted access window (RAW), RPS element | `s1g-raw-control.cc`, `rps.cc`, `S1gBeaconReceived` | slot assignments, the timers of a station | schedule, encode, decode, open and shut the queues | the station and its queues: `RawAccess` |
| authentication control element | `authentication-control.cc` | bit fields | encode, decode | no, a stateless codec |
| ns3-gym link, simulation side | `contrib/opengym/model/opengym_interface.cc` | `m_initSimMsgSent`, `m_simEnd`, `m_stopEnvRequested`, REQ socket | `Init`, `NotifyCurrentState`, `NotifySimulationEnd` | `GymLink` |
| ns3-gym link, agent side | `contrib/opengym/model/ns3gym/ns3gym/ns3env.py` | `newStateRx`, `envStopped`, `forceEnvStop`, `gameOver`, `envDirty`, REP socket | construct, `step`, `reset`, `close` | `GymLink` |
| ns3-gym data and spaces | `container.cc`, `spaces.cc`, `ns3env.py` | | pack, unpack | no, stateless conversions |
| scenario | `scratch/halow_bs/sim.cc` | | start-up; announces groups; switches the algorithm | what it tells the controller: `SwitchingControl!Scenario` |
| test runner | `test.py` | two queues, jobs, `thread_exit`, the results file | dispatch, run, throw back, report, interrupt | `TestRunner` |
| visualizer | `src/visualizer/visualizer/core.py`, `src/visualizer/model/pyviz.cc` | play button, timers, `go`, the lock, `target_time`, pause messages | play, pause, speed, quit, update, run a period | `Visualizer` |
| event scheduler | `src/core/model` | event queue | | its guarantees only: one event at a time, in the order of time, cancelled events do not run, a `Stop` ends a run early |
| the rest of ns-3 | `src/internet`, `src/lte`, ... | | | no, upstream |

### How the components interact

* Each beacon interval `SendOneBeacon` reads the size of the AP's management
  queue, runs the chosen algorithm once, clamps `AuthenThreshold` to 1023 and
  broadcasts it. Stations whose random value is below the threshold send an
  authentication request; the responses fill the queue the controller reads at
  the next beacon. The trace source `AssAlg` lets a script change the algorithm
  in between.
* A station and the AP exchange probe, authentication, association and
  disassociation frames through their management queues; the AP's view of a
  station changes when a request arrives and again when its response has been
  acknowledged or given up (`TxOk`, `TxFailed`), the station's view when the
  response arrives.
* The simulation is the REQ side of a ZeroMQ pair, the agent the REP side. The
  simulation sends each state and blocks for the answer. `reset` closes one
  bridge and starts another process.
* `AssAlg` is also how the scenario or an agent steers: it announces groups of
  stations to the oracles and, with algorithm 100, sets the threshold itself.
* A beacon carries the RPS element. A station that hears it shuts its four
  `EdcaTxopN` and two `DcaTxop`, schedules their opening for its slot and for the
  end of the windows; the queues ask the medium-access manager for the medium.
* `test.py`: the main thread and its workers share two queues and the job
  objects; a signal handler sets a flag. The visualizer: the GTK main loop and
  the simulation thread share a lock and an event; callbacks are nested because
  the main loop is run from inside one.

### What is hard, and what makes a component correct

| component | hard behaviour | correct when |
|---|---|---|
| controllers | arithmetic at 0 and at the 16-bit limit, the stack of interrupted groups over long sequences of quiet and busy beacons, the step that decays | the threshold and the step stay in range; interrupted groups stay nested; a quiet channel never closes the gate and finally opens it; a busy channel does not open it |
| association | timers, late answers, closed gates and missed beacons in any order; lost frames and lost acknowledgements; a full queue; repeated requests | no wait without a timer; no timer of an earlier wait; both sides agree; nobody passes a gate that was never open to it; everybody passes one that stays open; a leave completes |
| choice of the algorithm | each controller starts from the variables another has left; announcements of groups in between | the published threshold stays in range; the gate opens on a quiet channel unless the step was left at 0; a quiet channel closes it only for a group |
| controller and stations | the controller sees its queue only, and frames are lost and late | every station gets in, whatever the order of beacons, requests and answers |
| restricted access window | timers of two beacons at once, one of which nothing can cancel; grants that come while the window is shut; lost beacons | a station has access in its own slot and not outside, whatever timers are left over, unless one opens an earlier slot; an EDCA queue never forgets a frame; a queue is opened again unless every timer is cut off |
| test runner | an interrupt, a worker or a results file that fails, at any moment | success means that every job was run and passed; the report names each job that ran, once, and no other; all threads end |
| visualizer | nested callbacks, two timers, a lock held while the main loop runs | playing goes on, a pause or a message stops the simulation after a bounded overrun, a pause settles, the window closes |
| gym link | two processes that both block in `recv`; close, reset and interrupts in any order; the last answer of an episode | never both wait; an action is executed once, in the state it was chosen for; a simulation that is left exits |

The hazards, with the lines where they bite and the properties that cover them,
are listed in `PROJECT.json`.

## 2. Modules

| module | role |
|---|---|
| `LearningControl` | the six learning algorithms, one action per branch |
| `HalvingControl` | `Algorithm_3`, the default |
| `HalvingHistory` | the same with the memory of the last attempt that failed |
| `OracleControl` | `Algorithm_0`, 4, `_5`, `_6` and the announcements of the scenario |
| `SwitchingControl` | composes the three above: `SendOneBeacon` with the `AssAlg` callback |
| `Association` | stations, AP, queues and channel of one BSS |
| `AuthSystem` | composes `Association` and `HalvingControl` |
| `RawAccess` | a station's timers and transmit queue in restricted access windows |
| `GymEpisode` | abstract: what an episode promises to the agent |
| `GymLink` | `Ns3Env`, `Ns3ZmqBridge`, `OpenGymInterface` and their sockets; refines `GymEpisode` |
| `TestRunner` | the threads of `test.py` |
| `Visualizer` | the two threads of `core.py` |
| `VisualizerHistory` | the same with a count of what is simulated after a pause was asked for |
| `MCLearningControl`, `MCAssociation`, `MCAuthSystem`, `MCRawAccess` | values of constants for TLC |
| `LearningControl_proofs`, `HalvingControl_proofs`, `SwitchingControl_proofs`, `Association_proofs`, `GymLink_proofs`, `RawAccess_proofs`, `TestRunner_proofs`, `Visualizer_proofs` | the theorems |

Definitions called `X_Something` just before `X`, marked "variant", are altered
forms of `X` that show a property to be sensitive to it. Nothing else uses them.

### LearningControl

The code has one function per algorithm, each a tree of conditions over the same
variables. The module has one action per leaf of that tree, collected in `Wait`, `Learn` and `Work`, shared between the
algorithms where their code is the same and guarded by `Algorithm` where it is
not: `WaitOpen`, `WaitToLearn` (WAIT); `LearnRaise`, `LearnDone`, ... (LEARN);
`WorkCountDown`, `WorkDone`, `WorkNewGroup`, then per algorithm a reaction to
quiet (`CountedQuiet`, `ScaledQuiet`, `SteadyQuiet`) and to busy beacons
(`PlainBusy`, `RatioBusy`, `ShrinkBusy`, `BandedBusy`). `Store` is what an
assignment to the `uint16_t` threshold followed by the clamp in `SendOneBeacon`
leaves. Floating-point ratios over frame counts (7, 8, 10) are a choice over all
the steps they can yield. `m_cac_improve`, which the constructor does not
initialise, starts with either value. `ABORTED` is a process that an integer
division by zero has ended: `Algorithm_8` divides by `m_tau`, and `Restore` by the
sum of the step in use and the one it takes from the stack. A controller that
keeps its own step positive never meets the second; after a change of the
algorithm it can.

### HalvingControl

The same construction for `Algorithm_3`, which keeps no stack. It runs with the
constants of the code (1023, 5). When an attempt to open the gate leaves frames in
the queue the code shuts the gate and forgets the attempt. `HalvingHistory` adds
`failed`, the threshold of the last attempt of this learning that did so, and says
of the code what it keeps nowhere: the next attempt is half of it, however many
busy and quiet beacons lie in between.

### OracleControl and SwitchingControl

`OracleControl` has one action per branch of the algorithms that do not learn,
and `Announce`, what `sim.cc` (or another scenario) tells them. The share of the
frames that got through (`Algorithm_6` on a busy beacon) is a choice over all
the steps it can yield. The population is never 0, but a second group may be
announced without a new population: `DivideByNoStations` ends the process.
`SwitchingControl` instantiates `LearningControl` and `HalvingControl` on the
variables they share in the class, adds algorithm 100 (the agent writes the
threshold) and lets `AssAlg` select another algorithm between two beacons.
`m_cac_wait_counter` has no lower bound: each time `Algorithm_3` takes over from a
0 it counts one further down. `MaxDelta` bounds the step: LEARN doubles it and
only the threshold holds it back, so that an agent that sets the threshold to 0
again and again lets it grow to 16 bits and more, where the sum of the two wraps.
The model stops before; in the runs the bound is never met. `Algorithm_8`, whose unbounded step needs a bound of
its own, and 101, which is `Algorithm_10` with a trace, are left out.

### AuthSystem

Extends `Association` with `Algorithm_3` on the published threshold. A beacon is
sent once, each station hears it or misses it before the next, and any number of
frames and timers falls in between. `MgtQueueSize` does not count the frame that
`DcaTxop` has fetched, as in the code: the controller can see an empty queue
although an answer is at the channel.

### RawAccess

Time is discrete. A station has the three kinds of events of the code: the one
that ends all windows (`outside`), the one that ends its slot (`inside`), and the
ones that open its slot (`slotStarts`), of which several can be pending because
the code does not keep their identifiers. `Heard` is `S1gBeaconReceived` with the
part of `Receive` that reads the element; `LastOf` and `Paged` keep two traits of
that code: the last assignment that covers a station wins, and whether the window
is paged is left by the last assignment of the element. `Ends` adds up where each
window ends. The AP sends the elements its configuration holds (`m_rpsset`) without
looking at the beacon interval, so `RawAssumption` does not tie them to it: windows
may outlast the interval, and a station can hear a beacon while the timers of an
earlier one run. What a beacon does to them is in `SendOneBeacon`: it cancels
`outside` at every station that hears it, leaves `inside`, and cannot cancel
`slotStarts`. `stray` is a history variable: a slot was still to start when the last
beacon came. One transmit queue per station is modelled, an `EdcaTxopN` or a
`DcaTxop` as `Queue` says.

### TestRunner

The main thread, the workers and the handler of SIGINT. A worker takes a job,
reads the flag once, skips, runs or throws it back; the main thread dispatches,
then collects as many jobs as it sent, joins the workers and translates the file.
A handler runs between two steps of the main thread; while that is blocked the
signal stays pending. Exit codes are those the code tells apart.

### Visualizer

`stack` holds the GTK callbacks in progress: `update_view_timeout` runs the main
loop while it waits for the lock, so a button or another timer can be entered
inside it. `behind` is how far the target lies ahead of the simulated time; a run
brings it to 0 unless a `Stop` of the script ends the run before. A message of the
simulation is taken under the lock (`UpdateView`), which also moves the target, and
releases the play button only afterwards (`EndTimeout`), so a go signal given before
still runs the next period. `VisualizerHistory` counts these (`overrun`). A GLib source is a member of `Timers`; `_update_timeout_id` may name one
that has gone. `idle` counts the calls of `update_model` that wait in the main loop. The simulation thread has one action per statement that touches
shared state.

### Association

`m_state`, `timers` (the set of scheduled events), the backoff and the last
control element are functions of the station. `staQueue` and `apQueue` are the
management queues; a step takes a frame off a queue with one of the outcomes of
`Outcomes`: acknowledged, received but the acknowledgement lost, lost, or expired
in the queue (in which case neither `TxOk` nor `TxFailed` is called). The action
contains the receiver's handler and the sender's completion. Time is
abstract: any scheduled event may fire next. A request timer that fires although
its request or the answer is still on its way spends one of `MaxLate` (the timeouts
of the code are much longer than an exchange). `published` takes
any value of `Thresholds` at a beacon: all that a controller could do.
Only the slot event of the distributed protocol is tied to time: it fires before
the next beacon. `Disassociate` stands for the user of the class:
`SendDisAssociationRequest` is public and nobody in the repository calls it
except its own timeout.

### GymLink

`pc` is the position of the Python thread; `bridge` holds the attributes of the
current `Ns3ZmqBridge` and, as `mustSend`, the state of its REP socket;
`observed` and `answered` are history variables. `sim[e]` is the process of
episode `e`. A send on a REP socket that has nothing to answer raises an
exception, which `close` swallows. `kill()` refers to the module `signal`, which
`ns3env.py` never imports, so it has no effect on the process. Interrupts
(KeyboardInterrupt) are modelled in `step` only. Each bridge has a link of its
own, also where the port is fixed; a message that was sent is delivered.
The crash of a process is not modelled.

`Episode == INSTANCE GymEpisode WITH ...` maps `executed` to that of the current
simulation and `done` to the bridge's `gameOver`.

## 3. Runs

| run | question | bounds |
|---|---|---|
| `learning` | Algorithms 1, 2, 7 (and its twin 10), 8 and 9: ranges, nesting of the stack, bound of the step, no closing on quiet beacons, the one opening on a busy beacon, final opening | threshold 11, stack 2, counters 1, `m_delta` of Algorithm_8 <= 24, one queue size per band the code distinguishes |
| `halving` | Algorithm_3: ranges, no attempt wider than half of the one that failed, final opening | the constants of the code |
| `switching` | ranges, no closing on a quiet beacon but for a group, the step of Algorithm_6, final opening, over changes of the algorithm | threshold 2, algorithms 0, 3, 5, 6, 7, 100; four changes, three announcements |
| `assoc_distributed` | ranges, the backoff's included; everybody joins in the distributed protocol | two stations, two losses, one missed watchdog, intervals 1 .. 3 |
| `assoc_bss` | no wait without its timer; no timer of an earlier wait; agreement with the AP; nobody passes a closed gate; everybody else joins in the end; a leave completes | two stations of which the AP must refuse one; one lost frame, late answer, leave and switch of the probing; no watchdog |
| `auth_system` | the closed loop lets everybody in | two stations, the first and the last by their random value, full threshold 15, one lost frame |
| `raw` | ranges, access in the own slot and in no other, no forgotten frame, queues opened again | two stations, one frame queued and one in the air, three RPS elements in rotation of which one outlasts the interval, interval 2, jitter 1 |
| `gym` | ranges, no simulation left behind, refinement of `GymEpisode`, calls return, simulations exit | three episodes, three states each, two interrupts |
| `test_runner` | ranges, success is earned, the report names the jobs that ran, the threads end | two suites, one example, two workers, an interrupt, one worker that dies |
| `visualizer` | ranges, how far the simulation runs after a pause was asked for, playing goes on, a pause settles, the window closes | three actions of the user, four timers, two speeds |
| `visualizer_doc_periods` | a statement of a comment that the code does not keep (section 6) | as above |
| `test_runner_doc_valgr` | the same of `test.py` | as `test_runner` |

**Why the bounds are enough.** The controllers compare a threshold with sums and
products of steps: with a full threshold of 11 and steps from 1, every
comparison has both outcomes, the sum overshoots the full threshold, the stack
is pushed, restored, and pushed while it is not empty; `Width` 64 keeps the ratio of the
code's 65536 to 1023 large enough that only subtractions wrap. `CounterStart`
1 keeps the counter's zero and non-zero cases. A deeper stack or
larger counters multiply the states (a million at threshold 15) and add
no new comparison; the proofs cover them. The attribute `Algorithm` is a variable
that keeps its first value, so that one run explores all the algorithms; the queue
sizes 0, 5, 10, 15 and 101 fall one into each band that any of them
distinguishes. `MaxDelta` cuts `Algorithm_8`'s
doubling; it lies below `Width`, so that the clamp, not the wrap, decides.
Two stations are needed for
a shared queue that is full (`MaxSize` 2), for a station the AP must refuse
(`Compatible`) and for the two lists; each also meets all the races of its own
timers. Of the two thresholds one excludes the second station, which is also the
one the AP refuses. `switching` trades the
size of the threshold for the number of changes: a full threshold of 2 and
populations of 1 and 2 give shares that reach it in one step and in two, and steps
of 0, below, at and far above the threshold. Four changes are what it takes until
two steps of 0 are merged (Algorithm_3 lets its step decay, a learning controller
puts it on the stack, and once more) and until the counter of WORK is at -2;
`MaxDelta` is not met. `auth_system`: an attempt of `Algorithm_3` fails because of an answer
in the queue, so a crowd with fewer answers than the threshold has halvings gets
in; with a full threshold of 7 and one loss (or 15 and more losses) TLC shows a
station that is shut out for ever once the step is 0. The code's 1023 has ten
halvings, far from what TLC could exhaust; 15 with one loss and 31 with two are
on the side where it holds. In `raw` the three elements are a window with one slot
for both stations that ends in time, an element of two windows (the second with two
slots) that lasts three units where the interval is two, and a paged window; in
rotation, with a jitter of one, and with any beacon missed. So at a beacon an end of
the windows, an end of a slot or the start of a slot of the one before may be
pending. Three clicks reach every nesting of
callbacks that two timers and a pause can produce, and closing the window in it.
Three jobs and two workers give a job in every place at once.

**What the properties leave out, and why.**
`NoStaleTimer` and `Agreement` hold until a watchdog fires: `MissedBeacons` does
not cancel the timers of the wait it ends (remark 4 of section 6). They exclude the
distributed protocol combined with active probing, where the slot event can
interrupt a wait for a probe response. When a timer fires before a late answer the
repeated request may be answered twice, and the second answer dropped by a full
queue: then the AP stays in `WAIT_ASSOC_TX_OK` with the station associated, which
`Agreement` allows. In `assoc_bss` no watchdog fires (`MaxMissed` 0): with one the
run does not end in minutes; the theorems about `NeverWaitsForever` (after watchdogs
too), `NoStaleTimer` and `Agreement` (until the first one) are for any number of them
and of late answers. `NeverWaitsForever` says nothing of a probing that the user has switched,
which does strand a station (remark 6). `LeaveCompletes` excepts a watchdog: the
leave it interrupts keeps its timer, and with the new attempt to associate the two
can undo each other for ever. `EveryStationJoins` has the premise that no watchdog
fires, no one leaves and nobody switches the probing: after a watchdog, a leftover
authentication timer and the new association
timer can take the station back and forth between the two waits. Where any number
of answers may be late one station can keep the AP's queue full and starve the
other, so their number is bounded in the runs. `GroupsNested` and `QuietNeverCloses` are false
of Algorithms 8 and 9, which raise the threshold on busy beacons without looking
at the stack. Where Algorithm_3's step has decayed to 0 in LEARN the gate
stays shut for ever; `QuietOpensOrExhausted` says this is the only exception.

`QuietOpensOrStuck` excepts the agent, a process that a second group without
stations has ended, and a step of 0, the one legacy of a controller that stops the
next; the process that ends because it merges two steps of 0 is such a case.
`SlotsObserved` is about stations that have heard the last beacon, at moments
when no event is due, and excepts the interval after a beacon at which a slot of an
earlier one was still to start (`stray`, remark 9). `AccessReturns` has the premise
that no timer is ever cut off by a beacon, or else that beacons whose windows end in
time are followed again and again: windows that outlast the interval can shut a
station out, since each beacon cancels the timer that would open its queue and a
paged one without data does not start it again. `AllGetIn` is about one lost frame
and a crowd that the halvings of the threshold suffice for; what happens when they
do not is `QuietOpensOrExhausted`. `PauseStops` bounds the overrun: that one or
two periods are simulated past a message is how the code is. `RunEnds` is about runs in which no worker dies of an
exception; after one the main thread waits for ever for the lost job, which TLC
shows when the premise is dropped.

**Fairness.** `SendOneBeacon` schedules itself, so quiet beacons keep coming
while the queue stays empty: `WF(QuietBeacon)`, under the premise
`<>[](m_queueLast = 0)`. In `Association` a beacon that can be heard is heard, a
scheduled event is run and the head of a queue is sent, each weakly fair per
station; the user, the controller, the watchdog and the losses are not. Losses
are bounded in number, as the retries of the lower MAC make them rare. In
`GymLink` a call proceeds when its message has come and a simulation goes on to
its next state or its end; the agent need not call anything. `CallsReturn`
has one exception: a simulation that ends before it has read a state never
contacts the agent, which then waits in `initialize_env` (the script
`scratch/opengym/sim.cc` reads one at time 0). `AuthSystem` adds that beacons are
sent for ever, and are heard but for a bounded number. `RawAccess`: time advances
and due events run, which the simulator guarantees; nothing is assumed of the
medium. `TestRunner`: threads are scheduled, a process that was started ends.
`Visualizer`: both threads are scheduled; strong fairness of `Retry` and
`UpdateView` says that the busy wait tries the lock again and again between the
events it handles and succeeds if the lock is free again and again (the simulation
thread waits for `go` between two periods).

**Deadlock.** TLC's deadlock check is on except in `learning` (`Algorithm_8` may have
ended the process by a division by zero), `switching` (so may `Algorithm_6` and the
merge of two steps), `gym`
(the agent may have closed the environment for good), `test_runner` and
`visualizer` (the program ends).

## 4. Theorems

All hold for every value of the constants that satisfies the named assumptions
(`WidthAssumption`, ...); TLC evaluates the assumptions in the runs. Every
invariant and every action property that a passing run checks is proved.

The controllers:

| theorem | says | argument |
|---|---|---|
| `LearningControl_proofs!TypeCorrect` | `Spec => []TypeOK` | inductive as it stands; a lemma for each of `Store`, `Merge`, push and pop of the stack |
| `LearningControl_proofs!StepBounded` | `Spec => []DeltaBounded` (about all but Algorithm_8) | `TypeOK /\ DeltaWithin` is inductive: every rise of `m_delta` by one goes with a rise of the threshold by the step, a merged step is smaller than both, and a pushed group takes its bound to the stack |
| `LearningControl_proofs!AlwaysNested` | `Spec => []GroupsNested` (about 1, 2, 7 and 10) | `Nested /\ DeltaWithin` is inductive; a popped group lies below the next one because the stack is decreasing; a group that is pushed lies below the top because the threshold did |
| `LearningControl_proofs!QuietBeaconsOpen` | `Spec => QuietNeverCloses`, same algorithms | a return to an interrupted group raises the threshold because the groups are nested; a sum does not wrap because the step is bounded |
| `LearningControl_proofs!BusyBeaconsHold` | `Spec => BusyOpensOnlyByWrap` (about 1 and 2) | with the bound of the step, one step per branch for a busy beacon: each leaves the threshold, cuts it, or subtracts the step, which only at 0 exceeds it |
| `HalvingControl_proofs!TypeCorrect`, `NeverStalls` | `TypeOK`, `WorkAdvances` (the controller cannot stall in WORK: a step of 0 is always about to grow) | one inductive invariant; what it adds is how step and threshold are related in each state of the controller |
| `HalvingControl_proofs!NeverReopensWider` | `HistorySpec => []NeverWider` | `Memory`: while the gate is shut in LEARN the step is still that of the attempt that failed (or 0, after an attempt with 1), and an attempt is half of it. The property alone is not inductive, for it says nothing of the step while the gate is shut |
| `SwitchingControl_proofs!TypeCorrect` | `FairSpec => []TypeOK`, over any number of changes and announcements | inductive as it stands, once it allows all that one controller leaves to another: a step of 0, a counter below 0, a stack of any depth. Each controller is shown to leave a well-formed state from any such state, not only from its own |
| `SwitchingControl_proofs!QuietClosesOnly` | `FairSpec => QuietClosesForGroups` | the lemmas that show the types also say what a quiet beacon does to the threshold. Nestedness does not survive a change, which is why a return to an interrupted group is an exception here and is none in `QuietNeverCloses` |
| `SwitchingControl_proofs!BothGroupsTogether` | `FairSpec => BothGroupsShare` | `NoWaveYet`: before the first stations are associated no second group has lowered its threshold `T1`. Without it the opening to the full threshold would pass `T1` with any step |

The procedure and the windows:

| theorem | says | argument |
|---|---|---|
| `Association_proofs!TypeCorrect` | `Spec => []TypeOK`, the limit of the queues and of the backoff included | inductive as it stands; a lemma for the enqueueing that drops at `MaxSize` |
| `Association_proofs!WaitsAreTimed` | `Spec => []NeverWaitsForever` | inductive with the types; one lemma per handler, each says which wait it enters and that it schedules its timer |
| `Association_proofs!TimersFit` | `Spec => []NoStaleTimer` | `FitInv` says of every timer, the slot event and that of a leave included, in which state it may be pending. The property alone is not inductive: the slot event, of which it does not speak, starts a wait, and must find the station in the state it was scheduled in |
| `Association_proofs!SidesAgree` | `Spec => []Agreement` | `StageInv` says for each state of a station what the AP may hold of it and which frames may be under way: no request is left from an earlier attempt, none is queued behind a leave, and until an answer is late there is one request or one answer. The two states alone are not inductive, since everything that relates them travels in the two queues |
| `Association_proofs!OnlyAdmittedJoin` | `Spec => OnlyAdmitted` | while every threshold published so far excludes a station, `ShutOut` holds of it: it is probing or waiting for a beacon, its queue and the AP's hold nothing but probes of it, and the AP has never heard of it |
| `RawAccess_proofs!NothingForgotten` | `Queue = "Edca"` implies `Spec => []NoForgottenFrame` | the property at every moment, also while events are due, with the types of the queue, is inductive: a beacon leaves a queue or shuts it, and whatever opens it, ends a transmission or adds a frame asks again |
| `RawAccess_proofs!TypeCorrect`, `OwnSlotOnly` | `Spec => []TypeOK`, `Spec => []SlotsObserved`, for any elements and any interval, also one that the windows outlast | `SlotInv`: the types (no timer runs past its time) and, for a station that follows and has no stray slot, `Phase`: its slot is to come, under way or past, it has none, or the windows are over; each says which timers run and with how much to go, from the time since the beacon. The property says nothing of timers and is not inductive. An end of a slot that an earlier beacon left is arbitrary in all of them, since it can only shut a queue that is shut |

`Ends` is a recursive function. What it computes is proved by induction over the
numbers below the length of an element, as a set: `Upward` says that a set with 0
that is closed under successors holds all of them, and follows from the
well-foundedness of `<`. `EndsExist` shows that the recursion has a solution,
`EndsAre` that it increases from 0 by the length of each window.

The coupling and the two Python programs:

| theorem | says | argument |
|---|---|---|
| `GymLink_proofs!TypeCorrect`, `NeverBothWait`, `LeftSimulationsStop` | `TypeOK` with at most one message per link, `NoMutualWait`, `AbandonedAreStopped` | one inductive invariant `Inv`: seven phases of a step say, for the current episode, where its one message is and how the counters of agent, bridge and process are related; past episodes are `Told` to stop, future ones untouched. The safety properties alone are not inductive: without the counters and the phase nothing says that a reply in the link is the one the process waits for. A lemma per action |
| `GymLink_proofs!ImplementsEpisode` | `Spec => RefinesEpisode`, the refinement of `GymEpisode` | with `Inv`, receiving a state is `Observe`, `Step` is `Answer`, the simulation's receiving of an action is `Execute`, `Restart` is `Restart`; every other action leaves what the mapping shows |
| `TestRunner_proofs!SuccessEarned` | `Spec => []SuccessIsEarned` | the main thread only counts; that counting is enough rests on every job being in one place only, of which no variable speaks. The invariant says that some function from jobs to places (unsent, in a queue, held by a worker, in hand, passed, gone) fits the queues, the workers and the counters; a lemma per action moves one job in it |
| `TestRunner_proofs!TypeCorrect` | `Spec => []TypeOK` | with the same invariant and `Bounded`: a queue that holds no job twice is no longer than there are jobs, which takes the places |
| `TestRunner_proofs!ReportAddsUp` | `Spec => []ReportComplete` | `Complete`: some two sets of jobs, the told and the thrown back ones, are disjoint from each other and from the jobs still on their way, and are counted by `collected` and by the three counters of the report; the file has one entry for each of the told. When all are counted the two sets are all the jobs, and `OneEach` turns the count of entries into names |
| `Visualizer_proofs!TypeCorrect` | `Spec => []TypeOK`: callbacks nest no deeper than the clicks plus two, three calls of `update_model` wait at most | `VInv`: below the top of the stack every callback is the busy wait (`Nested`), each holds a timeout of its own (`Shallow`), a new timeout takes a click (`Sources`), and a call of `update_model` comes from a go signal, which comes from a callback that found no call waiting (`Flow`) |
| `Visualizer_proofs!PauseReached` | `HistorySpec => []PauseStops` | `PInv`: the periods run since a pause was asked for and those that may still come make at most two. One may come from a go signal that was given (`Signal`), and one from a callback that is past the lock with the button still pressed (`Promised`); what a callback takes as a message only the innermost one holds (`ShownLast`). TLC reaches two |

**Only model-checked**: liveness (`QuietOpens`, `QuietOpensOrExhausted`,
`QuietOpensOrStuck`, `EveryStationJoins`, `LeaveCompletes`, `AllGetIn`,
`AccessReturns`, `CallsReturn`, `SimsExit`, `RunEnds`, `PlayGoesOn`,
`PauseSettles`, `QuitEnds`). These rest on weak and strong fairness, hence on
`ENABLED`, which the prover does not handle.

## 5. Not modelled

* Content of frames and elements: `rps.cc`, `authentication-control.cc` and the
  containers and spaces of ns3-gym convert data and keep no state.
* Data frames, AIDs, the TIM, page slicing and PS-Poll; in `RawAccess` also a beacon
  without an RPS element, an empty one, a slot number of 0 (a division by zero in
  the station), saved contention windows, lifetimes and aggregation.
* The backoff engine (`dcf-manager`, `mac-low`): a request may be granted at any
  time. The choice of the RAW assignments (`s1g-raw-control.cc`).
* `Algorithm_8` after a change of the algorithm, and algorithm 101.
* The crash of a simulation process or of the agent; two bridges on one port.
* In `test.py` the build and the selection of the suites; in the visualizer
  drawing, plugins and the shell (which takes the lock it may hold already).
* The event scheduler, but for its guarantees (section 1); block acknowledgement, MPI and
  everything else that this repository takes over from ns-3 unchanged, the
  generated Python bindings included.

## 6. Disagreements between comments and code

Checked by a run:

1. `core.py` documents its signal as emitted after every simulation period. The
   simulation thread queues `update_model` and may run the next period, which drops
   the samples of the one before, before it is called (`visualizer_doc_periods`).
2. `test.py:1713` says of a suite that fails valgrind: "we'll see the PASS entry for
   the working TestSuite followed by a VALGR failing test suite of the same name".
   The branch that writes the second entry (`:1740`) is inside the one for return
   codes other than 0, 1 and 2 and is never taken: the file of results shows such a
   suite as passed (`test_runner_doc_valgr`).

Seen while modelling, no run is kept:

3. `ap-wifi-mac.h:337` says that the step improves after `m_cac_improve_counter`
   quiet beacons. `Algorithm_1` enters WORK with `m_cac_improve` true and
   increases the step at the first one.
4. `wifi-design.rst:69` ties the renewal of an association to missed beacons.
   A request timer that survives a watchdog tears down the association completed
   since; with a leftover authentication timer and the association timer of the new
   attempt a station can go back and forth between the two waits.
5. `sta-wifi-mac.h:155` says that the authentication timeout re-sends a request.
   When the gate has closed meanwhile the station goes to BEACON_MISSED and sends
   nothing.
6. A comment at `sta-wifi-mac.cc:683` says that a probe response or its timeout
   ends the wait. After probing is switched off and on again neither is pending.
7. `test.py`: the entry of a crashed suite closes another tag than it opens, so that
   translating the file raises.
8. `dca-txop.cc:358`: when a slot opens a `DcaTxop` with a frame held for a retry
   and an empty queue does not ask for the medium. With `Queue = "Dca"`
   `NoForgottenFrame` is false.
9. `sta-wifi-mac.cc:335` cancels the timer of the last window in case "the actual
   beacon interval become shorter"; the event that opens the slot is not
   cancelled. With windows longer than the interval it opens the queue in the
   windows of a later beacon; `SlotsObserved` excepts exactly this.
10. `ap-wifi-mac.h:344` declares the step as an int, and `ap-wifi-mac.cc:1889` divides by
   the sum of two of them. Both can be 0 after changes of the algorithm, which ends the
   process (`switching` reaches it), and after many interrupted learnings the
   doubled step no longer fits the 16 bits of the threshold.

## 7. Plan

Modelled first was what the program adds: the controllers, the procedure they
control, their composition, the coupling with the agent; then the restricted
access window and the two concurrent Python programs. What could follow:

1. The codecs (`rps.cc`, `authentication-control.cc`) as operators over bit fields:
   decoding what was encoded, against the widths of the fields.
2. `MacQueue`: lifetimes, cleanup, removal by address and priority.
3. The backoff engine of `dcf-manager.cc` under `RawAccess`, instead of a grant at
   any time.
4. Theorems: that `AuthSystem` implements `Association` and `HalvingControl` step by
   step, so that their theorems carry over to the composition; the properties of
   `Association` for the combinations they exclude, after the code has been changed
   to cancel its timers.
