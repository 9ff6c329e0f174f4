---------------------------- MODULE GymLink_proofs ----------------------------
(***************************************************************************)
(* Theorems about GymLink, for any number of episodes, states and          *)
(* interrupts: no simulation that the agent leaves stays behind, agent and *)
(* simulation never wait for each other, and the link implements           *)
(* GymEpisode.                                                             *)
(*                                                                         *)
(* The inductive invariant says where the one message of a link is.  Each  *)
(* conjunction below is one phase of a step of the protocol; it relates the*)
(* Python thread, the bridge, the process and the two directions of the    *)
(* link, and it counts the states that each of them has seen.              *)
(***************************************************************************)
EXTENDS GymLink, TLAPS

\* What the state of a bridge says as long as its episode is not over; the agent
\* asks for the end of a simulation only when it closes the bridge.
NotOver(p, b) == /\ ~b.gameOver
                 /\ p \in {"first", "step", "user"} => ~b.envStopped /\ ~b.forceEnvStop

\* The agent waits for the first message of a process that may have ended.
Booting(p, b, s, rq, rp) ==
  /\ p = "init" /\ b = NewBridge /\ rp = <<>>
  /\ s.state = 0 /\ s.executed = 0
  /\ \/ s.pc \in {"boot", "exited"} /\ rq = <<>>
     \/ s.pc = "wait_ack" /\ rq = <<SimInitMsg>>

Acknowledged(p, b, s, rq, rp) ==
  /\ p = "first" /\ b = NewBridge /\ rq = <<>> /\ rp = <<Act(FALSE, 0)>>
  /\ s.state = 0 /\ s.executed = 0 /\ s.pc = "wait_ack"

StateSent(p, b, s, rq, rp) ==
  /\ p \in {"first", "step", "user", "close"} /\ NotOver(p, b)
  /\ ~b.newStateRx /\ ~b.mustSend
  /\ s.pc = "wait_act" /\ rp = <<>>
  /\ \E reason \in Reasons : /\ rq = <<EnvState(s.state, reason)>>
                             /\ s.m_simEnd = (reason = "SimulationEnd")
  /\ s.state = b.observed + 1 /\ b.answered = b.observed /\ s.executed = b.observed

StateSeen(p, b, s, rq, rp) ==
  /\ p \in {"user", "close", "stop"} /\ NotOver(p, b)
  /\ b.newStateRx /\ b.mustSend
  /\ s.pc = "wait_act" /\ ~s.m_simEnd /\ rq = <<>> /\ rp = <<>>
  /\ s.state = b.observed /\ b.observed = b.answered + 1 /\ s.executed = b.answered

Answered(p, b, s, rq, rp) ==
  /\ p \in {"step", "user", "close"} /\ NotOver(p, b)
  /\ ~b.newStateRx /\ ~b.mustSend
  /\ s.pc = "wait_act" /\ ~s.m_simEnd /\ rq = <<>> /\ rp = <<Act(FALSE, b.observed)>>
  /\ s.state = b.observed /\ b.observed = b.answered /\ b.answered = s.executed + 1

Running(p, b, s, rq, rp) ==
  /\ p \in {"step", "user", "close"} /\ NotOver(p, b)
  /\ ~b.newStateRx /\ ~b.mustSend
  /\ s.pc = "running" /\ ~s.m_simEnd /\ rq = <<>> /\ rp = <<>>
  /\ s.state = b.observed /\ b.answered = b.observed /\ s.executed = b.observed

\* The process has ended or has been told to.
Told(s, rq, rp) == /\ rq = <<>>
                   /\ \/ s.pc = "exited" /\ rp = <<>>
                      \/ s.pc = "wait_act" /\ rp = <<StopCommand>>

Stopped(p, b, s, rq, rp) ==
  /\ \/ p \in {"reset", "closed"}
     \/ p \in {"user", "close", "stop"} /\ b.newStateRx /\ b.gameOver
  /\ ~b.mustSend /\ Told(s, rq, rp)

Phase(p, b, s, rq, rp) ==
  \/ Booting(p, b, s, rq, rp)   \/ Acknowledged(p, b, s, rq, rp)
  \/ StateSent(p, b, s, rq, rp) \/ StateSeen(p, b, s, rq, rp)
  \/ Answered(p, b, s, rq, rp)  \/ Running(p, b, s, rq, rp)
  \/ Stopped(p, b, s, rq, rp)

\* The ranges, without the bound on the sequences, which Phase implies.
Bridges == [envStopped : BOOLEAN, forceEnvStop : BOOLEAN, newStateRx : BOOLEAN,
            gameOver : BOOLEAN, mustSend : BOOLEAN, observed : Nat, answered : Nat]
Sims == [pc : {"none", "boot", "wait_ack", "wait_act", "running", "exited"},
         m_simEnd : BOOLEAN, state : Nat, executed : Nat]
Requests == [type : {"SimInit", "EnvState"}, state : Nat, reason : Reasons]
Replies  == [stop : BOOLEAN, state : Nat]

AgentTypes == /\ pc \in {"init", "first", "user", "step", "close", "stop", "reset", "closed"}
              /\ goal \in {"reset", "closed"}
              /\ bridge \in Bridges
              /\ envDirty \in BOOLEAN
              /\ episode \in Episodes
              /\ interrupts \in 0 .. MaxInterrupts
LinkTypes == /\ sim \in [Episodes -> Sims]
             /\ request \in [Episodes -> Seq(Requests)]
             /\ reply \in [Episodes -> Seq(Replies)]

Current == Phase(pc, bridge, sim[episode], request[episode], reply[episode])
Past    == \A e \in Episodes : e < episode => Told(sim[e], request[e], reply[e])
Future  == \A e \in Episodes :
             e > episode => sim[e].pc = "none" /\ request[e] = <<>> /\ reply[e] = <<>>

Inv == AgentTypes /\ LinkTypes /\ Current /\ Past /\ Future

USE DEF Reasons

LEMMA OneMessage ==
  ASSUME NEW S, NEW x \in S
  PROVE  /\ Append(<<>>, x) = <<x>> /\ <<x>> \in Seq(S) /\ <<>> \in Seq(S)
         /\ Head(<<x>>) = x /\ Tail(<<x>>) = <<>> /\ <<x>> # <<>>
OBVIOUS

LEMMA Messages ==
  /\ NewBridge \in Bridges /\ NewSim("boot") \in Sims
  /\ SimInitMsg \in Requests /\ StopCommand \in Replies
  /\ \A n \in Nat, r \in Reasons : EnvState(n, r) \in Requests
  /\ \A n \in Nat, stop \in BOOLEAN : Act(stop, n) \in Replies
BY DEF NewBridge, NewSim, Bridges, Sims, SimInitMsg, StopCommand, EnvState, Act, Requests,
       Replies

\* All but the simulation and the link of the current episode stay as they are.
OnlyCurrent ==
  /\ episode' = episode
  /\ \A e \in Episodes \ {episode} :
       sim'[e] = sim[e] /\ request'[e] = request[e] /\ reply'[e] = reply[e]

LEMMA InitInv == Init => Inv
<1> SUFFICES ASSUME Init PROVE Inv
  OBVIOUS
<1>1. episode = 1 /\ episode \in Episodes
  BY BoundAssumption DEF Init, Episodes
<1>2. NewSim("none") \in Sims /\ NewSim("boot") \in Sims
  BY DEF NewSim, Sims
<1>3. AgentTypes
  <2>1. interrupts \in 0 .. MaxInterrupts
    BY BoundAssumption DEF Init
  <2>2. QED
    BY <1>1, <2>1, Messages DEF Init, AgentTypes
<1>4. LinkTypes
  <2>1. \A e \in Episodes : NewSim(IF e = 1 THEN "boot" ELSE "none") \in Sims
    BY <1>2
  <2>2. sim \in [Episodes -> Sims]
    BY <2>1 DEF Init
  <2>3. request \in [Episodes -> Seq(Requests)] /\ reply \in [Episodes -> Seq(Replies)]
    BY DEF Init
  <2>4. QED
    BY <2>2, <2>3 DEF LinkTypes
<1>5. Current
  BY <1>1 DEF Init, Current, Phase, Booting, NewSim
<1>6. Past /\ Future
  BY <1>1 DEF Init, Past, Future, Episodes, NewSim
<1>7. QED
  BY <1>3, <1>4, <1>5, <1>6 DEF Inv

LEMMA OthersKept ==
  ASSUME Inv, OnlyCurrent
  PROVE  Past' /\ Future'
BY DEF Inv, AgentTypes, OnlyCurrent, Past, Future, Told

\* Sending and receiving change one link.
LEMMA SentRequest ==
  ASSUME request \in [Episodes -> Seq(Requests)], NEW e \in Episodes, NEW msg \in Requests,
         request' = Sent(request, e, msg)
  PROVE  /\ request' \in [Episodes -> Seq(Requests)]
         /\ request[e] = <<>> => request'[e] = <<msg>>
         /\ \A d \in Episodes \ {e} : request'[d] = request[d]
<1>1. Append(request[e], msg) \in Seq(Requests)
  OBVIOUS
<1>2. request[e] = <<>> => Append(request[e], msg) = <<msg>>
  BY OneMessage
<1>3. QED
  BY <1>1, <1>2 DEF Sent

LEMMA SentReply ==
  ASSUME reply \in [Episodes -> Seq(Replies)], NEW e \in Episodes, NEW msg \in Replies,
         reply' = Sent(reply, e, msg)
  PROVE  /\ reply' \in [Episodes -> Seq(Replies)]
         /\ reply[e] = <<>> => reply'[e] = <<msg>>
         /\ \A d \in Episodes \ {e} : reply'[d] = reply[d]
<1>1. Append(reply[e], msg) \in Seq(Replies)
  OBVIOUS
<1>2. reply[e] = <<>> => Append(reply[e], msg) = <<msg>>
  BY OneMessage
<1>3. QED
  BY <1>1, <1>2 DEF Sent

LEMMA TakenRequest ==
  ASSUME request \in [Episodes -> Seq(Requests)], NEW e \in Episodes, NEW msg \in Requests,
         request[e] = <<msg>>, request' = Taken(request, e)
  PROVE  /\ request' \in [Episodes -> Seq(Requests)]
         /\ request'[e] = <<>>
         /\ \A d \in Episodes \ {e} : request'[d] = request[d]
<1>1. Tail(request[e]) = <<>> /\ <<>> \in Seq(Requests)
  BY OneMessage
<1>2. QED
  BY <1>1 DEF Taken

LEMMA TakenReply ==
  ASSUME reply \in [Episodes -> Seq(Replies)], NEW e \in Episodes, NEW msg \in Replies,
         reply[e] = <<msg>>, reply' = Taken(reply, e)
  PROVE  /\ reply' \in [Episodes -> Seq(Replies)]
         /\ reply'[e] = <<>>
         /\ \A d \in Episodes \ {e} : reply'[d] = reply[d]
<1>1. Tail(reply[e]) = <<>> /\ <<>> \in Seq(Replies)
  BY OneMessage
<1>2. QED
  BY <1>1 DEF Taken

LEMMA InvFromCurrent ==
  ASSUME Inv, OnlyCurrent, AgentTypes', LinkTypes', Current'
  PROVE  Inv'
BY OthersKept DEF Inv

LEMMA InitializeEnvInv ==
  ASSUME Inv, InitializeEnv
  PROVE  Inv'
<1> USE DEF Inv
<1>1. /\ episode \in Episodes /\ request \in [Episodes -> Seq(Requests)]
      /\ reply \in [Episodes -> Seq(Replies)] /\ sim \in [Episodes -> Sims]
  BY DEF AgentTypes, LinkTypes
<1>2. /\ bridge = NewBridge /\ reply[episode] = <<>> /\ request[episode] = <<SimInitMsg>>
      /\ sim[episode].state = 0 /\ sim[episode].executed = 0 /\ sim[episode].pc = "wait_ack"
  BY DEF InitializeEnv, Current, Phase, Booting, Acknowledged, StateSent, StateSeen, Answered,
         Running, Stopped
<1>3. Act(FALSE, 0) \in Replies /\ SimInitMsg \in Requests
  BY Messages
<1>4. /\ request' \in [Episodes -> Seq(Requests)] /\ request'[episode] = <<>>
      /\ \A d \in Episodes \ {episode} : request'[d] = request[d]
  BY <1>1, <1>2, <1>3, TakenRequest DEF InitializeEnv
<1>5. /\ reply' \in [Episodes -> Seq(Replies)] /\ reply'[episode] = <<Act(FALSE, 0)>>
      /\ \A d \in Episodes \ {episode} : reply'[d] = reply[d]
  BY <1>1, <1>2, <1>3, SentReply DEF InitializeEnv
<1>6. AgentTypes' /\ LinkTypes' /\ OnlyCurrent
  BY <1>1, <1>4, <1>5 DEF InitializeEnv, AgentTypes, LinkTypes, OnlyCurrent
<1>7. Current'
  BY <1>2, <1>4, <1>5 DEF InitializeEnv, Current, Phase, Acknowledged
<1>8. QED
  BY <1>6, <1>7, InvFromCurrent

\* What a successful receive leaves; q is where the thread goes on.
LEMMA Received ==
  ASSUME Inv, RxEnvState, pc \in {"first", "step", "close"}, UNCHANGED <<episode, sim>>,
         NEW q, q = IF pc = "close" THEN "stop" ELSE "user"
  PROVE  /\ bridge' \in Bridges /\ LinkTypes' /\ OnlyCurrent
         /\ Phase(q, bridge', sim'[episode'], request'[episode'], reply'[episode'])
<1> USE DEF Inv
<1>1. /\ episode \in Episodes /\ request \in [Episodes -> Seq(Requests)]
      /\ reply \in [Episodes -> Seq(Replies)] /\ sim \in [Episodes -> Sims]
      /\ bridge \in Bridges
  BY DEF AgentTypes, LinkTypes
<1>2. CASE bridge.newStateRx
  <2>1. UNCHANGED <<bridge, request, reply>>
    BY <1>2 DEF RxEnvState, links
  <2>2. /\ pc = "close"
        /\ \/ StateSeen(pc, bridge, sim[episode], request[episode], reply[episode])
           \/ Stopped(pc, bridge, sim[episode], request[episode], reply[episode])
    <3>1. bridge # NewBridge
      BY <1>2 DEF NewBridge
    <3>2. QED
      BY <1>2, <3>1 DEF Current, Phase, Booting, Acknowledged, StateSent, StateSeen,
                        Answered, Running, Stopped
  <2>3. Phase(q, bridge, sim[episode], request[episode], reply[episode])
    BY <1>2, <2>2 DEF Phase, StateSeen, Stopped, NotOver
  <2>4. QED
    BY <1>1, <2>1, <2>3 DEF LinkTypes, OnlyCurrent
<1>3. CASE ~bridge.newStateRx
  <2>1. request[episode] # <<>>
    BY <1>3 DEF RxEnvState
  <2>2. StateSent(pc, bridge, sim[episode], request[episode], reply[episode])
    BY <1>3, <2>1 DEF Current, Phase, Booting, Acknowledged, StateSent, StateSeen, Answered,
                Running, Stopped, Told
  <2>3. PICK reason \in Reasons :
              /\ request[episode] = <<EnvState(sim[episode].state, reason)>>
              /\ sim[episode].m_simEnd = (reason = "SimulationEnd")
    BY <2>2 DEF StateSent
  <2> DEFINE msg  == EnvState(sim[episode].state, reason)
             over == reason # "None"
  <2>4. /\ msg \in Requests /\ StopCommand \in Replies
        /\ msg.state = sim[episode].state /\ msg.reason = reason
        /\ Head(request[episode]) = msg
    <3>1. sim[episode].state \in Nat
      BY <1>1 DEF Sims
    <3>2. msg \in Requests /\ StopCommand \in Replies
      BY <3>1, Messages
    <3>3. QED
      BY <2>3, <3>2, OneMessage DEF EnvState
  <2>5. /\ request' \in [Episodes -> Seq(Requests)] /\ request'[episode] = <<>>
        /\ \A d \in Episodes \ {episode} : request'[d] = request[d]
    <3>1. request' = Taken(request, episode)
      BY <1>3 DEF RxEnvState
    <3>2. QED
      BY <1>1, <2>3, <2>4, <3>1, TakenRequest
  <2>6. /\ reply' = IF over THEN Sent(reply, episode, StopCommand) ELSE reply
        /\ bridge' = [bridge EXCEPT !.observed = sim[episode].state,
                                    !.gameOver = over,
                                    !.newStateRx = TRUE,
                                    !.mustSend = ~over,
                                    !.envStopped = @ \/ reason = "SimulationEnd",
                                    !.forceEnvStop = @ \/ reason = "GameOver"]
    BY <1>3, <2>4 DEF RxEnvState
  <2>7. reply[episode] = <<>>
    BY <2>2 DEF StateSent
  <2>8. /\ reply' \in [Episodes -> Seq(Replies)]
        /\ reply'[episode] = IF over THEN <<StopCommand>> ELSE <<>>
        /\ \A d \in Episodes \ {episode} : reply'[d] = reply[d]
    BY <1>1, <2>4, <2>6, <2>7, SentReply
  <2>9. bridge' \in Bridges /\ LinkTypes' /\ OnlyCurrent
    BY <1>1, <2>5, <2>6, <2>8 DEF Bridges, Sims, LinkTypes, OnlyCurrent
  <2>10. CASE over
    <3>1. Stopped(q, bridge', sim[episode], request'[episode], reply'[episode])
      BY <1>1, <2>2, <2>5, <2>6, <2>8, <2>10 DEF StateSent, Stopped, Told, Bridges
    <3>2. QED
      BY <2>9, <3>1 DEF Phase
  <2>11. CASE ~over
    <3>1. StateSeen(q, bridge', sim[episode], request'[episode], reply'[episode])
      BY <1>1, <2>2, <2>3, <2>5, <2>6, <2>8, <2>11
         DEF StateSent, StateSeen, Bridges, Sims, NotOver
    <3>2. QED
      BY <2>9, <3>1 DEF Phase
  <2>12. QED
    BY <2>10, <2>11
<1>4. QED
  BY <1>2, <1>3

LEMMA ReceivesInv ==
  ASSUME Inv, FirstState \/ StepReturns \/ CloseReceives
  PROVE  Inv'
<1>1. /\ RxEnvState /\ pc \in {"first", "step", "close"} /\ UNCHANGED <<episode, sim>>
      /\ pc' = IF pc = "close" THEN "stop" ELSE "user"
      /\ envDirty' \in {envDirty, TRUE} /\ UNCHANGED <<goal, interrupts>>
  BY DEF FirstState, StepReturns, CloseReceives
<1>2. /\ bridge' \in Bridges /\ LinkTypes' /\ OnlyCurrent
      /\ Phase(pc', bridge', sim'[episode'], request'[episode'], reply'[episode'])
  BY <1>1, Received
<1>3. AgentTypes'
  BY <1>1, <1>2 DEF Inv, AgentTypes
<1>4. QED
  BY <1>2, <1>3, InvFromCurrent DEF Current

LEMMA StepInv ==
  ASSUME Inv, Step
  PROVE  Inv'
<1> USE DEF Inv
<1>1. /\ episode \in Episodes /\ reply \in [Episodes -> Seq(Replies)]
      /\ sim \in [Episodes -> Sims] /\ bridge \in Bridges
  BY DEF AgentTypes, LinkTypes
<1>2. pc = "user" /\ StateSeen(pc, bridge, sim[episode], request[episode], reply[episode])
  BY DEF Step, Current, Phase, Booting, Acknowledged, StateSent, StateSeen, Answered, Running,
         Stopped
<1>3. reply[episode] = <<>> /\ bridge.forceEnvStop = FALSE /\ bridge.observed \in Nat
  BY <1>1, <1>2 DEF StateSeen, NotOver, Bridges
<1>4. /\ Act(FALSE, bridge.observed) \in Replies
      /\ reply' = Sent(reply, episode, Act(FALSE, bridge.observed))
      /\ bridge' = [bridge EXCEPT !.mustSend = FALSE, !.newStateRx = FALSE,
                                  !.answered = bridge.observed]
  BY <1>3, Messages DEF Step, SendActions
<1>5. /\ reply' \in [Episodes -> Seq(Replies)]
      /\ reply'[episode] = <<Act(FALSE, bridge.observed)>>
      /\ \A d \in Episodes \ {episode} : reply'[d] = reply[d]
  BY <1>1, <1>3, <1>4, SentReply
<1>6. bridge' \in Bridges
  BY <1>1, <1>4 DEF Bridges
<1>7. AgentTypes' /\ LinkTypes' /\ OnlyCurrent
  BY <1>5, <1>6 DEF Step, AgentTypes, LinkTypes, OnlyCurrent
<1>8. Answered("step", bridge', sim[episode], request[episode], reply'[episode])
  BY <1>1, <1>2, <1>4, <1>5 DEF StateSeen, Answered, NotOver, Bridges
<1>9. Current'
  BY <1>8 DEF Step, Current, Phase
<1>10. QED
  BY <1>7, <1>9, InvFromCurrent

LEMMA InterruptInv ==
  ASSUME Inv, Interrupt
  PROVE  Inv'
<1> USE DEF Inv
<1>1. interrupts' \in 0 .. MaxInterrupts
  BY BoundAssumption DEF Interrupt, AgentTypes
<1>2. AgentTypes' /\ LinkTypes' /\ OnlyCurrent
  BY <1>1 DEF Interrupt, AgentTypes, LinkTypes, OnlyCurrent, links
<1>3. \/ StateSent("user", bridge, sim[episode], request[episode], reply[episode])
      \/ Answered("user", bridge, sim[episode], request[episode], reply[episode])
      \/ Running("user", bridge, sim[episode], request[episode], reply[episode])
  BY DEF Interrupt, Current, Phase, Booting, Acknowledged, StateSent, StateSeen, Answered,
         Running, Stopped, NotOver
<1>4. Current'
  BY <1>3 DEF Interrupt, Current, Phase, links
<1>5. QED
  BY <1>2, <1>4, InvFromCurrent

LEMMA CloseInv ==
  ASSUME Inv, NEW next \in {"reset", "closed"}, Close(next)
  PROVE  Inv'
<1> USE DEF Inv
<1>1. bridge \in Bridges /\ pc = "user"
  BY DEF Close, AgentTypes
<1>2. CASE bridge.envStopped
  <2>1. pc' = next /\ bridge' = bridge
    BY <1>2 DEF Close
  <2>2. AgentTypes' /\ LinkTypes' /\ OnlyCurrent
    BY <2>1 DEF Close, AgentTypes, LinkTypes, OnlyCurrent, links
  <2>3. Stopped(next, bridge, sim[episode], request[episode], reply[episode])
    BY <1>1, <1>2 DEF Current, Phase, Booting, Acknowledged, StateSent, StateSeen,
                      Answered, Running, Stopped, NotOver
  <2>4. Current'
    BY <2>1, <2>3 DEF Close, Current, Phase, links
  <2>5. QED
    BY <2>2, <2>4, InvFromCurrent
<1>3. CASE ~bridge.envStopped
  <2>1. /\ pc' = "close"
        /\ bridge' = [bridge EXCEPT !.envStopped = TRUE, !.forceEnvStop = TRUE]
    BY <1>3 DEF Close
  <2>2. AgentTypes' /\ LinkTypes' /\ OnlyCurrent
    BY <1>1, <2>1 DEF Close, AgentTypes, LinkTypes, OnlyCurrent, links, Bridges
  <2>3. \/ StateSent("close", bridge', sim[episode], request[episode], reply[episode])
        \/ StateSeen("close", bridge', sim[episode], request[episode], reply[episode])
        \/ Answered("close", bridge', sim[episode], request[episode], reply[episode])
        \/ Running("close", bridge', sim[episode], request[episode], reply[episode])
        \/ Stopped("close", bridge', sim[episode], request[episode], reply[episode])
    BY <1>1, <2>1 DEF Current, Phase, Booting, Acknowledged, StateSent, StateSeen, Answered,
                      Running, Stopped, NotOver, Bridges
  <2>4. Current'
    BY <2>1, <2>3 DEF Close, Current, Phase, links
  <2>5. QED
    BY <2>2, <2>4, InvFromCurrent
<1>4. QED
  BY <1>2, <1>3

LEMMA SendCloseCommandInv ==
  ASSUME Inv, SendCloseCommand
  PROVE  Inv'
<1> USE DEF Inv
<1>1. /\ episode \in Episodes /\ reply \in [Episodes -> Seq(Replies)]
      /\ bridge \in Bridges /\ pc = "stop" /\ pc' = goal /\ goal \in {"reset", "closed"}
  BY DEF SendCloseCommand, AgentTypes, LinkTypes
<1>2. CASE bridge.mustSend
  <2>1. StateSeen(pc, bridge, sim[episode], request[episode], reply[episode])
    BY <1>1, <1>2 DEF Current, Phase, Booting, Acknowledged, StateSent, StateSeen, Answered,
                      Running, Stopped
  <2>2. /\ StopCommand \in Replies /\ reply' = Sent(reply, episode, StopCommand)
        /\ reply[episode] = <<>>
        /\ bridge' = [bridge EXCEPT !.mustSend = FALSE, !.newStateRx = FALSE]
    BY <1>2, <2>1, Messages DEF SendCloseCommand, StateSeen
  <2>3. /\ reply' \in [Episodes -> Seq(Replies)] /\ reply'[episode] = <<StopCommand>>
        /\ \A d \in Episodes \ {episode} : reply'[d] = reply[d]
    BY <1>1, <2>2, SentReply
  <2>4. bridge' \in Bridges
    BY <1>1, <2>2 DEF Bridges
  <2>5. AgentTypes' /\ LinkTypes' /\ OnlyCurrent
    BY <1>1, <2>3, <2>4 DEF SendCloseCommand, AgentTypes, LinkTypes, OnlyCurrent
  <2>6. Stopped(goal, bridge', sim[episode], request[episode], reply'[episode])
    BY <1>1, <2>1, <2>2, <2>3 DEF StateSeen, Stopped, Told, Bridges
  <2>7. Current'
    BY <1>1, <2>6 DEF SendCloseCommand, Current, Phase
  <2>8. QED
    BY <2>5, <2>7, InvFromCurrent
<1>3. CASE ~bridge.mustSend
  <2>1. UNCHANGED <<bridge, reply>>
    BY <1>3 DEF SendCloseCommand
  <2>2. AgentTypes' /\ LinkTypes' /\ OnlyCurrent
    BY <1>1, <2>1 DEF SendCloseCommand, AgentTypes, LinkTypes, OnlyCurrent
  <2>3. Stopped(goal, bridge, sim[episode], request[episode], reply[episode])
    BY <1>1, <1>3 DEF Current, Phase, Booting, Acknowledged, StateSent, StateSeen, Answered,
                      Running, Stopped
  <2>4. Current'
    BY <1>1, <2>1, <2>3 DEF SendCloseCommand, Current, Phase
  <2>5. QED
    BY <2>2, <2>4, InvFromCurrent
<1>4. QED
  BY <1>2, <1>3

LEMMA RestartInv ==
  ASSUME Inv, Restart
  PROVE  Inv'
<1> USE DEF Inv
<1>1. /\ episode \in Episodes /\ episode + 1 \in Episodes /\ episode' = episode + 1
      /\ sim \in [Episodes -> Sims]
  BY BoundAssumption DEF Restart, AgentTypes, LinkTypes, Episodes
<1>2. /\ sim' \in [Episodes -> Sims] /\ sim'[episode + 1] = NewSim("boot")
      /\ \A d \in Episodes \ {episode + 1} : sim'[d] = sim[d]
  BY <1>1, Messages DEF Restart
<1>3. AgentTypes' /\ LinkTypes'
  BY <1>1, <1>2, Messages DEF Restart, AgentTypes, LinkTypes, links
<1>4. Told(sim[episode], request[episode], reply[episode])
  BY DEF Restart, Current, Phase, Booting, Acknowledged, StateSent, StateSeen, Answered,
         Running, Stopped
<1>5. request[episode + 1] = <<>> /\ reply[episode + 1] = <<>>
  BY <1>1 DEF Future, Episodes
<1>6. Current'
  BY <1>1, <1>2, <1>5 DEF Restart, Current, Phase, Booting, NewSim, links
<1>7. Past'
  <2> SUFFICES ASSUME NEW e \in Episodes, e < episode + 1
               PROVE  Told(sim'[e], request[e], reply[e])
    BY <1>1 DEF Restart, Past, links
  <2>1. sim'[e] = sim[e] /\ (e = episode \/ e < episode)
    BY <1>1, <1>2 DEF Episodes
  <2>2. QED
    BY <1>4, <2>1 DEF Past
<1>8. Future'
  <2> SUFFICES ASSUME NEW e \in Episodes, e > episode + 1
               PROVE  sim'[e].pc = "none" /\ request[e] = <<>> /\ reply[e] = <<>>
    BY <1>1 DEF Restart, Future, links
  <2>1. sim'[e] = sim[e] /\ e > episode
    BY <1>1, <1>2 DEF Episodes
  <2>2. QED
    BY <2>1 DEF Future
<1>9. QED
  BY <1>3, <1>6, <1>7, <1>8

\* What each event of the current simulation leaves.
LEMMA SimInitInv ==
  ASSUME Inv, SimInit(episode)
  PROVE  Inv'
<1> USE DEF Inv
<1>1. /\ episode \in Episodes /\ request \in [Episodes -> Seq(Requests)]
      /\ sim \in [Episodes -> Sims] /\ SimInitMsg \in Requests
  BY Messages DEF AgentTypes, LinkTypes
<1>2. /\ Booting(pc, bridge, sim[episode], request[episode], reply[episode])
      /\ sim[episode].pc = "boot" /\ request[episode] = <<>>
  BY DEF SimInit, Current, Phase, Booting, Acknowledged, StateSent, StateSeen, Answered,
         Running, Stopped, Told
<1>3. /\ request' \in [Episodes -> Seq(Requests)] /\ request'[episode] = <<SimInitMsg>>
      /\ \A d \in Episodes \ {episode} : request'[d] = request[d]
  BY <1>1, <1>2, SentRequest DEF SimInit
<1>4. /\ sim' \in [Episodes -> Sims] /\ sim'[episode] = [sim[episode] EXCEPT !.pc = "wait_ack"]
      /\ \A d \in Episodes \ {episode} : sim'[d] = sim[d]
  BY <1>1 DEF SimInit, Sims
<1>5. AgentTypes' /\ LinkTypes' /\ OnlyCurrent
  BY <1>3, <1>4 DEF SimInit, agent, AgentTypes, LinkTypes, OnlyCurrent
<1>6. Current'
  BY <1>1, <1>2, <1>3, <1>4 DEF SimInit, agent, Current, Phase, Booting, Sims
<1>7. QED
  BY <1>5, <1>6, InvFromCurrent

LEMMA SentSims ==
  ASSUME NEW s \in Sims, NEW end \in BOOLEAN
  PROVE  [s EXCEPT !.pc = "wait_act", !.state = @ + 1, !.m_simEnd = end] \in Sims
<1>1. PICK n \in Nat : n = s.state + 1
  BY DEF Sims
<1>2. [s EXCEPT !.pc = "wait_act", !.state = n, !.m_simEnd = end] \in Sims
  BY DEF Sims
<1>3. QED
  BY <1>1, <1>2

\* The three events that send a state; "wait_ack" has received its reply before.
LEMMA StateIsSent ==
  ASSUME Inv, NEW reason \in Reasons, SendState(episode, reason), UNCHANGED agent,
         request[episode] = <<>>, reply' \in [Episodes -> Seq(Replies)],
         reply'[episode] = <<>>, \A d \in Episodes \ {episode} : reply'[d] = reply[d],
         pc \in {"first", "step", "user", "close"}, NotOver(pc, bridge),
         ~bridge.newStateRx, ~bridge.mustSend,
         sim[episode].state = bridge.observed, bridge.answered = bridge.observed,
         sim[episode].executed = bridge.observed
  PROVE  Inv'
<1> USE DEF Inv
<1> DEFINE msg == EnvState(sim[episode].state + 1, reason)
<1>1. /\ episode \in Episodes /\ request \in [Episodes -> Seq(Requests)]
      /\ sim \in [Episodes -> Sims] /\ bridge \in Bridges
  BY DEF AgentTypes, LinkTypes
<1>2. msg \in Requests
  BY <1>1, Messages DEF Sims
<1>3. /\ request' \in [Episodes -> Seq(Requests)] /\ request'[episode] = <<msg>>
      /\ \A d \in Episodes \ {episode} : request'[d] = request[d]
  BY <1>1, <1>2, SentRequest DEF SendState
<1>4. /\ sim' \in [Episodes -> Sims]
      /\ sim'[episode] = [sim[episode] EXCEPT !.pc = "wait_act", !.state = @ + 1,
                                              !.m_simEnd = (reason = "SimulationEnd")]
      /\ \A d \in Episodes \ {episode} : sim'[d] = sim[d]
  <2> DEFINE s == [sim[episode] EXCEPT !.pc = "wait_act", !.state = @ + 1,
                                       !.m_simEnd = (reason = "SimulationEnd")]
  <2>1. s \in Sims
    <3>1. PICK end \in BOOLEAN : end = (reason = "SimulationEnd")
      OBVIOUS
    <3>2. [sim[episode] EXCEPT !.pc = "wait_act", !.state = @ + 1, !.m_simEnd = end] \in Sims
      BY <1>1, SentSims
    <3>3. QED
      BY <3>1, <3>2
  <2>2. sim' = [sim EXCEPT ![episode] = s]
    BY <1>1 DEF SendState, Sims
  <2> HIDE DEF s
  <2>3. /\ sim' \in [Episodes -> Sims] /\ sim'[episode] = s
        /\ \A d \in Episodes \ {episode} : sim'[d] = sim[d]
    BY <1>1, <2>1, <2>2
  <2>4. QED
    BY <2>3 DEF s
<1>5. AgentTypes' /\ LinkTypes' /\ OnlyCurrent
  BY <1>3, <1>4 DEF agent, AgentTypes, LinkTypes, OnlyCurrent
<1>6. /\ sim'[episode].pc = "wait_act" /\ sim'[episode].state = sim[episode].state + 1
      /\ sim'[episode].m_simEnd = (reason = "SimulationEnd")
      /\ sim'[episode].executed = sim[episode].executed
  BY <1>1, <1>4 DEF Sims
<1>7. StateSent(pc, bridge, sim'[episode], request'[episode], reply'[episode])
  BY <1>3, <1>6 DEF StateSent
<1>8. Current'
  BY <1>7 DEF agent, Current, Phase
<1>9. QED
  BY <1>5, <1>8, InvFromCurrent

LEMMA ReceiveAckInv ==
  ASSUME Inv, ReceiveAck(episode)
  PROVE  Inv'
<1> USE DEF Inv
<1>1. /\ episode \in Episodes /\ reply \in [Episodes -> Seq(Replies)]
      /\ Act(FALSE, 0) \in Replies
  BY Messages DEF AgentTypes, LinkTypes
<1>2. /\ Acknowledged(pc, bridge, sim[episode], request[episode], reply[episode])
  BY DEF ReceiveAck, Current, Phase, Booting, Acknowledged, StateSent, StateSeen, Answered,
         Running, Stopped, Told
<1>3. /\ reply' \in [Episodes -> Seq(Replies)] /\ reply'[episode] = <<>>
      /\ \A d \in Episodes \ {episode} : reply'[d] = reply[d]
  BY <1>1, <1>2, TakenReply DEF ReceiveAck, Acknowledged
<1>4. PICK reason \in Reasons : SendState(episode, reason)
  BY DEF ReceiveAck
<1>5. /\ pc = "first" /\ NotOver(pc, bridge) /\ ~bridge.newStateRx /\ ~bridge.mustSend
      /\ sim[episode].state = bridge.observed /\ bridge.answered = bridge.observed
      /\ sim[episode].executed = bridge.observed /\ request[episode] = <<>>
  BY <1>2 DEF Acknowledged, NewBridge, NotOver
<1>6. UNCHANGED agent
  BY DEF ReceiveAck
<1>7. QED
  BY <1>3, <1>4, <1>5, <1>6, StateIsSent

LEMMA NextStateInv ==
  ASSUME Inv, sim[episode].pc = "running", NEW reason \in Reasons,
         SendState(episode, reason), UNCHANGED <<agent, reply>>
  PROVE  Inv'
<1> USE DEF Inv
<1>1. Running(pc, bridge, sim[episode], request[episode], reply[episode])
  BY DEF Current, Phase, Booting, Acknowledged, StateSent, StateSeen, Answered, Running,
         Stopped, Told
<1>2. reply' \in [Episodes -> Seq(Replies)] /\ reply'[episode] = <<>>
  BY <1>1 DEF LinkTypes, Running
<1>3. QED
  BY <1>1, <1>2, StateIsSent DEF Running

LEMMA ScriptEndsInv ==
  ASSUME Inv, sim[episode].pc = "boot", UNCHANGED <<agent, links>>,
         sim' = [sim EXCEPT ![episode].pc = "exited", ![episode].m_simEnd = TRUE]
  PROVE  Inv'
<1> USE DEF Inv
<1>1. episode \in Episodes /\ sim \in [Episodes -> Sims]
  BY DEF AgentTypes, LinkTypes
<1>2. Booting(pc, bridge, sim[episode], request[episode], reply[episode])
  BY DEF Current, Phase, Booting, Acknowledged, StateSent, StateSeen, Answered, Running,
         Stopped, Told
<1>3. /\ sim' \in [Episodes -> Sims]
      /\ sim'[episode] = [sim[episode] EXCEPT !.pc = "exited", !.m_simEnd = TRUE]
      /\ \A d \in Episodes \ {episode} : sim'[d] = sim[d]
  BY <1>1 DEF Sims
<1>4. AgentTypes' /\ LinkTypes' /\ OnlyCurrent
  BY <1>3 DEF agent, links, AgentTypes, LinkTypes, OnlyCurrent
<1>5. Current'
  BY <1>1, <1>2, <1>3 DEF agent, links, Current, Phase, Booting, Sims
<1>6. QED
  BY <1>4, <1>5, InvFromCurrent

LEMMA ReceiveActInv ==
  ASSUME Inv, ReceiveAct(episode)
  PROVE  Inv'
<1> USE DEF Inv
<1>1. /\ episode \in Episodes /\ reply \in [Episodes -> Seq(Replies)]
      /\ sim \in [Episodes -> Sims] /\ bridge \in Bridges
      /\ sim[episode].pc = "wait_act" /\ reply[episode] # <<>> /\ UNCHANGED <<agent, request>>
      /\ reply' = Taken(reply, episode)
  BY DEF ReceiveAct, AgentTypes, LinkTypes
<1>2. CASE Answered(pc, bridge, sim[episode], request[episode], reply[episode])
  <2> DEFINE msg == Act(FALSE, bridge.observed)
  <2>1. /\ msg \in Replies /\ reply[episode] = <<msg>> /\ ~msg.stop
        /\ msg.state = bridge.observed /\ Head(reply[episode]) = msg
    <3>1. msg \in Replies /\ reply[episode] = <<msg>>
      BY <1>1, <1>2, Messages DEF Answered, Bridges
    <3>2. QED
      BY <3>1, OneMessage DEF Act
  <2>2. /\ reply' \in [Episodes -> Seq(Replies)] /\ reply'[episode] = <<>>
        /\ \A d \in Episodes \ {episode} : reply'[d] = reply[d]
    BY <1>1, <2>1, TakenReply
  <2>3. sim' = [sim EXCEPT ![episode].pc = "running", ![episode].executed = bridge.observed]
    BY <1>2, <2>1 DEF ReceiveAct, Answered
  <2>4. /\ sim' \in [Episodes -> Sims]
        /\ sim'[episode] = [sim[episode] EXCEPT !.pc = "running",
                                                !.executed = bridge.observed]
        /\ \A d \in Episodes \ {episode} : sim'[d] = sim[d]
    BY <1>1, <2>3 DEF Sims, Bridges
  <2>5. AgentTypes' /\ LinkTypes' /\ OnlyCurrent
    BY <1>1, <2>2, <2>4 DEF agent, AgentTypes, LinkTypes, OnlyCurrent
  <2>6. Running(pc, bridge, sim'[episode], request[episode], reply'[episode])
    BY <1>1, <1>2, <2>2, <2>4 DEF Answered, Running, Sims
  <2>7. Current'
    BY <1>1, <2>6 DEF agent, Current, Phase
  <2>8. QED
    BY <2>5, <2>7, InvFromCurrent
<1>3. CASE Stopped(pc, bridge, sim[episode], request[episode], reply[episode])
  <2>1. /\ StopCommand \in Replies /\ reply[episode] = <<StopCommand>>
        /\ Head(reply[episode]) = StopCommand /\ StopCommand.stop
    <3>1. StopCommand \in Replies /\ reply[episode] = <<StopCommand>>
      BY <1>1, <1>3, Messages DEF Stopped, Told
    <3>2. QED
      BY <3>1, OneMessage DEF StopCommand, Act
  <2>2. /\ reply' \in [Episodes -> Seq(Replies)] /\ reply'[episode] = <<>>
        /\ \A d \in Episodes \ {episode} : reply'[d] = reply[d]
    BY <1>1, <2>1, TakenReply
  <2>3. sim' = [sim EXCEPT ![episode].pc = "exited"]
    BY <2>1 DEF ReceiveAct
  <2>4. /\ sim' \in [Episodes -> Sims] /\ sim'[episode].pc = "exited"
        /\ \A d \in Episodes \ {episode} : sim'[d] = sim[d]
    BY <1>1, <2>3 DEF Sims
  <2>5. AgentTypes' /\ LinkTypes' /\ OnlyCurrent
    BY <1>1, <2>2, <2>4 DEF agent, AgentTypes, LinkTypes, OnlyCurrent
  <2>6. Stopped(pc, bridge, sim'[episode], request[episode], reply'[episode])
    BY <1>3, <2>2, <2>4 DEF Stopped, Told
  <2>7. Current'
    BY <1>1, <2>6 DEF agent, Current, Phase
  <2>8. QED
    BY <2>5, <2>7, InvFromCurrent
<1>4. QED
  BY <1>1, <1>2, <1>3 DEF Current, Phase, Booting, Acknowledged, StateSent, StateSeen, Running

\* A simulation that the agent has left can only take the request to stop.
LEMMA PastInv ==
  ASSUME Inv, NEW e \in Episodes, e < episode, Simulate(e)
  PROVE  Inv'
<1> USE DEF Inv
<1>1. /\ Told(sim[e], request[e], reply[e]) /\ episode \in Episodes
      /\ reply \in [Episodes -> Seq(Replies)] /\ sim \in [Episodes -> Sims]
  BY DEF Past, AgentTypes, LinkTypes
<1>2. /\ ReceiveAct(e) /\ sim[e].pc = "wait_act" /\ UNCHANGED <<agent, request>>
      /\ reply[e] = <<StopCommand>> /\ reply' = Taken(reply, e)
  BY <1>1 DEF Simulate, SimInit, ReceiveAck, NotifyCurrentState, NotifySimulationEnd,
              ReceiveAct, Told
<1>3. /\ StopCommand \in Replies /\ Head(reply[e]) = StopCommand /\ StopCommand.stop
  BY <1>2, Messages, OneMessage DEF StopCommand, Act
<1>4. /\ reply' \in [Episodes -> Seq(Replies)] /\ reply'[e] = <<>>
      /\ \A d \in Episodes \ {e} : reply'[d] = reply[d]
  BY <1>1, <1>2, <1>3, TakenReply
<1>5. sim' = [sim EXCEPT ![e].pc = "exited"]
  BY <1>2, <1>3 DEF ReceiveAct
<1>6. /\ sim' \in [Episodes -> Sims] /\ sim'[e].pc = "exited"
      /\ \A d \in Episodes \ {e} : sim'[d] = sim[d]
  BY <1>1, <1>5 DEF Sims
<1>7. AgentTypes' /\ LinkTypes'
  BY <1>2, <1>4, <1>6 DEF agent, AgentTypes, LinkTypes
<1>8. episode \in Episodes \ {e}
  BY <1>1 DEF Episodes
<1>9. Current'
  BY <1>2, <1>4, <1>6, <1>8 DEF agent, Current
<1>10. Past' /\ Future'
  BY <1>1, <1>2, <1>4, <1>6 DEF agent, Past, Future, Told, Episodes
<1>11. QED
  BY <1>7, <1>9, <1>10

LEMMA SimulateInv ==
  ASSUME Inv, NEW e \in Episodes, Simulate(e)
  PROVE  Inv'
<1>1. CASE e < episode
  BY <1>1, PastInv
<1>2. CASE e = episode
  <2>1. CASE SimInit(e)
    BY <1>2, <2>1, SimInitInv
  <2>2. CASE ReceiveAck(e)
    BY <1>2, <2>2, ReceiveAckInv
  <2>3. CASE NotifyCurrentState(e)
    <3>1. PICK reason \in Reasons : SendState(episode, reason)
      BY <1>2, <2>3 DEF NotifyCurrentState
    <3>2. QED
      BY <1>2, <2>3, <3>1, NextStateInv DEF NotifyCurrentState
  <2>4. CASE NotifySimulationEnd(e)
    <3>1. CASE sim[e].pc = "running"
      BY <1>2, <2>4, <3>1, NextStateInv DEF NotifySimulationEnd
    <3>2. CASE sim[e].pc = "boot"
      BY <1>2, <2>4, <3>2, ScriptEndsInv DEF NotifySimulationEnd
    <3>3. QED
      BY <2>4, <3>1, <3>2 DEF NotifySimulationEnd
  <2>5. CASE ReceiveAct(e)
    BY <1>2, <2>5, ReceiveActInv
  <2>6. QED
    BY <2>1, <2>2, <2>3, <2>4, <2>5 DEF Simulate
<1>3. CASE e > episode
  <2>1. sim[e].pc = "none"
    BY <1>3 DEF Inv, Future
  <2>2. QED
    BY <2>1 DEF Simulate, SimInit, ReceiveAck, NotifyCurrentState, NotifySimulationEnd,
                ReceiveAct
<1>4. episode \in Nat /\ e \in Nat
  BY DEF Inv, AgentTypes, Episodes
<1>5. QED
  BY <1>1, <1>2, <1>3, <1>4

LEMMA NextInv == Inv /\ [Next]_vars => Inv'
<1> SUFFICES ASSUME Inv, [Next]_vars PROVE Inv'
  OBVIOUS
<1>1. CASE UNCHANGED vars
  BY <1>1 DEF vars, agent, links, Inv, AgentTypes, LinkTypes, Current, Past, Future
<1>2. CASE Proceed
  BY <1>2, InitializeEnvInv, ReceivesInv, SendCloseCommandInv DEF Proceed
<1>3. CASE Step \/ Interrupt \/ Restart
  BY <1>3, StepInv, InterruptInv, RestartInv
<1>4. CASE \E next \in {"reset", "closed"} : Close(next)
  BY <1>4, CloseInv
<1>5. CASE \E e \in Episodes : Simulate(e)
  BY <1>5, SimulateInv
<1>6. QED
  BY <1>1, <1>2, <1>3, <1>4, <1>5 DEF Next

LEMMA InvAlways == Spec => []Inv
BY InitInv, NextInv, PTL DEF Spec

-----------------------------------------------------------------------------
(* Theorems                                                                *)

\* A link never holds two messages, in either direction and of any episode.
LEMMA InvLengths ==
  ASSUME Inv, NEW e \in Episodes
  PROVE  Len(request[e]) + Len(reply[e]) <= 1
<1>1. \A x : Len(<<x>>) = 1
  OBVIOUS
<1>2. Len(<<>>) = 0
  OBVIOUS
<1>3. \/ request[e] = <<>> /\ reply[e] = <<>>
      \/ \E x : request[e] = <<x>> /\ reply[e] = <<>>
      \/ \E x : request[e] = <<>> /\ reply[e] = <<x>>
  <2>1. CASE e < episode
    BY <2>1 DEF Inv, Past, Told
  <2>2. CASE e = episode
    BY <2>2 DEF Inv, Current, Phase, Booting, Acknowledged, StateSent, StateSeen, Answered,
                Running, Stopped, Told
  <2>3. CASE e > episode
    BY <2>3 DEF Inv, Future
  <2>4. episode \in Nat /\ e \in Nat
    BY DEF Inv, AgentTypes, Episodes
  <2>5. QED
    BY <2>1, <2>2, <2>3, <2>4
<1>4. CASE request[e] = <<>> /\ reply[e] = <<>>
  BY <1>2, <1>4
<1>5. ASSUME NEW x, request[e] = <<x>>, reply[e] = <<>>
      PROVE  Len(request[e]) + Len(reply[e]) <= 1
  <2>1. Len(request[e]) = 1 /\ Len(reply[e]) = 0
    BY <1>1, <1>2, <1>5
  <2>2. QED
    BY <2>1
<1>6. ASSUME NEW x, request[e] = <<>>, reply[e] = <<x>>
      PROVE  Len(request[e]) + Len(reply[e]) <= 1
  <2>1. Len(request[e]) = 0 /\ Len(reply[e]) = 1
    BY <1>1, <1>2, <1>6
  <2>2. QED
    BY <2>1
<1>7. QED
  BY <1>3, <1>4, <1>5, <1>6

\* The variables keep their ranges, and a request and its reply are never on
\* the way at once: both sockets keep to the lockstep of REQ and REP.
THEOREM TypeCorrect == Spec => []TypeOK
<1>1. Inv => TypeOK
  <2> SUFFICES ASSUME Inv PROVE TypeOK
    OBVIOUS
  <2>1. \A e \in Episodes : Len(request[e]) + Len(reply[e]) <= 1
    BY InvLengths
  <2>2. QED
    BY <2>1 DEF Inv, AgentTypes, LinkTypes, Bridges, Sims, Requests, Replies, TypeOK
<1>2. QED
  BY <1>1, InvAlways, PTL

\* The Python thread and the simulation are never both blocked in recv, each
\* waiting for the other's message.
THEOREM NeverBothWait == Spec => []NoMutualWait
<1>1. Inv => NoMutualWait
  <2> SUFFICES ASSUME Inv, pc \in {"init", "first", "step", "close"}, ~bridge.newStateRx,
                      Waits(episode)
               PROVE  request[episode] # <<>> \/ reply[episode] # <<>>
    BY DEF NoMutualWait
  <2>1. \A x : <<x>> # <<>>
    OBVIOUS
  <2>2. QED
    BY <2>1 DEF Inv, Waits, Current, Phase, Booting, Acknowledged, StateSent, StateSeen,
                Answered, Running, Stopped, Told
<1>2. QED
  BY <1>1, InvAlways, PTL

\* A simulation that reset or close has left has ended or holds the request to
\* stop, whatever the agent interrupted before.
THEOREM LeftSimulationsStop == Spec => []AbandonedAreStopped
<1>1. Inv => AbandonedAreStopped
  <2> SUFFICES ASSUME Inv, NEW e \in Episodes, Abandoned(e)
               PROVE  Told(sim[e], request[e], reply[e])
    BY DEF AbandonedAreStopped, Told
  <2>1. CASE e < episode
    BY <2>1 DEF Inv, Past
  <2>2. CASE e = episode /\ pc \in {"reset", "closed"}
    BY <2>2 DEF Inv, Current, Phase, Booting, Acknowledged, StateSent, StateSeen, Answered,
                Running, Stopped
  <2>3. QED
    BY <2>1, <2>2 DEF Abandoned
<1>2. QED
  BY <1>1, InvAlways, PTL

-----------------------------------------------------------------------------
(* The step simulation of GymEpisode                                       *)

\* What the mapping shows of a state.
Shown == <<episode, bridge.observed, bridge.answered, sim[episode].executed,
           bridge.gameOver>>

LEMMA StutterSteps ==
  ASSUME Shown' = Shown
  PROVE  UNCHANGED Episode!vars
BY DEF Shown, Episode!vars

LEMMA InitImplements == Init => Episode!Init
<1> SUFFICES ASSUME Init PROVE Episode!Init
  OBVIOUS
<1>1. episode = 1 /\ episode \in Episodes
  BY BoundAssumption DEF Init, Episodes
<1>2. sim[episode].executed = 0
  BY <1>1 DEF Init, NewSim
<1>3. QED
  BY <1>1, <1>2 DEF Init, NewBridge, Episode!Init, Episode!Fresh

LEMMA ReceivesImplement ==
  ASSUME Inv, FirstState \/ StepReturns \/ CloseReceives
  PROVE  Episode!Observe \/ UNCHANGED Episode!vars
<1>1. /\ RxEnvState /\ pc \in {"first", "step", "close"} /\ UNCHANGED <<episode, sim>>
      /\ bridge \in Bridges
  BY DEF FirstState, StepReturns, CloseReceives, Inv, AgentTypes
<1>2. CASE bridge.newStateRx
  BY <1>1, <1>2, StutterSteps DEF RxEnvState, Shown
<1>3. CASE ~bridge.newStateRx
  <2>1. request[episode] # <<>>
    BY <1>1, <1>3 DEF RxEnvState
  <2>2. StateSent(pc, bridge, sim[episode], request[episode], reply[episode])
    BY <1>1, <1>3, <2>1 DEF Inv, Current, Phase, Booting, Acknowledged, StateSent, StateSeen,
                            Answered, Running, Stopped, Told
  <2>3. /\ Head(request[episode]).state = bridge.observed + 1
        /\ Head(request[episode]).reason \in Reasons
    <3>1. PICK reason \in Reasons : request[episode] = <<EnvState(sim[episode].state, reason)>>
      BY <2>2 DEF StateSent
    <3>2. Head(request[episode]) = EnvState(sim[episode].state, reason)
      BY <3>1, OneMessage
    <3>3. QED
      BY <2>2, <3>2 DEF EnvState, StateSent
  <2>4. /\ bridge'.observed = bridge.observed + 1 /\ bridge'.answered = bridge.answered
        /\ bridge'.gameOver \in BOOLEAN
    BY <1>1, <1>3, <2>3 DEF RxEnvState, Bridges
  <2>5. Episode!Observe
    BY <1>1, <2>2, <2>4 DEF Episode!Observe, StateSent, NotOver
  <2>6. QED
    BY <2>5
<1>4. QED
  BY <1>2, <1>3

LEMMA StepImplements ==
  ASSUME Inv, Step
  PROVE  Episode!Answer
<1>1. bridge \in Bridges
  BY DEF Inv, AgentTypes
<1>2. StateSeen(pc, bridge, sim[episode], request[episode], reply[episode])
  BY DEF Step, Inv, Current, Phase, Booting, Acknowledged, StateSent, StateSeen, Answered,
         Running, Stopped
<1>3. /\ bridge'.observed = bridge.observed /\ bridge'.answered = bridge.observed
      /\ bridge'.gameOver = bridge.gameOver /\ UNCHANGED <<episode, sim>>
  BY <1>1 DEF Step, SendActions, Bridges
<1>4. bridge.answered < bridge.observed /\ ~bridge.gameOver
  BY <1>1, <1>2 DEF StateSeen, NotOver, Bridges
<1>5. QED
  BY <1>3, <1>4 DEF Episode!Answer

LEMMA RestartImplements ==
  ASSUME Inv, Restart
  PROVE  Episode!Restart
<1>1. episode + 1 \in Episodes /\ sim \in [Episodes -> Sims]
  BY BoundAssumption DEF Restart, Inv, AgentTypes, LinkTypes, Episodes
<1>2. sim'[episode'].executed = 0 /\ bridge' = NewBridge /\ episode' = episode + 1
  BY <1>1 DEF Restart, NewSim
<1>3. QED
  BY <1>2 DEF Episode!Restart, Episode!Fresh, NewBridge

LEMMA SimulateImplements ==
  ASSUME Inv, NEW e \in Episodes, Simulate(e)
  PROVE  Episode!Execute \/ UNCHANGED Episode!vars
<1>1. /\ episode \in Episodes /\ sim \in [Episodes -> Sims] /\ bridge \in Bridges
      /\ UNCHANGED <<bridge, episode>>
  BY DEF Inv, AgentTypes, LinkTypes, agent, Simulate, SimInit, ReceiveAck, NotifyCurrentState,
         NotifySimulationEnd, ReceiveAct, SendState
<1>2. CASE sim'[episode].executed = sim[episode].executed
  BY <1>1, <1>2, StutterSteps DEF Shown
<1>3. CASE sim'[episode].executed # sim[episode].executed
  <2>1. e = episode /\ ReceiveAct(e)
    BY <1>1, <1>3 DEF Simulate, SimInit, ReceiveAck, NotifyCurrentState, NotifySimulationEnd,
                      ReceiveAct, SendState, Sims
  <2>2. ~sim[e].m_simEnd /\ ~Head(reply[e]).stop
    BY <1>1, <1>3, <2>1 DEF ReceiveAct, Sims
  <2>3. ~Stopped(pc, bridge, sim[episode], request[episode], reply[episode])
    <3>1. reply[e] # <<StopCommand>>
      BY <2>2, OneMessage DEF StopCommand, Act
    <3>2. QED
      BY <2>1, <3>1 DEF ReceiveAct, Stopped, Told
  <2>4. Answered(pc, bridge, sim[episode], request[episode], reply[episode])
    BY <2>1, <2>3 DEF ReceiveAct, Inv, Current, Phase, Booting, Acknowledged, StateSent,
                      StateSeen, Running
  <2>5. Head(reply[episode]) = Act(FALSE, bridge.observed)
    BY <2>4, OneMessage DEF Answered
  <2>6. sim' = [sim EXCEPT ![episode].pc = "running", ![episode].executed = bridge.observed]
    <3>1. Head(reply[episode]).state = bridge.observed
      BY <2>5 DEF Act
    <3>2. QED
      BY <2>1, <2>2, <3>1 DEF ReceiveAct
  <2>7. sim'[episode].executed = bridge.observed
    BY <1>1, <2>6 DEF Sims
  <2>8. bridge.answered = bridge.observed /\ sim[episode].executed < bridge.answered
    BY <1>1, <2>4 DEF Answered, Sims, Bridges
  <2>9. Episode!Execute
    BY <1>1, <2>7, <2>8 DEF Episode!Execute
  <2>10. QED
    BY <2>9
<1>4. QED
  BY <1>2, <1>3

LEMMA NextImplements ==
  ASSUME Inv, [Next]_vars
  PROVE  [Episode!Next]_Episode!vars
<1>1. CASE UNCHANGED vars
  BY <1>1, StutterSteps DEF vars, agent, Shown
<1>2. CASE InitializeEnv \/ Interrupt
  BY <1>2, StutterSteps DEF InitializeEnv, Interrupt, Shown
<1>3. CASE FirstState \/ StepReturns \/ CloseReceives
  BY <1>3, ReceivesImplement DEF Episode!Next
<1>4. CASE SendCloseCommand \/ \E next \in {"reset", "closed"} : Close(next)
  <2>1. bridge \in Bridges
    BY DEF Inv, AgentTypes
  <2>2. QED
    BY <1>4, <2>1, StutterSteps DEF SendCloseCommand, Close, Shown, Bridges
<1>5. CASE Step
  BY <1>5, StepImplements DEF Episode!Next
<1>6. CASE Restart
  BY <1>6, RestartImplements DEF Episode!Next
<1>7. CASE \E e \in Episodes : Simulate(e)
  BY <1>7, SimulateImplements DEF Episode!Next
<1>8. QED
  BY <1>1, <1>2, <1>3, <1>4, <1>5, <1>6, <1>7 DEF Next, Proceed

\* The sockets, the two processes and the interrupts implement the alternation
\* of GymEpisode: an action is executed once, in the state the agent saw.
THEOREM ImplementsEpisode == Spec => RefinesEpisode
<1>1. Init => Episode!Init
  BY InitImplements
<1>2. Inv /\ [Next]_vars => [Episode!Next]_Episode!vars
  BY NextImplements
<1>3. QED
  BY <1>1, <1>2, InvAlways, PTL DEF Spec, RefinesEpisode, Episode!Spec
=============================================================================
