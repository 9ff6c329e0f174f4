------------------------------- MODULE GymLink -------------------------------
(***************************************************************************)
(* How ns3-gym couples a Python agent with the ns-3 simulations it starts: *)
(* the class Ns3Env and its Ns3ZmqBridge (ns3env.py) on one side,          *)
(* OpenGymInterface (opengym_interface.cc) in the process of a simulation  *)
(* on the other, and a ZeroMQ REP / REQ pair of sockets between them.      *)
(*                                                                         *)
(* The agent constructs an environment, makes steps, resets and closes it, *)
(* in any order; a call may be interrupted while it waits (Ctrl-C).  Each  *)
(* reset starts a new simulation process while the previous one may still  *)
(* be on its way to its exit.  A REP socket can only send after it has     *)
(* received, and ns3env.py swallows the exception when close tries to send *)
(* twice.                                                                  *)
(***************************************************************************)
EXTENDS Naturals, Sequences

CONSTANTS
  MaxEpisodes,    \* bound of the model: simulations that are started
  MaxStates,      \* bound of the model: states of a simulation before its end
  MaxInterrupts   \* bound of the model: interrupted steps

ASSUME BoundAssumption == /\ {MaxStates, MaxInterrupts} \subseteq Nat
                          /\ MaxEpisodes \in Nat \ {0}

\* A bridge keeps its attributes after it has been closed, until the next one.
VARIABLES
  pc,          \* what the Python thread does
  goal,        \* where close returns to: "reset" or "closed"
  bridge,      \* the current Ns3ZmqBridge
  envDirty,    \* attribute of Ns3Env: a step has returned since the last reset
  episode,     \* the current simulation
  sim,         \* [Episodes -> ...]: the simulation processes
  request,     \* [Episodes -> Seq(...)]: from a simulation to its bridge
  reply,       \* [Episodes -> Seq(...)]: from a bridge to its simulation
  interrupts   \* interrupts that are left

links == <<request, reply>>
agent == <<pc, goal, bridge, envDirty, episode, interrupts>>
vars  == <<agent, sim, links>>

Episodes == 1 .. MaxEpisodes

\* The attributes of a bridge; mustSend is the state of its REP socket,
\* observed and answered number the states it has received and answered.
NewBridge == [envStopped |-> FALSE, forceEnvStop |-> FALSE, newStateRx |-> FALSE,
              gameOver |-> FALSE, mustSend |-> FALSE, observed |-> 0, answered |-> 0]

\* A simulation; m_initSimMsgSent is true from wait_ack on, m_stopEnvRequested
\* in a process that exits.
NewSim(place) == [pc |-> place, m_simEnd |-> FALSE, state |-> 0, executed |-> 0]

SimInitMsg == [type |-> "SimInit", state |-> 0, reason |-> "None"]
EnvState(n, reason) == [type |-> "EnvState", state |-> n, reason |-> reason]
Act(stop, n) == [stop |-> stop, state |-> n]
StopCommand  == Act(TRUE, 0)

Init == /\ pc = "init"
        /\ goal = "closed"
        /\ bridge = NewBridge
        /\ envDirty = FALSE
        /\ episode = 1
        /\ sim = [e \in Episodes |-> NewSim(IF e = 1 THEN "boot" ELSE "none")]
        /\ request = [e \in Episodes |-> <<>>]
        /\ reply = [e \in Episodes |-> <<>>]
        /\ interrupts = MaxInterrupts

-----------------------------------------------------------------------------
(* The agent's process                                                     *)

Sent(link, e, msg) == [link EXCEPT ![e] = Append(@, msg)]
Taken(link, e)     == [link EXCEPT ![e] = Tail(@)]

\* (Variant for NoMutualWait and CallsReturn: no acknowledgement is sent.)
InitializeEnv_NoAck ==
  /\ pc = "init"
  /\ request[episode] # <<>>
  /\ request' = Taken(request, episode)
  /\ pc' = "first"
  /\ UNCHANGED <<goal, bridge, envDirty, episode, interrupts, sim, reply>>

InitializeEnv == /\ pc = "init"
                 /\ request[episode] # <<>>
                 /\ request' = Taken(request, episode)
                 /\ reply' = Sent(reply, episode, Act(FALSE, 0))
                 /\ pc' = "first"
                 /\ UNCHANGED <<goal, bridge, envDirty, episode, interrupts, sim>>

\* Receive a state unless one is held already; the last state of an episode is
\* answered at once, with the request to stop.
RxEnvState ==
  \/ /\ bridge.newStateRx
     /\ UNCHANGED <<bridge, links>>
  \/ /\ ~bridge.newStateRx
     /\ request[episode] # <<>>
     /\ LET msg  == Head(request[episode])
            over == msg.reason # "None"
        IN  /\ request' = Taken(request, episode)
            /\ reply' = IF over THEN Sent(reply, episode, StopCommand) ELSE reply
            /\ bridge' = [bridge EXCEPT !.observed = msg.state,
                                        !.gameOver = over,
                                        !.newStateRx = TRUE,
                                        !.mustSend = ~over,
                                        !.envStopped = @ \/ msg.reason = "SimulationEnd",
                                        !.forceEnvStop = @ \/ msg.reason = "GameOver"]

FirstState == /\ pc = "first"
              /\ RxEnvState
              /\ pc' = "user"
              /\ UNCHANGED <<goal, envDirty, episode, interrupts, sim>>

SendActions ==
  /\ reply' = Sent(reply, episode, Act(bridge.forceEnvStop, bridge.observed))
  /\ bridge' = [bridge EXCEPT !.mustSend = FALSE, !.newStateRx = FALSE,
                              !.answered = bridge.observed]

\* When the socket cannot send, step raises an exception and changes nothing.
Step == /\ pc = "user"
        /\ bridge.mustSend
        /\ SendActions
        /\ pc' = "step"
        /\ UNCHANGED <<goal, envDirty, episode, interrupts, sim, request>>

StepReturns == /\ pc = "step"
               /\ RxEnvState
               /\ pc' = "user"
               /\ envDirty' = TRUE
               /\ UNCHANGED <<goal, episode, interrupts, sim>>

\* KeyboardInterrupt while step waits for the next state.
Interrupt == /\ pc = "step"
             /\ interrupts > 0
             /\ interrupts' = interrupts - 1
             /\ pc' = "user"
             /\ UNCHANGED <<goal, bridge, envDirty, episode, sim, links>>

\* Ns3Env.close, and Ns3Env.reset of an environment that has made a step.
Close(next) ==
  /\ pc = "user"
  /\ next = "reset" => envDirty
  /\ goal' = next
  /\ IF bridge.envStopped
     THEN pc' = next /\ UNCHANGED bridge
     ELSE /\ pc' = "close"
          /\ bridge' = [bridge EXCEPT !.envStopped = TRUE, !.forceEnvStop = TRUE]
  /\ UNCHANGED <<envDirty, episode, interrupts, sim, links>>

\* (Variant for AbandonedAreStopped: close does not wait for the state that is
\* under way.)
CloseReceives_Skipped ==
  /\ pc = "close"
  /\ pc' = "stop"
  /\ UNCHANGED <<goal, bridge, envDirty, episode, interrupts, sim, links>>

CloseReceives == /\ pc = "close"
                 /\ RxEnvState
                 /\ pc' = "stop"
                 /\ UNCHANGED <<goal, envDirty, episode, interrupts, sim>>

\* (Variant for TypeOK: the last state is answered a second time.)
SendCloseCommand_Twice ==
  /\ pc = "stop"
  /\ pc' = goal
  /\ reply' = Sent(reply, episode, StopCommand)
  /\ bridge' = [bridge EXCEPT !.mustSend = FALSE, !.newStateRx = FALSE]
  /\ UNCHANGED <<goal, envDirty, episode, interrupts, sim, request>>

\* Sending fails when the last state has been answered; the exception ends
\* close, as does the use of the module signal, which is never imported.
SendCloseCommand ==
  /\ pc = "stop"
  /\ pc' = goal
  /\ IF bridge.mustSend
     THEN /\ reply' = Sent(reply, episode, StopCommand)
          /\ bridge' = [bridge EXCEPT !.mustSend = FALSE, !.newStateRx = FALSE]
     ELSE UNCHANGED <<reply, bridge>>
  /\ UNCHANGED <<goal, envDirty, episode, interrupts, sim, request>>

\* A new bridge, which starts a new simulation; also after close.
Restart == /\ pc = "reset" \/ (pc = "closed" /\ envDirty)
           /\ episode < MaxEpisodes
           /\ episode' = episode + 1
           /\ bridge' = NewBridge
           /\ envDirty' = FALSE
           /\ sim' = [sim EXCEPT ![episode + 1] = NewSim("boot")]
           /\ pc' = "init"
           /\ UNCHANGED <<goal, interrupts, links>>

-----------------------------------------------------------------------------
(* A simulation process                                                    *)

SimInit(e) == /\ sim[e].pc = "boot"
              /\ request' = Sent(request, e, SimInitMsg)
              /\ sim' = [sim EXCEPT ![e].pc = "wait_ack"]
              /\ UNCHANGED <<agent, reply>>

\* The part of NotifyCurrentState before its call of recv.
SendState(e, reason) ==
  /\ request' = Sent(request, e, EnvState(sim[e].state + 1, reason))
  /\ sim' = [sim EXCEPT ![e].pc = "wait_act",
                        ![e].state = @ + 1,
                        ![e].m_simEnd = (reason = "SimulationEnd")]

\* The rest of Init, and the first state.
ReceiveAck(e) == /\ sim[e].pc = "wait_ack"
                 /\ reply[e] # <<>>
                 /\ reply' = Taken(reply, e)
                 /\ \E reason \in {"None", "GameOver"} : SendState(e, reason)
                 /\ UNCHANGED agent

NotifyCurrentState(e) == /\ sim[e].pc = "running"
                         /\ sim[e].state < MaxStates
                         /\ \E reason \in {"None", "GameOver"} : SendState(e, reason)
                         /\ UNCHANGED <<agent, reply>>

\* The simulation's time is over; a script that has not read a state by then
\* ends without ever having contacted the agent.
NotifySimulationEnd(e) ==
  \/ /\ sim[e].pc = "running"
     /\ SendState(e, "SimulationEnd")
     /\ UNCHANGED <<agent, reply>>
  \/ /\ sim[e].pc = "boot"
     /\ sim' = [sim EXCEPT ![e].pc = "exited", ![e].m_simEnd = TRUE]
     /\ UNCHANGED <<agent, links>>

\* (Variant for RefinesEpisode and SimsExit: the request to stop is overlooked.)
ReceiveAct_NoStop(e) ==
  /\ sim[e].pc = "wait_act"
  /\ reply[e] # <<>>
  /\ reply' = Taken(reply, e)
  /\ sim' = IF sim[e].m_simEnd
            THEN [sim EXCEPT ![e].pc = "exited"]
            ELSE [sim EXCEPT ![e].pc = "running", ![e].executed = Head(reply[e]).state]
  /\ UNCHANGED <<agent, request>>

\* After the end of the simulation the reply is not looked at; a request to
\* stop ends the process; else the actions are executed.
ReceiveAct(e) ==
  /\ sim[e].pc = "wait_act"
  /\ reply[e] # <<>>
  /\ reply' = Taken(reply, e)
  /\ sim' = IF sim[e].m_simEnd \/ Head(reply[e]).stop
            THEN [sim EXCEPT ![e].pc = "exited"]
            ELSE [sim EXCEPT ![e].pc = "running", ![e].executed = Head(reply[e]).state]
  /\ UNCHANGED <<agent, request>>

-----------------------------------------------------------------------------
Simulate(e) == \/ SimInit(e)            \/ ReceiveAck(e)
               \/ NotifyCurrentState(e) \/ NotifySimulationEnd(e)
               \/ ReceiveAct(e)

\* What the Python thread does by itself once a method has been called.
Proceed == \/ InitializeEnv \/ FirstState \/ StepReturns
           \/ CloseReceives \/ SendCloseCommand

Next == \/ Proceed
        \/ Step \/ Interrupt \/ Restart
        \/ \E next \in {"reset", "closed"} : Close(next)
        \/ \E e \in Episodes : Simulate(e)

Spec == Init /\ [][Next]_vars

\* A call goes on when its message has come, and the events of a simulation
\* lead to its next state or to its end; the agent need not call anything.
FairSpec == /\ Spec
            /\ WF_vars(Proceed)
            /\ \A e \in Episodes : WF_vars(Simulate(e))

-----------------------------------------------------------------------------
(* Properties                                                              *)

Reasons == {"None", "GameOver", "SimulationEnd"}

\* The variables keep their ranges, and no link ever holds two messages.
TypeOK ==
  /\ pc \in {"init", "first", "user", "step", "close", "stop", "reset", "closed"}
  /\ goal \in {"reset", "closed"}
  /\ bridge \in [envStopped : BOOLEAN, forceEnvStop : BOOLEAN, newStateRx : BOOLEAN,
                 gameOver : BOOLEAN, mustSend : BOOLEAN, observed : Nat, answered : Nat]
  /\ envDirty \in BOOLEAN
  /\ episode \in Episodes
  /\ sim \in [Episodes -> [pc : {"none", "boot", "wait_ack", "wait_act", "running",
                                 "exited"},
                           m_simEnd : BOOLEAN, state : Nat, executed : Nat]]
  /\ request \in [Episodes -> Seq([type : {"SimInit", "EnvState"}, state : Nat,
                                   reason : Reasons])]
  /\ reply \in [Episodes -> Seq([stop : BOOLEAN, state : Nat])]
  /\ \A e \in Episodes : Len(request[e]) + Len(reply[e]) <= 1
  /\ interrupts \in 0 .. MaxInterrupts

\* The agent has left simulation e: it will never look at it again.
Abandoned(e) == e < episode \/ (e = episode /\ pc \in {"reset", "closed"})
Waits(e)     == sim[e].pc \in {"wait_ack", "wait_act"}

\* The agent and its simulation never wait for each other.
NoMutualWait ==
  (/\ pc \in {"init", "first", "step", "close"}
   /\ ~bridge.newStateRx
   /\ Waits(episode))
  => (request[episode] # <<>> \/ reply[episode] # <<>>)

\* Whenever the agent leaves a simulation, by whatever sequence of interrupted
\* steps, resets and closes, the simulation is told to stop (and has not been
\* given anything else to do): it does not stay behind waiting for an answer.
AbandonedAreStopped ==
  \A e \in Episodes : Abandoned(e) =>
    \/ sim[e].pc = "exited"
    \/ sim[e].pc = "wait_act" /\ reply[e] = <<StopCommand>>

\* The link keeps the promise of GymEpisode: an action is executed once, in the
\* state the agent saw when it chose it, and none after the end.
Episode == INSTANCE GymEpisode WITH
             observed <- bridge.observed,
             answered <- bridge.answered,
             executed <- sim[episode].executed,
             done     <- bridge.gameOver
RefinesEpisode == Episode!Spec

\* A step, a close and the construction of an environment return, with one
\* exception: a construction whose simulation has ended before its first state.
CallsReturn ==
  pc \in {"init", "first", "step", "close", "stop"}
    ~> \/ pc \in {"user", "reset", "closed"}
       \/ pc = "init" /\ sim[episode].m_simEnd

\* Every simulation that the agent has left comes to its end.
SimsExit == \A e \in Episodes : Abandoned(e) ~> sim[e].pc = "exited"
=============================================================================
