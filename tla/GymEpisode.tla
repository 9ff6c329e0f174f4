----------------------------- MODULE GymEpisode -----------------------------
(***************************************************************************)
(* What ns3-gym promises to an agent, whatever processes, sockets and      *)
(* messages carry it out: an episode is an alternation of observations,    *)
(* answers of the agent and executions of these answers in the simulation. *)
(***************************************************************************)
EXTENDS Naturals

VARIABLES
  episode,   \* number of the episode
  observed,  \* the last observation the agent has got
  answered,  \* the observation to which the agent has last given an action
  executed,  \* the observation whose answer the simulation has last executed
  done       \* the agent knows that the episode is over

vars == <<episode, observed, answered, executed, done>>

Fresh == /\ observed = 0
         /\ answered = 0
         /\ executed = 0
         /\ done = FALSE

Init == episode = 1 /\ Fresh

\* The next observation shows what the answer to the previous one has done.
Observe == /\ ~done
           /\ executed = observed
           /\ observed' = observed + 1
           /\ done' \in BOOLEAN
           /\ UNCHANGED <<episode, answered, executed>>

\* One answer to each observation, none after the end.
Answer == /\ ~done
          /\ answered < observed
          /\ answered' = observed
          /\ UNCHANGED <<episode, observed, executed, done>>

\* The answer is executed once.
Execute == /\ executed < answered
           /\ executed' = answered
           /\ UNCHANGED <<episode, observed, answered, done>>

\* The agent may give an episode up at any time.
Restart == episode' = episode + 1 /\ Fresh'

Next == Observe \/ Answer \/ Execute \/ Restart

Spec == Init /\ [][Next]_vars
=============================================================================
