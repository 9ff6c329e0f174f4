---------------------------- MODULE OracleControl ----------------------------
(***************************************************************************)
(* The controllers of src/wifi/model/ap-wifi-mac.cc that do not learn:     *)
(* Algorithm_0 (a fixed step up or down), Algorithm 4 (no control) and the *)
(* oracles Algorithm_5 and _6, which know how many stations there are and  *)
(* are told by the scenario when a group of them appears.  The scenario    *)
(* raises three flags; a beacon of Algorithm_5 or _6 consumes the last two.*)
(***************************************************************************)
EXTENDS Integers

CONSTANTS
  FullThreshold,  \* the constant 1023
  Width,          \* 2^16: AuthenThreshold is a uint16_t
  value,          \* attribute "Value"
  Populations,    \* what attribute "NAssociating" may be set to
  SecondWave,     \* the scenario has a second group
  QueueSizes      \* the queue sizes a beacon may find

\* Every population gets a step, and a raise by it fits in 16 bits (by default
\* 1023 * 60 / 100).
ASSUME OracleAssumption ==
  /\ FullThreshold \in Nat \ {0} /\ Width \in Nat /\ value \in Nat \ {0}
  /\ Populations \subseteq Nat \ {0} /\ Populations # {}
  /\ FullThreshold + value < Width
  /\ \A n \in Populations :
       (FullThreshold * value) \div n \in 1 .. Width - FullThreshold - 1
  /\ QueueSizes \subseteq Nat /\ 0 \in QueueSizes
  /\ SecondWave \in BOOLEAN

VARIABLES
  algorithm, AuthenThreshold, m_delta, m_cac_state,
  m_saturatedAssociated,    \* the stations with traffic are associated
  m_associatingStasAppear,  \* the first group has appeared
  m_secondWaveAppear,       \* the second group has appeared
  m_nAssociating,           \* attribute "NAssociating"
  firstWave,                \* its value when the first group appeared
  T1                        \* the threshold at which the second group appeared

flags  == <<m_saturatedAssociated, m_associatingStasAppear, m_secondWaveAppear,
            m_nAssociating>>
oracle == <<flags, firstWave, T1>>

OracleInit ==
  /\ m_saturatedAssociated = FALSE
  /\ m_associatingStasAppear = FALSE
  /\ m_secondWaveAppear = FALSE
  /\ m_nAssociating \in Populations
  /\ firstWave = 0
  /\ T1 = FullThreshold

-----------------------------------------------------------------------------
Store(x) == IF x % Width >= FullThreshold THEN FullThreshold ELSE x % Width

\* The share of the stations that "Value" of n are.
Share(n) == (FullThreshold * value) \div n

\* (Variant for TypeOK: the threshold is lowered whatever it is.)
FixedStep_Below(q) ==
  /\ algorithm = 0
  /\ AuthenThreshold' = IF q < 10 THEN Store(AuthenThreshold + value)
                                  ELSE AuthenThreshold - value
  /\ UNCHANGED <<m_delta, m_cac_state, oracle>>

\* Algorithm_0.
FixedStep(q) ==
  /\ algorithm = 0
  /\ AuthenThreshold' =
       IF q < 10 THEN Store(AuthenThreshold + value)
       ELSE IF AuthenThreshold > value THEN AuthenThreshold - value
       ELSE AuthenThreshold
  /\ UNCHANGED <<m_delta, m_cac_state, oracle>>

\* Algorithm 4, and the oracles before the stations with traffic are there.
NoControl(q) ==
  /\ algorithm = 4 \/ (algorithm \in {5, 6} /\ ~m_saturatedAssociated)
  /\ AuthenThreshold' = FullThreshold
  /\ UNCHANGED <<m_delta, m_cac_state, oracle>>

Oracle == algorithm \in {5, 6} /\ m_saturatedAssociated

\* (Variant for QuietClosesForGroups: the flag stays.)
FirstGroup_Again(q) ==
  /\ Oracle /\ m_associatingStasAppear
  /\ AuthenThreshold' = Store(Share(m_nAssociating))
  /\ IF algorithm = 6
       THEN m_delta' = Share(m_nAssociating) /\ firstWave' = m_nAssociating
       ELSE UNCHANGED <<m_delta, firstWave>>
  /\ UNCHANGED <<m_cac_state, flags, T1>>

FirstGroup(q) ==
  /\ Oracle /\ m_associatingStasAppear
  /\ AuthenThreshold' = Store(Share(m_nAssociating))
  /\ m_associatingStasAppear' = FALSE
  /\ IF algorithm = 6
       THEN m_delta' = Share(m_nAssociating) /\ firstWave' = m_nAssociating
       ELSE UNCHANGED <<m_delta, firstWave>>
  /\ UNCHANGED <<m_cac_state, m_saturatedAssociated, m_secondWaveAppear,
                 m_nAssociating, T1>>

\* (Variant for QuietOpensOrStuck: the share is assigned, not added.)
KnownQuiet_Assign(q) ==
  /\ algorithm = 5 /\ Oracle /\ ~m_associatingStasAppear
  /\ AuthenThreshold' = IF q = 0 THEN Store(Share(m_nAssociating))
                                 ELSE AuthenThreshold
  /\ UNCHANGED <<m_delta, m_cac_state, oracle>>

\* Algorithm_5 opens by the share per quiet beacon; it knows of no second group.
KnownQuiet(q) ==
  /\ algorithm = 5 /\ Oracle /\ ~m_associatingStasAppear
  /\ AuthenThreshold' = IF q = 0 THEN Store(AuthenThreshold + Share(m_nAssociating))
                                 ELSE AuthenThreshold
  /\ UNCHANGED <<m_delta, m_cac_state, oracle>>

SecondGroupFlag == /\ algorithm = 6 /\ Oracle
                   /\ ~m_associatingStasAppear /\ m_secondWaveAppear

\* The difference is unsigned: were it negative the share would be 0.
SecondGroup(q) ==
  /\ SecondGroupFlag /\ m_nAssociating # firstWave
  /\ T1' = AuthenThreshold
  /\ AuthenThreshold' = 0
  /\ m_delta' = IF m_nAssociating > firstWave THEN Share(m_nAssociating - firstWave)
                                              ELSE 0
  /\ m_secondWaveAppear' = FALSE
  /\ UNCHANGED <<m_cac_state, m_saturatedAssociated, m_associatingStasAppear,
                 m_nAssociating, firstWave>>

\* A second group that nobody added to NAssociating: the process dies.
DivideByNoStations(q) ==
  /\ SecondGroupFlag /\ m_nAssociating = firstWave
  /\ m_cac_state' = "ABORTED"
  /\ UNCHANGED <<AuthenThreshold, m_delta, oracle>>

Later == /\ algorithm = 6 /\ Oracle
         /\ ~m_associatingStasAppear /\ ~m_secondWaveAppear

\* (Variant for BothGroupsShare: the step of the second group is kept.)
WaveQuiet_OneStep(q) ==
  /\ Later /\ q = 0
  /\ AuthenThreshold' = Store(AuthenThreshold + m_delta)
  /\ UNCHANGED <<m_delta, m_cac_state, oracle>>

\* Beyond the threshold the first group had reached the step is for both.
WaveQuiet(q) ==
  /\ Later /\ q = 0
  /\ m_delta' = IF AuthenThreshold + m_delta > T1 THEN Share(m_nAssociating) ELSE m_delta
  /\ AuthenThreshold' = Store(AuthenThreshold + m_delta')
  /\ UNCHANGED <<m_cac_state, oracle>>

\* By the share of the frames that got through, or not at all.
WaveBusy(q) ==
  /\ Later /\ q # 0
  /\ m_delta' = Share(m_nAssociating)
  /\ \E m_delta_temp \in 0 .. m_delta' :
       AuthenThreshold' = Store(AuthenThreshold + m_delta_temp)
  /\ UNCHANGED <<m_cac_state, oracle>>

OracleStep(q) ==
  \/ FixedStep(q)   \/ NoControl(q) \/ FirstGroup(q) \/ KnownQuiet(q)
  \/ SecondGroup(q) \/ WaveQuiet(q) \/ WaveBusy(q)   \/ DivideByNoStations(q)

-----------------------------------------------------------------------------
(* What the scenario says, in this order; the first group may be announced *)
(* more than once.  SetSecondWaveAppear is offered to scenarios, none of   *)
(* the repository calls it; such a scenario may set NAssociating anew.     *)

SetSaturatedAssociated ==
  /\ ~m_saturatedAssociated
  /\ m_saturatedAssociated' = TRUE
  /\ UNCHANGED <<m_associatingStasAppear, m_secondWaveAppear, m_nAssociating>>

SetAssociatingStasAppear ==
  /\ m_saturatedAssociated
  /\ m_associatingStasAppear' = TRUE
  /\ UNCHANGED <<m_saturatedAssociated, m_secondWaveAppear, m_nAssociating>>

SetSecondWaveAppear ==
  /\ SecondWave /\ m_saturatedAssociated
  /\ m_secondWaveAppear' = TRUE
  /\ m_nAssociating' \in Populations
  /\ UNCHANGED <<m_saturatedAssociated, m_associatingStasAppear>>

Announce == /\ \/ SetSaturatedAssociated
               \/ SetAssociatingStasAppear
               \/ SetSecondWaveAppear
            /\ UNCHANGED <<AuthenThreshold, m_delta, m_cac_state, firstWave, T1>>

OracleTypeOK ==
  /\ {m_saturatedAssociated, m_associatingStasAppear, m_secondWaveAppear}
       \subseteq BOOLEAN
  /\ m_nAssociating \in Populations
  /\ firstWave \in Populations \cup {0}
  /\ T1 \in 0 .. FullThreshold
=============================================================================
