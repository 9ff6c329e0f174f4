----------------------------- MODULE MCAuthSystem -----------------------------
(* A small instance of AuthSystem for TLC.                                 *)
EXTENDS AuthSystem, TLC

CONSTANTS s1, s2

\* The station that comes first, and the one that comes last.
FirstAndLast == (s1 :> 0 @@ s2 :> FullThreshold - 1)
AllThresholds == 0 .. FullThreshold
=============================================================================
