---------------------------- MODULE MCAssociation ----------------------------
(* Small instances of Association for TLC.                                 *)
EXTENDS Association, TLC

CONSTANTS s1, s2
\* The values the stations have drawn: s1 passes a threshold of 2, no other.
ValueOne  == (s1 :> 1)
ValuesTwo == (s1 :> 1 @@ s2 :> 0)
=============================================================================
