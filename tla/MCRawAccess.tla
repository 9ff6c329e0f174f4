----------------------------- MODULE MCRawAccess -----------------------------
(* Small instances of RawAccess for TLC.                                   *)
EXTENDS RawAccess, TLC

CONSTANTS s1, s2

Aids == (s1 :> 2 @@ s2 :> 3)

Raw(p, f, l, n, d) == [paged |-> p, first |-> f, last |-> l, slots |-> n, duration |-> d]
\* A window of one slot for both; a window for s1 alone and, after it, one with
\* two slots, which outlast the beacon interval; a paged window for s1.  (s2 has
\* the second slot of its window, still to start when the next beacon is early.)
Windows == << << Raw(FALSE, 2, 3, 1, 1) >>,
              << Raw(FALSE, 2, 2, 1, 1), Raw(FALSE, 3, 3, 2, 1) >>,
              << Raw(TRUE, 2, 2, 1, 1) >> >>
=============================================================================
