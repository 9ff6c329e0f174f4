-------------------------- MODULE MCLearningControl --------------------------
(* Small instances of LearningControl for TLC.                             *)
EXTENDS LearningControl

\* The algorithms TLC distinguishes: Algorithm_10 takes the steps of _7.
AllAlgorithms == {1, 2, 7, 8, 9}
OnlyFirst     == {1}
\* One size of every band the algorithms tell apart.  With a learning threshold
\* of 5 and new groups beyond 10 the first four serve Algorithm_1 to _8; for
\* Algorithm_9 the bands are <= 5, <= 10, 11 .. 100 and beyond.
Sizes == {0, 5, 10, 15, 101}
\* Beacon interval of 8 ms: ratios 8, 2 and 1, and a response in the first ms.
TausScaled == {0, 1, 3, 8}
=============================================================================
