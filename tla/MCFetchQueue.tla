---------------------------- MODULE MCFetchQueue ----------------------------
(* Constants of the runs of FetchQueue. *)
EXTENDS FetchQueueBoard, TLC

CONSTANTS p1, p2, r1, w1, w2

OnePull == {p1}
TwoPulls == {p1, p2}
NoReindex == {}
OneReindex == {r1}
TwoWorkers == {w1, w2}

Symmetry == Permutations(TwoWorkers)
=============================================================================
