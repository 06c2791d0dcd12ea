--------------------------- MODULE MCBoundedTest ----------------------------
(***************************************************************************)
(* Small instances of BoundedTest for TLC: the start page links to every   *)
(* video, and a video to the start page and to every other video.          *)
(***************************************************************************)
EXTENDS BoundedTest, TLC

MCLinks ==
    [u \in URL |-> URL \ {u}]

WorkerSymmetry == Permutations(Worker)

=============================================================================
