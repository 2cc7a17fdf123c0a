-------------------------- MODULE MCThumbnailJobs --------------------------
(* Values for the constants of ThumbnailJobs. *)
EXTENDS ThumbnailJobs, TLC
CONSTANTS w1, w2, p1, p2

\* A directory with two photos, one of which may be missing when it is opened
TwoDirectories == {<<p1, p2>>, <<p2>>}

WorkerSymmetry == Permutations(Workers)
=============================================================================
