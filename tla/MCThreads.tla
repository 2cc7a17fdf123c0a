----------------------------- MODULE MCThreads -----------------------------
(* Values for the constants of Threads. *)
EXTENDS Threads, TLC
CONSTANTS w1, w2, main, other, j1, j2, none

\* Every job has one task; a slot is used again while others are busy.
SingleCnt   == (j1 :> 2 @@ j2 :> 1)
SingleParts == (j1 :> 1 @@ j2 :> 1)

\* Job j1 is shared by two threads.
SharedCnt   == (j1 :> 2 @@ j2 :> 1)
SharedParts == (j1 :> 2 @@ j2 :> 1)
=============================================================================
