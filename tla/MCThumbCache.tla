---------------------------- MODULE MCThumbCache ----------------------------
(* Values for the constants of ThumbCache. *)
EXTENDS ThumbCache

\* One image in three needs twice the memory.
Sizes == [i \in Images |-> IF i % 3 = 1 THEN 2 ELSE 1]
=============================================================================
