----------------------------- MODULE MCVkAlloc -----------------------------
(* Small heaps for VkAlloc. *)
EXTENDS VkAlloc

Req(size, alignment) == [size |-> size, alignment |-> alignment]

\* Buffers of several sizes and alignments: the heap can be filled, and
\* there are more pieces than entries for them.
MixedRequests == {Req(2, 1), Req(4, 4), Req(6, 2), Req(2, 8)}

\* Images of two sizes, multiples of their alignment
ImageRequests == {Req(4, 4), Req(8, 4)}
=============================================================================
