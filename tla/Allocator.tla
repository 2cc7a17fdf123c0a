----------------------------- MODULE Allocator -----------------------------
(***************************************************************************)
(* What an allocator of address ranges promises (pipe/alloc.h): every block*)
(* it hands out is aligned as asked for, lies inside the heap and is       *)
(* nobody else's until it is freed.  How free ranges are found does not    *)
(* appear here; VkAlloc.tla is shown to implement this module.             *)
(***************************************************************************)
EXTENDS Naturals

CONSTANTS HeapSize,  \* addresses are 0 .. HeapSize - 1
          Requests   \* the [size, alignment] asked for

VARIABLE live        \* the blocks handed out: [offset, size]

Overlap(b, c) == b.offset < c.offset + c.size /\ c.offset < b.offset + b.size

Init == live = {}

Allocate ==
  \E r \in Requests, offset \in 0 .. HeapSize :
    LET b == [offset |-> offset, size |-> r.size] IN
    /\ offset % r.alignment = 0
    /\ offset + r.size <= HeapSize
    /\ \A c \in live : ~ Overlap(b, c)
    /\ live' = live \cup {b}

Release == \E b \in live : live' = live \ {b}

Nuke == live' = {}

Next == Allocate \/ Release \/ Nuke

Spec == Init /\ [][Next]_live
=============================================================================
