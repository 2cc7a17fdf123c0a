------------------------------ MODULE VkAlloc ------------------------------
(***************************************************************************)
(* The allocator of pipe/alloc.c: offsets into a Vulkan memory block for   *)
(* the buffers of a graph, for the thumbnails and for the images of        *)
(* dynamic arrays.  A free list sorted by offset is searched first fit;    *)
(* freed entries are merged with their neighbours.  All list entries come  *)
(* from a pool of fixed size and are in one of the lists free, used and    *)
(* unused.  Single threaded.                                               *)
(***************************************************************************)
EXTENDS Integers, SequencesExt

CONSTANTS HeapSize,  \* heap_size
          PoolSize,  \* pool_size
          Requests   \* the [size, alignment] the callers ask for

ASSUME VkAllocAssumption ==
  /\ HeapSize \in Nat \ {0}
  /\ PoolSize \in Nat \ {0}
  /\ Requests \subseteq [size : Nat \ {0}, alignment : Nat \ {0}]

VARIABLES free,    \* the list of free entries, in list order
          used,    \* the entries handed out
          unused,  \* number of entries in neither list
          rss,     \* bytes handed out
          vmsize,  \* the most bytes ever in reach of an entry
          gaps,    \* history: an entry was aligned by skipping some bytes
          lost     \* history: a freed entry was put in no list

heapVars == <<free, used, unused, rss, vmsize, gaps, lost>>

\* An entry begins at offset, after the bytes from offset_orig that were
\* skipped to align it; size does not count these.
Mem == [offset : Nat, offset_orig : Nat, size : Nat]

Whole == [offset |-> 0, offset_orig |-> 0, size |-> HeapSize]

HeapTypeOK ==
  /\ free \in Seq(Mem)
  /\ used \subseteq Mem
  /\ unused \in Nat
  /\ rss \in Int
  /\ vmsize \in 0 .. HeapSize
  /\ gaps \in BOOLEAN
  /\ lost \in BOOLEAN

\* dt_vkalloc_nuke
HeapInit ==
  /\ free = <<Whole>>
  /\ used = {}
  /\ unused = PoolSize - 1
  /\ rss = 0
  /\ vmsize = 0
  /\ gaps = FALSE
  /\ lost = FALSE

Nuke ==
  /\ free' = <<Whole>>
  /\ used' = {}
  /\ unused' = PoolSize - 1
  /\ rss' = 0
  /\ vmsize' = 0
  /\ gaps' = FALSE
  /\ lost' = FALSE

End(m) == m.offset + m.size

Gap(m) == m.offset - m.offset_orig
-----------------------------------------------------------------------------
(***************************************************************************)
(* dt_vkalloc                                                              *)
(***************************************************************************)
Exact(l, r) == l.size = r.size /\ l.offset % r.alignment = 0

Larger(l, r) ==
  \/ l.size > r.size /\ l.offset_orig % r.alignment = 0
  \/ l.size > r.size + r.alignment

\* The search through the free list stops here.
Chosen(i, r) ==
  /\ i \in DOMAIN free
  /\ Exact(free[i], r) \/ Larger(free[i], r)
  /\ \A j \in DOMAIN free : j < i => ~ Exact(free[j], r) /\ ~ Larger(free[j], r)

\* The next multiple; alignments are powers of two.
Aligned(x, alignment) == x + ((alignment - (x % alignment)) % alignment)

\* The front of a free entry, and what is left of it
Carved(l, r) == [offset      |-> Aligned(l.offset_orig, r.alignment),
                 offset_orig |-> l.offset_orig,
                 size        |-> r.size]

Rest_Unaligned(l, m) == [offset      |-> l.offset_orig + m.size,
                         offset_orig |-> l.offset_orig + m.size,
                         size        |-> l.size - m.size]
\* mutant: what is left begins where it would without alignment

Rest(l, m) == [offset      |-> End(m),
               offset_orig |-> End(m),
               size        |-> l.offset_orig + l.size - End(m)]

HandOut_Last(m) ==
  /\ used' = used \cup {m}
  /\ rss' = rss + m.size
  /\ vmsize' = End(m)
\* mutant: the size of the memory is set by the last allocation

HandOut(m) ==
  /\ used' = used \cup {m}
  /\ rss' = rss + m.size
  /\ vmsize' = IF End(m) > vmsize THEN End(m) ELSE vmsize

Replace(r) ==
  \E i \in DOMAIN free :
    /\ Chosen(i, r) /\ Exact(free[i], r)
    /\ free' = RemoveAt(free, i)
    /\ HandOut(free[i])
    /\ UNCHANGED <<unused, gaps, lost>>

\* Without a spare entry the call fails, as it does when nothing is chosen.
Spare == unused > 0

Split(r) ==
  \E i \in DOMAIN free :
    LET m == Carved(free[i], r) IN
    /\ Chosen(i, r) /\ ~ Exact(free[i], r)
    /\ Spare
    /\ unused' = unused - 1
    /\ free' = ReplaceAt(free, i, Rest(free[i], m))
    /\ HandOut(m)
    /\ gaps' = (gaps \/ Gap(m) > 0)
    /\ UNCHANGED lost
-----------------------------------------------------------------------------
(***************************************************************************)
(* dt_vkfree                                                               *)
(***************************************************************************)
Behind_Strictly(l, m) == l.offset > End(m)
\* mutant: the entry right behind is not seen as behind

\* Entry m goes in front of the first one behind it.
Behind(l, m) == l.offset >= End(m)

\* Nothing is skipped between entries m and l.
Adjacent(m, l) == End(m) = l.offset_orig

WithBefore(p, m) == [p EXCEPT !.size = @ + m.size + Gap(m)]

WithAfter(m, l) == [offset      |-> m.offset_orig,
                    offset_orig |-> m.offset_orig,
                    size        |-> l.size + m.size + Gap(m)]

\* Entry k of list s is merged with the one before it ...
MergesBefore(s, k) == k > 1 /\ Adjacent(s[k - 1], s[k])

MergeBefore(s, k) ==
  IF MergesBefore(s, k)
  THEN RemoveAt(ReplaceAt(s, k - 1, WithBefore(s[k - 1], s[k])), k)
  ELSE s

\* ... and then, at its new place, with the one after it.
MergeAfter_Never(s, k) == s
\* mutant: entries are not merged with what follows

MergeAfter(s, k) ==
  IF k < Len(s) /\ Adjacent(s[k], s[k + 1])
  THEN RemoveAt(ReplaceAt(s, k + 1, WithAfter(s[k], s[k + 1])), k)
  ELSE s

Inserted(i, m) ==
  LET s == InsertAt(free, i, m)
      k == IF MergesBefore(s, i) THEN i - 1 ELSE i
  IN MergeAfter(MergeBefore(s, i), k)

TakeBack(m) ==
  /\ m \in used
  /\ used' = used \ {m}
  /\ rss' = rss - m.size
  /\ UNCHANGED <<vmsize, gaps>>

Insert(m) ==
  /\ TakeBack(m)
  /\ \E i \in DOMAIN free :
       /\ Behind(free[i], m)
       /\ \A j \in DOMAIN free : j < i => ~ Behind(free[j], m)
       /\ free' = Inserted(i, m)
       /\ unused' = unused + Len(free) + 1 - Len(free')
  /\ UNCHANGED lost

\* Nothing is free.
InsertOnly(m) ==
  /\ TakeBack(m)
  /\ free = << >>
  /\ free' = <<m>>
  /\ UNCHANGED <<unused, lost>>

\* There are free entries, none of them behind m: the loop ends before it
\* reaches the end of the list.  Without asserts the entry is in no list now.
Lose(m) ==
  /\ TakeBack(m)
  /\ free # << >>
  /\ \A i \in DOMAIN free : ~ Behind(free[i], m)
  /\ lost' = TRUE
  /\ UNCHANGED <<free, unused>>
-----------------------------------------------------------------------------
HeapNext ==
  \/ Nuke
  \/ \E r \in Requests : Replace(r) \/ Split(r)
  \/ \E m \in used : Insert(m) \/ InsertOnly(m) \/ Lose(m)

HeapSpec == HeapInit /\ [][HeapNext]_heapVars
-----------------------------------------------------------------------------
(***************************************************************************)
(* Properties                                                              *)
(***************************************************************************)
NoOverlap(m, l) == End(m) <= l.offset \/ End(l) <= m.offset

\* The assert at the end of dt_vkfree: no entry gets lost.
Complete == Len(free) + Cardinality(used) + unused = PoolSize

\* dt_vkalloc_check finds no fault with the entries, after any sequence of
\* calls: (1) no entry is missing, unless it was lost as above, (2, 3) the
\* free list is sorted, (6) no two entries overlap, (7) vmsize, by which the
\* memory is allocated, covers what was handed out.
CheckEntries ==
  /\ lost \/ Complete
  /\ \A i \in DOMAIN free : i > 1 =>
       /\ free[i].offset_orig >= free[i - 1].offset
       /\ free[i].offset_orig + free[i].size >= End(free[i - 1])
  /\ \A i, j \in DOMAIN free : i = j \/ NoOverlap(free[i], free[j])
  /\ \A m \in used, i \in DOMAIN free : NoOverlap(m, free[i])
  /\ \A m, l \in used : m = l \/ NoOverlap(m, l)
  /\ \A m \in used : End(m) <= vmsize

\* Nor is there anything else it finds: rss is the sum of what is handed out.
CheckPasses ==
  /\ CheckEntries
  /\ rss = MapThenSumSet(LAMBDA m : m.size, used)

\* "we'll just forget about the bits in between": nothing else is forgotten.
\* If no alignment ever skipped bytes, freeing everything gives back the
\* heap in one piece, whatever the order of the calls.
Regained == used = {} /\ ~ gaps /\ ~ lost => free = <<Whole>>

Live == {[offset |-> m.offset, size |-> m.size] : m \in used}

Ranges == INSTANCE Allocator WITH live <- Live

\* Blocks are aligned, inside the heap and nobody else's until freed.
ImplementsAllocator == Ranges!Spec
=============================================================================
