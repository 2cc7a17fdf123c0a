----------------------------- MODULE ThumbCache -----------------------------
(***************************************************************************)
(* Thumbnails on the GPU: the lighttable loads bc1 files to a cache of     *)
(* fixed size (db/thumbnails.c) and draws it, while jobs write new files   *)
(* (ThumbnailJobs) and the GPU still executes earlier frames.              *)
(*                                                                         *)
(* Entry 0 is the busy bee, shown for what is not loaded.  The others are  *)
(* in a list that begins with the least recently used one, linked as the   *)
(* macros of pipe/dlist.h do it; 0 is the null pointer.  An entry is       *)
(* handed to another image without a look at who had it.  If the memory    *)
(* is used up all indices are reset, and a cache of twice the size is made *)
(* in the same place when the frames submitted so far are done.            *)
(*                                                                         *)
(* A frame is counted from the last one submitted, which has age 0: the    *)
(* code's absolute numbers are compared with each other only.  The busy    *)
(* bee needs a few hundred bytes of the heap, which are not counted, and   *)
(* holes between blocks are in VkAlloc: an allocation fails if there is no *)
(* room, and now and then for fragmentation (counted in acts).             *)
(***************************************************************************)
EXTENDS Integers, Sequences, FiniteSets, FiniteSetsExt, Functions

CONSTANTS Count,      \* collection_cnt
          Size,       \* memory each thumbnail needs
          Broken,     \* images that never get a bc1 file
          ThumbMax,   \* thumb_max at first
          HeapSize,   \* heap_size at first
          Iv,         \* images loaded per frame, 20
          Rows,       \* images in the window, more than Iv if it is large
          Frames,     \* DT_GUI_MAX_FRAMES_IN_FLIGHT
          MaxActs,    \* bound of scrolls, resizes, edits and failures
          None        \* no image, no frame

Images == 0 .. Count - 1
Null   == 0

\* 21 entries are the least main allocates: a list of one entry cannot be turned.
ASSUME ThumbCacheAssumption ==
  /\ Count \in Nat \ {0} /\ Size \in [Images -> Nat \ {0}] /\ Broken \subseteq Images
  /\ ThumbMax \in Nat /\ ThumbMax >= 3 /\ HeapSize \in Nat \ {0}
  /\ Iv \in Nat \ {0} /\ Rows \in 1 .. Count
  /\ Frames \in Nat \ {0} /\ MaxActs \in Nat
  /\ None \notin Int

VARIABLES disk,                   \* images with a bc1 file
          tid,                    \* db->image[].thumbnail
          thumb_max, heap_size,
          image, mem,             \* per entry: the image it shows, its memory
          link, lru, mru,         \* the list
          cacheline, k,           \* where loading begins, and where it is
          triggered_rebuild,      \* age of the frame to wait for
          sem_frame,              \* per slot, next one first: age of the last frame done
          inflight,               \* frames submitted and not done
          pc, top, acts,          \* the interface: step, first image in view
          rank,                   \* history: per entry, 1 + entries used less recently
          takes, leftover         \* history: entries taken, indices kept by the last rebuild

diskVars  == <<disk, tid>>
cacheVars == <<thumb_max, heap_size, image, mem>>
lruVars   == <<link, lru, mru, rank>>
listVars  == <<cacheline, k>>
frameVars == <<sem_frame, inflight>>
ghostVars == <<takes, leftover>>
vars == <<diskVars, cacheVars, lruVars, listVars, triggered_rebuild, frameVars,
          pc, top, acts, ghostVars>>

Entries(n) == 0 .. n - 1
Listed(n)  == 1 .. n - 1      \* not the busy bee
Visible    == top .. top + Rows - 1

TypeOK ==
  /\ disk \subseteq Images \ Broken
  /\ thumb_max \in Nat /\ thumb_max >= 3 /\ heap_size \in Nat
  /\ tid \in [Images -> Entries(thumb_max)]
  /\ image \in [Entries(thumb_max) -> Images \cup {None}]
  /\ mem \in [Entries(thumb_max) -> Nat]
  /\ link \in [{"prev", "next"} -> [Entries(thumb_max) -> Entries(thumb_max)]]
  /\ lru \in Listed(thumb_max) /\ mru \in Listed(thumb_max)
  /\ rank \in [Listed(thumb_max) -> Listed(thumb_max)]
  /\ cacheline \in 0 .. Count /\ k \in 0 .. Count
  /\ triggered_rebuild \in Nat \cup {None}
  /\ sem_frame \in [1 .. Frames -> Nat \cup {None}] /\ inflight \in 0 .. Frames
  /\ pc \in {"check", "load", "draw", "asleep"} /\ top \in 0 .. Count - Rows
  /\ acts \in 0 .. MaxActs /\ takes \in 0 .. thumb_max /\ leftover \in BOOLEAN
-----------------------------------------------------------------------------
(***************************************************************************)
(* The list                                                                *)
(***************************************************************************)
\* if(E) E->.. = v
Assign(f, e, v) == IF e = Null THEN f ELSE [f EXCEPT ![e] = v]

\* Mutant: the element behind keeps its link to the one taken out.
DLIST_RM_ELEMENT_OneWay(l, e) ==
  [prev |-> [l.prev EXCEPT ![e] = Null],
   next |-> [Assign(l.next, l.prev[e], l.next[e]) EXCEPT ![e] = Null]]

DLIST_RM_ELEMENT(l, e) ==
  [prev |-> [Assign(l.prev, l.next[e], l.prev[e]) EXCEPT ![e] = Null],
   next |-> [Assign(l.next, l.prev[e], l.next[e]) EXCEPT ![e] = Null]]

DLIST_APPEND(l, at, e) ==
  LET behind == IF at = Null THEN Null ELSE l.next[at]
  IN [prev |-> Assign([l.prev EXCEPT ![e] = at], behind, e),
      next |-> Assign([l.next EXCEPT ![e] = behind], at, e)]

\* Take th out wherever it is, append it to the end.
ToEnd(l, th) ==
  /\ link' = DLIST_APPEND(DLIST_RM_ELEMENT(l, th), IF mru = th THEN l.prev[th] ELSE mru, th)
  /\ mru' = th
  /\ rank' = [t \in Listed(thumb_max) |->
               IF t = th THEN thumb_max - 1
               ELSE IF rank[t] > rank[th] THEN rank[t] - 1 ELSE rank[t]]

\* The links dt_thumbnails_init makes
Chain(n) == [prev |-> [t \in Entries(n) |-> IF t = 0 THEN Null ELSE t - 1],
             next |-> [t \in Entries(n) |-> IF t \in {0, n - 1} THEN Null ELSE t + 1]]

\* What an empty cache of n entries shows, and the memory it has given out
Nothing(n) == [t \in Entries(n) |-> None]
Unused(n)  == [t \in Entries(n) |-> 0]

\* The lighttable is entered: a frame of another view is the last one submitted.
Init ==
  /\ disk \in SUBSET (Images \ Broken)
  /\ tid = [i \in Images |-> 0]
  /\ thumb_max = ThumbMax /\ heap_size = HeapSize
  /\ image = Nothing(ThumbMax) /\ mem = Unused(ThumbMax)
  /\ link = Chain(ThumbMax) /\ lru = 1 /\ mru = ThumbMax - 1
  /\ rank = [t \in Listed(ThumbMax) |-> t]
  /\ cacheline = 0 /\ k = 0 /\ triggered_rebuild = None
  /\ sem_frame = [s \in 1 .. Frames |-> None] /\ inflight = 1
  /\ pc = "check" /\ top = 0 /\ acts = 0
  /\ takes = 0 /\ leftover = FALSE
-----------------------------------------------------------------------------
(***************************************************************************)
(* Begin of a frame: is it time for a larger cache?                        *)
(***************************************************************************)
\* Mutant: a semaphore that has not been signalled yet does not count.
FramesThrough_SkipNew ==
  \A s \in 1 .. Frames : sem_frame[s] = None \/ sem_frame[s] <= triggered_rebuild

\* vmin >= triggered_rebuild: the smallest of the values is the greatest age.
FramesThrough ==
  \A s \in 1 .. Frames : sem_frame[s] # None /\ sem_frame[s] <= triggered_rebuild

\* Mutant: the new cache is as small as the old one.
Rebuild_SameSize ==
  /\ UNCHANGED <<thumb_max, heap_size>>
  /\ image' = Nothing(thumb_max) /\ mem' = Unused(thumb_max)
  /\ link' = Chain(thumb_max) /\ lru' = 1 /\ mru' = thumb_max - 1
  /\ rank' = [t \in Listed(thumb_max) |-> t]
  /\ triggered_rebuild' = None
  /\ takes' = 0
  /\ leftover' = \E i \in Images : tid[i] # 0

\* dt_thumbnails_cleanup and dt_thumbnails_init with twice the size
Rebuild ==
  /\ thumb_max' = 2 * thumb_max /\ heap_size' = 2 * heap_size
  /\ image' = Nothing(thumb_max') /\ mem' = Unused(thumb_max')
  /\ link' = Chain(thumb_max') /\ lru' = 1 /\ mru' = thumb_max' - 1
  /\ rank' = [t \in Listed(thumb_max') |-> t]
  /\ triggered_rebuild' = None
  /\ takes' = 0
  /\ leftover' = \E i \in Images : tid[i] # 0

Check ==
  /\ pc = "check"
  /\ IF triggered_rebuild # None /\ FramesThrough
     THEN Rebuild
     ELSE UNCHANGED <<cacheVars, lruVars, triggered_rebuild, ghostVars>>
  /\ k' = cacheline
  /\ pc' = "load"
  /\ UNCHANGED <<diskVars, cacheline, frameVars, top, acts>>

(***************************************************************************)
(* dt_thumbnails_load_list, one image at a time                            *)
(***************************************************************************)
ListEnd == IF cacheline + Iv < Count THEN cacheline + Iv ELSE Count

\* After the list, whatever it returned
EndList ==
  /\ cacheline' = IF cacheline + Iv > Count THEN 0 ELSE cacheline + Iv
  /\ pc' = "draw"

LoadOf(i) == pc = "load" /\ k < ListEnd /\ i = k

\* Not there yet: stat fails in dt_thumbnails_load_one.
Missing(i) ==
  /\ LoadOf(i)
  /\ tid[i] = 0 /\ i \notin disk
  /\ k' = k + 1
  /\ UNCHANGED <<diskVars, cacheVars, lruVars, cacheline, triggered_rebuild, frameVars,
                 pc, top, acts, ghostVars>>

\* Loaded: its entry is the most recently used one now.
Touch(i) ==
  /\ LoadOf(i)
  /\ tid[i] # 0 /\ tid[i] < thumb_max
  /\ LET th   == tid[i]
         head == IF th = lru THEN link.next[lru] ELSE lru
     IN /\ lru' = head
        /\ ToEnd([link EXCEPT !.prev[head] = Null], th)
  /\ k' = k + 1
  /\ UNCHANGED <<diskVars, cacheVars, cacheline, triggered_rebuild, frameVars,
                 pc, top, acts, ghostVars>>

\* Mutant: the entry goes to the end, the head stays with it.
Take_KeepsHead(what, units) ==
  /\ lru' = lru
  /\ ToEnd(link, lru)
  /\ image' = [image EXCEPT ![lru] = what]
  /\ mem' = [mem EXCEPT ![lru] = units]
  /\ takes' = IF takes < thumb_max THEN takes + 1 ELSE takes
  /\ UNCHANGED <<thumb_max, heap_size, leftover>>

\* dt_thumbnails_load_one allocates the entry and throws out what was there:
\* in the end it shows what with memory units.
Take(what, units) ==
  /\ lru' = link.next[lru]
  /\ ToEnd(link, lru)
  /\ image' = [image EXCEPT ![lru] = what]
  /\ mem' = [mem EXCEPT ![lru] = units]
  /\ takes' = IF takes < thumb_max THEN takes + 1 ELSE takes
  /\ UNCHANGED <<thumb_max, heap_size, leftover>>

Used == FoldFunctionOnSet(+, 0, mem, DOMAIN mem \ {lru})
Room(i) == Used + Size[i] <= heap_size

Load(i) ==
  /\ LoadOf(i)
  /\ tid[i] = 0 /\ i \in disk /\ Room(i)
  /\ Take(i, Size[i])
  /\ tid' = [tid EXCEPT ![i] = lru]
  /\ k' = k + 1
  /\ UNCHANGED <<disk, cacheline, triggered_rebuild, frameVars, pc, top, acts>>

\* A run of the graph fails, or Vulkan does, before or after the allocation:
\* the list goes on, the entry is lost until it is the last recently used one.
LoadFails(i) ==
  /\ LoadOf(i)
  /\ tid[i] = 0 /\ i \in disk
  /\ acts < MaxActs /\ acts' = acts + 1
  /\ \E units \in {0} \cup {n \in {Size[i]} : Room(i)} : Take(None, units)
  /\ k' = k + 1
  /\ UNCHANGED <<diskVars, cacheline, triggered_rebuild, frameVars, pc, top>>

\* dt_vkalloc finds nothing: all indices are reset, the rest of the list is left.
OutOfMemory(i) ==
  /\ LoadOf(i)
  /\ tid[i] = 0 /\ i \in disk
  /\ \/ ~Room(i) /\ acts' = acts
     \/ Room(i) /\ Used > 0 /\ acts < MaxActs /\ acts' = acts + 1
  /\ Take(None, 0)
  /\ tid' = [j \in Images |-> 0]
  /\ triggered_rebuild' = IF triggered_rebuild = None THEN 0 ELSE triggered_rebuild
  /\ EndList
  /\ UNCHANGED <<disk, k, frameVars, top>>

ListDone ==
  /\ pc = "load" /\ k >= ListEnd
  /\ EndList
  /\ UNCHANGED <<diskVars, cacheVars, lruVars, k, triggered_rebuild, frameVars, top, acts,
                 ghostVars>>

(***************************************************************************)
(* The images are drawn, and the frame is submitted                        *)
(***************************************************************************)
\* The first image in view that is not loaded is next in line; image 0 does
\* not count as found (force_local_cacheline is still 0) and the search goes on.
NextLine ==
  LET missing == {i \in Visible : tid[i] = 0}
  IN IF missing = {} THEN cacheline
     ELSE IF missing = {0} THEN 0
     ELSE Min(missing \ {0})

Older(age) == IF age = None THEN None ELSE age + 1

\* dt_gui_win_render: wait for the fence of the slot, submit to it.  Then the
\* next round follows or, when `busy` is counted down, the loop sleeps in
\* glfwWaitEvents.
Draw ==
  /\ pc = "draw"
  /\ inflight < Frames
  /\ cacheline' = NextLine
  /\ inflight' = inflight + 1
  /\ sem_frame' = [s \in 1 .. Frames |-> Older(sem_frame[IF s = Frames THEN 1 ELSE s + 1])]
  /\ triggered_rebuild' = Older(triggered_rebuild)
  /\ pc' \in {"check", "asleep"}
  /\ k' = 0
  /\ UNCHANGED <<diskVars, cacheVars, lruVars, top, acts, ghostVars>>

\* The user does something.
Wake ==
  /\ pc = "asleep"
  /\ pc' = "check"
  /\ UNCHANGED <<diskVars, cacheVars, lruVars, listVars, triggered_rebuild, frameVars, top,
                 acts, ghostVars>>

\* The GPU finishes frames in order.
FrameDone ==
  /\ inflight > 0
  /\ sem_frame' = [sem_frame EXCEPT ![Frames - inflight + 1] = inflight - 1]
  /\ inflight' = inflight - 1
  /\ UNCHANGED <<diskVars, cacheVars, lruVars, listVars, triggered_rebuild, pc, top, acts,
                 ghostVars>>

(***************************************************************************)
(* What else happens                                                       *)
(***************************************************************************)
\* dt_gui_recreate_swapchain waits for the queue and makes new semaphores.
Resize ==
  /\ pc = "check" /\ acts < MaxActs /\ acts' = acts + 1
  /\ inflight' = 0
  /\ sem_frame' = [s \in 1 .. Frames |-> None]
  /\ UNCHANGED <<diskVars, cacheVars, lruVars, listVars, triggered_rebuild, pc, top, ghostVars>>

Scroll ==
  /\ pc = "check" /\ acts < MaxActs /\ acts' = acts + 1
  /\ top' \in (0 .. Count - Rows) \ {top}
  /\ UNCHANGED <<diskVars, cacheVars, lruVars, listVars, triggered_rebuild, frameVars, pc,
                 ghostVars>>

\* A job has written the file of i, for the first time or after an edit, and
\* wakes the interface (glfwPostEmptyEvent).
Render(i) ==
  /\ i \notin Broken
  /\ IF i \in disk THEN acts < MaxActs /\ acts' = acts + 1 ELSE acts' = acts
  /\ disk' = disk \cup {i}
  /\ tid' = [tid EXCEPT ![i] = 0]
  /\ pc' = IF pc = "asleep" THEN "check" ELSE pc
  /\ UNCHANGED <<cacheVars, lruVars, listVars, triggered_rebuild, frameVars, top, ghostVars>>
-----------------------------------------------------------------------------
LoadList == ListDone \/ \E i \in Images : Missing(i) \/ Touch(i) \/ Load(i) \/ OutOfMemory(i)

Next ==
  \/ Check \/ LoadList \/ Draw \/ FrameDone
  \/ Wake \/ Resize \/ Scroll
  \/ \E i \in Images : LoadFails(i) \/ Render(i)

(***************************************************************************)
(* A round that has begun goes on, the GPU finishes what it was given, and *)
(* the jobs write a file for every image that can be rendered.  Nothing is *)
(* assumed of the user: once asleep, the loop may stay asleep.             *)
(***************************************************************************)
Fairness ==
  /\ WF_vars(Check \/ LoadList \/ Draw)
  /\ WF_vars(FrameDone)
  /\ \A i \in Images : WF_vars(i \notin disk /\ Render(i))

Spec     == Init /\ [][Next]_vars
FairSpec == Spec /\ Fairness
-----------------------------------------------------------------------------
(* debug_test_list (thumbnails.c:21-40) asks that the links lead from lru  *)
(* through all entries to mru, and back.  They do, and in the order of     *)
(* use, whatever was loaded, used again, lost or thrown out.               *)
LruChain ==
  /\ rank[lru] = 1 /\ rank[mru] = thumb_max - 1
  /\ \A t \in Listed(thumb_max) :
       /\ IF rank[t] = 1 THEN link.prev[t] = Null
          ELSE link.prev[t] # Null /\ rank[link.prev[t]] = rank[t] - 1
       /\ IF rank[t] = thumb_max - 1 THEN link.next[t] = Null
          ELSE link.next[t] # Null /\ rank[link.next[t]] = rank[t] + 1

(* Every index leads to the image it was set for, as long as entries need  *)
(* not be reused: if there were not more loads than entries since the      *)
(* cache was made, and the last rebuild left no index behind, none is      *)
(* taken from an image that has it.  What load_list does in between (used  *)
(* again, failed, reset, out of memory, rendered again) does not matter.   *)
ShowsOwn ==
  takes < thumb_max /\ ~leftover =>
    \A i \in Images : tid[i] # 0 => image[tid[i]] = i

(* The resources are only destroyed when the frames submitted before the   *)
(* cache was found too small are through (render_lighttable.c:311-313):    *)
(* what is in flight then was submitted later.  The semaphores the test    *)
(* reads are replaced when the window is resized, in between as well.      *)
RebuildWaits == [][thumb_max' # thumb_max => inflight <= triggered_rebuild]_vars

(* The loop does not sleep for good: input keeps coming.                   *)
KeepsWaking == []<>(pc # "asleep")

(* The list begins at the first image in view that is missing.  One that   *)
(* never gets a file holds it there for good: image 0, which does not      *)
(* count, and what is more than a list behind are not loaded then.         *)
Reached(i) == \A b \in (Visible \cap Broken) \ {0} : i # 0 /\ i < b + Iv

(* When the user has done what he does and the loop is woken again and     *)
(* again, every image in view that can be rendered and reached has a       *)
(* thumbnail, and keeps it: the list begins where one is missing, it goes  *)
(* round, also if it is shorter than the window, and the cache grows until *)
(* all fit.                                                                *)
AllLoaded ==
  KeepsWaking => <>[](\A i \in Visible \ Broken : Reached(i) => tid[i] # 0)

(* What the comments promise, and the code does not do.                    *)
(* "wait ... until the command buffer is through with the resources":      *)
RebuildIdle == [][thumb_max' # thumb_max => inflight = 0]_vars
(* "reset all the thumbnail references to zero, so they will not be picked *)
(* up by further command buffer dispatches":                               *)
NoLeftover == ~leftover
(* "precache round robin": image 0 is loaded, whatever the others are,     *)
NoneWaits == KeepsWaking => <>[](0 \in Visible \ Broken => tid[0] # 0)
(* and so is the last one in the window:                                   *)
NoneBehind ==
  KeepsWaking => <>[](LET last == top + Rows - 1 IN last \notin Broken => tid[last] # 0)
(* "the correspondence to imgid is done in the dt_image_t struct":         *)
Corresponds == \A i \in Images : tid[i] # 0 => image[tid[i]] = i
=============================================================================
