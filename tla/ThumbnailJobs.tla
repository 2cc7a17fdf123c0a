--------------------------- MODULE ThumbnailJobs ---------------------------
(***************************************************************************)
(* Thumbnails on disk: db/thumbnails.c renders the images of the database  *)
(* to bc1 files in the background while the interface edits them, loads    *)
(* what is there and may go to another directory.                          *)
(*                                                                         *)
(* A list of images is cached by two jobs of the worker pool that share    *)
(* its items (dt_thumbnails_cache_list); job number gid works with the     *)
(* graph gid, under its lock, whatever list it belongs to.  The pool is    *)
(* taken at its word here: it gives every item to one job, and calls free  *)
(* when all items of the list are done (see JobPool and Threads, also for  *)
(* when it does not).                                                      *)
(*                                                                         *)
(* What the code does not get right is recorded, not hidden, in history    *)
(* variables: raced are the photos whose file may be old, or lost, since   *)
(* an edit or another writer came while they were rendered, or the write   *)
(* when leaving the darkroom did not happen; missed are those whose        *)
(* thumbnail in memory was not the one a worker reset; broken are those    *)
(* that could not be rendered; uncached are those for which nothing was    *)
(* started since they were edited, or since the last abort: the pool had   *)
(* no slot left, or the code does not ask for it.  The filter of the       *)
(* collection is left open, and so is which view the interface shows.      *)
(***************************************************************************)
EXTENDS Naturals, Sequences, FiniteSets, SequencesExt

CONSTANTS Workers,      \* threads of the pool
          Photos,       \* cfg files, in any directory
          Directories,  \* what opening one may find: sequences of photos
          MaxImages,    \* bound of the images in a directory
          MaxLists,     \* bound of the lists cached at a time
          MaxVersion,   \* bound of the edits of a photo
          MaxActs,      \* bound of what the user does
          Writable,     \* photos whose cfg file can be opened for writing
          Fragile,      \* photos that may fail to be rendered
          None, Bomb    \* no file or lock; the thumbnail of a broken image

Gui == "gui"

\* No two images of a directory have the same file.
ASSUME ThumbnailJobsAssumption ==
  /\ Directories \subseteq Seq(Photos) \ {<<>>}
  /\ \A d \in Directories : Len(d) <= MaxImages /\ IsInjective(d)
  /\ Fragile \subseteq Photos /\ Writable \subseteq Photos
  /\ MaxImages \in Nat /\ MaxLists \in Nat \ {0} /\ MaxVersion \in Nat /\ MaxActs \in Nat
  /\ None \notin Nat /\ Bomb \notin Nat /\ None # Bomb
  /\ IsFiniteSet(Workers) /\ Gui \notin Workers /\ None \notin Workers \cup {Gui}

Gids  == {0, 1}               \* DT_THUMBNAILS_THREADS
Lists == 1 .. MaxLists
Ids   == 1 .. MaxImages

VARIABLES image, image_cnt,   \* db->image: entries beyond the count stay as they were
          thumbnail,          \* db->image[].thumbnail: what was loaded for it
          dbgen, dbup,        \* history: how often db was replaced, whether it is there
          job_timestamp,
          graph_lock,
          posting,            \* the list whose tasks are being posted
          stamp, gen, coll,   \* per list: its time stamp, its db, the ids
          work_item, done,    \* per list: the pool's counters
          freed,              \* per list: its collection was freed
          avail,              \* jobs no worker took yet
          pc, job, gid, item, photo, rendered,  \* per worker
          cfg,                \* per photo: version of the cfg file
          bc1,                \* per photo: version the bc1 file shows
          current,            \* per photo: bc1, if there, is not older than cfg (in seconds)
          gpc, acts, gnext, gid_loaded, loaded, \* the interface thread
          raced, missed, broken, uncached  \* history, see above

dbVars     == <<image, image_cnt, thumbnail, dbgen, dbup>>
listVars   == <<posting, stamp, gen, coll>>
poolVars   == <<work_item, done, freed, avail>>
workerVars == <<pc, job, gid, item, photo, rendered>>
fileVars   == <<cfg, bc1, current>>
guiVars    == <<gpc, gnext, gid_loaded, loaded>>
ghostVars  == <<raced, missed, broken, uncached>>
vars == <<dbVars, job_timestamp, graph_lock, listVars, poolVars, workerVars, fileVars,
          guiVars, acts, ghostVars>>

\* A worker holds the lock of its graph, having compared the time stamps.
Using == {"stat", "render", "write", "reset"}

Version == 0 .. MaxVersion
Shown   == Version \cup {None, Bomb}

TypeOK ==
  /\ image \in [Ids -> Photos \cup {None}]
  /\ image_cnt \in 0 .. MaxImages
  /\ thumbnail \in [Ids -> Shown]
  /\ dbgen \in Nat /\ dbup \in BOOLEAN
  /\ job_timestamp \in Nat
  /\ graph_lock \in [Gids -> Workers \cup {Gui, None}]
  /\ posting \in Lists
  /\ stamp \in [Lists -> Nat] /\ gen \in [Lists -> Nat]
  /\ coll \in [Lists -> Seq(Ids)]
  /\ work_item \in [Lists -> Nat] /\ done \in [Lists -> Nat]
  /\ freed \in [Lists -> BOOLEAN]
  /\ avail \subseteq Lists \X Gids
  /\ pc \in [Workers -> {"idle", "lock", "free"} \cup Using]
  /\ job \in [Workers -> Lists] /\ gid \in [Workers -> Gids] /\ item \in [Workers -> 0 .. MaxImages]
  /\ \A w \in Workers : item[w] <= Len(coll[job[w]])
  /\ photo \in [Workers -> Photos \cup {None}] /\ rendered \in [Workers -> Version]
  /\ cfg \in [Photos -> Version]
  /\ bc1 \in [Photos -> Shown]
  /\ current \in [Photos -> BOOLEAN]
  /\ gpc \in {"idle", "help", "load", "leave", "lock", "unlock", "cleanup", "open", "post"}
  /\ acts \in 0 .. MaxActs /\ gnext \in Gids /\ gid_loaded \in Ids /\ loaded \in Shown
  /\ raced \subseteq Photos /\ missed \subseteq Photos /\ broken \subseteq Photos
  /\ uncached \subseteq Photos

Opened(d) ==
  /\ image' = [i \in Ids |-> IF i <= Len(d) THEN d[i] ELSE None]
  /\ image_cnt' = Len(d)
  /\ thumbnail' = [i \in Ids |-> None]

\* main: the database is loaded, its thumbnails are about to be cached.
Init ==
  /\ \E d \in Directories :
       /\ image = [i \in Ids |-> IF i <= Len(d) THEN d[i] ELSE None]
       /\ image_cnt = Len(d)
  /\ thumbnail = [i \in Ids |-> None]
  /\ dbgen = 0 /\ dbup = TRUE
  /\ job_timestamp = 0
  /\ graph_lock = [g \in Gids |-> None]
  /\ posting = 1
  /\ stamp = [l \in Lists |-> 0] /\ gen = [l \in Lists |-> 0]
  /\ coll = [l \in Lists |-> <<>>]
  /\ work_item = [l \in Lists |-> 0] /\ done = [l \in Lists |-> 0]
  /\ freed = [l \in Lists |-> FALSE]
  /\ avail = {}
  /\ pc = [w \in Workers |-> "idle"]
  /\ job = [w \in Workers |-> 1] /\ gid = [w \in Workers |-> 0]
  /\ item = [w \in Workers |-> 0] /\ photo = [w \in Workers |-> None]
  /\ rendered = [w \in Workers |-> 0]
  /\ cfg = [p \in Photos |-> 0]
  /\ bc1 = [p \in Photos |-> None]
  /\ current = [p \in Photos |-> FALSE]
  /\ gpc = "post" /\ acts = 0 /\ gnext = 0 /\ gid_loaded = 1 /\ loaded = None
  /\ raced = {} /\ missed = {} /\ broken = {} /\ uncached = Photos
-----------------------------------------------------------------------------
(***************************************************************************)
(* The pool, from outside                                                  *)
(***************************************************************************)
Goto(w, l) == pc' = [pc EXCEPT ![w] = l]

Left(l) == work_item[l] < Len(coll[l])

\* The worker picks the next item of list l, or there is none.
NextItem(w, l) ==
  /\ work_item' = [work_item EXCEPT ![l] = @ + 1]
  /\ IF Left(l)
       THEN Goto(w, "lock") /\ item' = [item EXCEPT ![w] = work_item[l] + 1]
       ELSE Goto(w, "free") /\ item' = [item EXCEPT ![w] = 0]

Take(w) ==
  /\ pc[w] = "idle"
  /\ \E t \in avail :
       /\ avail' = avail \ {t}
       /\ job' = [job EXCEPT ![w] = t[1]]
       /\ gid' = [gid EXCEPT ![w] = t[2]]
       /\ NextItem(w, t[1])
  /\ UNCHANGED <<dbVars, job_timestamp, graph_lock, listVars, done, freed,
                 photo, rendered, fileVars, guiVars, ghostVars>>

\* Mutant: the collection is freed when all items were picked.
AllDone_Picked(l) == work_item[l] >= Len(coll[l])
AllDone(l) == done[l] >= Len(coll[l])

\* Who else works, or will work, on list l?
Helpers(l) == {t \in avail : t[1] = l} \cup {w \in Workers : pc[w] # "idle" /\ job[w] = l}
              \cup (IF gpc = "help" /\ posting = l THEN {Gui} ELSE {})

\* A list nobody works on any more is forgotten.
ForgetList(l) ==
  /\ stamp' = [stamp EXCEPT ![l] = 0] /\ gen' = [gen EXCEPT ![l] = 0]
  /\ coll' = [coll EXCEPT ![l] = <<>>]
  /\ work_item' = [work_item EXCEPT ![l] = 0] /\ done' = [done EXCEPT ![l] = 0]
  /\ freed' = [freed EXCEPT ![l] = FALSE]

\* thread_free_coll, called when all is done: job 0 frees what they share.
FreeColl(w) ==
  LET l == job[w]
  IN /\ pc[w] = "free"
     /\ AllDone(l)
     /\ IF Helpers(l) = {w} THEN ForgetList(l)
        ELSE /\ freed' = [freed EXCEPT ![l] = @ \/ gid[w] = 0]
             /\ UNCHANGED <<stamp, gen, coll, work_item, done>>
     /\ Goto(w, "idle")
     /\ job' = [job EXCEPT ![w] = 1] /\ gid' = [gid EXCEPT ![w] = 0]
     /\ UNCHANGED <<dbVars, job_timestamp, graph_lock, posting, avail,
                    item, photo, rendered, fileVars, guiVars, ghostVars>>
-----------------------------------------------------------------------------
(***************************************************************************)
(* thread_work_coll, with dt_thumbnails_cache_one inside                   *)
(***************************************************************************)
Id(w) == coll[job[w]][item[w]]
CountDone(w) == done' = [done EXCEPT ![job[w]] = @ + 1]

\* Once it has the lock the worker compares the time stamps.  The photo is
\* known by its file name from here on (dt_db_image_path).
Lock(w) ==
  /\ pc[w] = "lock"
  /\ graph_lock[gid[w]] = None
  /\ stamp[job[w]] = job_timestamp
  /\ graph_lock' = [graph_lock EXCEPT ![gid[w]] = w]
  /\ photo' = [photo EXCEPT ![w] = image[Id(w)]]
  /\ Goto(w, "stat")
  /\ UNCHANGED <<dbVars, job_timestamp, listVars, poolVars, job, gid, item, rendered,
                 fileVars, guiVars, ghostVars>>

\* Mutant: the lock is not given back.
Released_Kept(w) == [graph_lock EXCEPT ![gid[w]] = w]
Released(w) == [graph_lock EXCEPT ![gid[w]] = None]

\* A list of before the last abort is skipped item by item.
Stale(w) ==
  /\ pc[w] = "lock"
  /\ graph_lock[gid[w]] = None
  /\ stamp[job[w]] # job_timestamp
  /\ graph_lock' = Released(w)
  /\ CountDone(w)
  /\ NextItem(w, job[w])
  /\ UNCHANGED <<dbVars, job_timestamp, listVars, freed, avail, job, gid, photo, rendered,
                 fileVars, guiVars, ghostVars>>

\* Mutant: any bc1 file will do.
UpToDate_Exists(p) == bc1[p] # None
\* There is one, and its time stamp is compared with that of the cfg file.
UpToDate(p) == bc1[p] # None /\ current[p]

\* Without a cfg file or a default in its place, nothing is rendered at all.
Stat(w) ==
  /\ pc[w] = "stat"
  /\ \/ /\ Goto(w, IF UpToDate(photo[w]) THEN "reset" ELSE "render")
        /\ UNCHANGED broken
     \/ /\ photo[w] \in Fragile
        /\ Goto(w, "reset")
        /\ broken' = broken \cup {photo[w]}
  /\ UNCHANGED <<dbVars, job_timestamp, graph_lock, listVars, poolVars, job, gid, item, photo,
                 rendered, fileVars, guiVars, raced, missed, uncached>>

Writers(p) == {w \in Workers : pc[w] = "write" /\ photo[w] = p}

\* dt_graph_export reads the cfg file ...
Render(w) ==
  LET p == photo[w]
  IN /\ pc[w] = "render"
     /\ rendered' = [rendered EXCEPT ![w] = cfg[p]]
     /\ raced' = IF Writers(p) = {} THEN raced ELSE raced \cup {p}
     /\ Goto(w, "write")
     /\ UNCHANGED <<dbVars, job_timestamp, graph_lock, listVars, poolVars, job, gid, item, photo,
                    fileVars, guiVars, missed, broken, uncached>>

\* ... and ends with the bc1 file.  Two writers of a photo at a time (it is
\* raced then) use the same temporary file: the second may find it gone after
\* having unlinked what the first wrote.  When the graph fails, a link to an
\* old file takes the place of a file that is not there.
Write(w) ==
  LET p == photo[w]
  IN /\ pc[w] = "write"
     /\ \/ /\ bc1' = [bc1 EXCEPT ![p] = rendered[w]]
           /\ current' = [current EXCEPT ![p] = TRUE]
           /\ UNCHANGED broken
        \/ /\ p \in raced
           /\ bc1' = [bc1 EXCEPT ![p] = None]
           /\ UNCHANGED <<current, broken>>
        \/ /\ p \in Fragile
           /\ bc1' = [bc1 EXCEPT ![p] = IF @ = None THEN Bomb ELSE @]
           /\ \E c \in BOOLEAN :
                current' = [current EXCEPT ![p] = IF bc1[p] = None THEN c ELSE @]
           /\ broken' = broken \cup {p}
     /\ Goto(w, "reset")
     /\ UNCHANGED <<dbVars, job_timestamp, graph_lock, listVars, poolVars, job, gid, item, photo,
                    rendered, cfg, guiVars, raced, missed, uncached>>

\* Mutant: only what was not loaded is to be loaded.
Forget_Never(i) == UNCHANGED thumbnail
\* thumbnail = 0 triggers a reload.
Forget(i) == thumbnail' = [thumbnail EXCEPT ![i] = None]

\* The photo has another entry by now, or an old file is just being loaded.
Misses(w) ==
  \E i \in 1 .. image_cnt :
     /\ image[i] = photo[w]
     /\ i # Id(w) \/ (gpc = "load" /\ gid_loaded = i /\ loaded # bc1[photo[w]])

\* The end of an item: the thumbnail in memory is invalidated.
Reset(w) ==
  /\ pc[w] = "reset"
  /\ Forget(Id(w))
  /\ missed' = IF Misses(w) THEN missed \cup {photo[w]} ELSE missed
  /\ photo' = [photo EXCEPT ![w] = None] /\ rendered' = [rendered EXCEPT ![w] = 0]
  /\ graph_lock' = Released(w)
  /\ CountDone(w)
  /\ NextItem(w, job[w])
  /\ UNCHANGED <<image, image_cnt, dbgen, dbup, job_timestamp, listVars, freed, avail, job, gid,
                 fileVars, guiVars, raced, broken, uncached>>

WorkerStep(w) ==
  /\ UNCHANGED acts
  /\ \/ Take(w) \/ FreeColl(w)
     \/ Lock(w) \/ Stale(w) \/ Stat(w) \/ Render(w) \/ Write(w) \/ Reset(w)
-----------------------------------------------------------------------------
(***************************************************************************)
(* The interface thread                                                    *)
(***************************************************************************)
Selections == SUBSET (1 .. image_cnt) \ {{}}

PhotosOf(sel) == {image[i] : i \in sel}

\* What dt_thumbnails_cache_list leaves alone
restVars == <<image, image_cnt, dbgen, dbup, job_timestamp, graph_lock, work_item, done, freed,
              workerVars, gnext, gid_loaded, loaded>>

\* dt_thumbnails_cache_list: the first task ...
AddJob(sel) ==
  /\ \E l \in Lists :
       /\ Helpers(l) = {}
       /\ \A k \in 1 .. l - 1 : Helpers(k) # {}
       /\ posting' = l
       /\ stamp' = [stamp EXCEPT ![l] = job_timestamp]
       /\ gen' = [gen EXCEPT ![l] = dbgen]
       /\ coll' = [coll EXCEPT ![l] = SetToSeq(sel)]
       /\ avail' = avail \cup {<<l, 0>>}
  /\ gpc' = "help"
  /\ uncached' = uncached \ PhotosOf(sel)
  /\ UNCHANGED restVars

\* ... and nothing, though some photos were edited.
NotCached(edited) ==
  /\ gpc' = "idle"
  /\ uncached' = uncached \cup edited
  /\ UNCHANGED <<listVars, avail, restVars>>

\* The first task is refused when the pool has no slot left, which is any time
\* since the slots are shared with other jobs.  No caller looks at the result.
CacheList(sel, edited) == AddJob(sel) \/ NotCached(edited)

\* The second task is refused, too, when all items were picked meanwhile.
Help ==
  LET open == Left(posting)
  IN /\ gpc = "help"
     /\ gpc' = "idle" /\ posting' = 1
     /\ \/ open /\ avail' = avail \cup {<<posting, 1>>}
        \/ UNCHANGED avail
     /\ IF ~open /\ Helpers(posting) = {Gui} THEN ForgetList(posting)
        ELSE UNCHANGED <<stamp, gen, coll, work_item, done, freed>>
     /\ UNCHANGED <<dbVars, job_timestamp, graph_lock, workerVars, fileVars,
                    gnext, gid_loaded, loaded, ghostVars>>

\* The collection of a database just opened, or after its filter was changed:
\* what the filter lets through.  Of no images there is nothing to do.
CacheCollection ==
  /\ (\E sel \in Selections : CacheList(sel, {})) \/ NotCached({})
  /\ UNCHANGED <<thumbnail, fileVars, raced, missed, broken>>

\* The cfg files of those ps that can be opened are written.  Where that is in
\* the second in which the bc1 file was written, the file still counts as
\* current (set still).
Edited(ps, still) ==
  LET written == ps \cap Writable
  IN /\ \A p \in written : cfg[p] < MaxVersion
     /\ still \subseteq {p \in written : UpToDate(p)}
     /\ cfg' = [p \in Photos |-> IF p \in written THEN cfg[p] + 1 ELSE cfg[p]]
     /\ current' = [p \in Photos |-> current[p] /\ (p \in written => p \in still)]
     /\ raced' = raced \cup still \cup {p \in written : Writers(p) # {}}

\* dt_gui_paste_history: copies the cfg of an image to those selected, if not
\* itself, and caches them all; in the darkroom it is only read again.
PasteHistory ==
  /\ \E sel \in Selections, cid \in 1 .. image_cnt :
       LET ps == PhotosOf(sel \ {cid})
       IN /\ \E still \in SUBSET Photos : Edited(ps, still)
          /\ CacheList(sel, ps \cap Writable) \/ NotCached(ps \cap Writable)
  /\ UNCHANGED <<thumbnail, bc1, missed, broken>>

\* "reset history stack": the default cfg, and no bc1 file.
ResetHistory ==
  /\ \E sel \in Selections :
       /\ Edited(PhotosOf(sel), {})
       /\ bc1' = [p \in Photos |-> IF p \in PhotosOf(sel) THEN None ELSE bc1[p]]
       /\ CacheList(sel, PhotosOf(sel))
  /\ UNCHANGED <<thumbnail, missed, broken>>

\* darkroom_leave writes the cfg file of the image that was edited ...
WriteConfig ==
  /\ \E i \in 1 .. image_cnt :
       /\ image[i] \in Writable
       /\ \E still \in SUBSET Photos : Edited({image[i]}, still)
       /\ gid_loaded' = i
  /\ gpc' = "leave"
  /\ UNCHANGED <<dbVars, job_timestamp, graph_lock, listVars, poolVars, workerVars, bc1,
                 gnext, loaded, missed, broken, uncached>>

\* ... and dt_graph_display_write_thumbnail the bc1 file of what is displayed:
\* not always the last dispatch, and sometimes nothing is found.
WriteThumbnail ==
  LET p == image[gid_loaded]
  IN /\ gpc = "leave"
     /\ \/ \E v \in ({cfg[p], cfg[p] - 1} \cap Version)
                  \cup (IF Writers(p) = {} THEN {} ELSE {None}) :
             /\ bc1' = [bc1 EXCEPT ![p] = v]
             /\ current' = [current EXCEPT ![p] = TRUE]
             /\ thumbnail' = [thumbnail EXCEPT ![gid_loaded] = None]
             /\ IF v = cfg[p] /\ Writers(p) = {}
                  THEN raced' = raced \ {p} /\ uncached' = uncached \ {p}
                  ELSE raced' = raced \cup {p} /\ UNCHANGED uncached
        \/ /\ raced' = raced \cup {p}
           /\ UNCHANGED <<bc1, current, thumbnail, uncached>>
     /\ gpc' = "idle" /\ gid_loaded' = 1
     /\ UNCHANGED <<image, image_cnt, dbgen, dbup, job_timestamp, graph_lock, listVars, poolVars,
                    workerVars, cfg, gnext, loaded, missed, broken>>

\* dt_thumbnails_load_list: what is not loaded and has a file is read ...
Load ==
  /\ \E i \in 1 .. image_cnt :
       /\ thumbnail[i] = None /\ bc1[image[i]] # None
       /\ gid_loaded' = i
       /\ loaded' = bc1[image[i]]
  /\ gpc' = "load"
  /\ UNCHANGED <<dbVars, job_timestamp, graph_lock, listVars, poolVars, workerVars, fileVars,
                 gnext, ghostVars>>

\* ... and entered after the graph has run, if there was space for it:
\* VK_ERROR_OUT_OF_DATE_KHR invalidates all thumbnails.
Loaded ==
  /\ gpc = "load"
  /\ \/ thumbnail' = [thumbnail EXCEPT ![gid_loaded] = loaded]
     \/ UNCHANGED thumbnail
     \/ thumbnail' = [i \in Ids |-> IF i <= image_cnt THEN None ELSE thumbnail[i]]
  /\ gpc' = "idle" /\ gid_loaded' = 1 /\ loaded' = None
  /\ UNCHANGED <<image, image_cnt, dbgen, dbup, job_timestamp, graph_lock, listVars, poolVars,
                 workerVars, fileVars, gnext, ghostVars>>

\* dt_db_remove_selected_images, of one image: the last takes its place.
RemoveSelected ==
  /\ \E i \in 1 .. image_cnt :
       /\ image' = [image EXCEPT ![i] = image[image_cnt]]
       /\ thumbnail' = [thumbnail EXCEPT ![i] = thumbnail[image_cnt]]
  /\ image_cnt' = image_cnt - 1
  /\ UNCHANGED <<dbgen, dbup, job_timestamp, graph_lock, listVars, poolVars, workerVars, fileVars,
                 guiVars, ghostVars>>
-----------------------------------------------------------------------------
(***************************************************************************)
(* Another directory: recently_used_collections                            *)
(***************************************************************************)
\* Mutant: the time stamp stays.
NextStamp_Same == UNCHANGED job_timestamp
NextStamp == job_timestamp' = job_timestamp + 1

\* dt_thumbnails_cache_abort: no job that locks from here on will work ...
Abort ==
  /\ NextStamp
  /\ gpc' = "lock" /\ gnext' = 0
  /\ uncached' = Photos
  /\ UNCHANGED <<dbVars, graph_lock, listVars, poolVars, workerVars, fileVars,
                 gid_loaded, loaded, raced, missed, broken>>

\* ... those that work are waited for ...
AbortLock ==
  /\ gpc = "lock"
  /\ graph_lock[gnext] = None
  /\ graph_lock' = [graph_lock EXCEPT ![gnext] = Gui]
  /\ IF gnext = 0 THEN gnext' = 1 /\ UNCHANGED gpc
                  ELSE gnext' = 0 /\ gpc' = "unlock"
  /\ UNCHANGED <<dbVars, job_timestamp, listVars, poolVars, workerVars, fileVars,
                 gid_loaded, loaded, ghostVars>>

AbortUnlock ==
  /\ gpc = "unlock"
  /\ graph_lock' = [g \in Gids |-> None]
  /\ gpc' = "cleanup"
  /\ UNCHANGED <<dbVars, job_timestamp, listVars, poolVars, workerVars, fileVars,
                 gnext, gid_loaded, loaded, ghostVars>>

\* ... dt_db_cleanup frees the database ...
DbCleanup ==
  /\ gpc = "cleanup"
  /\ dbup' = FALSE
  /\ gpc' = "open"
  /\ UNCHANGED <<image, image_cnt, thumbnail, dbgen, job_timestamp, graph_lock, listVars, poolVars,
                 workerVars, fileVars, gnext, gid_loaded, loaded, ghostVars>>

\* ... and dt_db_load_directory fills the next, which is cached only when a
\* filter comes with the name of the directory.
DbOpen ==
  /\ gpc = "open"
  /\ \E d \in Directories : Opened(d)
  /\ dbgen' = dbgen + 1 /\ dbup' = TRUE
  /\ gpc' \in {"post", "idle"}
  /\ UNCHANGED <<job_timestamp, graph_lock, listVars, poolVars, workerVars, fileVars,
                 gnext, gid_loaded, loaded, ghostVars>>

\* What the thread does by itself, and what the user makes it do
GuiStep ==
  /\ UNCHANGED acts
  /\ \/ Help \/ WriteThumbnail \/ Loaded
     \/ AbortLock \/ AbortUnlock \/ DbCleanup \/ DbOpen
     \/ gpc = "post" /\ CacheCollection

User ==
  /\ acts < MaxActs
  /\ acts' = acts + 1
  /\ gpc = "idle"
  /\ \/ CacheCollection \/ PasteHistory \/ ResetHistory \/ RemoveSelected
     \/ WriteConfig \/ Load \/ Abort

Next == GuiStep \/ User \/ \E w \in Workers : WorkerStep(w)

Spec == Init /\ [][Next]_vars
-----------------------------------------------------------------------------
(***************************************************************************)
(* Properties                                                              *)
(***************************************************************************)
\* A worker that looks up or changes images does so in the database its list
\* was made for, and not while that is freed (widget_recentcollect.h:23:
\* "this is essential since threads depend on db").
DbSafe == \A w \in Workers : pc[w] \in Using => dbup /\ gen[job[w]] = dbgen

\* The copy of the ids is there as long as a worker has an item of the list
\* (thumbnails.c:322-330: the job that frees it may be done first).
CollAlive == \A w \in Workers : pc[w] \in Using \cup {"lock"} => ~freed[job[w]]

Quiet == avail = {} /\ gpc = "idle" /\ \A w \in Workers : pc[w] = "idle"

\* However edits, lists that are cached or refused, aborts and what the user
\* does in between come together, except for the photos the history variables
\* name: a file that is taken for up to date shows the last edit; and when
\* nothing is left to do, so does the file of every image that was cached
\* since, while no image is shown in memory by another file than it has.
Fresh ==
  /\ \A p \in Photos \ (raced \cup broken) : UpToDate(p) => bc1[p] = cfg[p]
  /\ Quiet => \A i \in 1 .. image_cnt :
       LET p == image[i]
       IN p \notin raced \cup broken =>
            /\ p \notin uncached => bc1[p] = cfg[p]
            /\ bc1[p] # None /\ p \notin missed => thumbnail[i] \in {None, bc1[p]}

\* When dt_thumbnails_cache_abort has to wait, then for a worker that is busy
\* with an item, not for one that is done with it or was skipping a stale list
\* ("may have to wait for a thumbnail or two to finish rendering",
\* thumbnails.h:96): it never waits for itself or for a lock left behind.
AbortWaitsForRender ==
  gpc = "lock" =>
    \/ graph_lock[gnext] = None
    \/ \E w \in Workers : graph_lock[gnext] = w /\ gid[w] = gnext /\ pc[w] \in Using
=============================================================================
