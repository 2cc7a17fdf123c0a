------------------------ MODULE ThumbnailJobsProofs ------------------------
(****************************************************************************)
(* Theorems about ThumbnailJobs, for any photos, directories, workers and   *)
(* graphs.  The invariant is built up in four parts: Base (types, and what  *)
(* the images and lists are), Locks (who holds which lock), Counts (items   *)
(* handed out are done or with a worker, and Manned: who is to work on      *)
(* them), and Files and Shows (an image shows its last edit, or somebody    *)
(* will make it so, or nobody was asked to: uncached).                      *)
(****************************************************************************)
EXTENDS ThumbnailJobs, FiniteSetTheorems, TLAPS

-----------------------------------------------------------------------------
(****************************************************************************)
(* Base: types, images, lists and their time stamps                         *)
(****************************************************************************)
\* The type invariant, by who owns the state
DbType ==
  /\ image \in [Ids -> Photos \cup {None}] /\ image_cnt \in 0 .. MaxImages
  /\ thumbnail \in [Ids -> Shown]
  /\ dbgen \in Nat /\ dbup \in BOOLEAN /\ job_timestamp \in Nat

ListType ==
  /\ posting \in Lists
  /\ stamp \in [Lists -> Nat] /\ gen \in [Lists -> Nat]
  /\ coll \in [Lists -> Seq(Ids)]
  /\ work_item \in [Lists -> Nat] /\ done \in [Lists -> Nat]
  /\ freed \in [Lists -> BOOLEAN]
  /\ avail \subseteq Lists \X Gids

WorkerType ==
  /\ graph_lock \in [Gids -> Workers \cup {Gui, None}]
  /\ pc \in [Workers -> {"idle", "lock", "free"} \cup Using]
  /\ job \in [Workers -> Lists] /\ gid \in [Workers -> Gids]
  /\ item \in [Workers -> 0 .. MaxImages]
  /\ photo \in [Workers -> Photos \cup {None}] /\ rendered \in [Workers -> Version]

FileType ==
  /\ cfg \in [Photos -> Version] /\ bc1 \in [Photos -> Shown]
  /\ current \in [Photos -> BOOLEAN]
  /\ raced \subseteq Photos /\ missed \subseteq Photos /\ broken \subseteq Photos
  /\ uncached \subseteq Photos

GuiType ==
  /\ gpc \in {"idle", "help", "load", "leave", "lock", "unlock", "cleanup", "open", "post"}
  /\ acts \in 0 .. MaxActs /\ gnext \in Gids /\ gid_loaded \in Ids /\ loaded \in Shown

Types == DbType /\ ListType /\ WorkerType /\ FileType /\ GuiType

Holds(w) == pc[w] \in Using \cup {"lock"}

\* What the images are: photos, no photo twice; and a list of this database
\* keeps naming photos, though not always the same ones.
Images ==
  /\ \A i \in 1 .. image_cnt : image[i] \in Photos
  /\ \A i, j \in 1 .. image_cnt : image[i] = image[j] => i = j
  /\ \A l \in Lists : gen[l] = dbgen =>
       \A k \in DOMAIN coll[l] : image[coll[l][k]] \in Photos
  /\ gpc \in {"leave", "load"} => gid_loaded \in 1 .. image_cnt

\* Every list has the time stamp of its database, which every abort ends.
Stamps ==
  /\ \A l \in Lists : gen[l] = stamp[l] /\ stamp[l] <= dbgen
  /\ job_timestamp = IF gpc \in {"lock", "unlock", "cleanup", "open"} THEN dbgen + 1 ELSE dbgen
  /\ dbup <=> gpc # "open"

\* The item of a worker that has one, and the photo it is of
Items ==
  /\ \A l \in Lists : Len(coll[l]) <= MaxImages
  /\ \A w \in Workers :
       /\ item[w] <= Len(coll[job[w]])
       /\ Holds(w) => item[w] >= 1
       /\ ~Holds(w) => item[w] = 0
       /\ pc[w] \in Using => photo[w] \in Photos

Base == Types /\ Images /\ Stamps /\ Items

LEMMA SeqOfSet ==
  ASSUME NEW n \in Nat, NEW S \in SUBSET (1 .. n)
  PROVE  /\ SetToSeq(S) \in Seq(S) /\ SetToSeq(S) \in Seq(1 .. n)
         /\ Len(SetToSeq(S)) <= n
         /\ \A x \in S : \E k \in DOMAIN SetToSeq(S) : SetToSeq(S)[k] = x
<1>1. IsFiniteSet(S) /\ Cardinality(S) \in Nat /\ Cardinality(S) <= n
  <2>1. IsFiniteSet(1 .. n) /\ Cardinality(1 .. n) = n
    BY FS_Interval
  <2>2. IsFiniteSet(S) /\ Cardinality(S) <= Cardinality(1 .. n)
    BY <2>1, FS_Subset
  <2> QED BY <2>1, <2>2, FS_CardinalityType
<1>2. PICK f \in Bijection(1 .. Cardinality(S), S) : TRUE
  BY <1>1, FS_CardinalityType DEF ExistsBijection
<1>3. f \in [1 .. Cardinality(S) -> S] /\ IsInjective(f)
  BY <1>2 DEF Bijection, Injection, Surjection, IsInjective
<1> DEFINE g == SetToSeq(S)
<1>4. g \in [1 .. Cardinality(S) -> S] /\ IsInjective(g)
  BY <1>3 DEF SetToSeq
<1>5. g \in Injection(1 .. Cardinality(S), S)
  BY <1>4 DEF Injection
<1>6. g \in Surjection(1 .. Cardinality(S), S)
  BY <1>5, <1>1, FS_Injection, FS_Interval
<1>7. g \in Seq(S) /\ Len(g) = Cardinality(S)
  BY <1>4, <1>1
<1>9. g \in Seq(1 .. n)
  <2>1. g \in [1 .. Cardinality(S) -> 1 .. n]
    BY <1>4
  <2> QED BY <2>1, <1>1
<1> HIDE DEF g
<1>8. \A x \in S : \E k \in DOMAIN g : g[k] = x
  BY <1>6 DEF Surjection
<1> QED BY <1>1, <1>7, <1>8, <1>9 DEF g

LEMMA TypeParts == Types /\ Items => TypeOK
BY DEF Types, DbType, ListType, WorkerType, FileType, GuiType, Items, TypeOK

\* Values that occur below have their types
LEMMA Values ==
  ASSUME Types
  PROVE  /\ MaxImages \in Nat /\ 1 \in Ids /\ 1 \in Lists /\ 0 \in Gids /\ 1 \in Gids
         /\ 0 \in Version /\ None \in Shown /\ Bomb \in Shown /\ Version \subseteq Shown
         /\ \A l \in Lists : /\ coll[l] \in Seq(Ids) /\ Len(coll[l]) \in Nat
                             /\ work_item[l] \in Nat /\ done[l] \in Nat
         /\ \A w \in Workers : item[w] \in Nat /\ job[w] \in Lists
<1>1. MaxImages \in Nat /\ 1 \in Ids
  BY ThumbnailJobsAssumption DEF Types, GuiType, Ids
<1>2. 1 \in Lists /\ 0 \in Gids /\ 1 \in Gids
  BY ThumbnailJobsAssumption DEF Lists, Gids
<1>3. 0 \in Version /\ None \in Shown /\ Bomb \in Shown /\ Version \subseteq Shown
  BY ThumbnailJobsAssumption DEF Version, Shown
<1>4. \A l \in Lists : /\ coll[l] \in Seq(Ids) /\ Len(coll[l]) \in Nat
                       /\ work_item[l] \in Nat /\ done[l] \in Nat
  BY DEF Types, ListType
<1>5. \A w \in Workers : item[w] \in Nat /\ job[w] \in Lists
  BY <1>1 DEF Types, WorkerType
<1> QED BY <1>1, <1>2, <1>3, <1>4, <1>5

LEMMA InitBase == Init => Base
<1>. SUFFICES ASSUME Init PROVE Base
  OBVIOUS
<1>1. PICK d \in Directories :
        /\ image = [i \in Ids |-> IF i <= Len(d) THEN d[i] ELSE None]
        /\ image_cnt = Len(d)
  BY DEF Init
<1>2. d \in Seq(Photos) /\ Len(d) \in 1 .. MaxImages /\ MaxImages \in Nat /\ IsInjective(d)
  BY ThumbnailJobsAssumption
<1>3. /\ \A i \in 1 .. Len(d) : i \in Ids /\ d[i] \in Photos
      /\ \A i, j \in 1 .. Len(d) : d[i] = d[j] => i = j
  BY <1>2 DEF Ids, IsInjective
<1>4. \A i \in 1 .. image_cnt : image[i] = d[i]
  BY <1>1, <1>3, <1>2
<1>5. DbType
  BY <1>1, <1>2, <1>3 DEF Init, DbType, Ids, Shown
<1>6. ListType /\ WorkerType
  BY ThumbnailJobsAssumption DEF Init, ListType, WorkerType, Lists, Gids, Version
<1>7. FileType /\ GuiType
  BY <1>2, ThumbnailJobsAssumption DEF Init, FileType, GuiType, Gids, Ids, Version, Shown
<1>8. Images
  <2>1. \A i \in 1 .. image_cnt : image[i] \in Photos
    BY <1>1, <1>3, <1>4
  <2>2. \A i, j \in 1 .. image_cnt : image[i] = image[j] => i = j
    BY <1>1, <1>3, <1>4
  <2>3. \A l \in Lists : coll[l] = <<>> /\ DOMAIN coll[l] = {}
    BY DEF Init
  <2>4. gpc = "post"
    BY DEF Init
  <2> QED BY <2>1, <2>2, <2>3, <2>4 DEF Images
<1>9. Stamps
  <2>1. dbgen = 0 /\ dbup = TRUE /\ job_timestamp = 0 /\ gpc = "post"
        /\ \A l \in Lists : gen[l] = 0 /\ stamp[l] = 0
    BY DEF Init
  <2> QED BY <2>1 DEF Stamps
<1>10. Items
  <2>1. \A l \in Lists : coll[l] = <<>> /\ Len(coll[l]) = 0
    BY DEF Init
  <2>2. \A w \in Workers : job[w] \in Lists /\ item[w] = 0 /\ pc[w] = "idle"
    BY <1>6 DEF Init, WorkerType
  <2> QED BY <2>1, <2>2, <1>2 DEF Items, Holds, Using
<1> QED BY <1>5, <1>6, <1>7, <1>8, <1>9, <1>10 DEF Base, Types

\* What the pool hands out is an item of the list
LEMMA NextItemBase ==
  ASSUME Base, NEW w \in Workers, NEW l \in Lists, NextItem(w, l)
  PROVE  /\ work_item' \in [Lists -> Nat]
         /\ pc' \in [Workers -> {"idle", "lock", "free"} \cup Using]
         /\ item' \in [Workers -> 0 .. MaxImages]
         /\ item'[w] <= Len(coll[l])
         /\ pc'[w] \in {"lock", "free"}
         /\ pc'[w] = "lock" => item'[w] >= 1
         /\ pc'[w] = "free" => item'[w] = 0
         /\ \A v \in Workers \ {w} : pc'[v] = pc[v] /\ item'[v] = item[v]
<1>1. /\ MaxImages \in Nat /\ Len(coll[l]) \in Nat /\ work_item[l] \in Nat
      /\ Len(coll[l]) <= MaxImages
  BY Values DEF Base, Items
<1>2. /\ work_item \in [Lists -> Nat] /\ item \in [Workers -> 0 .. MaxImages]
      /\ pc \in [Workers -> {"idle", "lock", "free"} \cup Using]
  BY DEF Base, Types, ListType, WorkerType
<1>3. work_item' \in [Lists -> Nat]
  BY <1>1, <1>2 DEF NextItem
<1>4. CASE Left(l)
  <2>1. work_item[l] + 1 \in 1 .. MaxImages /\ work_item[l] + 1 <= Len(coll[l])
    BY <1>1, <1>4 DEF Left
  <2>2. pc' = [pc EXCEPT ![w] = "lock"] /\ item' = [item EXCEPT ![w] = work_item[l] + 1]
    BY <1>4 DEF NextItem, Goto
  <2> QED BY <1>1, <1>2, <1>3, <2>1, <2>2
<1>5. CASE ~Left(l)
  <2>1. pc' = [pc EXCEPT ![w] = "free"] /\ item' = [item EXCEPT ![w] = 0]
    BY <1>5 DEF NextItem, Goto
  <2> QED BY <1>1, <1>2, <1>3, <2>1
<1> QED BY <1>4, <1>5

LEMMA TakeBase ==
  ASSUME Base, NEW w \in Workers, UNCHANGED acts, Take(w)
  PROVE  Base'
<1>1. PICK t \in avail : /\ avail' = avail \ {t}
                         /\ job' = [job EXCEPT ![w] = t[1]]
                         /\ gid' = [gid EXCEPT ![w] = t[2]]
                         /\ NextItem(w, t[1])
  BY DEF Take
<1>2. t[1] \in Lists /\ t[2] \in Gids
  BY DEF Base, Types, ListType
<1>3. (DbType /\ FileType /\ GuiType /\ Images /\ Stamps)'
  BY DEF Base, Types, Take, dbVars, listVars, fileVars, guiVars, ghostVars,
         DbType, FileType, GuiType, Images, Stamps
<1>4. (ListType /\ WorkerType)'
  BY <1>1, <1>2, NextItemBase DEF Base, Types, Take, ListType, WorkerType, listVars
<1>5. Items'
  <2>1. \A v \in Workers : job[v] \in Lists /\ job'[v] = IF v = w THEN t[1] ELSE job[v]
    BY <1>1 DEF Base, Types, WorkerType
  <2> QED BY <1>1, <1>2, <2>1, NextItemBase
          DEF Base, Items, Holds, Using, Take, listVars
<1> QED BY <1>3, <1>4, <1>5 DEF Base, Types

LEMMA ForgetBase ==
  ASSUME Base, NEW l \in Lists, ForgetList(l), posting' \in Lists,
         avail' \in SUBSET (Lists \X Gids)
  PROVE  /\ ListType'
         /\ \A k \in Lists : /\ coll'[k] = IF k = l THEN <<>> ELSE coll[k]
                             /\ gen'[k] = IF k = l THEN 0 ELSE gen[k]
                             /\ stamp'[k] = IF k = l THEN 0 ELSE stamp[k]
<1>1. <<>> \in Seq(Ids)
  OBVIOUS
<1>3. stamp' \in [Lists -> Nat] /\ gen' \in [Lists -> Nat] /\ coll' \in [Lists -> Seq(Ids)]
  BY <1>1 DEF Base, Types, ListType, ForgetList
<1>4. /\ work_item' \in [Lists -> Nat] /\ done' \in [Lists -> Nat]
      /\ freed' \in [Lists -> BOOLEAN]
  BY DEF Base, Types, ListType, ForgetList
<1>5. \A k \in Lists : /\ coll'[k] = IF k = l THEN <<>> ELSE coll[k]
                       /\ gen'[k] = IF k = l THEN 0 ELSE gen[k]
                       /\ stamp'[k] = IF k = l THEN 0 ELSE stamp[k]
  BY DEF Base, Types, ListType, ForgetList
<1> QED BY <1>3, <1>4, <1>5 DEF ListType

LEMMA FreeBase ==
  ASSUME Base, NEW w \in Workers, UNCHANGED acts, FreeColl(w)
  PROVE  Base'
<1>1. job[w] \in Lists /\ 1 \in Lists /\ 0 \in Gids /\ MaxImages \in Nat
  BY Values DEF Base
<1>2. /\ pc[w] = "free" /\ pc' = [pc EXCEPT ![w] = "idle"]
      /\ job' = [job EXCEPT ![w] = 1] /\ gid' = [gid EXCEPT ![w] = 0]
      /\ UNCHANGED <<dbVars, job_timestamp, graph_lock, posting, avail,
                     item, photo, rendered, fileVars, guiVars, ghostVars>>
  BY DEF FreeColl, Goto
<1>3. (DbType /\ FileType /\ GuiType /\ WorkerType)'
  BY <1>1, <1>2 DEF Base, Types, dbVars, fileVars, guiVars, ghostVars,
         DbType, FileType, GuiType, WorkerType
<1>4. UNCHANGED <<dbVars, gpc, gid_loaded, job_timestamp>>
  BY <1>2 DEF guiVars
<1>5. item[w] = 0 /\ \A v \in Workers : job[v] \in Lists
  BY <1>2 DEF Base, Types, WorkerType, Items, Holds, Using
<1>6. CASE Helpers(job[w]) = {w}
  <2>1. ForgetList(job[w])
    BY <1>6 DEF FreeColl
  <2>2. /\ ListType'
        /\ \A k \in Lists : /\ coll'[k] = IF k = job[w] THEN <<>> ELSE coll[k]
                            /\ gen'[k] = IF k = job[w] THEN 0 ELSE gen[k]
                            /\ stamp'[k] = IF k = job[w] THEN 0 ELSE stamp[k]
    BY <2>1, <1>1, <1>2, ForgetBase DEF Base, Types, ListType, dbVars
  <2>3. Images'
    BY <2>2, <1>4 DEF Base, Images, dbVars
  <2>4. Stamps'
    BY <2>2, <1>4 DEF Base, Types, DbType, Stamps, dbVars
  <2>5. \A v \in Workers \ {w} : job[v] = job[w] => item[v] = 0
    BY <1>6 DEF Base, Types, WorkerType, Items, Holds, Helpers, Using
  <2>6. Items'
    <3>1. \A l \in Lists : Len(coll'[l]) <= MaxImages
      BY <2>2, <1>1 DEF Base, Items
    <3>2. ASSUME NEW v \in Workers
          PROVE  /\ item'[v] <= Len(coll'[job'[v]])
                 /\ Holds(v)' => item'[v] >= 1
                 /\ ~Holds(v)' => item'[v] = 0
                 /\ pc'[v] \in Using => photo'[v] \in Photos
      <4>1. CASE v = w
        <5>1. job'[v] = 1 /\ pc'[v] = "idle" /\ item'[v] = 0
          BY <1>2, <1>5, <4>1 DEF Base, Types, WorkerType
        <5>2. Len(coll'[1]) \in Nat
          BY <2>2, <1>1 DEF ListType
        <5> QED BY <5>1, <5>2 DEF Holds, Using
      <4>2. CASE v # w
        <5>1. job'[v] = job[v] /\ pc'[v] = pc[v] /\ item'[v] = item[v] /\ photo'[v] = photo[v]
          BY <1>2, <4>2 DEF Base, Types, WorkerType
        <5>2. item'[v] <= Len(coll'[job'[v]])
          BY <5>1, <4>2, <2>2, <2>5, <1>5 DEF Base, Items
        <5> QED BY <5>1, <5>2 DEF Base, Items, Holds
      <4> QED BY <4>1, <4>2
    <3> QED BY <3>1, <3>2 DEF Items
  <2> QED BY <1>3, <2>2, <2>3, <2>4, <2>6 DEF Base, Types
<1>7. CASE Helpers(job[w]) # {w}
  <2>1. freed' = [freed EXCEPT ![job[w]] = @ \/ gid[w] = 0]
        /\ UNCHANGED <<stamp, gen, coll, work_item, done>>
    BY <1>7 DEF FreeColl
  <2>2. ListType'
    <3>1. (freed[job[w]] \/ gid[w] = 0) \in BOOLEAN
      OBVIOUS
    <3> QED BY <2>1, <3>1, <1>1, <1>2 DEF Base, Types, ListType
  <2>3. Images' /\ Stamps'
    BY <2>1, <1>4 DEF Base, Images, Stamps, dbVars
  <2>4. Items'
    <3>1. Len(coll[1]) \in Nat
      BY Values DEF Base
    <3> QED BY <3>1, <2>1, <1>1, <1>2, <1>5
            DEF Base, Types, WorkerType, Items, Holds, Using
  <2> QED BY <1>3, <2>2, <2>3, <2>4 DEF Base, Types
<1> QED BY <1>6, <1>7

LEMMA LockBase ==
  ASSUME Base, NEW w \in Workers, UNCHANGED acts, Lock(w)
  PROVE  Base'
<1>1. job[w] \in Lists /\ item[w] \in DOMAIN coll[job[w]] /\ gen[job[w]] = dbgen
  <2>1. job[w] \in Lists /\ item[w] \in Nat /\ coll[job[w]] \in Seq(Ids)
    BY Values DEF Base
  <2>2. item[w] >= 1 /\ item[w] <= Len(coll[job[w]])
    BY DEF Base, Items, Holds, Lock
  <2>3. gen[job[w]] = job_timestamp
    BY <2>1 DEF Base, Stamps, Lock
  <2>4. dbgen \in Nat /\ gen[job[w]] <= dbgen
    BY <2>1 DEF Base, Types, DbType, Stamps
  <2>5. job_timestamp = dbgen
    BY <2>3, <2>4 DEF Base, Stamps
  <2> QED BY <2>1, <2>2, <2>3, <2>5
<1>2. image[Id(w)] \in Photos
  BY <1>1 DEF Base, Images, Id
<1>3. (DbType /\ ListType /\ FileType /\ GuiType /\ Images /\ Stamps)'
  BY DEF Base, Types, Lock, dbVars, listVars, poolVars, fileVars, guiVars, ghostVars,
         DbType, ListType, FileType, GuiType, Images, Stamps
<1>4. WorkerType' /\ Items'
  BY <1>2 DEF Base, Types, Lock, Goto, WorkerType, Items, Holds, Using, listVars
<1> QED BY <1>3, <1>4 DEF Base, Types

LEMMA StaleBase ==
  ASSUME Base, NEW w \in Workers, UNCHANGED acts, Stale(w)
  PROVE  Base'
<1>1. job[w] \in Lists
  BY Values DEF Base
<1>2. NextItem(w, job[w]) /\ done' = [done EXCEPT ![job[w]] = @ + 1]
      /\ graph_lock' = [graph_lock EXCEPT ![gid[w]] = None]
  BY DEF Stale, CountDone, Released
<1>3. (DbType /\ FileType /\ GuiType /\ Images /\ Stamps)'
  BY DEF Base, Types, Stale, dbVars, listVars, fileVars, guiVars, ghostVars,
         DbType, FileType, GuiType, Images, Stamps
<1>4. ListType' /\ WorkerType'
  <2>1. done' \in [Lists -> Nat]
    BY <1>1, <1>2 DEF Base, Types, ListType
  <2>2. graph_lock' \in [Gids -> Workers \cup {Gui, None}]
    BY <1>2 DEF Base, Types, WorkerType
  <2>3. ListType'
    BY <1>1, <1>2, <2>1, NextItemBase DEF Base, Types, Stale, ListType, listVars
  <2>4. WorkerType'
    BY <1>1, <1>2, <2>2, NextItemBase DEF Base, Types, Stale, WorkerType
  <2> QED BY <2>3, <2>4
<1>5. Items'
  BY <1>1, <1>2, NextItemBase DEF Base, Items, Holds, Using, Stale, listVars
<1> QED BY <1>3, <1>4, <1>5 DEF Base, Types

LEMMA StatBase ==
  ASSUME Base, NEW w \in Workers, UNCHANGED acts, Stat(w)
  PROVE  Base'
<1>1. (DbType /\ ListType /\ GuiType /\ Images /\ Stamps)'
  BY DEF Base, Types, Stat, dbVars, listVars, poolVars, fileVars, guiVars,
         DbType, ListType, GuiType, Images, Stamps
<1>2. PICK next \in {"reset", "render"} : pc' = [pc EXCEPT ![w] = next]
  BY DEF Stat, Goto
<1>3. WorkerType' /\ Items'
  BY <1>2 DEF Base, Types, Stat, WorkerType, Items, Holds, Using, listVars
<1>4. photo[w] \in Photos
  BY DEF Base, Items, Stat, Using
<1>5. FileType'
  BY <1>4 DEF Base, Types, Stat, fileVars, FileType
<1> QED BY <1>1, <1>3, <1>5 DEF Base, Types

LEMMA RenderBase ==
  ASSUME Base, NEW w \in Workers, UNCHANGED acts, Render(w)
  PROVE  Base'
<1>1. photo[w] \in Photos
  BY DEF Base, Items, Render, Using
<1>2. FileType'
  BY <1>1 DEF Base, Types, Render, fileVars, FileType
<1>3. (DbType /\ ListType /\ GuiType /\ Images /\ Stamps)'
  BY DEF Base, Types, Render, dbVars, listVars, poolVars, guiVars,
         DbType, ListType, GuiType, Images, Stamps
<1>4. rendered' = [rendered EXCEPT ![w] = cfg[photo[w]]] /\ cfg[photo[w]] \in Version
  BY <1>1 DEF Base, Types, Render, FileType
<1>5. WorkerType' /\ Items'
  BY <1>4 DEF Base, Types, Render, Goto, WorkerType, Items, Holds, Using, listVars
<1> QED BY <1>2, <1>3, <1>5 DEF Base, Types

LEMMA WriteBase ==
  ASSUME Base, NEW w \in Workers, UNCHANGED acts, Write(w)
  PROVE  Base'
<1>1. photo[w] \in Photos /\ rendered[w] \in Shown /\ None \in Shown /\ Bomb \in Shown
  BY Values DEF Base, Items, Write, Using, Types, WorkerType
<1>2. bc1' \in [Photos -> Shown]
  BY <1>1 DEF Base, Types, FileType, Write
<1>3. current' \in [Photos -> BOOLEAN]
  BY <1>1 DEF Base, Types, FileType, Write
<1>4. broken' \subseteq Photos
  BY <1>1 DEF Base, Types, FileType, Write
<1>5. FileType'
  BY <1>2, <1>3, <1>4 DEF Base, Types, Write, FileType
<1>6. (DbType /\ ListType /\ GuiType /\ Images /\ Stamps)'
  BY DEF Base, Types, Write, dbVars, listVars, poolVars, guiVars,
         DbType, ListType, GuiType, Images, Stamps
<1>7. WorkerType' /\ Items'
  BY DEF Base, Types, Write, Goto, WorkerType, Items, Holds, Using, listVars
<1> QED BY <1>5, <1>6, <1>7 DEF Base, Types

\* The id of an item is the index of an image
LEMMA IdType ==
  ASSUME Base, NEW w \in Workers, Holds(w)
  PROVE  job[w] \in Lists /\ item[w] \in DOMAIN coll[job[w]] /\ Id(w) \in Ids
<1>1. job[w] \in Lists /\ item[w] \in Nat /\ coll[job[w]] \in Seq(Ids)
  BY Values DEF Base
<1>2. item[w] >= 1 /\ item[w] <= Len(coll[job[w]])
  BY DEF Base, Items
<1> QED BY <1>1, <1>2 DEF Id

LEMMA ResetBase ==
  ASSUME Base, NEW w \in Workers, UNCHANGED acts, Reset(w)
  PROVE  Base'
<1>1. photo[w] \in Photos /\ job[w] \in Lists /\ Id(w) \in Ids
  BY IdType DEF Base, Items, Reset, Using, Holds
<1>2. NextItem(w, job[w]) /\ done' = [done EXCEPT ![job[w]] = @ + 1]
      /\ graph_lock' = [graph_lock EXCEPT ![gid[w]] = None]
      /\ thumbnail' = [thumbnail EXCEPT ![Id(w)] = None]
  BY DEF Reset, CountDone, Released, Forget
<1>3. (DbType /\ FileType)'
  BY <1>1, <1>2, Values DEF Base, Types, Reset, fileVars, DbType, FileType
<1>4. (GuiType /\ Images /\ Stamps)'
  BY DEF Base, Types, Reset, listVars, guiVars, GuiType, Images, Stamps
<1>5. ListType' /\ WorkerType'
  <2>1. done' \in [Lists -> Nat]
    BY <1>1, <1>2 DEF Base, Types, ListType
  <2>2. graph_lock' \in [Gids -> Workers \cup {Gui, None}]
    BY <1>2 DEF Base, Types, WorkerType
  <2>3. photo' \in [Workers -> Photos \cup {None}] /\ rendered' \in [Workers -> Version]
    BY Values DEF Base, Types, WorkerType, Reset
  <2>4. ListType'
    BY <1>1, <1>2, <2>1, NextItemBase DEF Base, Types, Reset, ListType, listVars
  <2>5. WorkerType'
    BY <1>1, <1>2, <2>2, <2>3, NextItemBase DEF Base, Types, Reset, WorkerType
  <2> QED BY <2>4, <2>5
<1>6. Items'
  <2>1. \A v \in Workers \ {w} : photo'[v] = photo[v]
    BY DEF Base, Types, WorkerType, Reset
  <2> QED BY <1>1, <1>2, <2>1, NextItemBase DEF Base, Items, Holds, Using, Reset, listVars
<1> QED BY <1>3, <1>4, <1>5, <1>6 DEF Base, Types

LEMMA WorkerBase ==
  ASSUME Base, NEW w \in Workers, WorkerStep(w)
  PROVE  Base'
BY TakeBase, FreeBase, LockBase, StaleBase, StatBase, RenderBase, WriteBase, ResetBase
   DEF WorkerStep

LEMMA HelpBase ==
  ASSUME Base, acts' \in 0 .. MaxActs, Help
  PROVE  Base'
<1>1. posting \in Lists /\ 1 \in Lists /\ 1 \in Gids
  BY Values DEF Base, Types, ListType
<1>2. /\ gpc = "help" /\ gpc' = "idle" /\ posting' = 1
      /\ UNCHANGED <<dbVars, job_timestamp, graph_lock, workerVars, fileVars,
                     gnext, gid_loaded, loaded, ghostVars>>
  BY DEF Help
<1>3. (DbType /\ FileType /\ GuiType /\ WorkerType)'
  BY <1>1, <1>2 DEF Base, Types, dbVars, workerVars, fileVars, ghostVars,
         DbType, FileType, GuiType, WorkerType
<1>4. avail' \in SUBSET (Lists \X Gids)
  BY <1>1 DEF Help, Base, Types, ListType
<1>5. UNCHANGED <<dbVars, job_timestamp, pc, job, item, photo>>
  BY <1>2 DEF workerVars
<1>6. CASE UNCHANGED <<stamp, gen, coll, work_item, done, freed>>
  <2>1. ListType'
    BY <1>1, <1>2, <1>4, <1>6 DEF Base, Types, ListType
  <2>2. Images' /\ Stamps'
    BY <1>2, <1>5, <1>6 DEF Base, Images, Stamps, dbVars
  <2>3. Items'
    BY <1>5, <1>6 DEF Base, Items, Holds
  <2> QED BY <1>3, <2>1, <2>2, <2>3 DEF Base, Types
<1>7. CASE Helpers(posting) = {Gui} /\ ForgetList(posting)
  <2>1. posting' \in Lists
    BY <1>1, <1>2
  <2>2. \A v \in Workers : job[v] = posting => pc[v] = "idle"
    BY <1>7, ThumbnailJobsAssumption DEF Helpers
  <2>3. /\ ListType'
        /\ \A k \in Lists : /\ coll'[k] = IF k = posting THEN <<>> ELSE coll[k]
                            /\ gen'[k] = IF k = posting THEN 0 ELSE gen[k]
                            /\ stamp'[k] = IF k = posting THEN 0 ELSE stamp[k]
    BY <1>1, <1>4, <1>7, <2>1, ForgetBase
  <2>4. Images'
    BY <2>3, <1>2, <1>5 DEF Base, Images, dbVars
  <2>5. Stamps'
    BY <2>3, <1>2, <1>5 DEF Base, Types, DbType, Stamps, dbVars
  <2>6. Items'
    <3>1. \A l \in Lists : Len(coll'[l]) <= MaxImages
      BY <2>3, Values DEF Base, Items
    <3>2. \A v \in Workers : item[v] <= Len(coll'[job[v]])
      BY <2>2, <2>3, Values DEF Base, Items, Holds, Using
    <3> QED BY <3>1, <3>2, <1>5 DEF Base, Items, Holds
  <2> QED BY <1>3, <2>3, <2>4, <2>5, <2>6 DEF Base, Types
<1> QED BY <1>6, <1>7 DEF Help

\* The list that is added is one nobody works on, of images that are there
LEMMA AddJobBase ==
  ASSUME Base, acts' \in 0 .. MaxActs, gpc \in {"idle", "post"},
         FileType', thumbnail' \in [Ids -> Shown],
         NEW sel \in SUBSET (1 .. image_cnt), AddJob(sel)
  PROVE  Base'
<1>1. PICK l \in Lists :
        /\ Helpers(l) = {}
        /\ posting' = l
        /\ stamp' = [stamp EXCEPT ![l] = job_timestamp]
        /\ gen' = [gen EXCEPT ![l] = dbgen]
        /\ coll' = [coll EXCEPT ![l] = SetToSeq(sel)]
        /\ avail' = avail \cup {<<l, 0>>}
        /\ gpc' = "help"
        /\ UNCHANGED <<work_item, done, freed, workerVars, job_timestamp, graph_lock, dbgen, dbup,
                       image, image_cnt, gnext, gid_loaded, loaded>>
  BY DEF AddJob, restVars
<1> DEFINE s == SetToSeq(sel)
<1>2. /\ image_cnt \in Nat /\ image_cnt <= MaxImages /\ MaxImages \in Nat
      /\ dbgen \in Nat /\ job_timestamp \in Nat /\ 0 \in Gids
  BY Values DEF Base, Types, DbType
<1>3. sel \in SUBSET (1 .. MaxImages)
  BY <1>2
<1>4. s \in Seq(Ids) /\ Len(s) <= MaxImages /\ DOMAIN s = 1 .. Len(s)
      /\ \A k \in DOMAIN s : s[k] \in 1 .. image_cnt
  <2>1. s \in Seq(sel) /\ s \in Seq(Ids) /\ Len(s) <= MaxImages
    BY <1>2, <1>3, SeqOfSet DEF Ids
  <2> HIDE DEF s
  <2>2. DOMAIN s = 1 .. Len(s) /\ \A k \in 1 .. Len(s) : s[k] \in sel
    BY <2>1
  <2> QED BY <2>1, <2>2
<1> HIDE DEF s
<1>5. coll' = [coll EXCEPT ![l] = s]
  BY <1>1 DEF s
<1>6. DbType' /\ GuiType'
  BY <1>1 DEF Base, Types, DbType, GuiType
<1>7. ListType'
  <2>1. stamp' \in [Lists -> Nat] /\ gen' \in [Lists -> Nat]
    BY <1>1, <1>2 DEF Base, Types, ListType
  <2>2. coll' \in [Lists -> Seq(Ids)]
    BY <1>4, <1>5 DEF Base, Types, ListType
  <2>3. avail' \subseteq Lists \X Gids
    BY <1>1, <1>2 DEF Base, Types, ListType
  <2> QED BY <1>1, <2>1, <2>2, <2>3 DEF Base, Types, ListType
<1>8. WorkerType' /\ UNCHANGED <<pc, job, item, photo>>
  BY <1>1 DEF Base, Types, WorkerType, workerVars
<1>9. Images'
  <2>1. \A k \in Lists : /\ coll'[k] = IF k = l THEN s ELSE coll[k]
                         /\ gen'[k] = IF k = l THEN dbgen ELSE gen[k]
    BY <1>1, <1>5 DEF Base, Types, ListType
  <2>2. \A k \in Lists : gen'[k] = dbgen =>
           \A n \in DOMAIN coll'[k] : image[coll'[k][n]] \in Photos
    BY <1>4, <2>1 DEF Base, Images
  <2> QED BY <1>1, <2>2 DEF Base, Images
<1>10. Stamps'
  <2>1. \A k \in Lists : /\ stamp'[k] = IF k = l THEN job_timestamp ELSE stamp[k]
                         /\ gen'[k] = IF k = l THEN dbgen ELSE gen[k]
    BY <1>1 DEF Base, Types, ListType
  <2>2. job_timestamp = dbgen
    BY DEF Base, Stamps
  <2> QED BY <1>1, <1>2, <2>1, <2>2 DEF Base, Stamps
<1>11. Items'
  <2>1. \A k \in Lists : coll'[k] = IF k = l THEN s ELSE coll[k]
    BY <1>5 DEF Base, Types, ListType
  <2>2. \A v \in Workers : job[v] \in Lists /\ (job[v] = l => pc[v] = "idle")
    BY <1>1 DEF Helpers, Base, Types, WorkerType
  <2>3. Len(s) \in Nat
    BY <1>4
  <2>4. \A v \in Workers : item[v] <= Len(coll'[job[v]])
    BY <2>1, <2>2, <2>3 DEF Base, Items, Holds, Using
  <2>5. \A k \in Lists : Len(coll'[k]) <= MaxImages
    BY <2>1, <1>4 DEF Base, Items
  <2> QED BY <2>4, <2>5, <1>8 DEF Base, Items, Holds
<1> QED BY <1>6, <1>7, <1>8, <1>9, <1>10, <1>11 DEF Base, Types

LEMMA NotCachedBase ==
  ASSUME Base, acts' \in 0 .. MaxActs, gpc \in {"idle", "post"},
         FileType', thumbnail' \in [Ids -> Shown],
         NEW edited, NotCached(edited)
  PROVE  Base'
<1>1. /\ gpc' = "idle"
      /\ UNCHANGED <<listVars, poolVars, workerVars, job_timestamp, graph_lock, dbgen, dbup,
                     image, image_cnt, gnext, gid_loaded, loaded>>
  BY DEF NotCached, restVars, poolVars
<1>2. (DbType /\ ListType /\ WorkerType /\ GuiType)'
  BY <1>1 DEF Base, Types, listVars, poolVars, workerVars, DbType, ListType, WorkerType, GuiType
<1>3. (Images /\ Stamps /\ Items)'
  BY <1>1 DEF Base, listVars, workerVars, Images, Stamps, Items, Holds
<1> QED BY <1>2, <1>3 DEF Base, Types

LEMMA CacheListBase ==
  ASSUME Base, acts' \in 0 .. MaxActs, gpc \in {"idle", "post"},
         FileType', thumbnail' \in [Ids -> Shown],
         NEW sel \in SUBSET (1 .. image_cnt), NEW edited, CacheList(sel, edited)
  PROVE  Base'
BY AddJobBase, NotCachedBase DEF CacheList

LEMMA CacheListType ==
  ASSUME Base, NEW sel, NEW edited \in SUBSET Photos, CacheList(sel, edited)
  PROVE  uncached' \subseteq Photos
BY DEF Base, Types, FileType, CacheList, AddJob, NotCached

LEMMA EditedType ==
  ASSUME Base, NEW ps \in SUBSET Photos, NEW still, Edited(ps, still)
  PROVE  /\ cfg' \in [Photos -> Version] /\ current' \in [Photos -> BOOLEAN]
         /\ raced' \subseteq Photos
<1>1. \A p \in ps \cap Writable : cfg[p] < MaxVersion /\ cfg[p] + 1 \in Version
  BY ThumbnailJobsAssumption DEF Base, Types, FileType, Edited, Version
<1>2. cfg' \in [Photos -> Version]
  BY <1>1 DEF Base, Types, FileType, Edited
<1>3. current' \in [Photos -> BOOLEAN]
  BY DEF Base, Types, FileType, Edited
<1>4. raced' \subseteq Photos
  BY DEF Base, Types, FileType, Edited
<1> QED BY <1>2, <1>3, <1>4

LEMMA SelectionType ==
  ASSUME Base, NEW sel \in SUBSET (1 .. image_cnt)
  PROVE  PhotosOf(sel) \in SUBSET Photos
<1>1. \A i \in sel : image[i] \in Photos
  BY DEF Base, Images
<1> QED BY <1>1 DEF PhotosOf

\* What caches a list of images
LEMMA PostBase ==
  ASSUME Base, acts' \in 0 .. MaxActs, gpc \in {"idle", "post"},
         CacheCollection \/ PasteHistory \/ ResetHistory
  PROVE  Base'
<1>1. UNCHANGED thumbnail /\ thumbnail' \in [Ids -> Shown]
  BY DEF CacheCollection, PasteHistory, ResetHistory, Base, Types, DbType
<1>2. CASE CacheCollection
  <2>1. CASE NotCached({})
    <3>1. FileType'
      BY <1>2, <2>1 DEF Base, Types, FileType, CacheCollection, NotCached, fileVars
    <3> QED BY <1>1, <2>1, <3>1, NotCachedBase
  <2>2. CASE \E sel \in Selections : CacheList(sel, {})
    <3>1. PICK sel \in Selections : CacheList(sel, {})
      BY <2>2
    <3>2. sel \in SUBSET (1 .. image_cnt)
      BY DEF Selections
    <3>3. uncached' \subseteq Photos
      BY <3>1, CacheListType
    <3>4. FileType'
      BY <1>2, <3>3 DEF Base, Types, FileType, CacheCollection, fileVars
    <3> QED BY <1>1, <3>1, <3>2, <3>4, CacheListBase
  <2> QED BY <1>2, <2>1, <2>2 DEF CacheCollection
<1>3. CASE PasteHistory
  <2>1. PICK sel \in Selections, cid \in 1 .. image_cnt :
           /\ \E still \in SUBSET Photos : Edited(PhotosOf(sel \ {cid}), still)
           /\ CacheList(sel, PhotosOf(sel \ {cid}) \cap Writable)
    BY <1>3 DEF PasteHistory, CacheList
  <2>2. sel \in SUBSET (1 .. image_cnt) /\ sel \ {cid} \in SUBSET (1 .. image_cnt)
    BY DEF Selections
  <2>3. PhotosOf(sel \ {cid}) \in SUBSET Photos
    BY <2>2, SelectionType
  <2>4. uncached' \subseteq Photos
    BY <2>1, <2>3, CacheListType
  <2>5. FileType'
    BY <1>3, <2>1, <2>3, <2>4, EditedType DEF Base, Types, FileType, PasteHistory
  <2> QED BY <1>1, <2>1, <2>2, <2>5, CacheListBase
<1>4. CASE ResetHistory
  <2>1. PICK sel \in Selections :
           /\ Edited(PhotosOf(sel), {})
           /\ bc1' = [p \in Photos |-> IF p \in PhotosOf(sel) THEN None ELSE bc1[p]]
           /\ CacheList(sel, PhotosOf(sel))
    BY <1>4 DEF ResetHistory
  <2>2. sel \in SUBSET (1 .. image_cnt)
    BY DEF Selections
  <2>3. PhotosOf(sel) \in SUBSET Photos
    BY <2>2, SelectionType
  <2>4. bc1' \in [Photos -> Shown]
    BY <2>1, Values DEF Base, Types, FileType
  <2>5. uncached' \subseteq Photos
    BY <2>1, <2>3, CacheListType
  <2>6. FileType'
    BY <1>4, <2>1, <2>3, <2>4, <2>5, EditedType DEF Base, Types, FileType, ResetHistory
  <2> QED BY <1>1, <2>1, <2>2, <2>6, CacheListBase
<1> QED BY <1>2, <1>3, <1>4

LEMMA WriteConfigBase ==
  ASSUME Base, acts' \in 0 .. MaxActs, gpc = "idle", WriteConfig
  PROVE  Base'
<1>1. PICK i \in 1 .. image_cnt :
        /\ \E still \in SUBSET Photos : Edited({image[i]}, still)
        /\ gid_loaded' = i
  BY DEF WriteConfig
<1>2. i \in Ids /\ image[i] \in Photos
  BY Values DEF Base, Types, DbType, Images, Ids
<1>3. FileType'
  BY <1>1, <1>2, EditedType DEF Base, Types, FileType, WriteConfig
<1>4. (DbType /\ ListType /\ WorkerType /\ GuiType)'
  BY <1>1, <1>2 DEF Base, Types, WriteConfig, dbVars, listVars, poolVars, workerVars,
         DbType, ListType, WorkerType, GuiType
<1>5. (Images /\ Stamps /\ Items)'
  BY <1>1 DEF Base, WriteConfig, dbVars, listVars, workerVars, Images, Stamps, Items, Holds
<1> QED BY <1>3, <1>4, <1>5 DEF Base, Types

LEMMA WriteThumbnailBase ==
  ASSUME Base, acts' \in 0 .. MaxActs, WriteThumbnail
  PROVE  Base'
<1>1. gid_loaded \in Ids /\ image[gid_loaded] \in Photos
  BY DEF Base, Types, GuiType, Images, WriteThumbnail
<1>2. \A p \in Photos : cfg[p] \in Version
  BY DEF Base, Types, FileType
<1>3. DbType' /\ FileType'
  <2>1. CASE \E v \in ({cfg[image[gid_loaded]], cfg[image[gid_loaded]] - 1} \cap Version)
                      \cup (IF Writers(image[gid_loaded]) = {} THEN {} ELSE {None}) :
               /\ bc1' = [bc1 EXCEPT ![image[gid_loaded]] = v]
               /\ current' = [current EXCEPT ![image[gid_loaded]] = TRUE]
               /\ thumbnail' = [thumbnail EXCEPT ![gid_loaded] = None]
               /\ IF v = cfg[image[gid_loaded]] /\ Writers(image[gid_loaded]) = {}
                    THEN /\ raced' = raced \ {image[gid_loaded]}
                         /\ uncached' = uncached \ {image[gid_loaded]}
                    ELSE raced' = raced \cup {image[gid_loaded]} /\ UNCHANGED uncached
    <3>1. PICK v \in Version \cup {None} :
               /\ bc1' = [bc1 EXCEPT ![image[gid_loaded]] = v]
               /\ current' = [current EXCEPT ![image[gid_loaded]] = TRUE]
               /\ thumbnail' = [thumbnail EXCEPT ![gid_loaded] = None]
               /\ raced' \in {raced \ {image[gid_loaded]}, raced \cup {image[gid_loaded]}}
               /\ uncached' \subseteq uncached
      BY <2>1
    <3>2. v \in Shown
      BY DEF Shown
    <3>3. thumbnail' \in [Ids -> Shown]
      BY <3>1, Values DEF Base, Types, DbType
    <3>4. FileType'
      BY <1>1, <3>1, <3>2 DEF Base, Types, FileType, WriteThumbnail
    <3> QED BY <3>3, <3>4 DEF Base, Types, DbType, WriteThumbnail
  <2>2. CASE raced' = raced \cup {image[gid_loaded]} /\ UNCHANGED <<bc1, current, thumbnail, uncached>>
    BY <1>1, <2>2 DEF Base, Types, FileType, DbType, WriteThumbnail
  <2> QED BY <2>1, <2>2 DEF WriteThumbnail
<1>4. (ListType /\ WorkerType /\ GuiType)'
  BY Values DEF Base, Types, WriteThumbnail, listVars, poolVars, workerVars,
                ListType, WorkerType, GuiType
<1>5. (Images /\ Stamps /\ Items)'
  BY DEF Base, WriteThumbnail, listVars, workerVars, Images, Stamps, Items, Holds
<1> QED BY <1>3, <1>4, <1>5 DEF Base, Types

LEMMA LoadBase ==
  ASSUME Base, acts' \in 0 .. MaxActs, gpc = "idle", Load
  PROVE  Base'
<1>1. PICK i \in 1 .. image_cnt : gid_loaded' = i /\ loaded' = bc1[image[i]]
  BY DEF Load
<1>2. i \in Ids /\ loaded' \in Shown
  BY <1>1, Values DEF Base, Types, DbType, FileType, Images, Ids
<1>3. Types'
  BY <1>1, <1>2 DEF Base, Types, Load, dbVars, listVars, poolVars, workerVars, fileVars, ghostVars,
         DbType, ListType, WorkerType, FileType, GuiType
<1>4. (Images /\ Stamps /\ Items)'
  BY <1>1 DEF Base, Load, dbVars, listVars, workerVars, Images, Stamps, Items, Holds
<1> QED BY <1>3, <1>4 DEF Base

LEMMA LoadedBase ==
  ASSUME Base, acts' \in 0 .. MaxActs, Loaded
  PROVE  Base'
<1>1. gid_loaded \in Ids /\ loaded \in Shown /\ 1 \in Ids /\ None \in Shown
  BY Values DEF Base, Types, GuiType
<1>2. thumbnail' \in [Ids -> Shown]
  BY <1>1 DEF Base, Types, DbType, Loaded
<1>3. Types'
  BY <1>1, <1>2 DEF Base, Types, Loaded, listVars, poolVars, workerVars, fileVars, ghostVars,
         DbType, ListType, WorkerType, FileType, GuiType
<1>4. (Images /\ Stamps /\ Items)'
  BY DEF Base, Loaded, listVars, workerVars, Images, Stamps, Items, Holds
<1> QED BY <1>3, <1>4 DEF Base

LEMMA RemoveSelectedBase ==
  ASSUME Base, acts' \in 0 .. MaxActs, gpc = "idle", RemoveSelected
  PROVE  Base'
<1>1. PICK i \in 1 .. image_cnt :
        /\ image' = [image EXCEPT ![i] = image[image_cnt]]
        /\ thumbnail' = [thumbnail EXCEPT ![i] = thumbnail[image_cnt]]
  BY DEF RemoveSelected
<1>2. /\ image_cnt \in Nat /\ image_cnt <= MaxImages /\ MaxImages \in Nat
      /\ image_cnt' = image_cnt - 1 /\ image_cnt >= 1
  BY Values DEF Base, Types, DbType, RemoveSelected
<1>3. image_cnt \in Ids /\ i \in Ids /\ 1 .. image_cnt \subseteq Ids
      /\ image[image_cnt] \in Photos /\ image_cnt \in 1 .. image_cnt
  BY <1>2 DEF Base, Images, Ids
<1>4. \A k \in Ids : image'[k] = IF k = i THEN image[image_cnt] ELSE image[k]
  BY <1>1 DEF Base, Types, DbType
<1>5. DbType'
  BY <1>1, <1>2, <1>3 DEF Base, Types, DbType, RemoveSelected
<1>6. (ListType /\ WorkerType /\ FileType /\ GuiType)'
  BY DEF Base, Types, RemoveSelected, listVars, poolVars, workerVars, fileVars, guiVars, ghostVars,
         ListType, WorkerType, FileType, GuiType
<1>7. Images'
  <2>1. 1 .. image_cnt' \subseteq 1 .. image_cnt /\ image_cnt \notin 1 .. image_cnt'
    BY <1>2
  <2>2. \A k \in 1 .. image_cnt' : image'[k] \in Photos
    BY <1>3, <1>4, <2>1 DEF Base, Images
  <2>3. \A k, n \in 1 .. image_cnt' : image'[k] = image'[n] => k = n
    BY <1>3, <1>4, <2>1 DEF Base, Images
  <2>4. \A l \in Lists : \A k \in DOMAIN coll[l] : coll[l][k] \in Ids
    BY DEF Base, Types, ListType
  <2>5. \A l \in Lists : gen[l] = dbgen =>
           \A k \in DOMAIN coll[l] : image'[coll[l][k]] \in Photos
    BY <1>3, <1>4, <2>4 DEF Base, Images
  <2> QED BY <2>2, <2>3, <2>5 DEF RemoveSelected, Images, listVars, guiVars
<1>8. (Stamps /\ Items)'
  BY DEF Base, RemoveSelected, listVars, workerVars, guiVars, Stamps, Items, Holds
<1> QED BY <1>5, <1>6, <1>7, <1>8 DEF Base, Types

\* Another directory: nothing of the lists changes
LEMMA AbortBase ==
  ASSUME Base, acts' \in 0 .. MaxActs,
         \/ gpc = "idle" /\ Abort
         \/ AbortLock
         \/ AbortUnlock
         \/ DbCleanup
  PROVE  Base'
<1>1. gpc' \in {"lock", "unlock", "cleanup", "open"} /\ gnext' \in Gids
  BY Values DEF Base, Types, GuiType, Abort, AbortLock, AbortUnlock, DbCleanup, guiVars
<1>2. /\ UNCHANGED <<image, image_cnt, thumbnail, dbgen, listVars, poolVars, workerVars, fileVars,
                  gid_loaded, loaded, raced, missed, broken>>
      /\ uncached' \in {uncached, Photos}
  BY DEF Abort, AbortLock, AbortUnlock, DbCleanup, dbVars, ghostVars
<1>3. dbgen \in Nat /\ job_timestamp \in Nat
  BY DEF Base, Types, DbType
<1>4. graph_lock' \in [Gids -> Workers \cup {Gui, None}]
  BY DEF Base, Types, GuiType, WorkerType, Abort, AbortLock, AbortUnlock, DbCleanup
<1>5. job_timestamp' = dbgen + 1
  BY <1>3 DEF Base, Stamps, Abort, AbortLock, AbortUnlock, DbCleanup, NextStamp
<1>6. dbup' \in BOOLEAN /\ (dbup' <=> gpc' # "open")
  BY DEF Base, Types, DbType, GuiType, Stamps, Abort, AbortLock, AbortUnlock, DbCleanup, dbVars
<1>7. (DbType /\ ListType /\ FileType)'
  <2>1. DbType'
    BY <1>2, <1>3, <1>5, <1>6 DEF Base, Types, DbType
  <2>2. ListType' /\ FileType'
    BY <1>2 DEF Base, Types, ListType, FileType, listVars, poolVars, fileVars
  <2> QED BY <2>1, <2>2
<1>8. WorkerType' /\ GuiType'
  BY <1>1, <1>2, <1>4 DEF Base, Types, WorkerType, GuiType, workerVars
<1>9. Images'
  BY <1>1, <1>2 DEF Base, Images, listVars
<1>10. Stamps' /\ Items'
  BY <1>1, <1>2, <1>5, <1>6 DEF Base, Stamps, Items, Holds, listVars, workerVars
<1> QED BY <1>7, <1>8, <1>9, <1>10 DEF Base, Types

LEMMA DbOpenBase ==
  ASSUME Base, acts' \in 0 .. MaxActs, DbOpen
  PROVE  Base'
<1>1. PICK d \in Directories : Opened(d)
  BY DEF DbOpen
<1>2. d \in Seq(Photos) /\ Len(d) \in 1 .. MaxImages /\ MaxImages \in Nat /\ IsInjective(d)
  BY ThumbnailJobsAssumption
<1>3. /\ \A i \in 1 .. Len(d) : i \in Ids /\ d[i] \in Photos
      /\ \A i, j \in 1 .. Len(d) : d[i] = d[j] => i = j
  BY <1>2 DEF Ids, IsInjective
<1>4. /\ image' = [i \in Ids |-> IF i <= Len(d) THEN d[i] ELSE None] /\ image_cnt' = Len(d)
      /\ thumbnail' = [i \in Ids |-> None]
  BY <1>1 DEF Opened
<1>5. /\ gpc = "open" /\ gpc' \in {"post", "idle"} /\ dbgen' = dbgen + 1 /\ dbup' = TRUE
      /\ UNCHANGED <<job_timestamp, graph_lock, listVars, poolVars, workerVars, fileVars,
                     gnext, gid_loaded, loaded, ghostVars>>
  BY DEF DbOpen
<1>6. dbgen \in Nat /\ job_timestamp = dbgen + 1
  BY <1>5 DEF Base, Types, DbType, Stamps
<1>7. DbType'
  BY <1>2, <1>3, <1>4, <1>5, <1>6, Values DEF Base, Types, DbType, Ids
<1>8. (ListType /\ WorkerType /\ FileType /\ GuiType)'
  BY <1>5 DEF Base, Types, listVars, poolVars, workerVars, fileVars, ghostVars,
              ListType, WorkerType, FileType, GuiType
<1>9. Images'
  <2>1. \A i \in 1 .. image_cnt' : image'[i] = d[i]
    BY <1>2, <1>3, <1>4
  <2>2. \A l \in Lists : gen[l] # dbgen'
    BY <1>5, <1>6 DEF Base, Types, ListType, Stamps
  <2> QED BY <1>3, <1>4, <1>5, <2>1, <2>2 DEF Images, listVars
<1>10. Stamps'
  BY <1>5, <1>6 DEF Base, Types, ListType, Stamps, listVars
<1>11. Items'
  BY <1>5 DEF Base, Items, Holds, listVars, workerVars
<1> QED BY <1>7, <1>8, <1>9, <1>10, <1>11 DEF Base, Types

LEMMA StepBase ==
  ASSUME Base, Next
  PROVE  Base'
<1>1. acts \in 0 .. MaxActs /\ MaxActs \in Nat
  BY ThumbnailJobsAssumption DEF Base, Types, GuiType
<1>2. CASE GuiStep
  <2>1. acts' \in 0 .. MaxActs
    BY <1>1, <1>2 DEF GuiStep
  <2> QED BY <1>2, <2>1, HelpBase, WriteThumbnailBase, LoadedBase, AbortBase, DbOpenBase, PostBase
          DEF GuiStep
<1>3. CASE User
  <2>1. acts' \in 0 .. MaxActs
    BY <1>1, <1>3 DEF User
  <2> QED BY <1>3, <2>1, PostBase, RemoveSelectedBase, WriteConfigBase, LoadBase, AbortBase DEF User
<1>4. CASE \E w \in Workers : WorkerStep(w)
  BY <1>4, WorkerBase
<1> QED BY <1>2, <1>3, <1>4 DEF Next

LEMMA IdleBase ==
  ASSUME Base, UNCHANGED vars
  PROVE  Base'
BY DEF vars, dbVars, listVars, poolVars, workerVars, fileVars, guiVars, ghostVars,
       Base, Types, DbType, ListType, WorkerType, FileType, GuiType, Images, Stamps, Items, Holds

LEMMA AlwaysBase == Spec => []Base
<1>1. Base /\ [Next]_vars => Base'
  BY StepBase, IdleBase
<1> QED BY <1>1, InitBase, PTL DEF Spec

\* Every variable keeps its type; in particular an item is one of its list,
\* however often the list of another database took its place.
THEOREM ThumbnailTypeOK == Spec => []TypeOK
<1>1. Base => TypeOK
  BY TypeParts DEF Base
<1> QED BY <1>1, AlwaysBase, PTL
-----------------------------------------------------------------------------
(****************************************************************************)
(* Locks: a graph is used by the worker that holds its lock                 *)
(****************************************************************************)
\* Who holds which lock, and that nobody works between an abort and the next
\* directory; Base has it that nobody starts to.
Locks ==
  /\ \A w \in Workers : pc[w] \in Using => graph_lock[gid[w]] = w /\ gen[job[w]] = dbgen
  /\ \A g \in Gids, w \in Workers : graph_lock[g] = w => pc[w] \in Using /\ gid[w] = g
  /\ \A g \in Gids : graph_lock[g] = Gui <=> (gpc = "lock" /\ g < gnext) \/ gpc = "unlock"
  /\ gpc \in {"cleanup", "open"} => \A w \in Workers : pc[w] \notin Using

\* The lock of a worker that does not use its graph is not its own.
LEMMA TakeLocks ==
  ASSUME Base, Locks, NEW w \in Workers, Take(w)
  PROVE  Locks'
<1>1. PICK t \in avail : /\ job' = [job EXCEPT ![w] = t[1]]
                         /\ gid' = [gid EXCEPT ![w] = t[2]]
                         /\ NextItem(w, t[1])
  BY DEF Take
<1>2. /\ UNCHANGED <<gpc, gnext, graph_lock, gen, dbgen>>
      /\ pc[w] = "idle"
  BY DEF Take, dbVars, listVars, guiVars
<1>3. /\ pc'[w] \notin Using
      /\ \A v \in Workers \ {w} : pc'[v] = pc[v] /\ gid'[v] = gid[v] /\ job'[v] = job[v]
  <2>1. t[1] \in Lists
    BY DEF Base, Types, ListType
  <2> QED BY <1>1, <2>1, NextItemBase DEF Base, Types, WorkerType, Using
<1> QED BY <1>2, <1>3 DEF Locks, Using

LEMMA FreeLocks ==
  ASSUME Base, Locks, NEW w \in Workers, FreeColl(w)
  PROVE  Locks'
<1>1. /\ pc[w] = "free" /\ pc' = [pc EXCEPT ![w] = "idle"]
      /\ job' = [job EXCEPT ![w] = 1] /\ gid' = [gid EXCEPT ![w] = 0]
      /\ UNCHANGED <<gpc, gnext, graph_lock, dbgen>>
  BY DEF FreeColl, Goto, dbVars, guiVars
<1>2. /\ pc'[w] \notin Using
      /\ \A v \in Workers \ {w} : pc'[v] = pc[v] /\ gid'[v] = gid[v] /\ job'[v] = job[v]
  BY <1>1 DEF Base, Types, WorkerType, Using
<1>3. ASSUME NEW v \in Workers \ {w}, pc[v] \in Using
      PROVE  gen'[job[v]] = gen[job[v]]
  <2>1. CASE Helpers(job[w]) = {w}
    <3>1. job[v] # job[w]
      BY <1>3, <2>1 DEF Helpers, Using
    <3> QED BY <2>1, <3>1, Values DEF FreeColl, ForgetList, Base, Types, ListType
  <2>2. CASE Helpers(job[w]) # {w}
    BY <2>2 DEF FreeColl
  <2> QED BY <2>1, <2>2
<1> QED BY <1>1, <1>2, <1>3 DEF Locks, Using

LEMMA LockLocks ==
  ASSUME Base, Locks, NEW w \in Workers, Lock(w)
  PROVE  Locks'
<1>1. /\ graph_lock[gid[w]] = None /\ graph_lock' = [graph_lock EXCEPT ![gid[w]] = w]
      /\ pc' = [pc EXCEPT ![w] = "stat"] /\ pc[w] = "lock" /\ stamp[job[w]] = job_timestamp
      /\ UNCHANGED <<gpc, gnext, gid, job, gen, dbgen>>
  BY DEF Lock, Goto, dbVars, listVars, guiVars
<1>2. /\ job[w] \in Lists /\ gid[w] \in Gids /\ dbgen \in Nat
      /\ gen[job[w]] = stamp[job[w]] /\ stamp[job[w]] \in Nat /\ stamp[job[w]] <= dbgen
  BY DEF Base, Types, WorkerType, ListType, DbType, Stamps
<1>3. gen[job[w]] = dbgen /\ gpc \notin {"cleanup", "open"}
  BY <1>1, <1>2 DEF Base, Stamps
<1>4. w # Gui /\ w # None /\ Gui # None
  BY ThumbnailJobsAssumption
<1>5. \A v \in Workers \ {w} : pc'[v] = pc[v]
  BY <1>1 DEF Base, Types, WorkerType
<1>6. \A g \in Gids : graph_lock'[g] = IF g = gid[w] THEN w ELSE graph_lock[g]
  BY <1>1 DEF Base, Types, WorkerType
<1>7. pc'[w] \in Using
  BY <1>1 DEF Base, Types, WorkerType, Using
<1>8. \A v \in Workers : v # None /\ gid[v] \in Gids
  BY ThumbnailJobsAssumption DEF Base, Types, WorkerType
<1> QED BY <1>1, <1>2, <1>3, <1>4, <1>5, <1>6, <1>7, <1>8 DEF Locks

LEMMA ReleaseLocks ==
  ASSUME Base, Locks, NEW w \in Workers, Stale(w) \/ Reset(w)
  PROVE  Locks'
<1>1. /\ graph_lock' = [graph_lock EXCEPT ![gid[w]] = None]
      /\ graph_lock[gid[w]] \in {None, w}
      /\ NextItem(w, job[w])
      /\ UNCHANGED <<gpc, gnext, gid, job, gen, dbgen>>
  BY DEF Stale, Reset, Released, Locks, Using, dbVars, listVars, guiVars
<1>2. /\ pc'[w] \notin Using
      /\ \A v \in Workers \ {w} : pc'[v] = pc[v]
  <2>1. job[w] \in Lists
    BY DEF Base, Types, WorkerType
  <2> QED BY <1>1, <2>1, NextItemBase DEF Using
<1>3. \A v \in Workers : gid[v] \in Gids /\ v # None /\ v # Gui
  BY ThumbnailJobsAssumption DEF Base, Types, WorkerType
<1>4. \A g \in Gids : graph_lock'[g] = IF g = gid[w] THEN None ELSE graph_lock[g]
  BY <1>1 DEF Base, Types, WorkerType
<1>5. None # Gui
  BY ThumbnailJobsAssumption
<1>6. \A v \in Workers : pc'[v] \in Using => graph_lock'[gid[v]] = v /\ gen[job[v]] = dbgen
  BY <1>1, <1>2, <1>3, <1>4 DEF Locks
<1>7. \A g \in Gids, v \in Workers : graph_lock'[g] = v => pc'[v] \in Using /\ gid[v] = g
  BY <1>1, <1>2, <1>3, <1>4 DEF Locks
<1>8. \A g \in Gids : graph_lock'[g] = Gui <=> (gpc = "lock" /\ g < gnext) \/ gpc = "unlock"
  BY <1>1, <1>3, <1>4, <1>5 DEF Locks
<1> QED BY <1>1, <1>2, <1>6, <1>7, <1>8 DEF Locks

LEMMA WorkLocks ==
  ASSUME Base, Locks, NEW w \in Workers, Stat(w) \/ Render(w) \/ Write(w)
  PROVE  Locks'
<1>1. /\ UNCHANGED <<graph_lock, gid, job, gpc, gnext, gen, dbgen>>
      /\ pc[w] \in Using /\ pc'[w] \in Using
      /\ \A v \in Workers \ {w} : pc'[v] = pc[v]
  BY DEF Stat, Render, Write, Goto, Using, dbVars, listVars, guiVars, Base, Types, WorkerType
<1> QED BY <1>1 DEF Locks

LEMMA WorkerLocks ==
  ASSUME Base, Locks, NEW w \in Workers, WorkerStep(w)
  PROVE  Locks'
BY TakeLocks, FreeLocks, LockLocks, ReleaseLocks, WorkLocks DEF WorkerStep

\* Where the interface does not touch the locks, nor the database
LEMMA QuietLocks ==
  ASSUME Base, Locks,
         {gpc, gpc'} \cap {"lock", "unlock", "cleanup", "open"} = {},
         UNCHANGED <<graph_lock, pc, gid, job, dbgen>>,
         \A w \in Workers : pc[w] \in Using => gen'[job[w]] = gen[job[w]]
  PROVE  Locks'
BY DEF Locks

LEMMA AddJobLocks ==
  ASSUME Base, Locks, gpc \in {"idle", "post"}, NEW sel, AddJob(sel)
  PROVE  Locks'
<1>1. PICK l \in Lists :
        /\ Helpers(l) = {}
        /\ gen' = [gen EXCEPT ![l] = dbgen]
        /\ gpc' = "help"
        /\ UNCHANGED <<workerVars, graph_lock, dbgen>>
  BY DEF AddJob, restVars
<1>2. \A w \in Workers : pc[w] \in Using => gen'[job[w]] = gen[job[w]]
  BY <1>1 DEF Helpers, Using, Base, Types, ListType, WorkerType
<1> QED BY <1>1, <1>2, QuietLocks DEF workerVars

LEMMA NotCachedLocks ==
  ASSUME Base, Locks, gpc \in {"idle", "post"}, NEW edited, NotCached(edited)
  PROVE  Locks'
BY QuietLocks DEF NotCached, restVars, listVars, workerVars

\* What caches a list adds a job or does not.
LEMMA PostCases ==
  ASSUME CacheCollection \/ PasteHistory \/ ResetHistory
  PROVE  (\E sel : AddJob(sel)) \/ (\E edited : NotCached(edited))
BY DEF CacheCollection, PasteHistory, ResetHistory, CacheList

LEMMA PostLocks ==
  ASSUME Base, Locks, gpc \in {"idle", "post"},
         CacheCollection \/ PasteHistory \/ ResetHistory
  PROVE  Locks'
BY PostCases, AddJobLocks, NotCachedLocks

LEMMA HelpLocks ==
  ASSUME Base, Locks, Help
  PROVE  Locks'
<1>1. \A w \in Workers : pc[w] \in Using => gen'[job[w]] = gen[job[w]]
  <2>1. CASE UNCHANGED gen
    BY <2>1
  <2>2. CASE Helpers(posting) = {Gui} /\ ForgetList(posting)
    <3>1. \A v \in Workers : job[v] = posting => pc[v] = "idle"
      BY <2>2, ThumbnailJobsAssumption DEF Helpers
    <3> QED BY <2>2, <3>1 DEF ForgetList, Using, Base, Types, ListType, WorkerType
  <2> QED BY <2>1, <2>2 DEF Help
<1> QED BY <1>1, QuietLocks DEF Help, dbVars, workerVars

LEMMA OtherLocks ==
  ASSUME Base, Locks,
         \/ WriteThumbnail \/ Loaded
         \/ gpc = "idle" /\ (WriteConfig \/ Load \/ RemoveSelected)
  PROVE  Locks'
BY QuietLocks DEF WriteThumbnail, Loaded, WriteConfig, Load, RemoveSelected,
                  dbVars, listVars, workerVars, guiVars

LEMMA AbortLocks ==
  ASSUME Base, Locks,
         \/ gpc = "idle" /\ Abort
         \/ AbortLock \/ AbortUnlock \/ DbCleanup \/ DbOpen
  PROVE  Locks'
<1>1. UNCHANGED <<pc, gid, job, gen>>
  BY DEF Abort, AbortLock, AbortUnlock, DbCleanup, DbOpen, workerVars, listVars
<1>2. \A w \in Workers : w # None /\ w # Gui /\ gid[w] \in Gids
  BY ThumbnailJobsAssumption DEF Base, Types, WorkerType
<1>3. None # Gui
  BY ThumbnailJobsAssumption
<1>4. CASE gpc = "idle" /\ Abort
  BY <1>1, <1>4 DEF Abort, Locks, Gids, dbVars
<1>5. CASE AbortLock
  <2>1. \A g \in Gids : graph_lock'[g] = IF g = gnext THEN Gui ELSE graph_lock[g]
    BY <1>5 DEF AbortLock, Base, Types, WorkerType, GuiType
  <2>2. \A w \in Workers : pc[w] \in Using => gid[w] # gnext
    BY <1>2, <1>5 DEF AbortLock, Locks
  <2>3. \A g \in Gids : graph_lock'[g] = Gui <=> (gpc' = "lock" /\ g < gnext') \/ gpc' = "unlock"
    BY <1>5, <2>1 DEF AbortLock, Locks, Gids, Base, Types, GuiType
  <2> QED BY <1>1, <1>2, <1>5, <2>1, <2>2, <2>3 DEF AbortLock, Locks, dbVars
<1>6. CASE AbortUnlock
  <2>1. \A w \in Workers : pc[w] \notin Using
    BY <1>2, <1>6 DEF AbortUnlock, Locks
  <2> QED BY <1>1, <1>2, <1>3, <1>6, <2>1 DEF AbortUnlock, Locks
<1>7. CASE DbCleanup
  BY <1>1, <1>7 DEF DbCleanup, Locks
<1>8. CASE DbOpen
  BY <1>1, <1>8 DEF DbOpen, Locks
<1> QED BY <1>4, <1>5, <1>6, <1>7, <1>8

LEMMA StepLocks ==
  ASSUME Base, Locks, Next
  PROVE  Locks'
<1>1. CASE GuiStep
  BY <1>1, HelpLocks, OtherLocks, AbortLocks, PostLocks DEF GuiStep
<1>2. CASE User
  BY <1>2, OtherLocks, AbortLocks, PostLocks DEF User
<1>3. CASE \E w \in Workers : WorkerStep(w)
  BY <1>3, WorkerLocks
<1> QED BY <1>1, <1>2, <1>3 DEF Next

LEMMA AlwaysLocks == Spec => []Locks
<1>1. Init => Locks
  BY ThumbnailJobsAssumption DEF Init, Locks, Using
<1>2. Base /\ Locks /\ [Next]_vars => Locks'
  <2>1. Base /\ Locks /\ UNCHANGED vars => Locks'
    BY DEF vars, dbVars, listVars, workerVars, guiVars, Locks
  <2> QED BY <2>1, StepLocks
<1> QED BY <1>1, <1>2, AlwaysBase, PTL DEF Spec

\* No worker looks up or changes an image of a database that is closed, or of
\* another one than its list was made for, whatever aborts and openings come
\* between (dt_thumbnails_cache_abort and the time stamps it changes).
THEOREM ThumbnailDbSafe == Spec => []DbSafe
<1>1. Base /\ Locks => DbSafe
  BY DEF Base, Locks, Stamps, DbSafe
<1> QED BY <1>1, AlwaysBase, AlwaysLocks, PTL

\* dt_thumbnails_cache_abort never waits for itself or for a lock that was
\* left behind, only for a worker that is busy with an item.
THEOREM ThumbnailAbortWaits == Spec => []AbortWaitsForRender
<1>1. Base /\ Locks => AbortWaitsForRender
  <2>1. SUFFICES ASSUME Base, Locks, gpc = "lock"
                 PROVE  \/ graph_lock[gnext] = None
                        \/ \E w \in Workers : graph_lock[gnext] = w /\ gid[w] = gnext
                                               /\ pc[w] \in Using
    BY DEF AbortWaitsForRender
  <2>2. gnext \in Gids /\ gnext \in Nat /\ graph_lock[gnext] \in Workers \cup {Gui, None}
    BY <2>1 DEF Base, Types, GuiType, WorkerType, Gids
  <2>3. graph_lock[gnext] # Gui
    BY <2>1, <2>2 DEF Locks
  <2> QED BY <2>1, <2>2, <2>3 DEF Locks
<1> QED BY <1>1, AlwaysBase, AlwaysLocks, PTL
-----------------------------------------------------------------------------
(****************************************************************************)
(* Counts: no item of a list is lost or done twice                          *)
(****************************************************************************)
\* The items of a list that were handed out are done or with a worker.
Holders(l) == {w \in Workers : Holds(w) /\ job[w] = l}
Total(l) == IF work_item[l] <= Len(coll[l]) THEN work_item[l] ELSE Len(coll[l])

Counts ==
  \A l \in Lists :
    /\ done[l] + Cardinality(Holders(l)) = Total(l)
    /\ freed[l] => done[l] >= Len(coll[l])
    /\ Helpers(l) = {} => work_item[l] = 0 /\ done[l] = 0 /\ ~freed[l] /\ coll[l] = <<>>

LEMMA WorkerSets ==
  ASSUME NEW S \in SUBSET Workers
  PROVE  /\ Cardinality(S) \in Nat /\ (Cardinality(S) = 0 <=> S = {})
         /\ \A w \in Workers \ S : Cardinality(S \cup {w}) = Cardinality(S) + 1
         /\ \A w \in S : Cardinality(S \ {w}) = Cardinality(S) - 1
<1>1. IsFiniteSet(S)
  BY FS_Subset, ThumbnailJobsAssumption
<1>2. Cardinality(S) \in Nat /\ (Cardinality(S) = 0 <=> S = {})
  BY <1>1, FS_CardinalityType, FS_EmptySet
<1>3. \A w \in Workers \ S : Cardinality(S \cup {w}) = Cardinality(S) + 1
  BY <1>1, FS_AddElement
<1>4. \A w \in S : Cardinality(S \ {w}) = Cardinality(S) - 1
  BY <1>1, FS_RemoveElement
<1> QED BY <1>2, <1>3, <1>4

LEMMA SameCounts ==
  ASSUME Counts, UNCHANGED <<work_item, done, freed, coll>>,
         \A l \in Lists : Holders(l)' = Holders(l) /\ (Helpers(l)' = {} => Helpers(l) = {})
  PROVE  Counts'
BY DEF Counts, Total

\* One item more is handed out, if there is one.
LEMMA NextTotal ==
  ASSUME Base, NEW w, NEW l \in Lists, NextItem(w, l), UNCHANGED coll
  PROVE  /\ Left(l) => Total(l)' = Total(l) + 1
         /\ ~Left(l) => Total(l)' = Total(l)
         /\ \A k \in Lists \ {l} : Total(k)' = Total(k)
<1>1. work_item[l] \in Nat /\ Len(coll[l]) \in Nat
  BY Values DEF Base
<1>2. \A k \in Lists : work_item'[k] = IF k = l THEN work_item[l] + 1 ELSE work_item[k]
  BY DEF NextItem, Base, Types, ListType
<1>3. \A k \in Lists \ {l} : Total(k)' = Total(k)
  BY <1>2 DEF Total
<1>4. Left(l) => Total(l)' = Total(l) + 1
  BY <1>1, <1>2 DEF Total, Left
<1>5. ~Left(l) => Total(l)' = Total(l)
  BY <1>1, <1>2 DEF Total, Left
<1> QED BY <1>3, <1>4, <1>5

LEMMA NextHolds ==
  ASSUME Base, NEW w \in Workers, NEW l \in Lists, NextItem(w, l)
  PROVE  /\ Holds(w)' <=> Left(l)
         /\ pc'[w] # "idle"
         /\ \A v \in Workers \ {w} : pc'[v] = pc[v]
BY DEF Base, Types, WorkerType, NextItem, Goto, Holds, Using

\* A list with items that are still to be handed out has a job: whoever left
\* it found none, and where the second job is refused there is the first.
Manned == \A l \in Lists : Left(l) => (\E t \in avail : t[1] = l) \/ Holders(l) # {}

LEMMA NextManned ==
  ASSUME Base, Manned, NEW w \in Workers, NEW l \in Lists, NextItem(w, l), job'[w] = l,
         \A v \in Workers \ {w} : job'[v] = job[v],
         Holds(w) => job[w] = l, UNCHANGED coll,
         \A t \in avail : t[1] # l => t \in avail'
  PROVE  Manned'
<1>1. ASSUME NEW k \in Lists, Left(k)'
      PROVE  (\E t \in avail' : t[1] = k) \/ Holders(k)' # {}
  <2>1. work_item[k] \in Nat /\ Len(coll[k]) \in Nat
    BY Values DEF Base
  <2>2. work_item'[k] = IF k = l THEN work_item[k] + 1 ELSE work_item[k]
    BY DEF NextItem, Base, Types, ListType
  <2>3. Left(k)
    BY <1>1, <2>1, <2>2 DEF Left
  <2>4. CASE k = l
    <3>1. w \in Holders(k)'
      BY <2>3, <2>4, NextHolds DEF Holders
    <3> QED BY <3>1
  <2>5. CASE k # l
    <3>1. CASE \E t \in avail : t[1] = k
      BY <2>5, <3>1
    <3>2. CASE Holders(k) # {}
      <4>1. PICK v \in Workers : Holds(v) /\ job[v] = k
        BY <3>2 DEF Holders
      <4>2. v # w
        BY <2>5, <4>1
      <4>3. v \in Holders(k)'
        BY <4>1, <4>2, NextHolds DEF Holders, Holds
      <4> QED BY <4>3
    <3> QED BY <2>3, <3>1, <3>2 DEF Manned
  <2> QED BY <2>4, <2>5
<1> QED BY <1>1 DEF Manned

LEMMA SameManned ==
  ASSUME Manned, avail \subseteq avail',
         \A w \in Workers : Holds(w) => Holds(w)' /\ job'[w] = job[w],
         \A l \in Lists : Left(l)' => Left(l) \/ \E t \in avail' : t[1] = l
  PROVE  Manned'
<1>1. \A l \in Lists : Holders(l) # {} => Holders(l)' # {}
  BY DEF Holders
<1> QED BY <1>1 DEF Manned

LEMMA ForgetLeft ==
  ASSUME Base, NEW n \in Lists, ForgetList(n)
  PROVE  \A l \in Lists : Left(l)' => Left(l)
<1>1. \A l \in Lists \ {n} : coll'[l] = coll[l] /\ work_item'[l] = work_item[l]
  BY DEF ForgetList, Base, Types, ListType
<1>2. coll'[n] = <<>> /\ work_item'[n] = 0
  BY DEF ForgetList, Base, Types, ListType
<1>3. Len(coll'[n]) = 0
  BY <1>2
<1>4. ~Left(n)'
  BY <1>2, <1>3 DEF Left
<1> QED BY <1>1, <1>4 DEF Left

LEMMA WorkerManned ==
  ASSUME Base, Manned, NEW w \in Workers, WorkerStep(w)
  PROVE  Manned'
<1>1. CASE Take(w)
  <2>1. PICK t \in avail : /\ avail' = avail \ {t}
                           /\ job' = [job EXCEPT ![w] = t[1]]
                           /\ NextItem(w, t[1])
    BY <1>1 DEF Take
  <2>2. t[1] \in Lists /\ job'[w] = t[1] /\ \A v \in Workers \ {w} : job'[v] = job[v]
    BY <2>1 DEF Base, Types, ListType, WorkerType
  <2>3. ~Holds(w) /\ UNCHANGED coll
    BY <1>1 DEF Take, Holds, Using, listVars
  <2> QED BY <2>1, <2>2, <2>3, NextManned
<1>2. CASE Stale(w) \/ Reset(w)
  <2>1. PICK l \in Lists : l = job[w]
    BY DEF Base, Types, WorkerType
  <2>2. NextItem(w, l) /\ UNCHANGED <<avail, job, coll>>
    BY <1>2, <2>1 DEF Stale, Reset, listVars
  <2> QED BY <2>1, <2>2, NextManned
<1>3. CASE FreeColl(w)
  <2>1. PICK n \in Lists : n = job[w]
    BY DEF Base, Types, WorkerType
  <2>2. /\ UNCHANGED avail
        /\ \A v \in Workers : Holds(v) => Holds(v)' /\ job'[v] = job[v]
    BY <1>3 DEF FreeColl, Goto, Holds, Using, Base, Types, WorkerType
  <2>3. CASE ForgetList(n)
    BY <2>2, <2>3, ForgetLeft, SameManned
  <2>4. CASE UNCHANGED <<coll, work_item>>
    BY <2>2, <2>4, SameManned DEF Left
  <2> QED BY <1>3, <2>1, <2>3, <2>4 DEF FreeColl
<1>4. CASE Lock(w) \/ Stat(w) \/ Render(w) \/ Write(w)
  <2>1. UNCHANGED <<avail, coll, work_item, job>>
    BY <1>4 DEF Lock, Stat, Render, Write, listVars, poolVars
  <2>2. \A v \in Workers : Holds(v) => Holds(v)'
    BY <1>4 DEF Lock, Stat, Render, Write, Goto, Holds, Using, Base, Types, WorkerType
  <2> QED BY <2>1, <2>2, SameManned DEF Left
<1> QED BY <1>1, <1>2, <1>3, <1>4 DEF WorkerStep

LEMMA HelpManned ==
  ASSUME Base, Manned, Help
  PROVE  Manned'
<1>1. avail \subseteq avail' /\ UNCHANGED <<pc, job>> /\ posting \in Lists
  BY DEF Help, workerVars, Base, Types, ListType
<1>2. CASE ForgetList(posting)
  BY <1>1, <1>2, ForgetLeft, SameManned DEF Holds
<1>3. CASE UNCHANGED <<coll, work_item>>
  BY <1>1, <1>3, SameManned DEF Left, Holds
<1> QED BY <1>2, <1>3 DEF Help

LEMMA PostManned ==
  ASSUME Base, Manned, CacheCollection \/ PasteHistory \/ ResetHistory
  PROVE  Manned'
<1>1. CASE \E sel : AddJob(sel)
  <2>0. PICK sel : AddJob(sel)
    BY <1>1
  <2>1. PICK l \in Lists :
           /\ coll' = [coll EXCEPT ![l] = SetToSeq(sel)]
           /\ avail' = avail \cup {<<l, 0>>}
           /\ UNCHANGED <<pc, job, work_item>>
    BY <2>0 DEF AddJob, restVars, workerVars
  <2>2. \A k \in Lists : Left(k)' => Left(k) \/ \E t \in avail' : t[1] = k
    <3>1. \A k \in Lists \ {l} : coll'[k] = coll[k]
      BY <2>1 DEF Base, Types, ListType
    <3>2. <<l, 0>> \in avail' /\ <<l, 0>>[1] = l
      BY <2>1
    <3>3. \A k \in Lists \ {l} : Left(k)' => Left(k)
      BY <2>1, <3>1 DEF Left
    <3> QED BY <3>2, <3>3
  <2> QED BY <2>1, <2>2, SameManned DEF Holds
<1>2. CASE \E edited : NotCached(edited)
  <2>1. UNCHANGED <<avail, coll, work_item, pc, job>>
    BY <1>2 DEF NotCached, restVars, listVars, workerVars
  <2> QED BY <2>1, SameManned DEF Left, Holds
<1> QED BY <1>1, <1>2, PostCases

LEMMA OtherManned ==
  ASSUME Manned,
         \/ WriteThumbnail \/ Loaded \/ AbortLock \/ AbortUnlock \/ DbCleanup \/ DbOpen
         \/ WriteConfig \/ Load \/ RemoveSelected \/ Abort \/ UNCHANGED vars
  PROVE  Manned'
<1>1. UNCHANGED <<work_item, coll, avail, pc, job>>
  BY DEF WriteThumbnail, Loaded, AbortLock, AbortUnlock, DbCleanup, DbOpen, WriteConfig, Load,
         RemoveSelected, Abort, vars, listVars, poolVars, workerVars
<1> QED BY <1>1, SameManned DEF Left, Holds

LEMMA AlwaysManned == Spec => []Manned
<1>1. Init => Manned
  <2>1. SUFFICES ASSUME Init, NEW l \in Lists PROVE ~Left(l)
    BY DEF Manned
  <2>2. coll[l] = <<>> /\ work_item[l] = 0
    BY <2>1 DEF Init
  <2> QED BY <2>2 DEF Left
<1>2. Base /\ Manned /\ [Next]_vars => Manned'
  <2>1. Base /\ Manned /\ GuiStep => Manned'
    BY HelpManned, PostManned, OtherManned DEF GuiStep
  <2>2. Base /\ Manned /\ User => Manned'
    BY PostManned, OtherManned DEF User
  <2> QED BY <2>1, <2>2, WorkerManned, OtherManned DEF Next
<1> QED BY <1>1, <1>2, AlwaysBase, PTL DEF Spec

LEMMA TakeCounts ==
  ASSUME Base, Counts, NEW w \in Workers, Take(w)
  PROVE  Counts'
<1>1. PICK t \in avail : /\ avail' = avail \ {t}
                         /\ job' = [job EXCEPT ![w] = t[1]]
                         /\ NextItem(w, t[1])
  BY DEF Take
<1>2. t[1] \in Lists
  BY DEF Base, Types, ListType
<1>3. /\ pc[w] = "idle" /\ ~Holds(w)
      /\ UNCHANGED <<done, freed, coll, posting, gpc>>
  BY DEF Take, Holds, Using, listVars, guiVars
<1>4. \A v \in Workers : job'[v] = IF v = w THEN t[1] ELSE job[v]
  BY <1>1 DEF Base, Types, WorkerType
<1>5. /\ Holds(w)' <=> Left(t[1])
      /\ pc'[w] # "idle"
      /\ \A v \in Workers \ {w} : pc'[v] = pc[v]
  BY <1>1, <1>2, NextHolds
<1>6. /\ Left(t[1]) => Total(t[1])' = Total(t[1]) + 1
      /\ ~Left(t[1]) => Total(t[1])' = Total(t[1])
      /\ \A k \in Lists \ {t[1]} : Total(k)' = Total(k)
  BY <1>1, <1>2, <1>3, NextTotal
<1>7. ASSUME NEW l \in Lists
      PROVE  done'[l] + Cardinality(Holders(l)') = Total(l)'
  <2>1. done[l] + Cardinality(Holders(l)) = Total(l) /\ done[l] \in Nat
    BY Values DEF Counts, Base
  <2>2. Holders(l) \in SUBSET Workers /\ w \notin Holders(l)
    BY <1>3 DEF Holders
  <2>3. CASE l = t[1] /\ Left(l)
    <3>1. Holders(l)' = Holders(l) \cup {w}
      BY <1>3, <1>4, <1>5, <2>3 DEF Holders, Holds
    <3> QED BY <1>3, <1>6, <2>1, <2>2, <2>3, <3>1, WorkerSets
  <2>4. CASE l # t[1] \/ ~Left(l)
    <3>1. Holders(l)' = Holders(l)
      BY <1>3, <1>4, <1>5, <2>4 DEF Holders, Holds
    <3> QED BY <1>3, <1>6, <2>1, <2>4, <3>1
  <2> QED BY <2>3, <2>4
<1>8. ASSUME NEW l \in Lists, Helpers(l)' = {}
      PROVE  work_item'[l] = 0 /\ done'[l] = 0 /\ ~freed'[l] /\ coll'[l] = <<>>
  <2>1. l # t[1]
    BY <1>4, <1>5, <1>8 DEF Helpers
  <2>2. Helpers(l) = {}
    BY <1>1, <1>3, <1>4, <1>5, <1>8, <2>1 DEF Helpers
  <2>3. work_item'[l] = work_item[l]
    BY <1>1, <1>2, <2>1 DEF NextItem, Base, Types, ListType
  <2> QED BY <1>3, <2>2, <2>3 DEF Counts
<1> QED BY <1>3, <1>7, <1>8 DEF Counts

LEMMA ItemDoneCounts ==
  ASSUME Base, Counts, NEW w \in Workers, Stale(w) \/ Reset(w)
  PROVE  Counts'
<1>0. PICK n \in Lists : n = job[w]
  BY DEF Base, Types, WorkerType
<1>1. /\ NextItem(w, n) /\ done' = [done EXCEPT ![n] = @ + 1]
      /\ Holds(w)
      /\ UNCHANGED <<freed, coll, posting, gpc, avail, job>>
  BY <1>0 DEF Stale, Reset, CountDone, Holds, Using, listVars, guiVars
<1>3. /\ Holds(w)' <=> Left(n)
      /\ pc'[w] # "idle"
      /\ \A v \in Workers \ {w} : pc'[v] = pc[v]
  BY <1>1, NextHolds
<1>4. /\ Left(n) => Total(n)' = Total(n) + 1
      /\ ~Left(n) => Total(n)' = Total(n)
      /\ \A k \in Lists \ {n} : Total(k)' = Total(k)
  BY <1>1, NextTotal
<1>5. \A l \in Lists : done[l] \in Nat /\ done'[l] = IF l = n THEN done[l] + 1 ELSE done[l]
  BY <1>1 DEF Base, Types, ListType
<1>6. ASSUME NEW l \in Lists
      PROVE  done'[l] + Cardinality(Holders(l)') = Total(l)'
  <2>1. done[l] + Cardinality(Holders(l)) = Total(l)
    BY DEF Counts
  <2>2. Holders(l) \in SUBSET Workers /\ Cardinality(Holders(l)) \in Nat
    BY WorkerSets DEF Holders
  <2>3. CASE l = n /\ ~Left(l)
    <3>1. Holders(l)' = Holders(l) \ {w} /\ w \in Holders(l)
      BY <1>0, <1>1, <1>3, <2>3 DEF Holders, Holds
    <3> QED BY <1>4, <1>5, <2>1, <2>2, <2>3, <3>1, WorkerSets
  <2>4. CASE l # n \/ Left(l)
    <3>1. Holders(l)' = Holders(l)
      BY <1>0, <1>1, <1>3, <2>4 DEF Holders, Holds
    <3> QED BY <1>4, <1>5, <2>1, <2>2, <2>4, <3>1
  <2> QED BY <2>3, <2>4
<1>7. ASSUME NEW l \in Lists, Helpers(l)' = {}
      PROVE  work_item'[l] = 0 /\ done'[l] = 0 /\ ~freed'[l] /\ coll'[l] = <<>>
  <2>1. l # n
    BY <1>0, <1>1, <1>3, <1>7 DEF Helpers
  <2>2. pc[w] # "idle"
    BY <1>1 DEF Holds, Using
  <2>3. Helpers(l) = {}
    BY <1>0, <1>1, <1>3, <1>7, <2>1, <2>2 DEF Helpers
  <2>4. work_item'[l] = work_item[l]
    BY <1>1, <2>1 DEF NextItem, Base, Types, ListType
  <2> QED BY <1>1, <1>5, <2>1, <2>3, <2>4 DEF Counts
<1>8. \A l \in Lists : freed'[l] => done'[l] >= Len(coll'[l])
  BY <1>1, <1>5, Values DEF Counts, Base
<1> QED BY <1>6, <1>7, <1>8 DEF Counts

LEMMA WorkCounts ==
  ASSUME Base, Counts, NEW w \in Workers, Lock(w) \/ Stat(w) \/ Render(w) \/ Write(w)
  PROVE  Counts'
<1>1. /\ UNCHANGED <<work_item, done, freed, coll, posting, gpc, avail, job>>
      /\ Holds(w) /\ Holds(w)' /\ pc[w] # "idle" /\ pc'[w] # "idle"
      /\ \A v \in Workers \ {w} : pc'[v] = pc[v]
  BY DEF Lock, Stat, Render, Write, Goto, Using, Holds, listVars, poolVars, guiVars,
         Base, Types, WorkerType
<1>2. ASSUME NEW l \in Lists
      PROVE  Holders(l)' = Holders(l) /\ (Helpers(l)' = {} => Helpers(l) = {})
  <2>1. Holders(l)' = Holders(l)
    BY <1>1 DEF Holders, Holds
  <2>2. Helpers(l)' = Helpers(l)
    BY <1>1 DEF Helpers
  <2> QED BY <2>1, <2>2
<1> QED BY <1>1, <1>2, SameCounts

\* A list nobody works on any more starts again.
LEMMA ForgetCounts ==
  ASSUME Base, NEW l \in Lists, ForgetList(l)
  PROVE  /\ done'[l] = 0 /\ work_item'[l] = 0 /\ freed'[l] = FALSE /\ coll'[l] = <<>>
         /\ Total(l)' = 0
         /\ \A k \in Lists \ {l} : /\ done'[k] = done[k] /\ freed'[k] = freed[k]
                                   /\ work_item'[k] = work_item[k] /\ coll'[k] = coll[k]
                                   /\ Total(k)' = Total(k)
<1>1. /\ done'[l] = 0 /\ work_item'[l] = 0 /\ freed'[l] = FALSE /\ coll'[l] = <<>>
      /\ \A k \in Lists \ {l} : /\ done'[k] = done[k] /\ freed'[k] = freed[k]
                                /\ work_item'[k] = work_item[k] /\ coll'[k] = coll[k]
  BY DEF ForgetList, Base, Types, ListType
<1>2. Len(<<>>) = 0
  OBVIOUS
<1> QED BY <1>1, <1>2 DEF Total

LEMMA FreeCounts ==
  ASSUME Base, Counts, NEW w \in Workers, FreeColl(w)
  PROVE  Counts'
<1>0. PICK n \in Lists : n = job[w]
  BY DEF Base, Types, WorkerType
<1>1. /\ pc[w] = "free" /\ AllDone(n)
      /\ UNCHANGED <<posting, gpc, avail>>
  BY <1>0 DEF FreeColl, guiVars
<1>2. /\ pc'[w] = "idle"
      /\ \A v \in Workers \ {w} : pc'[v] = pc[v] /\ job'[v] = job[v]
  BY DEF FreeColl, Goto, Base, Types, WorkerType
<1>3. \A l \in Lists : Holders(l)' = Holders(l)
  BY <1>0, <1>1, <1>2 DEF Holders, Holds, Using
<1>4. \A l \in Lists \ {n} : Helpers(l)' = Helpers(l)
  BY <1>0, <1>1, <1>2 DEF Helpers
<1>5. CASE Helpers(n) = {w}
  <2>1. Holders(n) = {}
    BY <1>0, <1>1, <1>5 DEF Holders, Helpers, Holds, Using
  <2>2. Cardinality(Holders(n)') = 0
    BY <1>1, <1>3, <2>1, WorkerSets
  <2>3. ForgetList(n)
    BY <1>0, <1>5 DEF FreeColl
  <2>4. ASSUME NEW l \in Lists
        PROVE  /\ done'[l] + Cardinality(Holders(l)') = Total(l)'
               /\ freed'[l] => done'[l] >= Len(coll'[l])
               /\ Helpers(l)' = {} => work_item'[l] = 0 /\ done'[l] = 0 /\ ~freed'[l] /\ coll'[l] = <<>>
    <3>1. CASE l = n
      <4>1. /\ done'[n] = 0 /\ work_item'[n] = 0 /\ freed'[n] = FALSE /\ coll'[n] = <<>>
            /\ Total(n)' = 0
        BY <2>3, ForgetCounts
      <4>2. done'[n] + Cardinality(Holders(n)') = Total(n)'
        BY <2>2, <4>1
      <4>3. Len(coll'[n]) = 0
        BY <4>1
      <4>4. freed'[n] => done'[n] >= Len(coll'[n])
        BY <4>1, <4>3
      <4> QED BY <3>1, <4>1, <4>2, <4>4, Zenon
    <3>2. CASE l # n
      <4>1. /\ done'[l] = done[l] /\ freed'[l] = freed[l] /\ Total(l)' = Total(l)
            /\ work_item'[l] = work_item[l] /\ coll'[l] = coll[l]
        BY <2>3, <3>2, ForgetCounts
      <4>2. Holders(l)' = Holders(l) /\ (Helpers(l)' = {} => Helpers(l) = {})
        BY <1>3, <1>4, <3>2
      <4> QED BY <4>1, <4>2 DEF Counts
    <3> QED BY <3>1, <3>2
  <2> QED BY <2>4 DEF Counts
<1>6. CASE Helpers(n) # {w}
  <2>1. /\ UNCHANGED <<coll, work_item, done>>
        /\ \A l \in Lists : freed'[l] => freed[l] \/ l = n
    BY <1>0, <1>6 DEF FreeColl, Base, Types, ListType
  <2>2. Helpers(n)' # {}
    <3>1. w \in Helpers(n)
      BY <1>0, <1>1 DEF Helpers
    <3>2. PICK h \in Helpers(n) : h # w
      BY <1>6, <3>1
    <3>3. h \in Helpers(n)'
      BY <1>0, <1>1, <1>2, <3>2 DEF Helpers
    <3> QED BY <3>3
  <2>3. \A l \in Lists : Total(l)' = Total(l)
    BY <2>1 DEF Total
  <2>4. ASSUME NEW l \in Lists
        PROVE  /\ done'[l] + Cardinality(Holders(l)') = Total(l)'
               /\ freed'[l] => done'[l] >= Len(coll'[l])
               /\ Helpers(l)' = {} => work_item'[l] = 0 /\ done'[l] = 0 /\ ~freed'[l] /\ coll'[l] = <<>>
    BY <1>1, <1>3, <1>4, <2>1, <2>2, <2>3 DEF Counts, AllDone
  <2> QED BY <2>4 DEF Counts
<1> QED BY <1>5, <1>6

LEMMA HelpCounts ==
  ASSUME Base, Counts, Manned, Help
  PROVE  Counts'
<1>0. PICK n \in Lists : n = posting
  BY DEF Base, Types, ListType
<1>1. /\ gpc = "help" /\ gpc' = "idle" /\ UNCHANGED <<pc, job>>
      /\ avail \subseteq avail' /\ avail' \subseteq avail \cup {<<n, 1>>}
  BY <1>0 DEF Help, workerVars
<1>2. \A l \in Lists : Holders(l)' = Holders(l)
  BY <1>1 DEF Holders, Holds
<1>3. \A l \in Lists \ {n} : Helpers(l)' = {} => Helpers(l) = {}
  BY <1>0, <1>1 DEF Helpers
<1>4. CASE Helpers(n) = {Gui} /\ ForgetList(n)
  <2>1. Holders(n) = {}
    BY <1>4, ThumbnailJobsAssumption DEF Holders, Helpers, Holds, Using
  <2>2. Cardinality(Holders(n)') = 0
    BY <1>1, <1>2, <2>1, WorkerSets
  <2>3. ASSUME NEW l \in Lists
        PROVE  /\ done'[l] + Cardinality(Holders(l)') = Total(l)'
               /\ freed'[l] => done'[l] >= Len(coll'[l])
               /\ Helpers(l)' = {} => work_item'[l] = 0 /\ done'[l] = 0 /\ ~freed'[l] /\ coll'[l] = <<>>
    <3>1. CASE l = n
      <4>1. /\ done'[n] = 0 /\ work_item'[n] = 0 /\ freed'[n] = FALSE /\ coll'[n] = <<>>
            /\ Total(n)' = 0
        BY <1>4, ForgetCounts
      <4>2. done'[n] + Cardinality(Holders(n)') = Total(n)'
        BY <2>2, <4>1
      <4>3. Len(coll'[n]) = 0
        BY <4>1
      <4>4. freed'[n] => done'[n] >= Len(coll'[n])
        BY <4>1, <4>3
      <4> QED BY <3>1, <4>1, <4>2, <4>4, Zenon
    <3>2. CASE l # n
      <4>1. /\ done'[l] = done[l] /\ freed'[l] = freed[l] /\ Total(l)' = Total(l)
            /\ work_item'[l] = work_item[l] /\ coll'[l] = coll[l]
        BY <1>4, <3>2, ForgetCounts
      <4>2. Holders(l)' = Holders(l) /\ (Helpers(l)' = {} => Helpers(l) = {})
        BY <1>2, <1>3, <3>2
      <4> QED BY <4>1, <4>2 DEF Counts
    <3> QED BY <3>1, <3>2
  <2> QED BY <2>3 DEF Counts
<1>5. CASE /\ Left(n) \/ Helpers(n) # {Gui}
           /\ UNCHANGED <<coll, work_item, done, freed>>
  <2>1. Helpers(n)' # {}
    <3>1. CASE Left(n)
      <4>1. CASE \E t \in avail : t[1] = n
        BY <1>1, <4>1 DEF Helpers
      <4>2. CASE Holders(n) # {}
        BY <1>1, <4>2 DEF Helpers, Holders, Holds, Using
      <4> QED BY <3>1, <4>1, <4>2 DEF Manned
    <3>2. CASE Helpers(n) # {Gui}
      <4>1. Gui \in Helpers(n)
        BY <1>0, <1>1 DEF Helpers
      <4>2. PICK h \in Helpers(n) : h # Gui
        BY <3>2, <4>1
      <4>3. h \in Helpers(n)'
        BY <1>0, <1>1, <4>2 DEF Helpers
      <4> QED BY <4>3
    <3> QED BY <1>5, <3>1, <3>2
  <2> QED BY <1>2, <1>3, <1>5, <2>1, SameCounts
<1> QED BY <1>0, <1>4, <1>5 DEF Help

LEMMA AddJobCounts ==
  ASSUME Base, Counts, gpc # "help", NEW sel, AddJob(sel)
  PROVE  Counts'
<1>1. PICK l \in Lists :
        /\ Helpers(l) = {}
        /\ posting' = l
        /\ coll' = [coll EXCEPT ![l] = SetToSeq(sel)]
        /\ avail' = avail \cup {<<l, 0>>}
        /\ gpc' = "help"
        /\ UNCHANGED <<work_item, done, freed, workerVars>>
  BY DEF AddJob, restVars
<1>2. UNCHANGED <<pc, job>>
  BY <1>1 DEF workerVars
<1>3. \A k \in Lists : Holders(k)' = Holders(k)
  BY <1>2 DEF Holders, Holds
<1>4. work_item[l] = 0 /\ done[l] = 0 /\ ~freed[l] /\ coll[l] = <<>> /\ Cardinality(Holders(l)) = 0
  <2>1. Holders(l) = {}
    BY <1>1 DEF Holders, Helpers, Holds, Using
  <2> QED BY <1>1, <2>1, WorkerSets DEF Counts
<1>5. Len(coll'[l]) \in Nat
  BY DEF Base, Types, ListType
<1>6. \A k \in Lists \ {l} : coll'[k] = coll[k] /\ (Helpers(k)' = {} => Helpers(k) = {})
  BY <1>1, <1>2 DEF Helpers, Base, Types, ListType
<1>7. Helpers(l)' # {}
  <2>1. Gui \in Helpers(l)'
    BY <1>1 DEF Helpers
  <2> QED BY <2>1
<1>8. ASSUME NEW k \in Lists
      PROVE  /\ done'[k] + Cardinality(Holders(k)') = Total(k)'
             /\ freed'[k] => done'[k] >= Len(coll'[k])
             /\ Helpers(k)' = {} => work_item'[k] = 0 /\ done'[k] = 0 /\ ~freed'[k] /\ coll'[k] = <<>>
  <2>1. CASE k = l
    BY <1>1, <1>3, <1>4, <1>5, <1>7, <2>1 DEF Total
  <2>2. CASE k # l
    BY <1>1, <1>3, <1>6, <2>2 DEF Counts, Total
  <2> QED BY <2>1, <2>2
<1> QED BY <1>8 DEF Counts

LEMMA NotCachedCounts ==
  ASSUME Base, Counts, gpc # "help", NEW edited, NotCached(edited)
  PROVE  Counts'
<1>1. /\ UNCHANGED <<work_item, done, freed, coll, posting, avail, pc, job>>
      /\ gpc' # "help"
  BY DEF NotCached, restVars, listVars, workerVars
<1>2. \A l \in Lists : Holders(l)' = Holders(l) /\ Helpers(l)' = Helpers(l)
  BY <1>1 DEF Holders, Holds, Helpers
<1> QED BY <1>1, <1>2, SameCounts

LEMMA PostCounts ==
  ASSUME Base, Counts, gpc # "help", CacheCollection \/ PasteHistory \/ ResetHistory
  PROVE  Counts'
BY PostCases, AddJobCounts, NotCachedCounts

LEMMA OtherCounts ==
  ASSUME Base, Counts,
         \/ WriteThumbnail \/ Loaded \/ AbortLock \/ AbortUnlock \/ DbCleanup \/ DbOpen
         \/ gpc = "idle" /\ (WriteConfig \/ Load \/ RemoveSelected \/ Abort)
  PROVE  Counts'
<1>1. /\ UNCHANGED <<work_item, done, freed, coll, posting, avail, pc, job>>
      /\ gpc # "help" /\ gpc' # "help"
  BY DEF WriteThumbnail, Loaded, AbortLock, AbortUnlock, DbCleanup, DbOpen, WriteConfig, Load,
         RemoveSelected, Abort, listVars, poolVars, workerVars, guiVars
<1>2. \A l \in Lists : Holders(l)' = Holders(l) /\ Helpers(l)' = Helpers(l)
  BY <1>1 DEF Holders, Holds, Helpers
<1> QED BY <1>1, <1>2, SameCounts

LEMMA StepCounts ==
  ASSUME Base, Base', Counts, Manned, Next
  PROVE  Counts'
<1>1. CASE GuiStep
  BY <1>1, HelpCounts, OtherCounts, PostCounts DEF GuiStep
<1>2. CASE User
  BY <1>2, OtherCounts, PostCounts DEF User
<1>3. CASE \E w \in Workers : WorkerStep(w)
  BY <1>3, TakeCounts, FreeCounts, ItemDoneCounts, WorkCounts DEF WorkerStep
<1> QED BY <1>1, <1>2, <1>3 DEF Next

LEMMA AlwaysCounts == Spec => []Counts
<1>1. Init => Counts
  <2>1. SUFFICES ASSUME Init, NEW l \in Lists
                 PROVE  /\ done[l] + Cardinality(Holders(l)) = Total(l)
                        /\ freed[l] => done[l] >= Len(coll[l])
                        /\ Helpers(l) = {} => work_item[l] = 0 /\ done[l] = 0 /\ ~freed[l] /\ coll[l] = <<>>
    BY DEF Counts
  <2>2. done[l] = 0 /\ work_item[l] = 0 /\ coll[l] = <<>> /\ freed[l] = FALSE
    BY <2>1 DEF Init
  <2>3. Holders(l) = {}
    BY <2>1 DEF Init, Holders, Holds, Using
  <2>4. Cardinality(Holders(l)) = 0
    BY <2>3, WorkerSets
  <2> QED BY <2>2, <2>4 DEF Total
<1>2. Base /\ Base' /\ Counts /\ Manned /\ [Next]_vars => Counts'
  <2>1. Base /\ Counts /\ UNCHANGED vars => Counts'
    <3>1. SUFFICES ASSUME Base, Counts, UNCHANGED vars
                   PROVE  Counts'
      OBVIOUS
    <3>2. UNCHANGED <<work_item, done, freed, coll, posting, avail, pc, job, gpc>>
      BY <3>1 DEF vars, listVars, poolVars, workerVars, guiVars
    <3>3. \A l \in Lists : Holders(l)' = Holders(l) /\ Helpers(l)' = Helpers(l)
      BY <3>2 DEF Holders, Holds, Helpers
    <3> QED BY <3>1, <3>2, <3>3, SameCounts
  <2> QED BY <2>1, StepCounts
<1> QED BY <1>1, <1>2, AlwaysBase, AlwaysManned, PTL DEF Spec

\* Though the job that frees the ids may be done first, no other job has an
\* item of the list by then (thumbnails.c: thread_free_coll).
THEOREM ThumbnailCollAlive == Spec => []CollAlive
<1>1. Base /\ Counts => CollAlive
  <2>1. SUFFICES ASSUME Base, Counts, NEW w \in Workers, pc[w] \in Using \cup {"lock"},
                        freed[job[w]]
                 PROVE  FALSE
    BY DEF CollAlive
  <2>2. /\ job[w] \in Lists /\ Len(coll[job[w]]) \in Nat /\ work_item[job[w]] \in Nat
        /\ done[job[w]] \in Nat
    BY <2>1, Values DEF Base
  <2>3. done[job[w]] >= Len(coll[job[w]])
    BY <2>1, <2>2 DEF Counts
  <2>4. Total(job[w]) <= Len(coll[job[w]])
    BY <2>2 DEF Total
  <2>5. w \in Holders(job[w])
    BY <2>1 DEF Holders, Holds
  <2>6. Holders(job[w]) \in SUBSET Workers
    BY DEF Holders
  <2>7. Cardinality(Holders(job[w])) \in Nat /\ Cardinality(Holders(job[w])) # 0
    BY <2>5, <2>6, WorkerSets
  <2> QED BY <2>1, <2>2, <2>3, <2>4, <2>7 DEF Counts
<1> QED BY <1>1, AlwaysBase, AlwaysCounts, PTL
-----------------------------------------------------------------------------
(****************************************************************************)
(* Files and Shows: an image shows the thumbnail of its latest edit, or     *)
(* work that is pending will have it shown                                  *)
(****************************************************************************)
\* A list of this database has the photo and it is still to be handed out.
Due(p) ==
  \E l \in Lists : /\ stamp[l] = job_timestamp
                   /\ \E k \in DOMAIN coll[l] : k > work_item[l] /\ image[coll[l][k]] = p

\* A worker will render the photo, or see that it need not.
WorksOn(w, p) ==
  \/ pc[w] = "lock" /\ stamp[job[w]] = job_timestamp /\ image[Id(w)] = p
  \/ pc[w] \in {"stat", "render", "write"} /\ photo[w] = p

Resets(w, p) == pc[w] = "reset" /\ photo[w] = p

Leaving(p) == gpc = "leave" /\ image[gid_loaded] = p

\* Another directory is opened: nothing of it will be in memory.
Reopening == gpc \in {"lock", "unlock", "cleanup", "open"}

Pending(p) == Reopening \/ Due(p) \/ Leaving(p) \/ \E w \in Workers : WorksOn(w, p)
Resetting(p) == \E w \in Workers : Resets(w, p)

\* The file that counts as current shows the last edit, and so will the one
\* that is being written.
Files ==
  /\ \A p \in Photos : p \notin raced \cup broken /\ bc1[p] # None /\ current[p] => bc1[p] = cfg[p]
  /\ \A w \in Workers : pc[w] = "write" /\ photo[w] \notin raced => rendered[w] = cfg[photo[w]]

\* What is not right is about to be put right, on disk if that was asked for.
OnDisk(p) == bc1[p] = cfg[p] \/ Pending(p) \/ p \in uncached
InMemory(v, p) == v \in {None, bc1[p]} \/ bc1[p] = None \/ Pending(p) \/ Resetting(p)

Shows ==
  /\ Reopening => uncached = Photos
  /\ \A i \in 1 .. image_cnt, p \in Photos \ (raced \cup broken) : image[i] = p =>
       /\ OnDisk(p)
       /\ p \notin missed => /\ InMemory(thumbnail[i], p)
                             /\ gpc = "load" /\ gid_loaded = i => InMemory(loaded, p)

LEMMA SameShows ==
  ASSUME Shows,
         UNCHANGED <<image, image_cnt, thumbnail, cfg, bc1, gpc, gid_loaded, loaded>>,
         UNCHANGED uncached,
         raced \subseteq raced', broken \subseteq broken', missed \subseteq missed',
         \A p \in Photos : (Pending(p) => Pending(p)') /\ (Resetting(p) => Resetting(p)')
  PROVE  Shows'
BY DEF Shows, OnDisk, InMemory, Reopening

LEMMA SameFiles ==
  ASSUME Files, UNCHANGED <<bc1, cfg, current>>,
         raced \subseteq raced', broken \subseteq broken',
         \A w \in Workers : pc'[w] = "write" =>
            pc[w] = "write" /\ photo'[w] = photo[w] /\ rendered'[w] = rendered[w]
  PROVE  Files'
BY DEF Files

\* A photo that leaves the pool goes to the worker that picks it.
LEMMA NextPending ==
  ASSUME Base, NEW w \in Workers, NEW l \in Lists, NextItem(w, l), job'[w] = l,
         \A v \in Workers \ {w} : job'[v] = job[v] /\ photo'[v] = photo[v],
         UNCHANGED <<stamp, coll, job_timestamp, image, gpc, gid_loaded>>,
         NEW p, ~WorksOn(w, p), Pending(p)
  PROVE  Pending(p)'
<1>1. \A v \in Workers \ {w} : pc'[v] = pc[v] /\ item'[v] = item[v]
  BY NextItemBase
<1>2. CASE Reopening \/ Leaving(p)
  BY <1>2 DEF Reopening, Leaving, Pending
<1>3. CASE Due(p)
  <2>0. PICK m \in Lists : /\ stamp[m] = job_timestamp
                           /\ \E k \in DOMAIN coll[m] : k > work_item[m] /\ image[coll[m][k]] = p
    BY <1>3 DEF Due
  <2>1. PICK k \in DOMAIN coll[m] :
           stamp[m] = job_timestamp /\ k > work_item[m] /\ image[coll[m][k]] = p
    BY <2>0
  <2>2. work_item[l] \in Nat /\ k \in Nat /\ k <= Len(coll[m])
    BY <2>1, Values DEF Base
  <2>3. \A n \in Lists : work_item'[n] = IF n = l THEN work_item[l] + 1 ELSE work_item[n]
    BY DEF NextItem, Base, Types, ListType
  <2>4. CASE m # l \/ k > work_item[l] + 1
    <3>1. Due(p)'
      BY <2>1, <2>3, <2>4 DEF Due
    <3> QED BY <3>1 DEF Pending
  <2>5. CASE m = l /\ k = work_item[l] + 1
    <3>1. Left(l)
      BY <2>2, <2>5 DEF Left
    <3>2. pc'[w] = "lock" /\ item'[w] = k
      BY <2>5, <3>1 DEF NextItem, Goto, Base, Types, WorkerType
    <3>3. WorksOn(w, p)'
      BY <2>1, <2>5, <3>2 DEF WorksOn, Id
    <3> QED BY <3>3 DEF Pending
  <2> QED BY <2>1, <2>2, <2>4, <2>5
<1>4. CASE \E v \in Workers : WorksOn(v, p)
  <2>1. PICK v \in Workers : WorksOn(v, p)
    BY <1>4
  <2>2. WorksOn(v, p)'
    BY <1>1, <2>1 DEF WorksOn, Id
  <2> QED BY <2>2 DEF Pending
<1> QED BY <1>2, <1>3, <1>4 DEF Pending

LEMMA TakeFresh ==
  ASSUME Base, Files, Shows, NEW w \in Workers, Take(w)
  PROVE  Files' /\ Shows'
<1>1. PICK t \in avail : /\ job' = [job EXCEPT ![w] = t[1]]
                         /\ NextItem(w, t[1])
  BY DEF Take
<1>2. /\ t[1] \in Lists /\ pc[w] = "idle" /\ job'[w] = t[1]
      /\ \A v \in Workers \ {w} : job'[v] = job[v]
      /\ UNCHANGED <<photo, rendered>>
      /\ UNCHANGED <<stamp, coll, job_timestamp, image, image_cnt, thumbnail>>
      /\ UNCHANGED <<cfg, bc1, current, gpc, gid_loaded, loaded, raced, missed, broken>>
      /\ UNCHANGED uncached
  BY <1>1 DEF Take, Base, Types, ListType, WorkerType,
              dbVars, listVars, fileVars, guiVars, ghostVars
<1>3. pc'[w] \notin Using /\ \A v \in Workers \ {w} : pc'[v] = pc[v]
  BY <1>1, <1>2, NextItemBase DEF Using
<1>4. \A p \in Photos : Pending(p) => Pending(p)'
  BY <1>1, <1>2, NextPending DEF WorksOn
<1>5. \A p \in Photos : Resetting(p) => Resetting(p)'
  BY <1>2, <1>3 DEF Resetting, Resets
<1>6. Shows'
  BY <1>2, <1>4, <1>5, SameShows
<1>7. Files'
  BY <1>2, <1>3, SameFiles DEF Using
<1> QED BY <1>6, <1>7

LEMMA StaleFresh ==
  ASSUME Base, Files, Shows, NEW w \in Workers, Stale(w)
  PROVE  Files' /\ Shows'
<1>1. PICK l \in Lists : l = job[w]
  BY DEF Base, Types, WorkerType
<1>2. /\ NextItem(w, l) /\ pc[w] = "lock" /\ stamp[job[w]] # job_timestamp
      /\ UNCHANGED <<photo, rendered, job>>
      /\ UNCHANGED <<stamp, coll, job_timestamp, image, image_cnt, thumbnail>>
      /\ UNCHANGED <<cfg, bc1, current, gpc, gid_loaded, loaded, raced, missed, broken>>
      /\ UNCHANGED uncached
  BY <1>1 DEF Stale, dbVars, listVars, fileVars, guiVars, ghostVars
<1>3. pc'[w] \notin Using /\ \A v \in Workers \ {w} : pc'[v] = pc[v]
  BY <1>2, NextItemBase DEF Using
<1>4. \A p \in Photos : Pending(p) => Pending(p)'
  BY <1>1, <1>2, NextPending DEF WorksOn
<1>5. \A p \in Photos : Resetting(p) => Resetting(p)'
  BY <1>2, <1>3 DEF Resetting, Resets
<1>6. Shows'
  BY <1>2, <1>4, <1>5, SameShows
<1>7. Files'
  BY <1>2, <1>3, SameFiles DEF Using
<1> QED BY <1>6, <1>7

\* A list that is forgotten has nothing that is due.
LEMMA ForgetPending ==
  ASSUME Base, NEW l \in Lists, ForgetList(l), ~Left(l),
         \A v \in Workers : pc[v] = "lock" => job[v] # l,
         UNCHANGED <<job_timestamp, image, gid_loaded>>,
         Reopening => Reopening', gpc = "leave" => gpc' = "leave",
         \A v \in Workers : pc[v] \in Using \cup {"lock"} =>
                                 /\ pc'[v] = pc[v] /\ job'[v] = job[v]
                                 /\ item'[v] = item[v] /\ photo'[v] = photo[v],
         NEW p, Pending(p)
  PROVE  Pending(p)'
<1>1. \A k \in Lists \ {l} : /\ coll'[k] = coll[k] /\ stamp'[k] = stamp[k]
                             /\ work_item'[k] = work_item[k]
  BY DEF ForgetList, Base, Types, ListType
<1>2. CASE Reopening \/ Leaving(p)
  BY <1>2 DEF Leaving, Pending
<1>3. CASE Due(p)
  <2>0. PICK m \in Lists : /\ stamp[m] = job_timestamp
                           /\ \E k \in DOMAIN coll[m] : k > work_item[m] /\ image[coll[m][k]] = p
    BY <1>3 DEF Due
  <2>1. PICK k \in DOMAIN coll[m] :
           stamp[m] = job_timestamp /\ k > work_item[m] /\ image[coll[m][k]] = p
    BY <2>0
  <2>2. work_item[m] \in Nat /\ k \in Nat /\ k <= Len(coll[m]) /\ Len(coll[m]) \in Nat
    BY <2>1, Values DEF Base
  <2>3. m # l
    BY <2>1, <2>2 DEF Left
  <2>4. Due(p)'
    BY <1>1, <2>1, <2>3 DEF Due
  <2> QED BY <2>4 DEF Pending
<1>4. CASE \E v \in Workers : WorksOn(v, p)
  <2>1. PICK v \in Workers : WorksOn(v, p)
    BY <1>4
  <2>2. job[v] \in Lists
    BY Values DEF Base
  <2>3. WorksOn(v, p)'
    BY <1>1, <2>1, <2>2 DEF WorksOn, Id, Using
  <2> QED BY <2>3 DEF Pending
<1> QED BY <1>2, <1>3, <1>4 DEF Pending

LEMMA FreeFresh ==
  ASSUME Base, Counts, Files, Shows, NEW w \in Workers, FreeColl(w)
  PROVE  Files' /\ Shows'
<1>1. PICK l \in Lists : l = job[w]
  BY DEF Base, Types, WorkerType
<1>2. /\ pc[w] = "free" /\ AllDone(l)
      /\ UNCHANGED <<photo, rendered, item>>
      /\ UNCHANGED <<job_timestamp, image, image_cnt, thumbnail>>
      /\ UNCHANGED <<cfg, bc1, current, gpc, gid_loaded, loaded, raced, missed, broken>>
      /\ UNCHANGED uncached
  BY <1>1 DEF FreeColl, dbVars, fileVars, guiVars, ghostVars
<1>3. pc'[w] = "idle" /\ \A v \in Workers \ {w} : pc'[v] = pc[v] /\ job'[v] = job[v]
  BY DEF FreeColl, Goto, Base, Types, WorkerType
<1>4. ASSUME NEW p \in Photos, Pending(p)
      PROVE  Pending(p)'
  <2>1. CASE Helpers(l) = {w}
    <3>1. ForgetList(l)
      BY <1>1, <2>1 DEF FreeColl
    <3>2. \A v \in Workers : pc[v] = "lock" => job[v] # l
      BY <1>2, <2>1 DEF Helpers
    <3>3. ~Left(l)
      <4>1. /\ done[l] \in Nat /\ work_item[l] \in Nat /\ Len(coll[l]) \in Nat
            /\ done[l] + Cardinality(Holders(l)) = Total(l)
        BY Values DEF Counts, Base
      <4>2. Cardinality(Holders(l)) \in Nat
        BY WorkerSets DEF Holders
      <4> QED BY <1>2, <4>1, <4>2 DEF AllDone, Left, Total
    <3>4. \A v \in Workers : pc[v] \in Using \cup {"lock"} =>
                                 /\ pc'[v] = pc[v] /\ job'[v] = job[v]
                                 /\ item'[v] = item[v] /\ photo'[v] = photo[v]
      BY <1>2, <1>3 DEF Using
    <3> QED BY <1>2, <1>4, <3>1, <3>2, <3>3, <3>4, ForgetPending DEF Reopening
  <2>2. CASE UNCHANGED <<stamp, coll, work_item>>
    <3>1. Due(p) => Due(p)'
      BY <1>2, <2>2 DEF Due
    <3>2. \A v \in Workers : WorksOn(v, p) => WorksOn(v, p)'
      BY <1>2, <1>3, <2>2 DEF WorksOn, Id
    <3>3. Reopening \/ Leaving(p) => Reopening' \/ Leaving(p)'
      BY <1>2 DEF Reopening, Leaving
    <3> QED BY <1>4, <3>1, <3>2, <3>3 DEF Pending
  <2> QED BY <1>1, <2>1, <2>2 DEF FreeColl
<1>5. \A p \in Photos : Resetting(p) => Resetting(p)'
  BY <1>2, <1>3 DEF Resetting, Resets
<1>6. Shows'
  BY <1>2, <1>4, <1>5, SameShows
<1>7. Files'
  BY <1>2, <1>3, SameFiles
<1> QED BY <1>6, <1>7

LEMMA LockFresh ==
  ASSUME Base, Files, Shows, NEW w \in Workers, Lock(w)
  PROVE  Files' /\ Shows'
<1>1. /\ pc[w] = "lock" /\ pc'[w] = "stat" /\ photo'[w] = image[Id(w)]
      /\ \A v \in Workers \ {w} : pc'[v] = pc[v] /\ photo'[v] = photo[v]
      /\ UNCHANGED <<job, item, rendered, stamp, coll, work_item>>
      /\ UNCHANGED <<job_timestamp, image, image_cnt, thumbnail>>
      /\ UNCHANGED <<cfg, bc1, current, gpc, gid_loaded, loaded, raced, missed, broken>>
      /\ UNCHANGED uncached
  BY DEF Lock, Goto, Base, Types, WorkerType,
         dbVars, listVars, poolVars, fileVars, guiVars, ghostVars
<1>2. ASSUME NEW p \in Photos, Pending(p)
      PROVE  Pending(p)'
  <2>1. Due(p) => Due(p)'
    BY <1>1 DEF Due
  <2>2. \A v \in Workers : WorksOn(v, p) => WorksOn(v, p)'
    BY <1>1 DEF WorksOn, Id
  <2>3. Reopening \/ Leaving(p) => Reopening' \/ Leaving(p)'
    BY <1>1 DEF Reopening, Leaving
  <2> QED BY <1>2, <2>1, <2>2, <2>3 DEF Pending
<1>3. \A p \in Photos : Resetting(p) => Resetting(p)'
  BY <1>1 DEF Resetting, Resets
<1>4. Shows'
  BY <1>1, <1>2, <1>3, SameShows
<1>5. Files'
  BY <1>1, SameFiles
<1> QED BY <1>4, <1>5

LEMMA RenderFresh ==
  ASSUME Base, Files, Shows, NEW w \in Workers, Render(w)
  PROVE  Files' /\ Shows'
<1>1. /\ pc[w] = "render" /\ pc'[w] = "write" /\ photo[w] \in Photos
      /\ rendered'[w] = cfg[photo[w]]
      /\ \A v \in Workers \ {w} : pc'[v] = pc[v] /\ rendered'[v] = rendered[v]
      /\ raced \subseteq raced'
      /\ UNCHANGED <<job, item, photo, stamp, coll, work_item>>
      /\ UNCHANGED <<job_timestamp, image, image_cnt, thumbnail>>
      /\ UNCHANGED <<cfg, bc1, current, gpc, gid_loaded, loaded, missed, broken, uncached>>
  BY DEF Render, Goto, Base, Types, WorkerType, Items, Using,
         dbVars, listVars, poolVars, fileVars, guiVars
<1>2. ASSUME NEW p \in Photos, Pending(p)
      PROVE  Pending(p)'
  <2>1. Due(p) => Due(p)'
    BY <1>1 DEF Due
  <2>2. \A v \in Workers : WorksOn(v, p) => WorksOn(v, p)'
    BY <1>1 DEF WorksOn, Id
  <2>3. Reopening \/ Leaving(p) => Reopening' \/ Leaving(p)'
    BY <1>1 DEF Reopening, Leaving
  <2> QED BY <1>2, <2>1, <2>2, <2>3 DEF Pending
<1>3. \A p \in Photos : Resetting(p) => Resetting(p)'
  BY <1>1 DEF Resetting, Resets
<1>4. Shows'
  BY <1>1, <1>2, <1>3, SameShows
<1>5. Files'
  BY <1>1 DEF Files
<1> QED BY <1>4, <1>5
-----------------------------------------------------------------------------
(****************************************************************************)
(* Files and Shows: what a worker does with a photo                         *)
(****************************************************************************)
\* A worker has put q right on disk, and will do so in memory.
LEMMA RightShows ==
  ASSUME Shows, NEW q,
         UNCHANGED <<image, image_cnt, thumbnail, cfg, gpc, gid_loaded, loaded>>,
         UNCHANGED uncached,
         raced \subseteq raced', broken \subseteq broken', missed \subseteq missed',
         q \in raced' \cup broken' \/ bc1'[q] = cfg[q],
         Resetting(q)',
         \A p \in Photos : p # q =>
            bc1'[p] = bc1[p] /\ (Pending(p) => Pending(p)') /\ (Resetting(p) => Resetting(p)')
  PROVE  Shows'
BY DEF Shows, OnDisk, InMemory, Reopening

LEMMA StatFresh ==
  ASSUME Base, Files, Shows, NEW w \in Workers, Stat(w)
  PROVE  Files' /\ Shows'
<1>1. PICK q \in Photos : q = photo[w]
  BY DEF Stat, Base, Items, Using
<1>2. /\ pc[w] = "stat"
      /\ \/ pc'[w] = (IF UpToDate(q) THEN "reset" ELSE "render") /\ broken' = broken
         \/ pc'[w] = "reset" /\ broken' = broken \cup {q}
      /\ \A v \in Workers \ {w} : pc'[v] = pc[v]
      /\ UNCHANGED <<job, item, photo, rendered, stamp, coll, work_item>>
      /\ UNCHANGED <<job_timestamp, image, image_cnt, thumbnail>>
      /\ UNCHANGED <<cfg, bc1, current, gpc, gid_loaded, loaded, raced, missed, uncached>>
  BY <1>1 DEF Stat, Goto, Base, Types, WorkerType,
         dbVars, listVars, poolVars, fileVars, guiVars
<1>3. ASSUME NEW p \in Photos, Pending(p), p # q \/ pc'[w] = "render"
      PROVE  Pending(p)'
  <2>1. Due(p) => Due(p)'
    BY <1>2 DEF Due
  <2>2. \A v \in Workers : WorksOn(v, p) => WorksOn(v, p)'
    BY <1>1, <1>2, <1>3 DEF WorksOn, Id
  <2>3. Reopening \/ Leaving(p) => Reopening' \/ Leaving(p)'
    BY <1>2 DEF Reopening, Leaving
  <2> QED BY <1>3, <2>1, <2>2, <2>3 DEF Pending
<1>4. \A p \in Photos : Resetting(p) => Resetting(p)'
  BY <1>2 DEF Resetting, Resets
<1>5. Shows'
  <2>1. CASE pc'[w] = "reset"
    <3>1. broken \subseteq broken' /\ (q \in raced' \cup broken' \/ bc1'[q] = cfg[q])
      BY <1>2, <2>1 DEF Files, UpToDate
    <3>2. Resetting(q)'
      BY <1>1, <1>2, <2>1 DEF Resetting, Resets
    <3> QED BY <1>2, <1>3, <1>4, <3>1, <3>2, RightShows
  <2>2. CASE pc'[w] = "render" /\ broken' = broken
    BY <1>2, <1>3, <1>4, <2>2, SameShows
  <2> QED BY <1>2, <2>1, <2>2
<1>6. Files'
  BY <1>2, SameFiles
<1> QED BY <1>5, <1>6

LEMMA WriteFresh ==
  ASSUME Base, Files, Shows, NEW w \in Workers, Write(w)
  PROVE  Files' /\ Shows'
<1>1. PICK q \in Photos : q = photo[w]
  BY DEF Write, Base, Items, Using
<1>2. /\ pc[w] = "write" /\ pc'[w] = "reset"
      /\ \A v \in Workers \ {w} : pc'[v] = pc[v]
      /\ UNCHANGED <<job, item, photo, rendered, stamp, coll, work_item>>
      /\ UNCHANGED <<job_timestamp, image, image_cnt, thumbnail>>
      /\ UNCHANGED <<cfg, gpc, gid_loaded, loaded, raced, missed, uncached>>
  BY DEF Write, Goto, Base, Types, WorkerType, dbVars, listVars, poolVars, guiVars
<1>3. /\ broken \subseteq broken'
      /\ q \in raced' \cup broken' \/ bc1'[q] = cfg[q]
      /\ \A p \in Photos \ {q} : bc1'[p] = bc1[p] /\ current'[p] = current[p]
  BY <1>1, <1>2 DEF Write, Files, Base, Types, FileType
<1>4. ASSUME NEW p \in Photos, Pending(p), p # q
      PROVE  Pending(p)'
  <2>1. Due(p) => Due(p)'
    BY <1>2 DEF Due
  <2>2. \A v \in Workers : WorksOn(v, p) => WorksOn(v, p)'
    BY <1>1, <1>2, <1>4 DEF WorksOn, Id
  <2>3. Reopening \/ Leaving(p) => Reopening' \/ Leaving(p)'
    BY <1>2 DEF Reopening, Leaving
  <2> QED BY <1>4, <2>1, <2>2, <2>3 DEF Pending
<1>5. \A p \in Photos : Resetting(p) => Resetting(p)'
  BY <1>2 DEF Resetting, Resets
<1>6. Resetting(q)'
  BY <1>1, <1>2 DEF Resetting, Resets
<1>7. Shows'
  BY <1>2, <1>3, <1>4, <1>5, <1>6, RightShows
<1>8. Files'
  <2>1. \A p \in Photos : p \notin raced' \cup broken' /\ bc1'[p] # None /\ current'[p]
                            => bc1'[p] = cfg[p]
    BY <1>2, <1>3 DEF Files
  <2>2. \A v \in Workers : pc'[v] = "write" /\ photo'[v] \notin raced'
                             => rendered'[v] = cfg[photo'[v]]
    BY <1>2 DEF Files
  <2> QED BY <1>2, <2>1, <2>2 DEF Files
<1> QED BY <1>7, <1>8

LEMMA ResetFresh ==
  ASSUME Base, Files, Shows, NEW w \in Workers, Reset(w)
  PROVE  Files' /\ Shows'
<1>1. PICK q \in Photos : q = photo[w]
  BY DEF Reset, Base, Items, Using
<1>2. PICK l \in Lists : l = job[w]
  BY DEF Base, Types, WorkerType
<1>3. PICK id \in Ids : id = Id(w)
  BY IdType DEF Reset, Holds, Using
<1>4. /\ pc[w] = "reset" /\ NextItem(w, l)
      /\ \A v \in Workers \ {w} : photo'[v] = photo[v] /\ rendered'[v] = rendered[v]
      /\ \A i \in Ids : thumbnail'[i] = IF i = id THEN None ELSE thumbnail[i]
      /\ missed \subseteq missed'
      /\ UNCHANGED <<job, stamp, coll, job_timestamp, image, image_cnt>>
      /\ UNCHANGED <<cfg, bc1, current, gpc, gid_loaded, loaded, raced, broken>>
      /\ UNCHANGED uncached
  BY <1>1, <1>2, <1>3 DEF Reset, Forget, Base, Types, WorkerType, DbType,
         listVars, fileVars, guiVars, ghostVars
<1>5. pc'[w] \notin Using /\ \A v \in Workers \ {w} : pc'[v] = pc[v]
  BY <1>4, NextItemBase DEF Using
<1>6. \A p \in Photos : Pending(p) => Pending(p)'
  BY <1>2, <1>4, NextPending DEF WorksOn
<1>7. \A p \in Photos : p # q /\ Resetting(p) => Resetting(p)'
  BY <1>1, <1>4, <1>5 DEF Resetting, Resets
<1>8. ASSUME NEW i \in 1 .. image_cnt, image[i] = q, q \notin missed'
      PROVE  i = id /\ (gpc = "load" /\ gid_loaded = i => loaded = bc1[q])
  <2>1. ~Misses(w)
    BY <1>1, <1>8 DEF Reset
  <2> QED BY <1>1, <1>3, <1>8, <2>1 DEF Misses
<1>9. ASSUME NEW i \in 1 .. image_cnt, NEW p \in Photos \ (raced \cup broken), image[i] = p
      PROVE  /\ OnDisk(p)'
             /\ p \notin missed' => /\ InMemory(thumbnail[i], p)'
                                    /\ gpc = "load" /\ gid_loaded = i => InMemory(loaded, p)'
  <2>1. OnDisk(p)'
    BY <1>4, <1>6, <1>9 DEF Shows, OnDisk
  <2>2. i \in Ids
    BY Values DEF Base, Types, DbType, Ids
  <2>3. CASE p = q
    BY <1>4, <1>8, <1>9, <2>1, <2>2, <2>3 DEF InMemory
  <2>4. CASE p # q
    <3>1. /\ p \notin missed => InMemory(thumbnail[i], p)
          /\ p \notin missed /\ gpc = "load" /\ gid_loaded = i => InMemory(loaded, p)
      BY <1>9 DEF Shows
    <3>2. ASSUME NEW v PROVE InMemory(v, p) => v \in {None, bc1[p]} \/ bc1[p] = None \/ Pending(p)' \/ Resetting(p)'
      BY <1>6, <1>7, <2>4 DEF InMemory
    <3>3. p \notin missed' => InMemory(thumbnail[i], p)'
      BY <1>4, <2>2, <3>1, <3>2 DEF InMemory
    <3>4. p \notin missed' /\ gpc = "load" /\ gid_loaded = i => InMemory(loaded, p)'
      BY <1>4, <3>1, <3>2 DEF InMemory
    <3> QED BY <2>1, <3>3, <3>4
  <2> QED BY <2>3, <2>4
<1>10. Shows'
  BY <1>4, <1>9 DEF Shows, Reopening
<1>11. Files'
  BY <1>4, <1>5 DEF Files, Using
<1> QED BY <1>10, <1>11

LEMMA WorkerFresh ==
  ASSUME Base, Counts, Files, Shows, NEW w \in Workers, WorkerStep(w)
  PROVE  Files' /\ Shows'
BY TakeFresh, FreeFresh, LockFresh, StaleFresh, StatFresh, RenderFresh, WriteFresh, ResetFresh
   DEF WorkerStep
-----------------------------------------------------------------------------
(****************************************************************************)
(* Files and Shows: what edits a photo and posts a list                     *)
(****************************************************************************)
\* Where the pool, the workers and the images stay as they are
LEMMA SamePending ==
  ASSUME UNCHANGED <<stamp, coll, work_item, job_timestamp, image, pc, job, item, photo>>,
         Reopening => Reopening', NEW p, Leaving(p) => Leaving(p)'
  PROVE  (Pending(p) => Pending(p)') /\ (Resetting(p) => Resetting(p)')
<1>1. Due(p) => Due(p)'
  BY DEF Due
<1>2. \A w \in Workers : WorksOn(w, p) => WorksOn(w, p)'
  BY DEF WorksOn, Id
<1>3. Resetting(p) => Resetting(p)'
  BY DEF Resetting, Resets
<1> QED BY <1>1, <1>2, <1>3 DEF Pending

\* What is edited is raced, if it is being written or counts as current still.
LEMMA EditedFiles ==
  ASSUME Base, Files, NEW ps \in SUBSET Photos, NEW still, Edited(ps, still),
         \A p \in Photos : bc1'[p] \in {bc1[p], None},
         UNCHANGED <<broken, pc, photo, rendered>>
  PROVE  /\ Files' /\ raced \subseteq raced'
         /\ \A p \in Photos \ (ps \cap Writable) : cfg'[p] = cfg[p]
<1>1. raced \subseteq raced'
  BY DEF Edited
<1>2. \A p \in Photos : p \notin ps \cap Writable => cfg'[p] = cfg[p]
  BY DEF Edited
<1>3. ASSUME NEW p \in Photos, p \notin raced' \cup broken', bc1'[p] # None, current'[p]
      PROVE  bc1'[p] = cfg'[p]
  <2>1. p \notin ps \cap Writable /\ current[p]
    BY <1>3 DEF Edited
  <2>2. bc1'[p] = bc1[p]
    BY <1>3
  <2> QED BY <1>1, <1>2, <1>3, <2>1, <2>2 DEF Files
<1>4. ASSUME NEW w \in Workers, pc[w] = "write", photo[w] \notin raced'
      PROVE  rendered[w] = cfg'[photo[w]]
  <2>1. photo[w] \in Photos
    BY <1>4 DEF Base, Items, Using
  <2>2. Writers(photo[w]) # {}
    BY <1>4 DEF Writers
  <2>3. photo[w] \notin ps \cap Writable
    BY <1>4, <2>2 DEF Edited
  <2> QED BY <1>1, <1>2, <1>4, <2>1, <2>3 DEF Files
<1>5. Files'
  BY <1>3, <1>4 DEF Files
<1> QED BY <1>1, <1>2, <1>5

\* What is added is due, and what was due still is.
LEMMA AddJobPending ==
  ASSUME Base, Counts, NEW sel \in SUBSET (1 .. image_cnt), AddJob(sel)
  PROVE  /\ \A i \in sel : Due(image[i])'
         /\ gpc \in {"idle", "post"} => \A p : Pending(p) => Pending(p)'
         /\ UNCHANGED <<image, image_cnt, gid_loaded, loaded, pc, photo, rendered>>
         /\ gpc' = "help"
<1>1. PICK l \in Lists :
        /\ Helpers(l) = {}
        /\ stamp' = [stamp EXCEPT ![l] = job_timestamp]
        /\ coll' = [coll EXCEPT ![l] = SetToSeq(sel)]
        /\ gpc' = "help"
        /\ UNCHANGED <<work_item, job_timestamp, image, image_cnt, gid_loaded, loaded, workerVars>>
  BY DEF AddJob, restVars
<1>2. UNCHANGED <<pc, job, item, photo, rendered>>
  BY <1>1 DEF workerVars
<1>3. work_item[l] = 0 /\ coll[l] = <<>>
  BY <1>1 DEF Counts
<1>4. \A k \in Lists \ {l} : coll'[k] = coll[k] /\ stamp'[k] = stamp[k]
  BY <1>1 DEF Base, Types, ListType
<1>5. coll'[l] = SetToSeq(sel) /\ stamp'[l] = job_timestamp
  BY <1>1 DEF Base, Types, ListType
<1>6. ASSUME NEW i \in sel
      PROVE  Due(image[i])'
  <2>1. image_cnt \in Nat
    BY Values DEF Base, Types, DbType
  <2>2. SetToSeq(sel) \in Seq(sel) /\ \E k \in DOMAIN SetToSeq(sel) : SetToSeq(sel)[k] = i
    BY <2>1, SeqOfSet
  <2>3. PICK k \in DOMAIN SetToSeq(sel) : SetToSeq(sel)[k] = i
    BY <2>2
  <2>4. k > 0
    BY <2>2
  <2> QED BY <1>1, <1>3, <1>5, <2>3, <2>4 DEF Due
<1>7. ASSUME gpc \in {"idle", "post"}, NEW p, Pending(p)
      PROVE  Pending(p)'
  <2>1. CASE Due(p)
    <3>1. PICK m \in Lists : /\ stamp[m] = job_timestamp
                             /\ \E k \in DOMAIN coll[m] : k > work_item[m] /\ image[coll[m][k]] = p
      BY <2>1 DEF Due
    <3>2. m # l
      <4>1. DOMAIN <<>> = {}
        OBVIOUS
      <4> QED BY <1>3, <3>1, <4>1
    <3>3. Due(p)'
      BY <1>1, <1>4, <3>1, <3>2 DEF Due
    <3> QED BY <3>3 DEF Pending
  <2>2. CASE \E v \in Workers : WorksOn(v, p)
    <3>1. PICK v \in Workers : WorksOn(v, p)
      BY <2>2
    <3>2. pc[v] = "lock" => job[v] # l
      BY <1>1 DEF Helpers
    <3>3. job[v] \in Lists
      BY Values DEF Base
    <3>4. WorksOn(v, p)'
      BY <1>1, <1>2, <1>4, <3>1, <3>2, <3>3 DEF WorksOn, Id
    <3> QED BY <3>4 DEF Pending
  <2> QED BY <1>7, <2>1, <2>2 DEF Pending, Reopening, Leaving
<1> QED BY <1>1, <1>2, <1>6, <1>7

\* What changed on disk is in the list that is added.
LEMMA AddJobFresh ==
  ASSUME Base, Counts, Shows, gpc \in {"idle", "post"},
         NEW sel \in SUBSET (1 .. image_cnt), AddJob(sel),
         \A p \in Photos \ PhotosOf(sel) : bc1'[p] = bc1[p] /\ cfg'[p] = cfg[p],
         raced \subseteq raced', UNCHANGED <<thumbnail, missed, broken>>
  PROVE  Shows'
<1>1. /\ \A i \in sel : Due(image[i])'
      /\ \A p : Pending(p) => Pending(p)'
      /\ UNCHANGED <<image, image_cnt, pc, photo>>
      /\ gpc' = "help"
  BY AddJobPending
<1>2. uncached' = uncached \ PhotosOf(sel)
  BY DEF AddJob
<1>3. \A p \in PhotosOf(sel) : Pending(p)'
  <2>1. SUFFICES ASSUME NEW p \in PhotosOf(sel) PROVE Pending(p)'
    OBVIOUS
  <2>2. PICK i \in sel : p = image[i]
    BY DEF PhotosOf
  <2>3. Due(image[i])'
    BY <1>1
  <2> QED BY <1>1, <2>2, <2>3 DEF Pending, Due
<1>4. \A p \in Photos : Resetting(p) => Resetting(p)'
  BY <1>1 DEF Resetting, Resets
<1>5. ASSUME NEW i \in 1 .. image_cnt, NEW p \in Photos \ (raced' \cup broken'), image[i] = p
      PROVE  OnDisk(p)' /\ (p \notin missed => InMemory(thumbnail[i], p)')
  <2>1. CASE p \in PhotosOf(sel)
    BY <1>3, <2>1 DEF OnDisk, InMemory
  <2>2. CASE p \notin PhotosOf(sel)
    BY <1>1, <1>2, <1>4, <1>5, <2>2 DEF Shows, OnDisk, InMemory
  <2> QED BY <2>1, <2>2
<1> QED BY <1>1, <1>5 DEF Shows, Reopening

\* What changed on disk is uncached, and shown in memory as it was, or not.
LEMMA NotCachedFresh ==
  ASSUME Shows, gpc \in {"idle", "post"}, NEW edited, NotCached(edited),
         \A p \in Photos \ edited : cfg'[p] = cfg[p] /\ bc1'[p] = bc1[p],
         \A p \in Photos : bc1'[p] \in {bc1[p], None},
         raced \subseteq raced', UNCHANGED <<thumbnail, missed, broken>>
  PROVE  Shows'
<1>1. /\ gpc' = "idle" /\ uncached' = uncached \cup edited
      /\ UNCHANGED <<stamp, coll, work_item, job_timestamp, image, image_cnt, pc, job, item, photo>>
  BY DEF NotCached, restVars, listVars, workerVars
<1>2. \A p : (Pending(p) => Pending(p)') /\ (Resetting(p) => Resetting(p)')
  BY <1>1, SamePending DEF Reopening, Leaving
<1>3. ASSUME NEW i \in 1 .. image_cnt, NEW p \in Photos \ (raced' \cup broken'), image[i] = p
      PROVE  OnDisk(p)' /\ (p \notin missed => InMemory(thumbnail[i], p)')
  <2>1. OnDisk(p) /\ (p \notin missed => InMemory(thumbnail[i], p))
    BY <1>3 DEF Shows
  <2>2. OnDisk(p)'
    BY <1>1, <1>2, <2>1 DEF OnDisk
  <2>3. bc1'[p] \in {bc1[p], None}
    OBVIOUS
  <2> QED BY <1>1, <1>2, <2>1, <2>2, <2>3 DEF InMemory
<1> QED BY <1>1, <1>3 DEF Shows, Reopening

LEMMA CacheListFresh ==
  ASSUME Base, Counts, Files, Shows, gpc = "idle",
         NEW sel \in SUBSET (1 .. image_cnt), NEW ps \in SUBSET PhotosOf(sel),
         NEW still, Edited(ps, still),
         NEW edited \in SUBSET PhotosOf(sel), ps \cap Writable \subseteq edited,
         CacheList(sel, edited),
         \A p \in Photos : bc1'[p] \in {bc1[p], IF p \in edited THEN None ELSE bc1[p]},
         UNCHANGED <<thumbnail, missed, broken>>
  PROVE  Files' /\ Shows'
<1>1. PhotosOf(sel) \in SUBSET Photos
  BY SelectionType
<1>2. UNCHANGED <<pc, photo, rendered>>
  BY DEF CacheList, AddJob, NotCached, restVars, workerVars
<1>3. /\ Files' /\ raced \subseteq raced'
      /\ \A p \in Photos \ (ps \cap Writable) : cfg'[p] = cfg[p]
  BY <1>1, <1>2, EditedFiles
<1>4. \A p \in Photos \ edited : cfg'[p] = cfg[p] /\ bc1'[p] = bc1[p]
  BY <1>3
<1>5. CASE AddJob(sel)
  BY <1>3, <1>4, <1>5, AddJobFresh
<1>6. CASE NotCached(edited)
  BY <1>3, <1>4, <1>6, NotCachedFresh
<1> QED BY <1>3, <1>5, <1>6 DEF CacheList

LEMMA CacheCollectionFresh ==
  ASSUME Base, Counts, Files, Shows, gpc \in {"idle", "post"}, CacheCollection
  PROVE  Files' /\ Shows'
<1>1. UNCHANGED <<cfg, bc1, current, raced, thumbnail, missed, broken>>
  BY DEF CacheCollection, fileVars
<1>2. UNCHANGED <<pc, photo, rendered>>
  BY DEF CacheCollection, CacheList, AddJob, NotCached, restVars, workerVars
<1>3. Files'
  BY <1>1, <1>2, SameFiles
<1>4. /\ raced \subseteq raced' /\ UNCHANGED <<thumbnail, missed, broken>>
      /\ \A p \in Photos : cfg'[p] = cfg[p] /\ bc1'[p] = bc1[p] /\ bc1'[p] \in {bc1[p], None}
  BY <1>1
<1>5. CASE NotCached({})
  <2>1. \A p \in Photos \ {} : cfg'[p] = cfg[p] /\ bc1'[p] = bc1[p]
    BY <1>4
  <2> QED BY <1>3, <1>4, <1>5, <2>1, NotCachedFresh
<1>6. CASE \E sel \in Selections : AddJob(sel)
  <2>1. PICK sel \in SUBSET (1 .. image_cnt) : AddJob(sel)
    BY <1>6 DEF Selections
  <2>2. \A p \in Photos \ PhotosOf(sel) : bc1'[p] = bc1[p] /\ cfg'[p] = cfg[p]
    BY <1>4
  <2> QED BY <1>3, <1>4, <2>1, <2>2, AddJobFresh
<1> QED BY <1>3, <1>5, <1>6 DEF CacheCollection, CacheList

LEMMA PostFresh ==
  ASSUME Base, Counts, Files, Shows, gpc = "idle", PasteHistory \/ ResetHistory
  PROVE  Files' /\ Shows'
<1>1. CASE PasteHistory
  <2>1. PICK sel \in Selections, cid \in 1 .. image_cnt :
           /\ \E still \in SUBSET Photos : Edited(PhotosOf(sel \ {cid}), still)
           /\ CacheList(sel, PhotosOf(sel \ {cid}) \cap Writable)
    BY <1>1 DEF PasteHistory, CacheList
  <2>2. PICK still \in SUBSET Photos : Edited(PhotosOf(sel \ {cid}), still)
    BY <2>1
  <2>3. sel \in SUBSET (1 .. image_cnt) /\ PhotosOf(sel \ {cid}) \in SUBSET PhotosOf(sel)
    BY DEF Selections, PhotosOf
  <2>4. UNCHANGED <<thumbnail, missed, broken, bc1>>
    BY <1>1 DEF PasteHistory
  <2>5. \A p \in Photos : bc1'[p] = bc1[p]
    BY <2>4
  <2>6. PhotosOf(sel \ {cid}) \cap Writable \in SUBSET PhotosOf(sel)
    BY <2>3
  <2> QED BY <2>1, <2>2, <2>3, <2>4, <2>5, <2>6, CacheListFresh
<1>2. CASE ResetHistory
  <2>1. PICK sel \in Selections :
           /\ Edited(PhotosOf(sel), {})
           /\ bc1' = [p \in Photos |-> IF p \in PhotosOf(sel) THEN None ELSE bc1[p]]
           /\ CacheList(sel, PhotosOf(sel))
    BY <1>2 DEF ResetHistory
  <2>2. sel \in SUBSET (1 .. image_cnt)
    BY DEF Selections
  <2>3. UNCHANGED <<thumbnail, missed, broken>>
    BY <1>2 DEF ResetHistory
  <2>4. \A p \in Photos : bc1'[p] \in {bc1[p], IF p \in PhotosOf(sel) THEN None ELSE bc1[p]}
    BY <2>1
  <2>5. PhotosOf(sel) \in SUBSET PhotosOf(sel) /\ PhotosOf(sel) \cap Writable \subseteq PhotosOf(sel)
    OBVIOUS
  <2> QED BY <2>1, <2>2, <2>3, <2>4, <2>5, CacheListFresh
<1> QED BY <1>1, <1>2
-----------------------------------------------------------------------------
(****************************************************************************)
(* Files and Shows: the other actions of the gui                            *)
(****************************************************************************)
LEMMA HelpFresh ==
  ASSUME Base, Files, Shows, Help
  PROVE  Files' /\ Shows'
<1>1. PICK l \in Lists : l = posting
  BY DEF Base, Types, ListType
<1>2. /\ gpc = "help" /\ gpc' = "idle"
      /\ UNCHANGED <<pc, job, item, photo, rendered, job_timestamp, image, image_cnt, thumbnail>>
      /\ UNCHANGED <<cfg, bc1, current, gid_loaded, loaded, raced, missed, broken>>
      /\ UNCHANGED uncached
  BY DEF Help, dbVars, workerVars, fileVars, ghostVars
<1>3. ~Reopening /\ ~Reopening' /\ gpc # "leave" /\ gpc # "load" /\ gpc' # "load"
  BY <1>2 DEF Reopening
<1>4. ASSUME NEW p
      PROVE  Pending(p) => Pending(p)'
  <2>1. CASE UNCHANGED <<stamp, coll, work_item>>
    <3>1. ~Leaving(p)
      BY <1>3 DEF Leaving
    <3> QED BY <1>2, <1>3, <2>1, <3>1, SamePending
  <2>2. CASE ~Left(l) /\ Helpers(l) = {Gui} /\ ForgetList(l)
    <3>1. \A v \in Workers : pc[v] = "lock" => job[v] # l
      BY <2>2, ThumbnailJobsAssumption DEF Helpers
    <3> QED BY <1>2, <1>3, <2>2, <3>1, ForgetPending
  <2> QED BY <1>1, <2>1, <2>2 DEF Help
<1>5. \A p \in Photos : Resetting(p) => Resetting(p)'
  BY <1>2 DEF Resetting, Resets
<1>6. Shows'
  BY <1>2, <1>3, <1>4, <1>5 DEF Shows, OnDisk, InMemory
<1>7. Files'
  BY <1>2, SameFiles
<1> QED BY <1>6, <1>7

LEMMA WriteConfigFresh ==
  ASSUME Base, Files, Shows, gpc = "idle", WriteConfig
  PROVE  Files' /\ Shows'
<1>1. PICK i \in 1 .. image_cnt :
        /\ \E still \in SUBSET Photos : Edited({image[i]}, still)
        /\ gid_loaded' = i
  BY DEF WriteConfig
<1>2. PICK q \in Photos : q = image[i]
  BY DEF Base, Images
<1>3. /\ gpc' = "leave"
      /\ UNCHANGED <<pc, job, item, photo, rendered, job_timestamp, image, image_cnt, thumbnail>>
      /\ UNCHANGED <<stamp, coll, work_item, bc1, missed, broken, uncached>>
  BY DEF WriteConfig, dbVars, listVars, poolVars, workerVars
<1>4. /\ Files' /\ raced \subseteq raced'
      /\ \A p \in Photos \ {q} : cfg'[p] = cfg[p]
  BY <1>1, <1>2, <1>3, EditedFiles
<1>5. \A p \in Photos : (Pending(p) => Pending(p)') /\ (Resetting(p) => Resetting(p)')
  BY <1>3, SamePending DEF Reopening, Leaving
<1>6. Pending(q)'
  <2>1. Leaving(q)'
    BY <1>1, <1>2, <1>3 DEF Leaving
  <2> QED BY <2>1 DEF Pending
<1>7. ASSUME NEW k \in 1 .. image_cnt, NEW p \in Photos \ (raced' \cup broken'), image[k] = p
      PROVE  OnDisk(p)' /\ (p \notin missed => InMemory(thumbnail[k], p)')
  <2>1. CASE p = q
    BY <1>6, <2>1 DEF OnDisk, InMemory
  <2>2. CASE p # q
    BY <1>3, <1>4, <1>5, <1>7, <2>2 DEF Shows, OnDisk, InMemory
  <2> QED BY <2>1, <2>2
<1>8. Shows'
  BY <1>3, <1>7 DEF Shows, Reopening
<1> QED BY <1>4, <1>8

LEMMA WriteThumbnailFresh ==
  ASSUME Base, Files, Shows, WriteThumbnail
  PROVE  Files' /\ Shows'
<1>1. PICK q \in Photos : q = image[gid_loaded]
  BY DEF WriteThumbnail, Base, Images
<1>2. /\ gpc = "leave" /\ gpc' = "idle" /\ gid_loaded \in 1 .. image_cnt
      /\ UNCHANGED <<pc, job, item, photo, rendered, job_timestamp, image, image_cnt>>
      /\ UNCHANGED <<stamp, coll, work_item, cfg, loaded, missed, broken>>
  BY DEF WriteThumbnail, listVars, poolVars, workerVars, Base, Images
<1>3. /\ \A p \in Photos \ {q} : bc1'[p] = bc1[p] /\ current'[p] = current[p]
                                 /\ (p \in raced' <=> p \in raced)
                                 /\ (p \in uncached' <=> p \in uncached)
      /\ \A k \in Ids \ {gid_loaded} : thumbnail'[k] = thumbnail[k]
      /\ q \in raced' \/ (bc1'[q] = cfg[q] /\ thumbnail'[gid_loaded] = None /\ Writers(q) = {})
  <2>1. gid_loaded \in Ids
    BY DEF Base, Types, GuiType
  <2>2. CASE raced' = raced \cup {q} /\ UNCHANGED <<bc1, current, thumbnail, uncached>>
    BY <2>2
  <2>3. CASE \E v : /\ bc1' = [bc1 EXCEPT ![q] = v]
                    /\ current' = [current EXCEPT ![q] = TRUE]
                    /\ thumbnail' = [thumbnail EXCEPT ![gid_loaded] = None]
                    /\ IF v = cfg[q] /\ Writers(q) = {}
                         THEN raced' = raced \ {q} /\ uncached' = uncached \ {q}
                         ELSE raced' = raced \cup {q} /\ UNCHANGED uncached
    BY <2>1, <2>3 DEF Base, Types, FileType, DbType
  <2> QED BY <1>1, <2>2, <2>3 DEF WriteThumbnail
<1>4. \A p \in Photos : p # q => (Pending(p) => Pending(p)')
  BY <1>1, <1>2, SamePending DEF Reopening, Leaving
<1>5. \A p \in Photos : Resetting(p) => Resetting(p)'
  BY <1>2 DEF Resetting, Resets
<1>6. ASSUME NEW k \in 1 .. image_cnt, NEW p \in Photos \ (raced' \cup broken'), image[k] = p
      PROVE  OnDisk(p)' /\ (p \notin missed => InMemory(thumbnail[k], p)')
  <2>1. k \in Ids
    BY Values DEF Base, Types, DbType, Ids
  <2>2. CASE p = q
    <3>1. k = gid_loaded
      BY <1>1, <1>2, <1>6, <2>2 DEF Base, Images
    <3> QED BY <1>2, <1>3, <1>6, <2>2, <3>1 DEF OnDisk, InMemory
  <2>3. CASE p # q
    <3>1. k # gid_loaded
      BY <1>1, <1>6, <2>3
    <3> QED BY <1>2, <1>3, <1>4, <1>5, <1>6, <2>1, <2>3, <3>1 DEF Shows, OnDisk, InMemory
  <2> QED BY <2>2, <2>3
<1>7. Shows'
  BY <1>2, <1>6 DEF Shows, Reopening
<1>8. Files'
  <2>1. \A p \in Photos : p \notin raced' \cup broken' /\ bc1'[p] # None /\ current'[p]
                            => bc1'[p] = cfg[p]
    BY <1>2, <1>3 DEF Files
  <2>2. ASSUME NEW w \in Workers, pc[w] = "write", photo[w] \notin raced'
        PROVE  rendered[w] = cfg[photo[w]]
    <3>1. photo[w] \in Photos
      BY <2>2 DEF Base, Items, Using
    <3>2. photo[w] # q
      BY <1>3, <2>2, <3>1 DEF Writers
    <3> QED BY <1>3, <2>2, <3>1, <3>2 DEF Files
  <2> QED BY <1>2, <2>1, <2>2 DEF Files
<1> QED BY <1>7, <1>8

LEMMA LoadFresh ==
  ASSUME Base, Files, Shows, gpc = "idle", Load
  PROVE  Files' /\ Shows'
<1>1. PICK i \in 1 .. image_cnt : gid_loaded' = i /\ loaded' = bc1[image[i]]
  BY DEF Load
<1>2. /\ gpc' = "load"
      /\ UNCHANGED <<pc, job, item, photo, rendered, job_timestamp, image, image_cnt, thumbnail>>
      /\ UNCHANGED <<stamp, coll, work_item, cfg, bc1, current, raced, missed, broken>>
      /\ UNCHANGED uncached
  BY DEF Load, dbVars, listVars, poolVars, workerVars, fileVars, ghostVars
<1>3. \A p \in Photos : (Pending(p) => Pending(p)') /\ (Resetting(p) => Resetting(p)')
  BY <1>2, SamePending DEF Reopening, Leaving
<1>4. Shows'
  BY <1>1, <1>2, <1>3 DEF Shows, OnDisk, InMemory, Reopening
<1>5. Files'
  BY <1>2, SameFiles
<1> QED BY <1>4, <1>5

LEMMA LoadedFresh ==
  ASSUME Base, Files, Shows, Loaded
  PROVE  Files' /\ Shows'
<1>1. /\ gpc = "load" /\ gpc' = "idle" /\ gid_loaded \in 1 .. image_cnt
      /\ UNCHANGED <<pc, job, item, photo, rendered, job_timestamp, image, image_cnt>>
      /\ UNCHANGED <<stamp, coll, work_item, cfg, bc1, current, raced, missed, broken>>
      /\ UNCHANGED uncached
  BY DEF Loaded, listVars, poolVars, workerVars, fileVars, ghostVars, Base, Images
<1>2. \A p \in Photos : (Pending(p) => Pending(p)') /\ (Resetting(p) => Resetting(p)')
  BY <1>1, SamePending DEF Reopening, Leaving
<1>3. ASSUME NEW k \in 1 .. image_cnt
      PROVE  thumbnail'[k] \in {None, thumbnail[k]} \/ (k = gid_loaded /\ thumbnail'[k] = loaded)
  <2>1. k \in Ids /\ gid_loaded \in Ids
    BY Values DEF Base, Types, DbType, GuiType, Ids
  <2> QED BY <2>1 DEF Loaded, Base, Types, DbType
<1>4. Shows'
  BY <1>1, <1>2, <1>3 DEF Shows, OnDisk, InMemory, Reopening
<1>5. Files'
  BY <1>1, SameFiles
<1> QED BY <1>4, <1>5

\* The photo that takes the place of the one removed is due where it was,
\* since the entries beyond the count stay.
LEMMA RemoveFresh ==
  ASSUME Base, Files, Shows, gpc = "idle", RemoveSelected
  PROVE  Files' /\ Shows'
<1>1. PICK i \in 1 .. image_cnt :
        /\ image' = [image EXCEPT ![i] = image[image_cnt]]
        /\ thumbnail' = [thumbnail EXCEPT ![i] = thumbnail[image_cnt]]
  BY DEF RemoveSelected
<1>2. /\ image_cnt \in Nat /\ image_cnt <= MaxImages /\ MaxImages \in Nat
      /\ image_cnt' = image_cnt - 1 /\ image_cnt >= 1
  BY Values DEF Base, Types, DbType, RemoveSelected
<1>3. image_cnt \in Ids /\ i \in Ids /\ 1 .. image_cnt \subseteq Ids
      /\ image_cnt \in 1 .. image_cnt
      /\ 1 .. image_cnt' \subseteq 1 .. image_cnt /\ image_cnt \notin 1 .. image_cnt'
  BY <1>2 DEF Ids
<1>4. \A k \in Ids : /\ image'[k] = IF k = i THEN image[image_cnt] ELSE image[k]
                     /\ thumbnail'[k] = IF k = i THEN thumbnail[image_cnt] ELSE thumbnail[k]
  BY <1>1 DEF Base, Types, DbType
<1>5. /\ gpc' = gpc
      /\ UNCHANGED <<pc, job, item, photo, rendered, job_timestamp, stamp, coll, work_item>>
      /\ UNCHANGED <<cfg, bc1, current, raced, missed, broken>>
      /\ UNCHANGED uncached
  BY DEF RemoveSelected, listVars, poolVars, workerVars, fileVars, guiVars, ghostVars
<1>6. ASSUME NEW j \in 1 .. image_cnt, NEW p \in Photos, image[j] = p, p # image[i], Pending(p)
      PROVE  Pending(p)'
  <2>1. \A k \in Ids : image[k] = p => image'[k] = p
    BY <1>4, <1>6
  <2>2. CASE Due(p)
    <3>1. PICK m \in Lists : /\ stamp[m] = job_timestamp
                             /\ \E k \in DOMAIN coll[m] : k > work_item[m] /\ image[coll[m][k]] = p
      BY <2>2 DEF Due
    <3>2. \A k \in DOMAIN coll[m] : coll[m][k] \in Ids
      BY Values DEF Base
    <3>3. Due(p)'
      BY <1>5, <2>1, <3>1, <3>2 DEF Due
    <3> QED BY <3>3 DEF Pending
  <2>3. CASE \E v \in Workers : WorksOn(v, p)
    <3>1. PICK v \in Workers : WorksOn(v, p)
      BY <2>3
    <3>2. pc[v] = "lock" => Id(v) \in Ids
      BY IdType DEF Holds
    <3>3. WorksOn(v, p)'
      BY <1>5, <2>1, <3>1, <3>2 DEF WorksOn, Id
    <3> QED BY <3>3 DEF Pending
  <2> QED BY <1>6, <2>2, <2>3 DEF Pending, Reopening, Leaving
<1>7. \A p \in Photos : Resetting(p) => Resetting(p)'
  BY <1>5 DEF Resetting, Resets
<1>8. ASSUME NEW k \in 1 .. image_cnt', NEW p \in Photos \ (raced \cup broken), image'[k] = p
      PROVE  OnDisk(p)' /\ (p \notin missed => InMemory(thumbnail[k], p)')
  <2>1. PICK j \in 1 .. image_cnt : /\ image[j] = p /\ p # image[i]
                                    /\ thumbnail'[k] = thumbnail[j]
    <3>1. k \in 1 .. image_cnt /\ k \in Ids /\ k # image_cnt
      BY <1>3
    <3>2. CASE k = i
      <4>1. image[image_cnt] = p /\ thumbnail'[k] = thumbnail[image_cnt] /\ image_cnt # i
        BY <1>4, <1>8, <3>1, <3>2
      <4>2. image[image_cnt] # image[i]
        BY <1>3, <4>1 DEF Base, Images
      <4> QED BY <1>3, <4>1, <4>2
    <3>3. CASE k # i
      <4>1. image[k] = p /\ thumbnail'[k] = thumbnail[k]
        BY <1>4, <1>8, <3>1, <3>3
      <4>2. image[k] # image[i]
        BY <3>1, <3>3 DEF Base, Images
      <4> QED BY <3>1, <4>1, <4>2
    <3> QED BY <3>2, <3>3
  <2>2. /\ OnDisk(p)
        /\ p \notin missed => InMemory(thumbnail[j], p)
    BY <2>1 DEF Shows
  <2>3. Pending(p) => Pending(p)'
    BY <1>6, <2>1
  <2> QED BY <1>5, <1>7, <2>1, <2>2, <2>3 DEF OnDisk, InMemory
<1>9. Shows'
  BY <1>5, <1>8 DEF Shows, Reopening
<1>10. Files'
  BY <1>5, SameFiles
<1> QED BY <1>9, <1>10

\* While another directory is opened everything is uncached, and none of it is
\* in memory when it is there.
LEMMA ReopenFresh ==
  ASSUME Base', Files, Shows,
         \/ Abort \/ AbortLock \/ AbortUnlock \/ DbCleanup \/ DbOpen
  PROVE  Files' /\ Shows'
<1>1. UNCHANGED <<pc, photo, rendered, cfg, bc1, current, raced, broken>>
  BY DEF Abort, AbortLock, AbortUnlock, DbCleanup, DbOpen, workerVars, fileVars, ghostVars
<1>2. Files'
  BY <1>1, SameFiles
<1>3. uncached' = Photos
  BY DEF Abort, AbortLock, AbortUnlock, DbCleanup, DbOpen, Shows, Reopening, ghostVars
<1>4. CASE Reopening'
  <2>1. \A p : Pending(p)'
    BY <1>4 DEF Pending
  <2>2. ASSUME NEW i \in 1 .. image_cnt', NEW p \in Photos
        PROVE  OnDisk(p)' /\ InMemory(thumbnail[i], p)' /\ InMemory(loaded, p)'
    BY <2>1 DEF OnDisk, InMemory
  <2> QED BY <1>2, <1>3, <2>2 DEF Shows
<1>5. CASE DbOpen
  <2>1. PICK d \in Directories : Opened(d)
    BY <1>5 DEF DbOpen
  <2>2. 1 .. image_cnt' \subseteq Ids
    BY ThumbnailJobsAssumption DEF Base, Types, DbType, Ids
  <2>3. \A i \in 1 .. image_cnt' : thumbnail'[i] = None
    BY <2>1, <2>2 DEF Opened
  <2>4. gpc' # "load" /\ uncached' = Photos
    BY <1>3, <1>5 DEF DbOpen
  <2>5. ASSUME NEW i \in 1 .. image_cnt', NEW p \in Photos
        PROVE  OnDisk(p)' /\ InMemory(thumbnail[i], p)'
    BY <2>3, <2>4 DEF OnDisk, InMemory
  <2> QED BY <1>2, <2>4, <2>5 DEF Shows
<1> QED BY <1>4, <1>5 DEF Reopening, Abort, AbortLock, AbortUnlock, DbCleanup

LEMMA StepFresh ==
  ASSUME Base, Base', Counts, Files, Shows, Next
  PROVE  Files' /\ Shows'
<1>1. CASE GuiStep
  BY <1>1, HelpFresh, WriteThumbnailFresh, LoadedFresh, ReopenFresh, CacheCollectionFresh DEF GuiStep
<1>2. CASE User
  BY <1>2, CacheCollectionFresh, PostFresh, RemoveFresh, WriteConfigFresh, LoadFresh, ReopenFresh DEF User
<1>3. CASE \E w \in Workers : WorkerStep(w)
  BY <1>3, WorkerFresh
<1> QED BY <1>1, <1>2, <1>3 DEF Next

LEMMA AlwaysFresh == Spec => [](Files /\ Shows)
<1>1. Init => Files /\ Shows
  <2>1. SUFFICES ASSUME Init PROVE Files /\ Shows
    OBVIOUS
  <2>2. uncached = Photos /\ gpc = "post" /\ \A i \in Ids : thumbnail[i] = None
    BY <2>1 DEF Init
  <2>3. 1 .. image_cnt \subseteq Ids
    <3>1. Base
      BY <2>1, InitBase
    <3> QED BY <3>1, Values DEF Base, Types, DbType, Ids
  <2>4. Shows
    BY <2>2, <2>3 DEF Shows, OnDisk, InMemory
  <2>5. Files
    BY <2>1 DEF Init, Files
  <2> QED BY <2>4, <2>5
<1>2. Base /\ Base' /\ Counts /\ (Files /\ Shows) /\ [Next]_vars => (Files /\ Shows)'
  <2>1. ASSUME Files, Shows, UNCHANGED vars
        PROVE  Files' /\ Shows'
    <3>1. /\ UNCHANGED <<pc, job, item, photo, rendered, job_timestamp, image, image_cnt>>
          /\ UNCHANGED <<thumbnail, stamp, coll, work_item, cfg, bc1, current>>
          /\ UNCHANGED <<gpc, gid_loaded, loaded, raced, missed, broken, uncached>>
      BY <2>1 DEF vars, dbVars, listVars, poolVars, workerVars, fileVars, guiVars, ghostVars
    <3>2. \A p \in Photos : (Pending(p) => Pending(p)') /\ (Resetting(p) => Resetting(p)')
      BY <3>1, SamePending DEF Reopening, Leaving
    <3>3. Shows'
      BY <2>1, <3>1, <3>2, SameShows
    <3>4. Files'
      BY <2>1, <3>1, SameFiles
    <3> QED BY <3>3, <3>4
  <2> QED BY <2>1, StepFresh
<1> QED BY <1>1, <1>2, AlwaysBase, AlwaysCounts, PTL DEF Spec

\* However edits, lists that are cached or refused, and aborts come together: a
\* file that is taken for up to date shows the last edit; and when nothing is
\* left to do, so does that of every image that was cached since, and none is
\* shown in memory by another file than it has; except those the history
\* variables name (thumbnails.c: dt_thumbnails_cache_one, _list and _abort).
THEOREM ThumbnailFresh == Spec => []Fresh
<1>1. Base /\ Counts /\ Files /\ Shows => Fresh
  <2>1. SUFFICES ASSUME Base, Counts, Files, Shows
                 PROVE  Fresh
    OBVIOUS
  <2>2. \A p \in Photos \ (raced \cup broken) : UpToDate(p) => bc1[p] = cfg[p]
    BY <2>1 DEF Files, UpToDate
  <2>3. ASSUME Quiet, NEW i \in 1 .. image_cnt, image[i] \notin raced \cup broken
        PROVE  /\ image[i] \notin uncached => bc1[image[i]] = cfg[image[i]]
               /\ bc1[image[i]] # None /\ image[i] \notin missed
                     => thumbnail[i] \in {None, bc1[image[i]]}
    <3>1. PICK p \in Photos : p = image[i]
      BY <2>1 DEF Base, Images
    <3>2. \A l \in Lists : coll[l] = <<>>
      BY <2>1, <2>3 DEF Quiet, Counts, Helpers
    <3>3. ~Due(p)
      <4>1. DOMAIN <<>> = {}
        OBVIOUS
      <4> QED BY <3>2, <4>1 DEF Due
    <3>4. \A w \in Workers : pc[w] = "idle"
      BY <2>3 DEF Quiet
    <3>5. ~Pending(p) /\ ~Resetting(p)
      BY <2>3, <3>3, <3>4 DEF Quiet, Pending, Resetting, Resets, WorksOn, Reopening, Leaving
    <3> QED BY <2>1, <2>3, <3>1, <3>5 DEF Shows, OnDisk, InMemory
  <2> QED BY <2>2, <2>3 DEF Fresh
<1> QED BY <1>1, AlwaysBase, AlwaysCounts, AlwaysFresh, PTL
=============================================================================
