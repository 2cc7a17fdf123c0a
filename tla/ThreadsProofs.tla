--------------------------- MODULE ThreadsProofs ---------------------------
(***************************************************************************)
(* Theorems about Threads, for any number of workers, clients, slots, jobs *)
(* and items: types, the exclusive ownership of slots (also with helpers   *)
(* and slots handed out again), and the promise of JobPool and of          *)
(* threads_wait, once for jobs that are one task each and once for jobs    *)
(* shared by any number of tasks, as long as no slot is handed out while   *)
(* somebody refers to it.                                                  *)
(***************************************************************************)
EXTENDS Threads, FiniteSetTheorems, TLAPS

LEMMA NotAState == \A w \in Workers : w # Ready /\ w # Initing /\ w # Recycle
  BY ThreadsAssumption

LEMMA StatesDiffer == Ready # Initing /\ Ready # Recycle /\ Initing # Recycle
  BY DEF Ready, Initing, Recycle

LEMMA ZeroSlot == 0 \in Slots /\ 0 \in Items /\ NSlots \in Nat /\ MaxItems \in Nat
  BY ThreadsAssumption DEF Slots, Items

LEMMA CntType ==
  \A j \in Jobs : Cnt[j] \in 1 .. MaxItems /\ Cnt[j] \in 0 .. MaxItems /\ Parts[j] - 1 \in Nat
  BY ThreadsAssumption

LEMMA ItemsFacts ==
  /\ MaxItems \in Nat
  /\ \A i \in Items : i \in Nat
  /\ \A i \in Nat : i < MaxItems => i \in Items
  /\ \A j \in Jobs : Cnt[j] \in Nat /\ Cnt[j] <= MaxItems /\ Parts[j] \in Nat
  /\ None \notin Jobs /\ None \notin Slots
  BY ThreadsAssumption DEF Items, Slots

LEMMA LessSucc == \A i, k \in Nat : i # k => (i < k + 1 <=> i < k)
  OBVIOUS

\* One more call counted for item i of job j, all others as before.
LEMMA Bump ==
  ASSUME NEW f \in [Jobs -> [Items -> Nat]], NEW j \in Jobs, NEW i \in Items, NEW g,
         g = [f EXCEPT ![j][i] = @ + 1]
  PROVE  /\ g[j][i] = f[j][i] + 1
         /\ \A k \in Jobs, l \in Items : k # j \/ l # i => g[k][l] = f[k][l]
  OBVIOUS
-----------------------------------------------------------------------------
(***************************************************************************)
(* Types and ownership                                                     *)
(***************************************************************************)
\* Wherever a job is looked up there is one.
JobKnown ==
  /\ \A s \in Slots : tid[s] \in Workers \cup {Ready} => data[s] \in Jobs
  /\ \A c \in Clients : cpc[c] # "idle" => cjob[c] \in Jobs
  /\ \A c \in Clients : cpc[c] = "ready" => data[cslot[c]] \in Jobs

LEMMA OwnedInit == Init => TypeOK /\ SlotOwned /\ JobKnown
<1> SUFFICES ASSUME Init PROVE TypeOK /\ SlotOwned /\ JobKnown
  OBVIOUS
<1> USE ZeroSlot DEF Init
<1>1. SlotTypes
  BY DEF SlotTypes
<1>2. WorkerTypes
  BY DEF WorkerTypes, WorkerPC
<1>3. ClientTypes
  BY DEF ClientTypes, ClientPC
<1>4. StopTypes /\ GhostTypes
  BY DEF StopTypes, GhostTypes
<1>5. SlotOwned
  BY DEF SlotOwned, Busy, Claims
<1>6. JobKnown
  BY NotAState, StatesDiffer DEF JobKnown
<1> QED
  BY <1>1, <1>2, <1>3, <1>4, <1>5, <1>6 DEF TypeOK

LEMMA TypeNext == TypeOK /\ SlotOwned /\ JobKnown /\ [Next]_vars => TypeOK'
<1> SUFFICES ASSUME TypeOK, SlotOwned, JobKnown, [Next]_vars PROVE TypeOK'
  OBVIOUS
<1> USE ZeroSlot, CntType DEF TypeOK, WorkerPC, ClientPC, Goto, CGoto, WakeSleepers,
            slotVars, workerVars, clientVars, stopVars, ghostVars
<1>1. ASSUME NEW w \in Workers, Wait(w) PROVE TypeOK'
  BY <1>1 DEF Wait, SlotTypes, WorkerTypes, ClientTypes, StopTypes, GhostTypes
<1>2. ASSUME NEW w \in Workers, Spurious(w) PROVE TypeOK'
  BY <1>2 DEF Spurious, SlotTypes, WorkerTypes, ClientTypes, StopTypes, GhostTypes
<1>3. ASSUME NEW w \in Workers, Woken(w) PROVE TypeOK'
  BY <1>3 DEF Woken, SlotTypes, WorkerTypes, ClientTypes, StopTypes, GhostTypes
<1>4. ASSUME NEW w \in Workers, ScanTask(w) PROVE TypeOK'
  <2>1. SlotTypes'
    BY <1>4 DEF ScanTask, Takable, SlotTypes
  <2>2. WorkerTypes'
    BY <1>4 DEF ScanTask, Takable, WorkerTypes
  <2> QED BY <1>4, <2>1, <2>2 DEF ScanTask, ClientTypes, StopTypes, GhostTypes
<1>5. ASSUME NEW w \in Workers, Pick(w) PROVE TypeOK'
  <2>1. at[w] \in Slots /\ reftask[at[w]] \in Slots /\ work_item[reftask[at[w]]] \in Nat /\ work_item_cnt[at[w]] \in 0 .. MaxItems
    BY <1>5 DEF Pick, SlotTypes, WorkerTypes, ClientTypes, GhostTypes, SlotOwned, JobKnown, Busy, Claims
  <2>2. data[at[w]] \in Jobs
    BY <1>5, <2>1 DEF Pick, SlotTypes, WorkerTypes, ClientTypes, GhostTypes, SlotOwned, JobKnown, Busy, Claims
  <2>3. Left(at[w], work_item[reftask[at[w]]]) => work_item[reftask[at[w]]] \in Items
    BY <1>5, <2>1, <2>2 DEF Pick, SlotTypes, WorkerTypes, ClientTypes, GhostTypes, SlotOwned, JobKnown, Busy, Claims, Left, Items
  <2>4. SlotTypes'
    BY <1>5, <2>1, <2>2, <2>3 DEF Pick, Left, SlotTypes
  <2>5. WorkerTypes'
    BY <1>5, <2>1, <2>2, <2>3 DEF Pick, Left, WorkerTypes
  <2>6. GhostTypes'
    BY <1>5, <2>1, <2>2, <2>3 DEF Pick, Left, GhostTypes
  <2> QED BY <1>5, <2>4, <2>5, <2>6 DEF Pick, ClientTypes, StopTypes
<1>6. ASSUME NEW w \in Workers, Finish(w) PROVE TypeOK'
  <2>1. at[w] \in Slots /\ reftask[at[w]] \in Slots /\ done[reftask[at[w]]] \in Nat /\ item[w] \in Items
    BY <1>6 DEF Finish, SlotTypes, WorkerTypes, ClientTypes, GhostTypes, SlotOwned, JobKnown, Busy, Claims
  <2>2. data[at[w]] \in Jobs /\ ended[data[at[w]]] \in [Items -> Nat]
    BY <1>6, <2>1 DEF Finish, SlotTypes, WorkerTypes, ClientTypes, GhostTypes, SlotOwned, JobKnown, Busy, Claims
  <2>3. SlotTypes'
    BY <1>6, <2>1, <2>2 DEF Finish, CountDone, SlotTypes
  <2>4. WorkerTypes'
    BY <1>6, <2>1, <2>2 DEF Finish, CountDone, WorkerTypes
  <2>5. GhostTypes'
    BY <1>6, <2>1, <2>2 DEF Finish, CountDone, GhostTypes
  <2> QED BY <1>6, <2>3, <2>4, <2>5 DEF Finish, ClientTypes, StopTypes
<1>7. ASSUME NEW w \in Workers, FreeJob(w) PROVE TypeOK'
  <2>1. at[w] \in Slots /\ data[at[w]] \in Jobs
    BY <1>7 DEF FreeJob, SlotTypes, WorkerTypes, ClientTypes, GhostTypes, SlotOwned, JobKnown, Busy, Claims
  <2>2. WorkerTypes'
    BY <1>7, <2>1 DEF FreeJob, AllDone, WorkerTypes
  <2>3. GhostTypes'
    BY <1>7, <2>1 DEF FreeJob, AllDone, GhostTypes
  <2> QED BY <1>7, <2>2, <2>3 DEF FreeJob, SlotTypes, ClientTypes, StopTypes
<1>8. ASSUME NEW w \in Workers, GiveUp(w) PROVE TypeOK'
  BY <1>8 DEF GiveUp, SlotTypes, WorkerTypes, ClientTypes, StopTypes, GhostTypes
<1>9. ASSUME NEW w \in Workers, Report(w) PROVE TypeOK'
  BY <1>9 DEF Report, SlotTypes, WorkerTypes, ClientTypes, StopTypes, GhostTypes
<1>10. ASSUME NEW w \in Workers, GiveBack(w) PROVE TypeOK'
  BY <1>10 DEF GiveBack, SlotTypes, WorkerTypes, ClientTypes, StopTypes, GhostTypes
<1>11. ASSUME NEW c \in Clients, NEW j \in Jobs, Post(c, j) PROVE TypeOK'
  BY <1>11 DEF Post, SlotTypes, WorkerTypes, ClientTypes, StopTypes, GhostTypes
<1>12. ASSUME NEW c \in Clients, ScanSlot(c) PROVE TypeOK'
  BY <1>12 DEF ScanSlot, SlotTypes, WorkerTypes, ClientTypes, StopTypes, GhostTypes
<1>13. ASSUME NEW c \in Clients, InitSlot(c) PROVE TypeOK'
  <2>1. cjob[c] \in Jobs /\ Cnt[cjob[c]] \in 1 .. MaxItems
    BY <1>13 DEF InitSlot, SlotTypes, WorkerTypes, ClientTypes, GhostTypes, SlotOwned, JobKnown, Busy, Claims
  <2>2. cslot[c] \in Slots /\ (cref[c] = None \/ cref[c] \in Slots)
    BY <1>13, <2>1 DEF InitSlot, SlotTypes, WorkerTypes, ClientTypes, GhostTypes, SlotOwned, JobKnown, Busy, Claims
  <2>3. SlotTypes'
    BY <1>13, <2>1, <2>2 DEF InitSlot, ResetCounter, SlotTypes
  <2>4. ClientTypes'
    BY <1>13, <2>1, <2>2 DEF InitSlot, ResetCounter, ClientTypes
  <2> QED BY <1>13, <2>3, <2>4 DEF InitSlot, WorkerTypes, StopTypes, GhostTypes
<1>14. ASSUME NEW c \in Clients, Publish(c) PROVE TypeOK'
  BY <1>14 DEF Publish, SlotTypes, WorkerTypes, ClientTypes, StopTypes, GhostTypes
<1>15. ASSUME NEW c \in Clients, Signal(c) PROVE TypeOK'
  BY <1>15 DEF Signal, SlotTypes, WorkerTypes, ClientTypes, StopTypes, GhostTypes
<1>16. ASSUME NEW c \in Clients, Help(c) PROVE TypeOK'
  <2>1. ClientTypes'
    BY <1>16 DEF Help, ClientTypes
  <2> QED BY <1>16, <2>1 DEF Help, SlotTypes, WorkerTypes, StopTypes, GhostTypes
<1>17. ASSUME NEW c \in Clients, Posted(c) PROVE TypeOK'
  BY <1>17 DEF Posted, SlotTypes, WorkerTypes, ClientTypes, StopTypes, GhostTypes
<1>18. ASSUME NEW c \in Clients, Test(c) PROVE TypeOK'
  BY <1>18 DEF Test, Unfinished, SlotTypes, WorkerTypes, ClientTypes, StopTypes, GhostTypes
<1>19. ASSUME NEW c \in Clients, Timeout(c) PROVE TypeOK'
  BY <1>19 DEF Timeout, SlotTypes, WorkerTypes, ClientTypes, StopTypes, GhostTypes
<1>24. ASSUME NEW c \in Clients, Sleep(c) PROVE TypeOK'
  BY <1>24 DEF Sleep, SlotTypes, WorkerTypes, ClientTypes, StopTypes, GhostTypes
<1>20. ASSUME Shutdown PROVE TypeOK'
  BY <1>20 DEF Shutdown, SlotTypes, WorkerTypes, ClientTypes, StopTypes, GhostTypes
<1>21. ASSUME Broadcast PROVE TypeOK'
  BY <1>21 DEF Broadcast, SlotTypes, WorkerTypes, ClientTypes, StopTypes, GhostTypes
<1>22. ASSUME Join PROVE TypeOK'
  BY <1>22 DEF Join, SlotTypes, WorkerTypes, ClientTypes, StopTypes, GhostTypes
<1>23. CASE UNCHANGED vars
  BY <1>23 DEF vars, SlotTypes, WorkerTypes, ClientTypes, StopTypes, GhostTypes
<1> QED
  BY <1>1, <1>2, <1>3, <1>4, <1>5, <1>6, <1>7, <1>8, <1>9, <1>10, <1>11, <1>12, <1>13, <1>14, <1>15, <1>16, <1>17, <1>18, <1>19, <1>20, <1>21, <1>22, <1>23, <1>24 DEF Next, WorkerStep, ClientStep

LEMMA OwnedNext ==
  TypeOK /\ SlotOwned /\ JobKnown /\ [Next]_vars => SlotOwned' /\ JobKnown'
<1> SUFFICES ASSUME TypeOK, SlotOwned, JobKnown, [Next]_vars
             PROVE  SlotOwned' /\ JobKnown'
  OBVIOUS
<1> USE NotAState DEF TypeOK, SlotTypes, WorkerTypes, ClientTypes, Goto, CGoto, WakeSleepers, Busy, Claims,
            slotVars, workerVars, clientVars, stopVars, ghostVars
<1>1. ASSUME NEW w \in Workers, Wait(w) PROVE SlotOwned' /\ JobKnown'
  BY <1>1 DEF Wait, SlotOwned, JobKnown, Ready, Initing, Recycle
<1>2. ASSUME NEW w \in Workers, Spurious(w) PROVE SlotOwned' /\ JobKnown'
  BY <1>2 DEF Spurious, SlotOwned, JobKnown, Ready, Initing, Recycle
<1>3. ASSUME NEW w \in Workers, Woken(w) PROVE SlotOwned' /\ JobKnown'
  BY <1>3 DEF Woken, SlotOwned, JobKnown, Ready, Initing, Recycle
<1>4. ASSUME NEW w \in Workers, ScanTask(w) PROVE SlotOwned' /\ JobKnown'
  BY <1>4 DEF ScanTask, Takable, SlotOwned, JobKnown, Ready, Initing, Recycle
<1>5. ASSUME NEW w \in Workers, Pick(w) PROVE SlotOwned' /\ JobKnown'
  BY <1>5 DEF Pick, Left, SlotOwned, JobKnown, Ready, Initing, Recycle
<1>6. ASSUME NEW w \in Workers, Finish(w) PROVE SlotOwned' /\ JobKnown'
  BY <1>6 DEF Finish, CountDone, SlotOwned, JobKnown, Ready, Initing, Recycle
<1>7. ASSUME NEW w \in Workers, FreeJob(w) PROVE SlotOwned' /\ JobKnown'
  BY <1>7 DEF FreeJob, AllDone, SlotOwned, JobKnown, Ready, Initing, Recycle
<1>8. ASSUME NEW w \in Workers, GiveUp(w) PROVE SlotOwned' /\ JobKnown'
  BY <1>8 DEF GiveUp, SlotOwned, JobKnown, Ready, Initing, Recycle
<1>9. ASSUME NEW w \in Workers, Report(w) PROVE SlotOwned' /\ JobKnown'
  BY <1>9 DEF Report, SlotOwned, JobKnown, Ready, Initing, Recycle
<1>10. ASSUME NEW w \in Workers, GiveBack(w) PROVE SlotOwned' /\ JobKnown'
  BY <1>10 DEF GiveBack, SlotOwned, JobKnown, Ready, Initing, Recycle
<1>11. ASSUME NEW c \in Clients, NEW j \in Jobs, Post(c, j) PROVE SlotOwned' /\ JobKnown'
  BY <1>11 DEF Post, SlotOwned, JobKnown, Ready, Initing, Recycle
<1>12. ASSUME NEW c \in Clients, ScanSlot(c) PROVE SlotOwned' /\ JobKnown'
  BY <1>12 DEF ScanSlot, SlotOwned, JobKnown, Ready, Initing, Recycle
<1>13. ASSUME NEW c \in Clients, InitSlot(c) PROVE SlotOwned' /\ JobKnown'
  BY <1>13 DEF InitSlot, ResetCounter, SlotOwned, JobKnown, Ready, Initing, Recycle
<1>14. ASSUME NEW c \in Clients, Publish(c) PROVE SlotOwned' /\ JobKnown'
  BY <1>14 DEF Publish, SlotOwned, JobKnown, Ready, Initing, Recycle
<1>15. ASSUME NEW c \in Clients, Signal(c) PROVE SlotOwned' /\ JobKnown'
  BY <1>15 DEF Signal, SlotOwned, JobKnown, Ready, Initing, Recycle
<1>16. ASSUME NEW c \in Clients, Help(c) PROVE SlotOwned' /\ JobKnown'
  BY <1>16 DEF Help, SlotOwned, JobKnown, Ready, Initing, Recycle
<1>17. ASSUME NEW c \in Clients, Posted(c) PROVE SlotOwned' /\ JobKnown'
  BY <1>17 DEF Posted, SlotOwned, JobKnown, Ready, Initing, Recycle
<1>18. ASSUME NEW c \in Clients, Test(c) PROVE SlotOwned' /\ JobKnown'
  BY <1>18 DEF Test, Unfinished, SlotOwned, JobKnown, Ready, Initing, Recycle
<1>19. ASSUME NEW c \in Clients, Timeout(c) PROVE SlotOwned' /\ JobKnown'
  BY <1>19 DEF Timeout, SlotOwned, JobKnown, Ready, Initing, Recycle
<1>24. ASSUME NEW c \in Clients, Sleep(c) PROVE SlotOwned' /\ JobKnown'
  BY <1>24 DEF Sleep, SlotOwned, JobKnown, Ready, Initing, Recycle
<1>20. ASSUME Shutdown PROVE SlotOwned' /\ JobKnown'
  BY <1>20 DEF Shutdown, SlotOwned, JobKnown, Ready, Initing, Recycle
<1>21. ASSUME Broadcast PROVE SlotOwned' /\ JobKnown'
  BY <1>21 DEF Broadcast, SlotOwned, JobKnown, Ready, Initing, Recycle
<1>22. ASSUME Join PROVE SlotOwned' /\ JobKnown'
  BY <1>22 DEF Join, SlotOwned, JobKnown, Ready, Initing, Recycle
<1>23. CASE UNCHANGED vars
  BY <1>23 DEF vars, SlotOwned, JobKnown
<1> QED
  BY <1>1, <1>2, <1>3, <1>4, <1>5, <1>6, <1>7, <1>8, <1>9, <1>10, <1>11, <1>12, <1>13, <1>14, <1>15, <1>16, <1>17, <1>18, <1>19, <1>20, <1>21, <1>22, <1>23, <1>24 DEF Next, WorkerStep, ClientStep

LEMMA OwnedAlways == Spec => [](TypeOK /\ SlotOwned /\ JobKnown)
<1>1. TypeOK /\ SlotOwned /\ JobKnown /\ [Next]_vars => (TypeOK /\ SlotOwned /\ JobKnown)'
  BY TypeNext, OwnedNext
<1> QED
  BY OwnedInit, <1>1, PTL DEF Spec

\* Every variable keeps its type.
THEOREM ThreadsTypeCorrect == Spec => []TypeOK
  BY OwnedAlways, PTL

\* The assertions of threads_work and threads_task never fail: a slot belongs
\* to the one worker that took it until that worker gives it back, and a slot
\* being filled belongs to one client, whatever helpers and reuse do.
THEOREM ThreadsSlotOwned == Spec => []SlotOwned
  BY OwnedAlways, PTL
-----------------------------------------------------------------------------
(***************************************************************************)
(* Jobs of one task: the inductive invariant                               *)
(***************************************************************************)
\* Every job is posted by one call of threads_task.
SingleTask == \A j \in Jobs : Parts[j] = 1

\* Slots that hold a job to be worked on, clients in threads_task, and clients
\* that hold a taskid.
Live(s)    == tid[s] \in Workers \cup {Ready}
Posting(c) == cpc[c] \in {"scan", "init", "ready"}
Watching(c) == cpc[c] \in {"next", "test", "block", "sleep"}

\* Nothing has happened to job j.
Untouched(j) ==
  j \notin released /\ \A i \in Items : begun[j][i] = 0 /\ ended[j][i] = 0

\* Nobody refers to another slot's counters.
OwnCounters ==
  /\ \A s \in Slots : reftask[s] = s
  /\ \A c \in Clients : cleft[c] = 0 /\ (Posting(c) => cref[c] = None)
  /\ \A c \in Clients : Watching(c) => cref[c] \in Slots

\* A job that was not posted yet was not worked on.
FreshUntouched == \A j \in fresh : Untouched(j)

\* Nor was one whose slot is still being looked for or filled.
PostingUntouched ==
  /\ \A c \in Clients : Posting(c) => /\ cjob[c] \in Jobs \ fresh
                                      /\ Untouched(cjob[c])
                                      /\ \A s \in Slots : Live(s) => data[s] # cjob[c]
  /\ \A b, c \in Clients : Posting(b) /\ Posting(c) /\ cjob[b] = cjob[c] => b = c
  /\ \A c \in Clients : cpc[c] = "ready" =>
       /\ data[cslot[c]] = cjob[c]
       /\ work_item_cnt[cslot[c]] = Cnt[cjob[c]]
       /\ work_item[cslot[c]] = 0

\* The counters of a slot in use say which items of its job have been begun
\* and ended, and no two such slots hold the same job.
LiveCounts ==
  /\ \A s \in Slots : Live(s) =>
       /\ data[s] \in Jobs \ fresh
       /\ work_item_cnt[s] = Cnt[data[s]]
       /\ done[s] <= Cnt[data[s]]
       /\ \A i \in Items :
            /\ begun[data[s]][i] = IF i < work_item[s] /\ i < Cnt[data[s]] THEN 1 ELSE 0
            /\ ended[data[s]][i] = IF i < done[s] THEN 1 ELSE 0
  /\ \A s, t \in Slots : Live(s) /\ Live(t) /\ data[s] = data[t] => s = t

\* How far the worker of a slot is with its counters.
Phases ==
  /\ \A s \in Slots : tid[s] = Ready => work_item[s] = 0 /\ done[s] = 0
  /\ \A w \in Workers :
       /\ pc[w] = "pick" => work_item[at[w]] = done[at[w]]
       /\ pc[w] = "run"  => /\ item[w] = done[at[w]]
                            /\ work_item[at[w]] = done[at[w]] + 1
                            /\ item[w] < Cnt[data[at[w]]]
       /\ pc[w] \in {"spin", "report", "recycle"} => done[at[w]] = Cnt[data[at[w]]]

\* A client that has posted or waits for a job looks at the slot of that job,
\* or the job is finished.
Watched ==
  /\ \A c \in Clients : cpc[c] = "signal" =>
       Finished(cjob[c]) \/ (Live(cslot[c]) /\ data[cslot[c]] = cjob[c])
  /\ \A c \in Clients : Watching(c) =>
       Finished(cjob[c]) \/ (Live(cref[c]) /\ data[cref[c]] = cjob[c])

\* No item is begun twice or ended unbegun; free comes after the last item.
Marked ==
  /\ \A j \in Jobs, i \in Items :
       /\ begun[j][i] \in {0, 1} /\ ended[j][i] \in {0, 1} /\ ended[j][i] <= begun[j][i]
       /\ i >= Cnt[j] => begun[j][i] = 0
  /\ \A j \in released : Finished(j)

SingleInv == /\ OwnCounters /\ FreshUntouched /\ PostingUntouched /\ LiveCounts
             /\ Phases /\ Watched /\ Marked

LEMMA SingleNext ==
  ASSUME SingleTask
  PROVE  TypeOK /\ SlotOwned /\ JobKnown /\ SingleInv /\ [Next]_vars => SingleInv'
<1> SUFFICES ASSUME TypeOK, SlotOwned, JobKnown, SingleInv, [Next]_vars
             PROVE  SingleInv'
  OBVIOUS
<1> USE NotAState, StatesDiffer, ItemsFacts DEF TypeOK, SlotTypes, WorkerTypes, ClientTypes, GhostTypes, Goto, CGoto, WakeSleepers, Busy, Claims,
            slotVars, workerVars, clientVars, stopVars, ghostVars, SlotOwned, JobKnown, SingleInv, SingleTask
<1>1. ASSUME NEW w \in Workers, Wait(w) PROVE SingleInv'
  BY <1>1 DEF Wait, OwnCounters, FreshUntouched, PostingUntouched, LiveCounts,
     Phases, Watched, Marked, Live, Posting, Watching, Untouched, Finished
<1>2. ASSUME NEW w \in Workers, Spurious(w) PROVE SingleInv'
  BY <1>2 DEF Spurious, OwnCounters, FreshUntouched, PostingUntouched, LiveCounts,
     Phases, Watched, Marked, Live, Posting, Watching, Untouched, Finished
<1>3. ASSUME NEW w \in Workers, Woken(w) PROVE SingleInv'
  BY <1>3 DEF Woken, OwnCounters, FreshUntouched, PostingUntouched, LiveCounts,
     Phases, Watched, Marked, Live, Posting, Watching, Untouched, Finished
<1>4. ASSUME NEW w \in Workers, ScanTask(w) PROVE SingleInv'
  <2>0. \A t \in Slots : Live(t)' <=> Live(t)
    BY <1>4 DEF ScanTask, Takable, Live
  <2>1. OwnCounters'
    BY <1>4, <2>0 DEF ScanTask, Takable, OwnCounters, Posting, Watching
  <2>2. FreshUntouched'
    BY <1>4, <2>0 DEF ScanTask, Takable, FreshUntouched, Untouched, LiveCounts, PostingUntouched, Posting
  <2>3. PostingUntouched'
    BY <1>4, <2>0 DEF ScanTask, Takable, PostingUntouched, Posting, Untouched, LiveCounts, FreshUntouched, OwnCounters
  <2>4. LiveCounts'
    BY <1>4, <2>0 DEF ScanTask, Takable, LiveCounts, Phases, PostingUntouched, Posting, Untouched, OwnCounters
  <2>5. Phases'
    <3>1. UNCHANGED <<work_item, done, data, item>>
      BY <1>4 DEF ScanTask
    <3>2. \A s \in Slots : tid'[s] = Ready => tid[s] = Ready
      BY <1>4 DEF ScanTask, Takable
    <3>3. \A v \in Workers : v # w => pc'[v] = pc[v] /\ at'[v] = at[v]
      BY <1>4 DEF ScanTask
    <3>4. pc'[w] \in {"scan", "top"} \/ (pc'[w] = "pick" /\ at'[w] = at[w] /\ tid[at[w]] = Ready)
      BY <1>4 DEF ScanTask, Takable
    <3> QED BY <3>1, <3>2, <3>3, <3>4 DEF Phases
  <2>6. Watched'
    BY <1>4, <2>0 DEF ScanTask, Takable, Watched, PostingUntouched, Posting, Watching, Finished, LiveCounts, Phases, OwnCounters
  <2>7. Marked'
    BY <1>4, <2>0 DEF ScanTask, Takable, Marked, LiveCounts, Phases, Finished, OwnCounters
  <2> QED BY <2>1, <2>2, <2>3, <2>4, <2>5, <2>6, <2>7
<1>5. ASSUME NEW w \in Workers, Pick(w) PROVE SingleInv'
  <2>1. OwnCounters'
    BY <1>5 DEF Pick, Left, OwnCounters, Posting, Watching
  <2>2. FreshUntouched'
    <3>1. at[w] \in Slots /\ Live(at[w]) /\ data[at[w]] \in Jobs /\ data[at[w]] \notin fresh
      BY <1>5 DEF Pick, Live, LiveCounts
    <3>2. \A k \in fresh : begun'[k] = begun[k]
      BY <1>5, <3>1 DEF Pick
    <3> QED BY <1>5, <3>2 DEF Pick, FreshUntouched, Untouched
  <2>3. PostingUntouched'
    BY <1>5 DEF Pick, Left, PostingUntouched, Posting, Untouched, Live, LiveCounts, FreshUntouched, OwnCounters
  <2>4. LiveCounts'
    BY <1>5 DEF Pick, Left, LiveCounts, Live, Phases, PostingUntouched, Posting, Untouched, OwnCounters
  <2>5. Phases'
    BY <1>5 DEF Pick, Left, Phases, LiveCounts, Live, OwnCounters, PostingUntouched
  <2>6. Watched'
    BY <1>5 DEF Pick, Left, Watched, PostingUntouched, Posting, Watching, Live, Finished, LiveCounts, Phases, OwnCounters
  <2>7. Marked'
    <3> DEFINE i == work_item[at[w]]
    <3>1. /\ at[w] \in Slots /\ Live(at[w]) /\ reftask[at[w]] = at[w]
          /\ data[at[w]] \in Jobs /\ i \in Nat /\ i = done[at[w]]
          /\ work_item_cnt[at[w]] = Cnt[data[at[w]]]
      BY <1>5 DEF Pick, Live, LiveCounts, Phases, OwnCounters
    <3>2. UNCHANGED <<ended, released>>
      BY <1>5 DEF Pick
    <3>3. CASE i < Cnt[data[at[w]]]
      <4>1. i \in Items /\ begun[data[at[w]]][i] = 0 /\ ended[data[at[w]]][i] = 0
        BY <3>1, <3>3 DEF LiveCounts
      <4>2. begun' = [begun EXCEPT ![data[at[w]]][i] = @ + 1]
        BY <1>5, <3>1, <3>3 DEF Pick, Left
      <4>3. /\ begun'[data[at[w]]][i] = begun[data[at[w]]][i] + 1
            /\ \A k \in Jobs, l \in Items :
                 k # data[at[w]] \/ l # i => begun'[k][l] = begun[k][l]
        BY <3>1, <4>1, <4>2, Bump
      <4> QED BY <3>1, <3>2, <3>3, <4>1, <4>3 DEF Marked, Finished
    <3>4. CASE ~(i < Cnt[data[at[w]]])
      <4>1. UNCHANGED begun
        BY <1>5, <3>1, <3>4 DEF Pick, Left
      <4> QED BY <3>2, <4>1 DEF Marked, Finished
    <3> QED BY <3>3, <3>4
  <2> QED BY <2>1, <2>2, <2>3, <2>4, <2>5, <2>6, <2>7
<1>6. ASSUME NEW w \in Workers, Finish(w) PROVE SingleInv'
  <2>1. OwnCounters'
    BY <1>6 DEF Finish, CountDone, OwnCounters, Posting, Watching
  <2>2. FreshUntouched'
    BY <1>6 DEF Finish, CountDone, FreshUntouched, Untouched, LiveCounts, Live, PostingUntouched, Posting
  <2>3. PostingUntouched'
    BY <1>6 DEF Finish, CountDone, PostingUntouched, Posting, Untouched, Live, LiveCounts, FreshUntouched, OwnCounters
  <2>4. LiveCounts'
    <3>1. /\ at[w] \in Slots /\ Live(at[w]) /\ reftask[at[w]] = at[w]
          /\ data[at[w]] \in Jobs /\ item[w] \in Items
          /\ item[w] = done[at[w]] /\ item[w] < Cnt[data[at[w]]]
      BY <1>6 DEF Finish, Live, LiveCounts, Phases, OwnCounters
    <3>2. UNCHANGED <<tid, data, work_item, work_item_cnt, begun, fresh>>
      BY <1>6 DEF Finish
    <3>3. done' = [done EXCEPT ![at[w]] = @ + 1]
      BY <1>6, <3>1 DEF Finish, CountDone
    <3>4. ended' = [ended EXCEPT ![data[at[w]]][item[w]] = @ + 1]
      BY <1>6 DEF Finish
    <3>5. /\ ended'[data[at[w]]][item[w]] = ended[data[at[w]]][item[w]] + 1
          /\ \A k \in Jobs, l \in Items :
               k # data[at[w]] \/ l # item[w] => ended'[k][l] = ended[k][l]
      BY <3>1, <3>4, Bump
    <3>6. \A t \in Slots : Live(t)' <=> Live(t)
      BY <3>2 DEF Live
    <3>7. \A t \in Slots : Live(t) /\ data[t] = data[at[w]] => t = at[w]
      BY <3>1 DEF LiveCounts
    <3>8. ASSUME NEW t \in Slots, Live(t)
          PROVE  /\ done'[t] <= Cnt[data[t]]
                 /\ \A i \in Items : ended'[data[t]][i] = IF i < done'[t] THEN 1 ELSE 0
      <4>1. CASE t = at[w]
        <5>1. done'[t] = item[w] + 1 /\ item[w] \in Nat
          BY <3>1, <3>3, <4>1
        <5>2. ASSUME NEW i \in Items
              PROVE  ended'[data[t]][i] = IF i < item[w] + 1 THEN 1 ELSE 0
          <6>1. ended[data[t]][i] = IF i < item[w] THEN 1 ELSE 0
            BY <3>1, <4>1 DEF LiveCounts
          <6>2. CASE i = item[w]
            BY <3>1, <3>5, <4>1, <5>1, <6>1, <6>2
          <6>3. CASE i # item[w]
            <7>1. ended'[data[t]][i] = ended[data[t]][i] /\ i \in Nat
              BY <3>1, <3>5, <4>1, <6>3
            <7>2. i < item[w] + 1 <=> i < item[w]
              BY <5>1, <6>3, <7>1, LessSucc
            <7> QED BY <6>1, <7>1, <7>2
          <6> QED BY <6>2, <6>3
        <5> QED BY <3>1, <4>1, <5>1, <5>2
      <4>2. CASE t # at[w]
        BY <3>3, <3>5, <3>7, <3>8, <4>2 DEF LiveCounts
      <4> QED BY <4>1, <4>2
    <3> QED BY <3>2, <3>6, <3>8 DEF LiveCounts
  <2>5. Phases'
    BY <1>6 DEF Finish, CountDone, Phases, LiveCounts, Live, OwnCounters, PostingUntouched
  <2>6. Watched'
    BY <1>6 DEF Finish, CountDone, Watched, PostingUntouched, Posting, Watching, Live, Finished, LiveCounts, Phases, OwnCounters
  <2>7. Marked'
    BY <1>6 DEF Finish, CountDone, Marked, LiveCounts, Live, Phases, Finished, OwnCounters
  <2> QED BY <2>1, <2>2, <2>3, <2>4, <2>5, <2>6, <2>7
<1>7. ASSUME NEW w \in Workers, FreeJob(w) PROVE SingleInv'
  <2>1. OwnCounters'
    BY <1>7 DEF FreeJob, AllDone, OwnCounters, Posting, Watching
  <2>2. FreshUntouched'
    BY <1>7 DEF FreeJob, AllDone, FreshUntouched, Untouched, LiveCounts, Live, PostingUntouched, Posting
  <2>3. PostingUntouched'
    BY <1>7 DEF FreeJob, AllDone, PostingUntouched, Posting, Untouched, Live, LiveCounts, FreshUntouched, OwnCounters
  <2>4. LiveCounts'
    BY <1>7 DEF FreeJob, AllDone, LiveCounts, Live, Phases, PostingUntouched, Posting, Untouched, OwnCounters
  <2>5. Phases'
    BY <1>7 DEF FreeJob, AllDone, Phases, LiveCounts, Live, OwnCounters, PostingUntouched
  <2>6. Watched'
    BY <1>7 DEF FreeJob, AllDone, Watched, PostingUntouched, Posting, Watching, Live, Finished, LiveCounts, Phases, OwnCounters
  <2>7. Marked'
    BY <1>7 DEF FreeJob, AllDone, Marked, LiveCounts, Live, Phases, Finished, OwnCounters
  <2> QED BY <2>1, <2>2, <2>3, <2>4, <2>5, <2>6, <2>7
<1>8. ASSUME NEW w \in Workers, GiveUp(w) PROVE SingleInv'
  BY <1>8 DEF GiveUp, OwnCounters, FreshUntouched, PostingUntouched, LiveCounts,
     Phases, Watched, Marked, Live, Posting, Watching, Untouched, Finished
<1>9. ASSUME NEW w \in Workers, Report(w) PROVE SingleInv'
  BY <1>9 DEF Report, OwnCounters, FreshUntouched, PostingUntouched, LiveCounts,
     Phases, Watched, Marked, Live, Posting, Watching, Untouched, Finished
<1>10. ASSUME NEW w \in Workers, GiveBack(w) PROVE SingleInv'
  <2>1. OwnCounters'
    BY <1>10 DEF GiveBack, OwnCounters, Posting, Watching
  <2>2. FreshUntouched'
    BY <1>10 DEF GiveBack, FreshUntouched, Untouched, LiveCounts, Live, PostingUntouched, Posting
  <2>3. PostingUntouched'
    BY <1>10 DEF GiveBack, PostingUntouched, Posting, Untouched, Live, LiveCounts, FreshUntouched, OwnCounters
  <2>4. LiveCounts'
    BY <1>10 DEF GiveBack, LiveCounts, Live, Phases, PostingUntouched, Posting, Untouched, OwnCounters
  <2>5. Phases'
    BY <1>10 DEF GiveBack, Phases, LiveCounts, Live, OwnCounters, PostingUntouched
  <2>6. Watched'
    BY <1>10 DEF GiveBack, Watched, PostingUntouched, Posting, Watching, Live, Finished, LiveCounts, Phases, OwnCounters
  <2>7. Marked'
    BY <1>10 DEF GiveBack, Marked, LiveCounts, Live, Phases, Finished, OwnCounters
  <2> QED BY <2>1, <2>2, <2>3, <2>4, <2>5, <2>6, <2>7
<1>11. ASSUME NEW c \in Clients, NEW j \in Jobs, Post(c, j) PROVE SingleInv'
  <2>1. OwnCounters'
    BY <1>11 DEF Post, OwnCounters, Posting, Watching
  <2>2. FreshUntouched'
    BY <1>11 DEF Post, FreshUntouched, Untouched, LiveCounts, Live, PostingUntouched, Posting
  <2>3. PostingUntouched'
    BY <1>11 DEF Post, PostingUntouched, Posting, Untouched, Live, LiveCounts, FreshUntouched, OwnCounters
  <2>4. LiveCounts'
    BY <1>11 DEF Post, LiveCounts, Live, Phases, PostingUntouched, Posting, Untouched, OwnCounters
  <2>5. Phases'
    BY <1>11 DEF Post, Phases, LiveCounts, Live, OwnCounters, PostingUntouched
  <2>6. Watched'
    BY <1>11 DEF Post, Watched, PostingUntouched, Posting, Watching, Live, Finished, LiveCounts, Phases, OwnCounters
  <2>7. Marked'
    BY <1>11 DEF Post, Marked, LiveCounts, Live, Phases, Finished, OwnCounters
  <2> QED BY <2>1, <2>2, <2>3, <2>4, <2>5, <2>6, <2>7
<1>12. ASSUME NEW c \in Clients, ScanSlot(c) PROVE SingleInv'
  <2>0. \A t \in Slots : Live(t)' <=> Live(t)
    BY <1>12 DEF ScanSlot, Live
  <2>1. OwnCounters'
    BY <1>12, <2>0 DEF ScanSlot, OwnCounters, Posting, Watching
  <2>2. FreshUntouched'
    BY <1>12, <2>0 DEF ScanSlot, FreshUntouched, Untouched, LiveCounts, PostingUntouched, Posting
  <2>3. PostingUntouched'
    <3>1. /\ UNCHANGED <<begun, ended, released, data, cjob, fresh, work_item, work_item_cnt>>
          /\ \A b \in Clients : /\ Posting(b)' => Posting(b)
                                /\ cpc'[b] = "ready" => cpc[b] = "ready" /\ cslot'[b] = cslot[b]
      BY <1>12 DEF ScanSlot, Posting
    <3> QED BY <2>0, <3>1 DEF PostingUntouched, Untouched
  <2>4. LiveCounts'
    BY <1>12, <2>0 DEF ScanSlot, LiveCounts, Phases, PostingUntouched, Posting, Untouched, OwnCounters
  <2>5. Phases'
    BY <1>12, <2>0 DEF ScanSlot, Phases, LiveCounts, OwnCounters, PostingUntouched
  <2>6. Watched'
    <3>1. UNCHANGED <<ended, data, cjob, cref>>
      BY <1>12 DEF ScanSlot
    <3>2. \A b \in Clients : b # c => cpc'[b] = cpc[b] /\ cslot'[b] = cslot[b]
      BY <1>12 DEF ScanSlot
    <3>3. cpc'[c] \in {"scan", "init", "idle"}
      BY <1>12 DEF ScanSlot
    <3>4. \A b \in Clients : Watching(b)' => Watching(b)
      BY <3>2, <3>3 DEF Watching
    <3>5. \A b \in Clients : cpc'[b] = "signal" => cpc[b] = "signal" /\ cslot'[b] = cslot[b]
      BY <3>2, <3>3
    <3>6. \A j \in Jobs : Finished(j)' = Finished(j)
      BY <3>1 DEF Finished
    <3>7. \A b \in Clients : Watching(b) => cref[b] \in Slots /\ cjob[b] \in Jobs
      BY DEF OwnCounters, Watching
    <3>8. \A b \in Clients : cpc[b] = "signal" => cjob[b] \in Jobs
      OBVIOUS
    <3> QED BY <2>0, <3>1, <3>4, <3>5, <3>6, <3>7, <3>8 DEF Watched
  <2>7. Marked'
    BY <1>12, <2>0 DEF ScanSlot, Marked, LiveCounts, Phases, Finished, OwnCounters
  <2> QED BY <2>1, <2>2, <2>3, <2>4, <2>5, <2>6, <2>7
<1>13. ASSUME NEW c \in Clients, InitSlot(c) PROVE SingleInv'
  <2>1. OwnCounters'
    BY <1>13 DEF InitSlot, ResetCounter, OwnCounters, Posting, Watching
  <2>2. FreshUntouched'
    BY <1>13 DEF InitSlot, ResetCounter, FreshUntouched, Untouched, LiveCounts, Live, PostingUntouched, Posting
  <2>3. PostingUntouched'
    BY <1>13 DEF InitSlot, ResetCounter, PostingUntouched, Posting, Untouched, Live, LiveCounts, FreshUntouched, OwnCounters
  <2>4. LiveCounts'
    BY <1>13 DEF InitSlot, ResetCounter, LiveCounts, Live, Phases, PostingUntouched, Posting, Untouched, OwnCounters
  <2>5. Phases'
    BY <1>13 DEF InitSlot, ResetCounter, Phases, LiveCounts, Live, OwnCounters, PostingUntouched
  <2>6. Watched'
    BY <1>13 DEF InitSlot, ResetCounter, Watched, PostingUntouched, Posting, Watching, Live, Finished, LiveCounts, Phases, OwnCounters
  <2>7. Marked'
    BY <1>13 DEF InitSlot, ResetCounter, Marked, LiveCounts, Live, Phases, Finished, OwnCounters
  <2> QED BY <2>1, <2>2, <2>3, <2>4, <2>5, <2>6, <2>7
<1>14. ASSUME NEW c \in Clients, Publish(c) PROVE SingleInv'
  <2>1. OwnCounters'
    BY <1>14 DEF Publish, OwnCounters, Posting, Watching
  <2>2. FreshUntouched'
    BY <1>14 DEF Publish, FreshUntouched, Untouched, LiveCounts, Live, PostingUntouched, Posting
  <2>3. PostingUntouched'
    BY <1>14 DEF Publish, PostingUntouched, Posting, Untouched, Live, LiveCounts, FreshUntouched, OwnCounters
  <2>4. LiveCounts'
    BY <1>14 DEF Publish, LiveCounts, Live, Phases, PostingUntouched, Posting, Untouched, OwnCounters
  <2>5. Phases'
    BY <1>14 DEF Publish, Phases, LiveCounts, Live, OwnCounters, PostingUntouched
  <2>6. Watched'
    BY <1>14 DEF Publish, Watched, PostingUntouched, Posting, Watching, Live, Finished, LiveCounts, Phases, OwnCounters
  <2>7. Marked'
    BY <1>14 DEF Publish, Marked, LiveCounts, Live, Phases, Finished, OwnCounters
  <2> QED BY <2>1, <2>2, <2>3, <2>4, <2>5, <2>6, <2>7
<1>15. ASSUME NEW c \in Clients, Signal(c) PROVE SingleInv'
  <2>1. OwnCounters'
    BY <1>15 DEF Signal, OwnCounters, Posting, Watching
  <2>2. FreshUntouched'
    BY <1>15 DEF Signal, FreshUntouched, Untouched, LiveCounts, Live, PostingUntouched, Posting
  <2>3. PostingUntouched'
    BY <1>15 DEF Signal, PostingUntouched, Posting, Untouched, Live, LiveCounts, FreshUntouched, OwnCounters
  <2>4. LiveCounts'
    BY <1>15 DEF Signal, LiveCounts, Live, Phases, PostingUntouched, Posting, Untouched, OwnCounters
  <2>5. Phases'
    BY <1>15 DEF Signal, Phases, LiveCounts, Live, OwnCounters, PostingUntouched
  <2>6. Watched'
    BY <1>15 DEF Signal, Watched, PostingUntouched, Posting, Watching, Live, Finished, LiveCounts, Phases, OwnCounters
  <2>7. Marked'
    BY <1>15 DEF Signal, Marked, LiveCounts, Live, Phases, Finished, OwnCounters
  <2> QED BY <2>1, <2>2, <2>3, <2>4, <2>5, <2>6, <2>7
<1>16. ASSUME NEW c \in Clients, Help(c) PROVE SingleInv'
  <2>1. OwnCounters'
    BY <1>16 DEF Help, OwnCounters, Posting, Watching
  <2>2. FreshUntouched'
    BY <1>16 DEF Help, FreshUntouched, Untouched, LiveCounts, Live, PostingUntouched, Posting
  <2>3. PostingUntouched'
    BY <1>16 DEF Help, PostingUntouched, Posting, Untouched, Live, LiveCounts, FreshUntouched, OwnCounters
  <2>4. LiveCounts'
    BY <1>16 DEF Help, LiveCounts, Live, Phases, PostingUntouched, Posting, Untouched, OwnCounters
  <2>5. Phases'
    BY <1>16 DEF Help, Phases, LiveCounts, Live, OwnCounters, PostingUntouched
  <2>6. Watched'
    BY <1>16 DEF Help, Watched, PostingUntouched, Posting, Watching, Live, Finished, LiveCounts, Phases, OwnCounters
  <2>7. Marked'
    BY <1>16 DEF Help, Marked, LiveCounts, Live, Phases, Finished, OwnCounters
  <2> QED BY <2>1, <2>2, <2>3, <2>4, <2>5, <2>6, <2>7
<1>17. ASSUME NEW c \in Clients, Posted(c) PROVE SingleInv'
  BY <1>17 DEF Posted, OwnCounters, FreshUntouched, PostingUntouched, LiveCounts,
     Phases, Watched, Marked, Live, Posting, Watching, Untouched, Finished
<1>18. ASSUME NEW c \in Clients, Test(c) PROVE SingleInv'
  BY <1>18 DEF Test, Unfinished, OwnCounters, FreshUntouched, PostingUntouched, LiveCounts,
     Phases, Watched, Marked, Live, Posting, Watching, Untouched, Finished
<1>19. ASSUME NEW c \in Clients, Timeout(c) PROVE SingleInv'
  BY <1>19 DEF Timeout, OwnCounters, FreshUntouched, PostingUntouched, LiveCounts,
     Phases, Watched, Marked, Live, Posting, Watching, Untouched, Finished
<1>24. ASSUME NEW c \in Clients, Sleep(c) PROVE SingleInv'
  BY <1>24 DEF Sleep, OwnCounters, FreshUntouched, PostingUntouched, LiveCounts,
     Phases, Watched, Marked, Live, Posting, Watching, Untouched, Finished
<1>20. ASSUME Shutdown PROVE SingleInv'
  BY <1>20 DEF Shutdown, OwnCounters, FreshUntouched, PostingUntouched, LiveCounts,
     Phases, Watched, Marked, Live, Posting, Watching, Untouched, Finished
<1>21. ASSUME Broadcast PROVE SingleInv'
  BY <1>21 DEF Broadcast, OwnCounters, FreshUntouched, PostingUntouched, LiveCounts,
     Phases, Watched, Marked, Live, Posting, Watching, Untouched, Finished
<1>22. ASSUME Join PROVE SingleInv'
  BY <1>22 DEF Join, OwnCounters, FreshUntouched, PostingUntouched, LiveCounts,
     Phases, Watched, Marked, Live, Posting, Watching, Untouched, Finished
<1>23. CASE UNCHANGED vars
  BY <1>23 DEF vars, OwnCounters, FreshUntouched, PostingUntouched, LiveCounts, Phases, Watched, Marked, Live, Posting, Watching, Untouched, Finished
<1> QED
  BY <1>1, <1>2, <1>3, <1>4, <1>5, <1>6, <1>7, <1>8, <1>9, <1>10, <1>11, <1>12, <1>13, <1>14, <1>15, <1>16, <1>17, <1>18, <1>19, <1>20, <1>21, <1>22, <1>23, <1>24 DEF Next, WorkerStep, ClientStep

LEMMA SingleInit == Init => SingleInv
<1> SUFFICES ASSUME Init PROVE SingleInv
  OBVIOUS
<1> USE NotAState, StatesDiffer, ItemsFacts
        DEF Init, Live, Posting, Watching, Untouched
<1>1. OwnCounters
  BY DEF OwnCounters
<1>2. FreshUntouched /\ PostingUntouched
  BY DEF FreshUntouched, PostingUntouched
<1>3. LiveCounts /\ Phases
  BY DEF LiveCounts, Phases
<1>4. Watched /\ Marked
  BY DEF Watched, Marked
<1> QED
  BY <1>1, <1>2, <1>3, <1>4 DEF SingleInv

SingleAll == TypeOK /\ SlotOwned /\ JobKnown /\ SingleInv

LEMMA SingleAlways ==
  ASSUME SingleTask
  PROVE  Spec => []SingleAll
<1>1. Init => SingleAll
  BY OwnedInit, SingleInit DEF SingleAll
<1>2. SingleAll /\ [Next]_vars => SingleAll'
  BY TypeNext, OwnedNext, SingleNext DEF SingleAll
<1> QED
  BY <1>1, <1>2, PTL DEF Spec

\* threads_wait returns only from its test.
LEMMA TestStep ==
  ASSUME TypeOK, Next, NEW c \in Clients, cpc[c] = "test", cpc'[c] = "idle"
  PROVE  Test(c)
<1> USE DEF TypeOK, ClientTypes, CGoto, WakeSleepers, clientVars
<1>1. ASSUME NEW w \in Workers, WorkerStep(w) \/ Spurious(w) PROVE FALSE
  BY <1>1 DEF WorkerStep, Wait, Spurious, Woken, ScanTask, Pick, Finish, FreeJob, GiveUp,
              Report, GiveBack
<1>2. ASSUME NEW b \in Clients, NEW j \in Jobs, Post(b, j) PROVE FALSE
  BY <1>2 DEF Post
<1>3. CASE Shutdown \/ Broadcast \/ Join
  BY <1>3 DEF Shutdown, Broadcast, Join
<1>4. ASSUME NEW b \in Clients, ClientStep(b) PROVE b = c
  BY <1>4 DEF ClientStep, ScanSlot, InitSlot, Publish, Signal, Help, Posted, Test, Sleep,
              Timeout
<1>5. ClientStep(c) => Test(c)
  BY DEF ClientStep, ScanSlot, InitSlot, Publish, Signal, Help, Posted, Sleep, Timeout
<1> QED BY <1>1, <1>2, <1>3, <1>4, <1>5 DEF Next

\* threads_wait returns only when the job is finished, also if its slot was
\* handed out again in the meantime.
THEOREM SingleWaitSound ==
  ASSUME SingleTask
  PROVE  Spec => WaitSound
<1> DEFINE Sound == \A c \in Clients :
                      cpc[c] = "test" /\ cpc'[c] = "idle" => Finished(cjob[c])
<1>1. SingleAll /\ [Next]_vars => [Sound]_vars
  <2> SUFFICES ASSUME SingleAll, Next, NEW c \in Clients, cpc[c] = "test", cpc'[c] = "idle"
               PROVE  Finished(cjob[c])
    OBVIOUS
  <2>1. Test(c)
    BY TestStep DEF SingleAll
  <2>2. ~Unfinished(cref[c])
    BY <2>1 DEF Test, CGoto, SingleAll, TypeOK, ClientTypes
  <2>3. cref[c] \in Slots /\ cjob[c] \in Jobs /\ Watching(c)
    BY DEF SingleAll, SingleInv, OwnCounters, Watching, JobKnown
  <2>4. CASE Live(cref[c]) /\ data[cref[c]] = cjob[c]
    <3>1. /\ work_item_cnt[cref[c]] = Cnt[cjob[c]]
          /\ done[cref[c]] <= Cnt[cjob[c]] /\ done[cref[c]] \in Nat
          /\ \A i \in Items : ended[cjob[c]][i] = IF i < done[cref[c]] THEN 1 ELSE 0
      BY <2>3, <2>4 DEF SingleAll, SingleInv, LiveCounts, TypeOK, SlotTypes
    <3>2. done[cref[c]] = Cnt[cjob[c]]
      BY <2>2, <2>3, <3>1, ItemsFacts DEF Unfinished
    <3>3. \A i \in 0 .. Cnt[cjob[c]] - 1 : i \in Items /\ i < Cnt[cjob[c]]
      BY <2>3, ItemsFacts
    <3> QED BY <3>1, <3>2, <3>3 DEF Finished
  <2> QED BY <2>3, <2>4 DEF SingleAll, SingleInv, Watched
<1> QED
  BY <1>1, SingleAlways, PTL DEF WaitSound, Spec

\* How the three kinds of item are seen.
LEMMA Views == ViewOf(0, 0) = "todo" /\ ViewOf(1, 0) = "running" /\ ViewOf(1, 1) = "done"
  BY DEF ViewOf

LEMMA ViewAt ==
  ASSUME NEW j \in Jobs, NEW i \in Items
  PROVE  ItemView[j][i] = ViewOf(begun[j][i], ended[j][i])
  BY DEF ItemView

\* One item changes its state in the view.
LEMMA ViewStep ==
  ASSUME NEW j \in Jobs, NEW i \in Items, NEW v,
         v = ViewOf(begun'[j][i], ended'[j][i]),
         \A k \in Jobs, l \in Items :
           k # j \/ l # i => begun'[k][l] = begun[k][l] /\ ended'[k][l] = ended[k][l]
  PROVE  ItemView' = [ItemView EXCEPT ![j][i] = v]
<1>1. \A k \in Jobs, l \in Items :
        ItemView'[k][l] = IF k = j /\ l = i THEN v ELSE ItemView[k][l]
  BY DEF ItemView
<1>2. ASSUME NEW k \in Jobs
      PROVE  ItemView'[k] = [ItemView EXCEPT ![j][i] = v][k]
  <2>1. ItemView'[k] = [l \in Items |-> ItemView'[k][l]]
    BY DEF ItemView
  <2>2. [ItemView EXCEPT ![j][i] = v][k]
          = [l \in Items |-> IF k = j /\ l = i THEN v ELSE ItemView[k][l]]
    BY DEF ItemView
  <2> QED BY <1>1, <2>1, <2>2
<1>3. ItemView' = [k \in Jobs |-> ItemView'[k]]
  BY DEF ItemView
<1>4. [ItemView EXCEPT ![j][i] = v] = [k \in Jobs |-> [ItemView EXCEPT ![j][i] = v][k]]
  BY DEF ItemView
<1> QED
  BY <1>2, <1>3, <1>4

\* A call of run that begins or returns, and a call of free, as the pool's
\* promise sees them.
LEMMA BeginsInPool ==
  ASSUME NEW j \in Jobs, NEW i \in Items, i \in 0 .. Cnt[j] - 1, begun[j][i] = 0, ended[j][i] = 0,
         begun'[j][i] = begun[j][i] + 1, UNCHANGED <<ended, released>>,
         \A k \in Jobs, l \in Items : k # j \/ l # i => begun'[k][l] = begun[k][l]
  PROVE  Pool!Next
<1>1. ItemView[j][i] = "todo"
  BY ViewAt, Views
<1>2. ViewOf(begun'[j][i], ended'[j][i]) = "running"
  <2>1. begun'[j][i] = 1 /\ ended'[j][i] = 0
    OBVIOUS
  <2> QED BY <2>1, Views
<1>3. ItemView' = [ItemView EXCEPT ![j][i] = "running"]
  <2>1. "running" = ViewOf(begun'[j][i], ended'[j][i])
    BY <1>2
  <2> QED BY <2>1, ViewStep
<1>4. Pool!Begin(j, i)
  BY <1>1, <1>3 DEF Pool!Begin, ItemsOf
<1> QED
  BY <1>4 DEF Pool!Next

LEMMA EndsInPool ==
  ASSUME NEW j \in Jobs, NEW i \in Items, begun[j][i] = 1, ended[j][i] = 0,
         ended'[j][i] = ended[j][i] + 1, UNCHANGED <<begun, released>>,
         \A k \in Jobs, l \in Items : k # j \/ l # i => ended'[k][l] = ended[k][l]
  PROVE  Pool!Next
<1>1. ItemView[j][i] = "running"
  BY ViewAt, Views
<1>2. ViewOf(begun'[j][i], ended'[j][i]) = "done"
  <2>1. begun'[j][i] = 1 /\ ended'[j][i] = 1
    OBVIOUS
  <2> QED BY <2>1, Views
<1>3. ItemView' = [ItemView EXCEPT ![j][i] = "done"]
  <2>1. "done" = ViewOf(begun'[j][i], ended'[j][i])
    BY <1>2
  <2> QED BY <2>1, ViewStep
<1>4. Pool!End(j, i)
  BY <1>1, <1>3 DEF Pool!End
<1> QED
  BY <1>4 DEF Pool!Next

LEMMA ReleasesInPool ==
  ASSUME NEW j \in Jobs, \A i \in 0 .. Cnt[j] - 1 : i \in Items /\ begun[j][i] = 1 /\ ended[j][i] = 1,
         UNCHANGED <<begun, ended>>, released' = released \cup {j}
  PROVE  Pool!Next
<1>1. Pool!Finished(j)
  <2>1. \A i \in 0 .. Cnt[j] - 1 : ItemView[j][i] = "done"
    BY ViewAt, Views
  <2>2. ItemsOf[j] = 0 .. Cnt[j] - 1
    BY DEF ItemsOf
  <2> QED BY <2>1, <2>2 DEF Pool!Finished
<1>2. Pool!Release(j)
  BY <1>1 DEF Pool!Release, ItemView
<1> QED
  BY <1>2 DEF Pool!Next

\* No other step calls a job's functions.
LEMMA GhostSteps ==
  [Next]_vars => \/ \E w \in Workers : Pick(w) \/ Finish(w) \/ FreeJob(w)
                 \/ UNCHANGED <<begun, ended, released>>
  BY DEF Next, vars, ghostVars, WorkerStep, ClientStep, Wait, Spurious, Woken, ScanTask, GiveUp,
         Report, GiveBack, Post, ScanSlot, InitSlot, Publish, Signal, Help, Posted, Test,
         Sleep, Timeout, Shutdown, Broadcast, Join

\* The pool keeps its promise: every item of every job is run once, and free
\* is called when all of them are done.
THEOREM SingleImplementsJobPool ==
  ASSUME SingleTask
  PROVE  Spec => ImplementsJobPool
<1>1. Init => Pool!Init
  BY ItemsFacts DEF Init, Pool!Init, ItemView, ViewOf
<1>2. SingleAll /\ [Next]_vars => [Pool!Next]_(Pool!vars)
  <2> SUFFICES ASSUME SingleAll, [Next]_vars
               PROVE  Pool!Next \/ UNCHANGED <<ItemView, released>>
    BY DEF Pool!vars
  <2>0. TypeOK /\ SlotOwned /\ OwnCounters /\ LiveCounts /\ Phases /\ Marked /\ JobKnown
    BY DEF SingleAll, SingleInv
  <2>1. ASSUME NEW w \in Workers, Pick(w)
        PROVE  Pool!Next \/ UNCHANGED <<ItemView, released>>
    <3> DEFINE j == data[at[w]]
               i == work_item[at[w]]
    <3>1. /\ at[w] \in Slots /\ Live(at[w]) /\ reftask[at[w]] = at[w]
          /\ j \in Jobs /\ i \in Nat /\ i = done[at[w]] /\ work_item_cnt[at[w]] = Cnt[j]
      BY <2>0, <2>1 DEF Pick, TypeOK, SlotTypes, WorkerTypes, SlotOwned, Busy, Live, LiveCounts,
                        Phases, OwnCounters
    <3>2. UNCHANGED <<ended, released>>
      BY <2>1 DEF Pick
    <3>3. CASE i < Cnt[j]
      <4>1. i \in Items /\ i \in 0 .. Cnt[j] - 1 /\ begun[j][i] = 0 /\ ended[j][i] = 0
        BY <2>0, <3>1, <3>3, ItemsFacts DEF LiveCounts
      <4>2. begun' = [begun EXCEPT ![j][i] = @ + 1]
        BY <2>1, <3>1, <3>3 DEF Pick, Left
      <4>3. /\ begun'[j][i] = begun[j][i] + 1
            /\ \A k \in Jobs, l \in Items : k # j \/ l # i => begun'[k][l] = begun[k][l]
        BY <2>0, <3>1, <4>1, <4>2, Bump DEF TypeOK, GhostTypes
      <4> HIDE DEF j, i
      <4> QED BY <3>1, <3>2, <4>1, <4>3, BeginsInPool
    <3>4. CASE ~(i < Cnt[j])
      BY <2>1, <3>1, <3>2, <3>4 DEF Pick, Left, ItemView
    <3> QED BY <3>3, <3>4
  <2>2. ASSUME NEW w \in Workers, Finish(w)
        PROVE  Pool!Next \/ UNCHANGED <<ItemView, released>>
    <3> DEFINE j == data[at[w]]
               i == item[w]
    <3>1. /\ at[w] \in Slots /\ Live(at[w]) /\ j \in Jobs /\ i \in Items /\ i \in Nat
          /\ i = done[at[w]] /\ work_item[at[w]] = done[at[w]] + 1 /\ i < Cnt[j]
      BY <2>0, <2>2, ItemsFacts DEF Finish, TypeOK, SlotTypes, WorkerTypes, SlotOwned, Busy, Live,
                        LiveCounts, Phases
    <3>2. begun[j][i] = 1 /\ ended[j][i] = 0
      BY <2>0, <3>1 DEF LiveCounts
    <3>3. UNCHANGED <<begun, released>> /\ ended' = [ended EXCEPT ![j][i] = @ + 1]
      BY <2>2 DEF Finish
    <3>4. /\ ended'[j][i] = ended[j][i] + 1
          /\ \A k \in Jobs, l \in Items : k # j \/ l # i => ended'[k][l] = ended[k][l]
      BY <2>0, <3>1, <3>3, Bump DEF TypeOK, GhostTypes
    <3> HIDE DEF j, i
    <3> QED BY <3>1, <3>2, <3>3, <3>4, EndsInPool
  <2>3. ASSUME NEW w \in Workers, FreeJob(w)
        PROVE  Pool!Next \/ UNCHANGED <<ItemView, released>>
    <3> DEFINE j == data[at[w]]
    <3>1. /\ at[w] \in Slots /\ Live(at[w]) /\ j \in Jobs /\ done[at[w]] = Cnt[j]
          /\ \A i \in Items : ended[j][i] = IF i < Cnt[j] THEN 1 ELSE 0
      BY <2>0, <2>3 DEF FreeJob, TypeOK, SlotTypes, WorkerTypes, SlotOwned, Busy, Live,
                        LiveCounts, Phases
    <3>2. \A i \in 0 .. Cnt[j] - 1 : i \in Items /\ begun[j][i] = 1 /\ ended[j][i] = 1
      BY <2>0, <3>1, ItemsFacts DEF Marked
    <3>3. UNCHANGED <<begun, ended>> /\ released' = released \cup {j}
      BY <2>3 DEF FreeJob
    <3> HIDE DEF j
    <3> QED BY <3>1, <3>2, <3>3, ReleasesInPool
  <2>4. CASE UNCHANGED <<begun, ended, released>>
    BY <2>4 DEF ItemView
  <2> QED BY <2>1, <2>2, <2>3, <2>4, GhostSteps
<1> QED
  BY <1>1, <1>2, SingleAlways, PTL DEF ImplementsJobPool, Pool!Spec, Spec
-----------------------------------------------------------------------------
(***************************************************************************)
(* Jobs shared by several tasks: the inductive invariant                   *)
(***************************************************************************)
\* The task in slot t works on job j with the counters of slot r ...
TaskRefers(t, r, j) == Live(t) /\ reftask[t] = r /\ data[t] = j
\* ... or client c posts such a task, or will.
CallRefers(c, r, j) ==
  /\ cjob[c] = j
  /\ \/ Posting(c) /\ cref[c] = r
     \/ cpc[c] = "signal" /\ reftask[cslot[c]] = r
     \/ cpc[c] = "next" /\ cleft[c] > 0 /\ cref[c] = r
Refers(r, j) == \/ \E t \in Slots : TaskRefers(t, r, j)
                \/ \E c \in Clients : CallRefers(c, r, j)

EndedItems(j) == {i \in Items : ended[j][i] > 0}

\* Slot r was filled for job j and still counts its items; it is given back
\* only when every item was picked.
Counts(r, j) ==
  /\ data[r] = j /\ reftask[r] = r /\ work_item_cnt[r] = Cnt[j] /\ tid[r] # Initing
  /\ tid[r] = Recycle => work_item[r] >= Cnt[j]
  /\ \A i \in Items : begun[j][i] = IF i < Cnt[j] /\ i < work_item[r] THEN 1 ELSE 0
  /\ done[r] = Cardinality(EndedItems(j))

\* No item is begun twice or ended unbegun; free comes after the last item.
Contract ==
  /\ \A j \in Jobs, i \in Items : /\ begun[j][i] <= 1 /\ ended[j][i] <= begun[j][i]
                                  /\ begun[j][i] > 0 => i < Cnt[j]
  /\ \A j \in released : Finished(j)

\* Every job is posted once, by one client.
PostedOnce ==
  /\ \A j \in fresh : /\ Untouched(j)
                      /\ \A s \in Slots : data[s] # j
                      /\ \A c \in Clients : cjob[c] # j
  /\ \A b, c \in Clients : cjob[b] = cjob[c] /\ cjob[b] # None => b = c

\* All tasks of a job use the counters of one slot, and it counts that job.
Shares ==
  /\ \A r \in Slots, j \in Jobs : Refers(r, j) => Counts(r, j)
  /\ \A r, q \in Slots, j \in Jobs : Refers(r, j) /\ Refers(q, j) => r = q
  /\ \A s \in Slots : Live(s) => work_item_cnt[s] = Cnt[data[s]]

\* What a client in the middle of threads_task has done so far.
Calls ==
  /\ \A c \in Clients : Posting(c) /\ cref[c] = None =>
       Untouched(cjob[c]) /\ \A r \in Slots : ~Refers(r, cjob[c])
  /\ \A c \in Clients : cpc[c] = "ready" =>
       /\ data[cslot[c]] = cjob[c] /\ work_item_cnt[cslot[c]] = Cnt[cjob[c]]
       /\ work_item[cslot[c]] = 0
  /\ \A c \in Clients : cpc[c] = "signal" => tid[cslot[c]] # Initing
  /\ \A c \in Clients : cpc[c] \in {"ready", "signal"} =>
       reftask[cslot[c]] = IF cref[c] = None THEN cslot[c] ELSE cref[c]
  /\ \A c \in Clients : Watching(c) => cref[c] \in Slots
  /\ \A c \in Clients : cpc[c] \in {"test", "block", "sleep"} => cjob[c] \in Waited

\* Every item begun and not ended is being run, by one worker.
Runs ==
  /\ \A w \in Workers : pc[w] = "run" =>
       begun[data[at[w]]][item[w]] = 1 /\ ended[data[at[w]]][item[w]] = 0
  /\ \A v, w \in Workers :
       pc[v] = "run" /\ pc[w] = "run" /\ data[at[v]] = data[at[w]] /\ item[v] = item[w] => v = w
  /\ \A w \in Workers : pc[w] \in {"spin", "report", "recycle"} =>
       work_item[reftask[at[w]]] >= Cnt[data[at[w]]]
  /\ \A j \in Jobs, i \in Items : begun[j][i] > 0 /\ ended[j][i] = 0 =>
       \E w \in Workers : pc[w] = "run" /\ data[at[w]] = j /\ item[w] = i

\* A client that waits, or is about to, looks at the slot that counts its job,
\* or the job is finished.
Awaits(c) == /\ cjob[c] \in Waited
             /\ cpc[c] \in {"next", "test", "block", "sleep"}
             /\ cpc[c] = "next" => cleft[c] = 0
Waiting ==
  \A c \in Clients : Awaits(c) =>
    \/ Finished(cjob[c])
    \/ /\ Counts(cref[c], cjob[c])
       /\ \A q \in Slots : Refers(q, cjob[c]) => q = cref[c]

SharedInv == Contract /\ PostedOnce /\ Shares /\ Calls /\ Runs /\ Waiting
SharedPre == TypeOK /\ SlotOwned /\ JobKnown /\ SharedInv

LEMMA ItemsFinite == IsFiniteSet(Items)
<1>1. 0 \in Int /\ MaxItems - 1 \in Int
  BY ItemsFacts
<1> QED
  BY <1>1, FS_Interval DEF Items

LEMMA RunMeansLive ==
  ASSUME SharedPre, NEW w \in Workers, pc[w] \in Busy
  PROVE  /\ at[w] \in Slots /\ tid[at[w]] = w /\ Live(at[w])
         /\ data[at[w]] \in Jobs /\ reftask[at[w]] \in Slots
         /\ TaskRefers(at[w], reftask[at[w]], data[at[w]])
         /\ Refers(reftask[at[w]], data[at[w]])
         /\ Counts(reftask[at[w]], data[at[w]])
         /\ work_item_cnt[at[w]] = Cnt[data[at[w]]]
<1>1. at[w] \in Slots /\ tid[at[w]] = w /\ Live(at[w])
  BY DEF SharedPre, TypeOK, WorkerTypes, SlotOwned, Live
<1>2. data[at[w]] \in Jobs /\ reftask[at[w]] \in Slots
  BY <1>1 DEF SharedPre, TypeOK, SlotTypes, JobKnown, Live
<1>3. TaskRefers(at[w], reftask[at[w]], data[at[w]])
  BY <1>1 DEF TaskRefers
<1>4. Refers(reftask[at[w]], data[at[w]])
  BY <1>1, <1>3 DEF Refers
<1> QED
  BY <1>1, <1>2, <1>3, <1>4 DEF SharedPre, SharedInv, Shares

\* The slots that count for somebody are not being filled.
LEMMA ReferredFacts ==
  ASSUME SharedPre, NEW r \in Slots, NEW j \in Jobs, Refers(r, j)
  PROVE  /\ Counts(r, j) /\ data[r] = j /\ reftask[r] = r /\ tid[r] # Initing
         /\ \A q \in Slots : Refers(q, j) => q = r
  BY DEF SharedPre, SharedInv, Shares, Counts

\* A step that moves threads, but leaves slots, jobs and the referring
\* clients alone.
LEMMA SharedIdle ==
  ASSUME SharedPre, UNCHANGED <<slotVars, item, cjob, fresh, begun, ended, released>>,
         \A w \in Workers : \/ pc'[w] = pc[w] /\ at'[w] = at[w]
                            \/ pc[w] # "run" /\ pc'[w] \notin {"run", "spin", "report", "recycle"}
                            \/ pc[w] = "report" /\ pc'[w] = "recycle" /\ at'[w] = at[w],
         \A c \in Clients :
            \/ /\ cpc'[c] = cpc[c] /\ cref'[c] = cref[c] /\ cleft'[c] = cleft[c]
               /\ cslot'[c] = cslot[c] \/ cpc[c] = "scan"
            \/ cpc'[c] = "idle"
            \/ cpc[c] = "next" /\ cleft[c] > 0 /\ cpc'[c] = "scan" /\ cref'[c] = cref[c]
            \/ /\ cpc[c] = "next" /\ cleft[c] = 0 /\ cpc'[c] = "test" /\ cref'[c] = cref[c]
               /\ cjob[c] \in Waited
            \/ /\ cpc[c] \in {"test", "block", "sleep"} /\ cpc'[c] \in {"test", "block", "sleep"}
               /\ cref'[c] = cref[c]
            \/ /\ cpc[c] = "signal" /\ cpc'[c] = "next" /\ cref'[c] = reftask[cslot[c]]
               /\ cleft'[c] = cleft[c]
  PROVE  SharedInv'
<1> USE DEF slotVars
<1>1. \A j : Untouched(j)' <=> Untouched(j)
  BY DEF Untouched
<1>2. \A j : Finished(j)' <=> Finished(j)
  BY DEF Finished
<1>3. \A r, j : Counts(r, j)' <=> Counts(r, j)
  BY DEF Counts, EndedItems
<1>4. \A t, r, j : TaskRefers(t, r, j)' <=> TaskRefers(t, r, j)
  BY DEF TaskRefers, Live
<1>5. ASSUME NEW r \in Slots, NEW j, NEW c \in Clients, CallRefers(c, r, j)'
      PROVE  CallRefers(c, r, j)
  BY <1>5 DEF CallRefers, Posting
<1>6. \A j : \A r \in Slots : Refers(r, j)' => Refers(r, j)
  BY <1>4, <1>5 DEF Refers
<1>7. Contract'
  BY <1>2 DEF SharedPre, SharedInv, Contract
<1>8. PostedOnce'
  BY <1>1 DEF SharedPre, SharedInv, PostedOnce
<1>9. Shares'
  BY <1>3, <1>6 DEF SharedPre, SharedInv, Shares, Live
<1>10. Calls'
  <2>1. ASSUME NEW c \in Clients, Posting(c)', cref'[c] = None PROVE Posting(c) /\ cref[c] = None
    BY <2>1, ItemsFacts DEF SharedPre, SharedInv, Calls, Posting, Watching
  <2>2. ASSUME NEW c \in Clients, Watching(c)' PROVE cref'[c] \in Slots
    BY <2>2 DEF SharedPre, SharedInv, Calls, Watching, TypeOK, SlotTypes, ClientTypes
  <2>3. ASSUME NEW c \in Clients, cpc'[c] \in {"ready", "signal"}
        PROVE  cpc'[c] = cpc[c] /\ cref'[c] = cref[c] /\ cslot'[c] = cslot[c]
    BY <2>3
  <2>4. ASSUME NEW c \in Clients, cpc'[c] \in {"test", "block", "sleep"} PROVE cjob[c] \in Waited
    BY <2>4 DEF SharedPre, SharedInv, Calls
  <2> QED BY <1>1, <1>6, <2>1, <2>2, <2>3, <2>4 DEF SharedPre, SharedInv, Calls
<1>11. Runs'
  BY DEF SharedPre, SharedInv, Runs
<1>12. Waiting'
  <2> SUFFICES ASSUME NEW c \in Clients, Awaits(c)', ~Finished(cjob[c])
               PROVE  /\ Counts(cref'[c], cjob[c])
                      /\ \A q \in Slots : Refers(q, cjob[c]) => q = cref'[c]
    BY <1>2, <1>3, <1>6 DEF Waiting
  <2>1. CASE Awaits(c) /\ cref'[c] = cref[c]
    BY <2>1 DEF SharedPre, SharedInv, Waiting
  <2>2. CASE cpc[c] = "signal" /\ cref'[c] = reftask[cslot[c]]
    <3>1. cref'[c] \in Slots /\ cjob[c] \in Jobs
      BY <2>2 DEF SharedPre, TypeOK, SlotTypes, ClientTypes, JobKnown
    <3>2. Refers(cref'[c], cjob[c])
      BY <2>2, <3>1 DEF Refers, CallRefers
    <3> QED BY <3>1, <3>2, ReferredFacts
  <2>3. cjob[c] \in Waited
    BY DEF Awaits
  <2> QED BY <2>1, <2>2, <2>3 DEF Awaits
<1> QED
  BY <1>7, <1>8, <1>9, <1>10, <1>11, <1>12 DEF SharedInv

LEMMA SharedPost ==
  ASSUME SharedPre, NEW c \in Clients, NEW j \in Jobs, Post(c, j)
  PROVE  SharedInv'
<1> USE DEF slotVars, workerVars, ghostVars, Post, CGoto
<1>0. /\ cpc[c] = "idle" /\ j \in fresh /\ cpc' = [cpc EXCEPT ![c] = "scan"]
      /\ cjob' = [cjob EXCEPT ![c] = j] /\ cref'[c] = None /\ cjob'[c] = j /\ cpc'[c] = "scan"
      /\ \A b \in Clients \ {c} : /\ cpc'[b] = cpc[b] /\ cref'[b] = cref[b] /\ cleft'[b] = cleft[b]
                                  /\ cjob'[b] = cjob[b] /\ cslot'[b] = cslot[b]
      /\ fresh' = fresh \ {j}
  BY DEF SharedPre, TypeOK, ClientTypes
<1>1. \A k : Untouched(k)' <=> Untouched(k)
  BY DEF Untouched
<1>2. \A k : Finished(k)' <=> Finished(k)
  BY DEF Finished
<1>3. \A r, k : Counts(r, k)' <=> Counts(r, k)
  BY DEF Counts, EndedItems
<1>4. \A t, r, k : TaskRefers(t, r, k)' <=> TaskRefers(t, r, k)
  BY DEF TaskRefers, Live
<1>5. ASSUME NEW r \in Slots, NEW k, NEW b \in Clients, CallRefers(b, r, k)'
      PROVE  CallRefers(b, r, k)
  BY <1>0, <1>5, ItemsFacts DEF CallRefers, Posting
<1>6. \A k : \A r \in Slots : Refers(r, k)' => Refers(r, k)
  BY <1>4, <1>5 DEF Refers
<1>13. Untouched(j) /\ \A r \in Slots : ~Refers(r, j)
  BY <1>0 DEF SharedPre, SharedInv, PostedOnce, Refers, TaskRefers, CallRefers
<1>7. Contract'
  BY <1>2 DEF SharedPre, SharedInv, Contract
<1>8. PostedOnce'
  BY <1>0, <1>1, ItemsFacts DEF SharedPre, SharedInv, PostedOnce
<1>9. Shares'
  BY <1>3, <1>6 DEF SharedPre, SharedInv, Shares, Live
<1>10. Calls'
  BY <1>0, <1>1, <1>6, <1>13 DEF SharedPre, SharedInv, Calls, Posting, Watching
<1>11. Runs'
  BY DEF SharedPre, SharedInv, Runs
<1>12. Waiting'
  BY <1>0, <1>2, <1>3, <1>6 DEF SharedPre, SharedInv, Waiting, Awaits
<1> QED
  BY <1>7, <1>8, <1>9, <1>10, <1>11, <1>12 DEF SharedInv

\* A client that claims a slot: nobody counts with it, and who waits for it
\* has nothing left to wait for.
LEMMA SharedClaim ==
  ASSUME SharedPre, NEW c \in Clients, ScanSlot(c), tid[cslot[c]] = Recycle, ~reused'
  PROVE  SharedInv'
<1> DEFINE s == cslot[c]
<1>0. /\ s \in Slots /\ cpc[c] = "scan" /\ tid' = [tid EXCEPT ![s] = Initing]
      /\ ~Referenced(s) /\ cpc' = [cpc EXCEPT ![c] = "init"] /\ cpc'[c] = "init"
      /\ UNCHANGED <<cslot, cleft, work_item, done, work_item_cnt, reftask, data, cjob, cref,
                     fresh, workerVars, begun, ended, released>>
      /\ tid \in [Slots -> {Ready, Initing, Recycle} \cup Workers]
      /\ \A b \in Clients \ {c} : cpc'[b] = cpc[b]
  BY DEF SharedPre, TypeOK, ClientTypes, SlotTypes, ScanSlot, CGoto
<1> USE DEF workerVars
<1>1. \A k : Untouched(k)' <=> Untouched(k)
  BY <1>0 DEF Untouched
<1>2. \A k : Finished(k)' <=> Finished(k)
  BY <1>0 DEF Finished
<1>13. \A t \in Slots : Live(t)' <=> Live(t)
  BY <1>0, NotAState, StatesDiffer DEF Live
<1>4. \A r, k : \A t \in Slots : TaskRefers(t, r, k)' <=> TaskRefers(t, r, k)
  BY <1>0, <1>13 DEF TaskRefers
<1>5. \A r, k : \A b \in Clients : CallRefers(b, r, k)' <=> CallRefers(b, r, k)
  BY <1>0 DEF CallRefers, Posting
<1>6. \A k, r : Refers(r, k)' <=> Refers(r, k)
  BY <1>4, <1>5 DEF Refers
<1>14. ASSUME NEW t \in Slots, NEW k, TaskRefers(t, s, k) PROVE FALSE
  <2>1. t # s
    BY <1>0, <1>14, NotAState, StatesDiffer DEF TaskRefers, Live
  <2> QED BY <1>0, <1>14, <2>1, NotAState, StatesDiffer DEF TaskRefers, Live, Referenced
<1>15. ASSUME NEW b \in Clients, NEW k, CallRefers(b, s, k) PROVE FALSE
  <2>1. b \in Clients /\ ~Holds(b, s)
    BY <1>0 DEF Referenced
  <2>2. cpc[b] = "signal" => reftask[cslot[b]] = IF cref[b] = None THEN cslot[b] ELSE cref[b]
    BY DEF SharedPre, SharedInv, Calls
  <2> QED BY <1>15, <2>1, <2>2 DEF CallRefers, Posting, Holds
<1>16. \A k : ~Refers(s, k)
  BY <1>14, <1>15 DEF Refers
<1>3. ASSUME NEW r \in Slots \ {s}, NEW k, Counts(r, k) PROVE Counts(r, k)'
  BY <1>0, <1>3 DEF Counts, EndedItems
<1>7. Contract'
  BY <1>0, <1>2 DEF SharedPre, SharedInv, Contract
<1>8. PostedOnce'
  BY <1>0, <1>1 DEF SharedPre, SharedInv, PostedOnce
<1>9. Shares'
  BY <1>0, <1>3, <1>6, <1>13, <1>16 DEF SharedPre, SharedInv, Shares
<1>10. Calls'
  <2>1. ASSUME NEW b \in Clients, cpc'[b] = "signal" PROVE tid'[cslot[b]] # Initing
    BY <1>0, <2>1 DEF SharedPre, SharedInv, Calls, Referenced, Holds
  <2> QED BY <1>0, <1>1, <1>6, <2>1 DEF SharedPre, SharedInv, Calls, Posting, Watching
<1>11. Runs'
  BY <1>0 DEF SharedPre, SharedInv, Runs
<1>12. Waiting'
  <2> SUFFICES ASSUME NEW b \in Clients, Awaits(b), ~Finished(cjob[b])
               PROVE  Counts(cref[b], cjob[b])' /\ \A q \in Slots : Refers(q, cjob[b]) => q = cref[b]
    BY <1>0, <1>2, <1>6 DEF Waiting, Awaits
  <2>1. /\ Counts(cref[b], cjob[b]) /\ \A q \in Slots : Refers(q, cjob[b]) => q = cref[b]
        /\ cref[b] \in Slots /\ cjob[b] \in Jobs
    BY DEF SharedPre, SharedInv, Waiting, Calls, Awaits, Watching, JobKnown
  <2>2. ASSUME cref[b] = s PROVE FALSE
    <3>1. PICK i \in 0 .. Cnt[cjob[b]] - 1 : ~(ended[cjob[b]][i] > 0)
      BY DEF Finished
    <3>2. i \in Items /\ i \in Nat /\ i < Cnt[cjob[b]] /\ work_item[s] \in Nat
      BY <1>0, <2>1, <3>1, ItemsFacts DEF SharedPre, TypeOK, SlotTypes
    <3>3. begun[cjob[b]][i] = 1 /\ ended[cjob[b]][i] = 0
      <4>1. work_item[s] >= Cnt[cjob[b]]
        BY <1>0, <2>1, <2>2 DEF Counts
      <4>2. i < work_item[s]
        BY <2>1, <3>2, <4>1, ItemsFacts
      <4>3. ended[cjob[b]][i] \in Nat
        BY <2>1, <3>2 DEF SharedPre, TypeOK, GhostTypes
      <4> QED BY <2>1, <2>2, <3>1, <3>2, <4>2, <4>3 DEF Counts
    <3>4. PICK w \in Workers : pc[w] = "run" /\ data[at[w]] = cjob[b]
      BY <2>1, <3>2, <3>3 DEF SharedPre, SharedInv, Runs
    <3>5. at[w] \in Slots /\ TaskRefers(at[w], reftask[at[w]], cjob[b]) /\ reftask[at[w]] = s
      BY <2>1, <2>2, <3>4, RunMeansLive DEF Busy
    <3> QED BY <1>14, <3>5
  <2>3. \A r, k : r = cref[b] /\ k = cjob[b] => Counts(r, k)'
    BY <1>3, <2>1, <2>2
  <2>4. cref'[b] = cref[b] /\ cjob'[b] = cjob[b]
    BY <1>0
  <2> QED BY <2>1, <2>3, <2>4
<1> QED
  BY <1>7, <1>8, <1>9, <1>10, <1>11, <1>12 DEF SharedInv

\* The slot being filled counts for nobody yet.
LEMMA SharedFill ==
  ASSUME SharedPre, NEW c \in Clients, InitSlot(c)
  PROVE  SharedInv'
<1> DEFINE s == cslot[c]
<1>0. /\ s \in Slots /\ cpc[c] = "init" /\ cjob[c] \in Jobs /\ tid[s] = Initing
      /\ cpc' = [cpc EXCEPT ![c] = "ready"] /\ cpc'[c] = "ready"
      /\ \A b \in Clients \ {c} : cpc'[b] = cpc[b]
      /\ data'[s] = cjob[c] /\ work_item_cnt'[s] = Cnt[cjob[c]] /\ work_item'[s] = 0
      /\ reftask'[s] = IF cref[c] = None THEN s ELSE cref[c]
      /\ \A t \in Slots \ {s} : /\ data'[t] = data[t] /\ work_item_cnt'[t] = work_item_cnt[t]
                                /\ work_item'[t] = work_item[t] /\ reftask'[t] = reftask[t]
      /\ UNCHANGED <<tid, done, cjob, cslot, cref, cleft, fresh, workerVars, begun, ended, released>>
  BY DEF SharedPre, TypeOK, ClientTypes, SlotTypes, InitSlot, ResetCounter, CGoto, SlotOwned,
         Claims, JobKnown, ghostVars
<1> USE DEF workerVars
<1>1. \A k : Untouched(k)' <=> Untouched(k)
  BY <1>0 DEF Untouched
<1>2. \A k : Finished(k)' <=> Finished(k)
  BY <1>0 DEF Finished
<1>13. \A t \in Slots : (Live(t)' <=> Live(t)) /\ (Live(t) => t # s)
  BY <1>0, NotAState, StatesDiffer DEF Live
<1>4. \A r, k : \A t \in Slots : TaskRefers(t, r, k)' <=> TaskRefers(t, r, k)
  BY <1>0, <1>13 DEF TaskRefers
<1>5. ASSUME NEW b \in Clients PROVE \A r, k : CallRefers(b, r, k)' <=> CallRefers(b, r, k)
  <2>1. cpc[b] = "signal" => cslot[b] # s /\ cslot[b] \in Slots
    BY <1>0 DEF SharedPre, SharedInv, Calls, TypeOK, ClientTypes
  <2> QED BY <1>0, <2>1 DEF CallRefers, Posting
<1>6. \A k, r : Refers(r, k)' <=> Refers(r, k)
  BY <1>4, <1>5 DEF Refers
<1>3. ASSUME NEW r \in Slots, NEW k, Counts(r, k) PROVE Counts(r, k)' /\ r # s
  BY <1>0, <1>3 DEF Counts, EndedItems
<1>7. Contract'
  BY <1>0, <1>2 DEF SharedPre, SharedInv, Contract
<1>8. PostedOnce'
  BY <1>0, <1>1 DEF SharedPre, SharedInv, PostedOnce
<1>9. Shares'
  BY <1>0, <1>3, <1>6, <1>13 DEF SharedPre, SharedInv, Shares
<1>10. Calls'
  <2>1. ASSUME NEW b \in Clients, b # c, cpc[b] \in {"ready", "signal"}
        PROVE  cslot[b] # s /\ cslot[b] \in Slots
    BY <1>0, <2>1 DEF SharedPre, SharedInv, Calls, SlotOwned, Claims, TypeOK, ClientTypes
  <2>2. \A b \in Clients : cpc'[b] = "signal" => b # c
    BY <1>0
  <2> QED BY <1>0, <1>1, <1>6, <2>1, <2>2 DEF SharedPre, SharedInv, Calls, Posting, Watching
<1>11. Runs'
  <2>1. ASSUME NEW w \in Workers, pc[w] \in Busy
        PROVE  /\ data'[at[w]] = data[at[w]] /\ reftask'[at[w]] = reftask[at[w]]
               /\ work_item'[reftask[at[w]]] = work_item[reftask[at[w]]]
    <3>1. /\ at[w] \in Slots /\ Live(at[w]) /\ reftask[at[w]] \in Slots
          /\ Counts(reftask[at[w]], data[at[w]])
      BY <2>1, RunMeansLive
    <3>2. at[w] # s /\ reftask[at[w]] # s
      BY <1>3, <1>13, <3>1
    <3> QED BY <1>0, <3>1, <3>2
  <2> QED BY <1>0, <2>1 DEF SharedPre, SharedInv, Runs, Busy
<1>12. Waiting'
  <2> SUFFICES ASSUME NEW b \in Clients, Awaits(b), ~Finished(cjob[b])
               PROVE  Counts(cref[b], cjob[b])' /\ \A q \in Slots : Refers(q, cjob[b]) => q = cref[b]
    BY <1>0, <1>2, <1>6 DEF Waiting, Awaits
  <2>1. /\ Counts(cref[b], cjob[b]) /\ \A q \in Slots : Refers(q, cjob[b]) => q = cref[b]
        /\ cref[b] \in Slots
    BY DEF SharedPre, SharedInv, Waiting, Calls, Awaits, Watching
  <2>2. \A r, k : r = cref[b] /\ k = cjob[b] => Counts(r, k)'
    BY <1>3, <2>1
  <2>3. cref'[b] = cref[b] /\ cjob'[b] = cjob[b]
    BY <1>0
  <2> QED BY <2>1, <2>2, <2>3
<1> QED
  BY <1>7, <1>8, <1>9, <1>10, <1>11, <1>12 DEF SharedInv

\* A published slot is the first of its job, with all counters at zero, or
\* uses the counters of the one before.
LEMMA SharedPublish ==
  ASSUME SharedPre, NEW c \in Clients, Publish(c)
  PROVE  SharedInv'
<1> DEFINE s == cslot[c]
           j == cjob[c]
<1>0. /\ s \in Slots /\ cpc[c] = "ready" /\ j \in Jobs /\ tid[s] = Initing
      /\ cpc' = [cpc EXCEPT ![c] = "signal"] /\ cpc'[c] = "signal"
      /\ \A b \in Clients \ {c} : cpc'[b] = cpc[b]
      /\ tid'[s] = Ready /\ done'[s] = 0
      /\ \A t \in Slots \ {s} : tid'[t] = tid[t] /\ done'[t] = done[t]
      /\ UNCHANGED <<data, work_item_cnt, work_item, reftask, cjob, cslot, cref, cleft, fresh,
                     workerVars, begun, ended, released>>
  BY DEF SharedPre, TypeOK, ClientTypes, SlotTypes, Publish, CGoto, SlotOwned, Claims,
         JobKnown, ghostVars
<1>20. /\ data[s] = j /\ work_item_cnt[s] = Cnt[j] /\ work_item[s] = 0
       /\ reftask[s] = (IF cref[c] = None THEN s ELSE cref[c]) /\ reftask[s] \in Slots
       /\ cref[c] = None => Untouched(j) /\ \A r \in Slots : ~Refers(r, j)
  BY <1>0 DEF SharedPre, SharedInv, Calls, Posting, TypeOK, SlotTypes
<1> USE DEF workerVars
<1>1. \A k : Untouched(k)' <=> Untouched(k)
  BY <1>0 DEF Untouched
<1>2. \A k : Finished(k)' <=> Finished(k)
  BY <1>0 DEF Finished
<1>13. \A t \in Slots : (Live(t)' <=> (Live(t) \/ t = s)) /\ (Live(t) => t # s)
  BY <1>0, NotAState, StatesDiffer DEF Live
<1>4. \A r, k : \A t \in Slots : TaskRefers(t, r, k)' => TaskRefers(t, r, k) \/ (r = reftask[s] /\ k = j)
  BY <1>0, <1>13, <1>20 DEF TaskRefers
<1>5. ASSUME NEW b \in Clients
      PROVE  \A r, k : CallRefers(b, r, k)' => CallRefers(b, r, k) \/ (r = reftask[s] /\ k = j)
  BY <1>0 DEF CallRefers, Posting
<1>6. \A k, r : Refers(r, k)' => Refers(r, k) \/ (r = reftask[s] /\ k = j)
  BY <1>4, <1>5 DEF Refers
<1>3. ASSUME NEW r \in Slots, NEW k, Counts(r, k) PROVE Counts(r, k)' /\ r # s
  BY <1>0, <1>3 DEF Counts, EndedItems
<1>15. \A r, k : r = s /\ k = j /\ cref[c] = None => Counts(r, k)'
  <2> SUFFICES ASSUME NEW r, NEW k, r = s, k = j, cref[c] = None PROVE Counts(r, k)'
    OBVIOUS
  <2>1. k \in Jobs /\ \A i \in Items : begun[k][i] = 0 /\ ended[k][i] = 0
    BY <1>0, <1>20 DEF Untouched
  <2>2. EndedItems(k)' = {}
    BY <1>0, <2>1 DEF EndedItems
  <2>3. Cardinality(EndedItems(k)') = 0
    BY <2>2, FS_EmptySet
  <2>4. reftask[r] = r /\ Cnt[k] \in Nat
    BY <1>20, <2>1, ItemsFacts
  <2> HIDE DEF s, j
  <2> QED BY <1>0, <1>20, <2>1, <2>3, <2>4, StatesDiffer, ItemsFacts DEF Counts
<1>16. /\ \A r \in Slots, k \in Jobs : Refers(r, k)' => Counts(r, k)'
       /\ \A r, q \in Slots, k \in Jobs : Refers(r, k)' /\ Refers(q, k)' => r = q
  <2>1. CASE cref[c] = None
    <3>1. \A r \in Slots, k \in Jobs : Refers(r, k)' => (Refers(r, k) /\ k # j) \/ (r = s /\ k = j)
      BY <1>6, <1>20, <2>1
    <3> QED BY <1>3, <1>15, <2>1, <3>1 DEF SharedPre, SharedInv, Shares
  <2>2. CASE cref[c] # None
    <3>1. Refers(reftask[s], j)
      BY <1>0, <1>20, <2>2 DEF Refers, CallRefers, Posting
    <3>2. \A k, r : Refers(r, k)' => Refers(r, k)
      BY <1>6, <3>1
    <3> QED BY <1>3, <3>2 DEF SharedPre, SharedInv, Shares
  <2> QED BY <2>1, <2>2
<1>7. Contract'
  BY <1>0, <1>2 DEF SharedPre, SharedInv, Contract
<1>8. PostedOnce'
  BY <1>0, <1>1 DEF SharedPre, SharedInv, PostedOnce
<1>9. Shares'
  <2>1. ASSUME NEW t \in Slots, Live(t)' PROVE work_item_cnt'[t] = Cnt[data'[t]]
    BY <1>0, <1>13, <1>20, <2>1 DEF SharedPre, SharedInv, Shares
  <2> QED BY <1>16, <2>1 DEF Shares
<1>14. ASSUME NEW b \in Clients, b # c, cpc[b] # "idle" PROVE cjob[b] # j
  BY <1>0, <1>14, ItemsFacts DEF SharedPre, SharedInv, PostedOnce
<1>10. Calls'
  <2>1. ASSUME NEW b \in Clients, cpc'[b] \in {"ready"} PROVE b # c
    BY <1>0, <2>1
  <2>2. ASSUME NEW b \in Clients, cpc'[b] = "signal" PROVE tid'[cslot[b]] # Initing
    <3>1. b # c => tid[cslot[b]] # Initing /\ cslot[b] \in Slots
      BY <1>0, <2>2 DEF SharedPre, SharedInv, Calls, TypeOK, ClientTypes
    <3> QED BY <1>0, <3>1, StatesDiffer
  <2>3. ASSUME NEW b \in Clients, Posting(b)', cref[b] = None
        PROVE  Untouched(cjob[b]) /\ \A r \in Slots : ~Refers(r, cjob[b])'
    <3>1. b # c /\ Posting(b) /\ cpc[b] # "idle"
      BY <1>0, <2>3 DEF Posting
    <3>2. cjob[b] # j /\ cjob'[b] = cjob[b]
      BY <1>0, <1>14, <3>1
    <3> QED BY <1>6, <2>3, <3>1, <3>2 DEF SharedPre, SharedInv, Calls
  <2> QED BY <1>0, <1>1, <2>1, <2>2, <2>3 DEF SharedPre, SharedInv, Calls, Posting, Watching
<1>11. Runs'
  BY <1>0 DEF SharedPre, SharedInv, Runs
<1>12. Waiting'
  <2> SUFFICES ASSUME NEW b \in Clients, Awaits(b)', ~Finished(cjob[b])
               PROVE  Counts(cref[b], cjob[b])' /\ \A q \in Slots : Refers(q, cjob[b])' => q = cref[b]
    BY <1>0, <1>2 DEF Waiting
  <2>4. Awaits(b) /\ b # c
    BY <1>0 DEF Awaits
  <2>1. /\ Counts(cref[b], cjob[b]) /\ \A q \in Slots : Refers(q, cjob[b]) => q = cref[b]
        /\ cref[b] \in Slots /\ cjob[b] # j
    BY <1>14, <2>4 DEF SharedPre, SharedInv, Waiting, Calls, Awaits, Watching
  <2>2. \A r, k : r = cref[b] /\ k = cjob[b] => Counts(r, k)'
    BY <1>3, <2>1
  <2>3. cref'[b] = cref[b] /\ cjob'[b] = cjob[b]
    BY <1>0
  <2> QED BY <1>6, <2>1, <2>2, <2>3
<1> QED
  BY <1>7, <1>8, <1>9, <1>10, <1>11, <1>12 DEF SharedInv

\* A ready task gets a worker.
LEMMA SharedTake ==
  ASSUME SharedPre, NEW w \in Workers, ScanTask(w), Takable(at[w])
  PROVE  SharedInv'
<1> DEFINE s == at[w]
<1>0. /\ s \in Slots /\ tid[s] = Ready /\ tid' = [tid EXCEPT ![s] = w] /\ pc' = [pc EXCEPT ![w] = "pick"]
      /\ pc[w] = "scan"
      /\ UNCHANGED <<work_item, done, work_item_cnt, reftask, data, at, item, clientVars, begun, ended, released>>
      /\ tid \in [Slots -> {Ready, Initing, Recycle} \cup Workers]
  BY DEF SharedPre, TypeOK, WorkerTypes, SlotTypes, ScanTask, Takable, Goto, ghostVars
<1> USE DEF clientVars
<1>1. \A k : Untouched(k)' <=> Untouched(k)
  BY <1>0 DEF Untouched
<1>2. \A k : Finished(k)' <=> Finished(k)
  BY <1>0 DEF Finished
<1>13. \A t \in Slots : Live(t)' <=> Live(t)
  BY <1>0 DEF Live
<1>4. \A r, k : \A t \in Slots : TaskRefers(t, r, k)' <=> TaskRefers(t, r, k)
  BY <1>0, <1>13 DEF TaskRefers
<1>6. \A k, r : Refers(r, k)' <=> Refers(r, k)
  BY <1>0, <1>4 DEF Refers, CallRefers, Posting
<1>3. ASSUME NEW r \in Slots, NEW k, Counts(r, k) PROVE Counts(r, k)'
  BY <1>0, <1>3, NotAState, StatesDiffer DEF Counts, EndedItems
<1>7. Contract'
  BY <1>0, <1>2 DEF SharedPre, SharedInv, Contract
<1>8. PostedOnce'
  BY <1>0, <1>1 DEF SharedPre, SharedInv, PostedOnce
<1>9. Shares'
  BY <1>0, <1>3, <1>6, <1>13 DEF SharedPre, SharedInv, Shares
<1>10. Calls'
  <2>1. ASSUME NEW b \in Clients, cpc[b] = "signal" PROVE tid'[cslot[b]] # Initing
    BY <1>0, <2>1, NotAState DEF SharedPre, SharedInv, Calls, TypeOK, ClientTypes
  <2> QED BY <1>0, <1>1, <1>6, <2>1 DEF SharedPre, SharedInv, Calls, Posting, Watching
<1>11. Runs'
  BY <1>0 DEF SharedPre, SharedInv, Runs
<1>12. Waiting'
  <2> SUFFICES ASSUME NEW b \in Clients, Awaits(b), ~Finished(cjob[b])
               PROVE  Counts(cref[b], cjob[b])' /\ \A q \in Slots : Refers(q, cjob[b]) => q = cref[b]
    BY <1>0, <1>2, <1>6 DEF Waiting, Awaits
  <2>1. /\ Counts(cref[b], cjob[b]) /\ \A q \in Slots : Refers(q, cjob[b]) => q = cref[b]
        /\ cref[b] \in Slots
    BY DEF SharedPre, SharedInv, Waiting, Calls, Awaits, Watching
  <2>2. \A r, k : r = cref[b] /\ k = cjob[b] => Counts(r, k)'
    BY <1>3, <2>1
  <2>3. cref'[b] = cref[b] /\ cjob'[b] = cjob[b]
    BY <1>0
  <2> QED BY <2>1, <2>2, <2>3
<1> QED
  BY <1>7, <1>8, <1>9, <1>10, <1>11, <1>12 DEF SharedInv

\* What a step of a worker on job j leaves alone, when it changes only the
\* counters of the slot r that counts for j, and the history of j.
LEMMA SharedWork ==
  ASSUME SharedPre, NEW r \in Slots, NEW j \in Jobs, Refers(r, j), Counts(r, j)',
         UNCHANGED <<tid, work_item_cnt, reftask, data, clientVars>>,
         \A t \in Slots \ {r} : work_item'[t] = work_item[t] /\ done'[t] = done[t],
         \A k \in Jobs \ {j} : /\ begun'[k] = begun[k] /\ ended'[k] = ended[k]
                               /\ k \in released' => k \in released,
         Finished(j) => Finished(j)'
  PROVE  PostedOnce' /\ Shares' /\ Calls' /\ Waiting'
<1> USE DEF clientVars
<1>0. /\ data[r] = j /\ Counts(r, j) /\ tid[r] # Initing
      /\ \A q \in Slots : Refers(q, j) => q = r
  BY ReferredFacts
<1>1. \A k \in Jobs \ {j} : Untouched(k) => Untouched(k)'
  BY DEF Untouched
<1>2. \A k \in Jobs : Finished(k) => Finished(k)'
  BY DEF Finished
<1>4. \A k, q : Refers(q, k)' <=> Refers(q, k)
  BY DEF Refers, TaskRefers, CallRefers, Posting, Live
<1>3. ASSUME NEW q \in Slots, NEW k \in Jobs \ {j}, Counts(q, k) PROVE Counts(q, k)'
  <2>1. q # r
    BY <1>0, <1>3 DEF Counts
  <2>2. EndedItems(k)' = EndedItems(k)
    BY DEF EndedItems
  <2> QED BY <1>3, <2>1, <2>2 DEF Counts
<1>8. PostedOnce'
  <2>1. j \notin fresh
    BY <1>0 DEF SharedPre, SharedInv, PostedOnce
  <2> QED BY <1>1, <2>1 DEF SharedPre, SharedInv, PostedOnce, TypeOK, ClientTypes
<1>9. Shares'
  <2>1. ASSUME NEW q \in Slots, NEW k \in Jobs, Refers(q, k) PROVE Counts(q, k)'
    BY <1>0, <1>3, <2>1 DEF SharedPre, SharedInv, Shares
  <2> QED BY <1>4, <2>1 DEF SharedPre, SharedInv, Shares, Live
<1>10. Calls'
  <2>1. ASSUME NEW b \in Clients, Posting(b), cref[b] = None
        PROVE  Untouched(cjob[b])'
    <3>1. cjob[b] \in Jobs /\ cjob[b] # j
      BY <2>1 DEF SharedPre, SharedInv, Calls, JobKnown, Posting
    <3>2. Untouched(cjob[b])
      BY <2>1 DEF SharedPre, SharedInv, Calls
    <3>3. \A k : k = cjob[b] => Untouched(k)'
      BY <1>1, <3>1, <3>2
    <3> QED BY <3>3
  <2>2. ASSUME NEW b \in Clients, cpc[b] = "ready" PROVE work_item'[cslot[b]] = work_item[cslot[b]]
    BY <1>0, <2>2 DEF SharedPre, SlotOwned, Claims, TypeOK, ClientTypes
  <2> QED BY <1>4, <2>1, <2>2 DEF SharedPre, SharedInv, Calls, Posting, Watching
<1>12. Waiting'
  <2> SUFFICES ASSUME NEW b \in Clients, Awaits(b), ~Finished(cjob[b])
               PROVE  Counts(cref[b], cjob[b])' /\ \A q \in Slots : Refers(q, cjob[b]) => q = cref[b]
    <3>1. \A b \in Clients : Awaits(b)' => Awaits(b) /\ cjob[b] \in Jobs
      BY DEF Awaits, SharedPre, JobKnown
    <3>2. \A b \in Clients : Awaits(b) /\ Finished(cjob[b]) => Finished(cjob[b])'
      <4> SUFFICES ASSUME NEW b \in Clients, Awaits(b), Finished(cjob[b]) PROVE Finished(cjob[b])'
        OBVIOUS
      <4>1. \A k : k = cjob[b] => Finished(k)'
        BY <1>2 DEF Awaits, SharedPre, JobKnown
      <4> QED BY <4>1
    <3> QED BY <1>4, <3>1, <3>2 DEF Waiting
  <2>1. /\ Counts(cref[b], cjob[b]) /\ \A q \in Slots : Refers(q, cjob[b]) => q = cref[b]
        /\ cref[b] \in Slots /\ cjob[b] \in Jobs
    BY DEF SharedPre, SharedInv, Waiting, Calls, Awaits, Watching, JobKnown
  <2>2. \A q, k : q = cref[b] /\ k = cjob[b] => Counts(q, k)'
    BY <1>3, <2>1
  <2>3. cref'[b] = cref[b] /\ cjob'[b] = cjob[b]
    OBVIOUS
  <2> QED BY <2>1, <2>2, <2>3
<1> QED
  BY <1>8, <1>9, <1>10, <1>12

\* A worker picks an item nobody had, or learns that none is left.
LEMMA SharedPick ==
  ASSUME SharedPre, NEW w \in Workers, Pick(w)
  PROVE  SharedInv'
<1> DEFINE s == at[w]
           r == reftask[s]
           j == data[s]
           i == work_item[r]
<1>0. /\ s \in Slots /\ r \in Slots /\ j \in Jobs /\ Refers(r, j) /\ Counts(r, j)
      /\ work_item_cnt[s] = Cnt[j] /\ i \in Nat
  BY RunMeansLive DEF Pick, Busy, SharedPre, TypeOK, SlotTypes
<1>1. /\ UNCHANGED <<tid, done, work_item_cnt, reftask, data, at, clientVars, ended, released>>
      /\ work_item'[r] = i + 1 /\ \A t \in Slots \ {r} : work_item'[t] = work_item[t]
      /\ pc[w] = "pick" /\ pc'[w] \in {"run", "exit", "spin", "report"}
      /\ \A v \in Workers \ {w} : pc'[v] = pc[v] /\ item'[v] = item[v]
  BY <1>0 DEF Pick, Goto, SharedPre, TypeOK, SlotTypes, WorkerTypes
<1>2. CASE i < Cnt[j]
  <2>0. /\ i \in Items /\ item'[w] = i /\ pc'[w] = "run"
        /\ begun' = [begun EXCEPT ![j][i] = @ + 1]
    BY <1>0, <1>2, ItemsFacts DEF Pick, Left, Goto, SharedPre, TypeOK, WorkerTypes
  <2>1. /\ begun[j][i] = 0 /\ ended[j][i] = 0 /\ begun'[j][i] = 1
        /\ \A k \in Jobs, l \in Items : k # j \/ l # i => begun'[k][l] = begun[k][l]
    <3>1. begun[j][i] = 0
      BY <1>0, <2>0 DEF Counts
    <3>2. ended[j][i] = 0
      BY <1>0, <2>0, <3>1 DEF SharedPre, SharedInv, Contract, TypeOK, GhostTypes
    <3>3. /\ begun'[j][i] = begun[j][i] + 1
          /\ \A k \in Jobs, l \in Items : k # j \/ l # i => begun'[k][l] = begun[k][l]
      BY <1>0, <2>0, Bump DEF SharedPre, TypeOK, GhostTypes
    <3> QED BY <3>1, <3>2, <3>3
  <2>2. \A q, k : q = r /\ k = j => Counts(q, k)'
    <3>1. \A l \in Items : begun'[j][l] = IF l < Cnt[j] /\ l < i + 1 THEN 1 ELSE 0
      <4> SUFFICES ASSUME NEW l \in Items PROVE begun'[j][l] = IF l < Cnt[j] /\ l < i + 1 THEN 1 ELSE 0
        OBVIOUS
      <4>1. begun[j][l] = IF l < Cnt[j] /\ l < i THEN 1 ELSE 0
        BY <1>0 DEF Counts
      <4>2. CASE l = i
        <5>1. begun'[j][l] = 1 /\ l < Cnt[j]
          BY <1>2, <2>1, <4>2
        <5>2. l < i + 1
          BY <1>0, <4>2
        <5> QED BY <5>1, <5>2
      <4>3. CASE l # i
        <5>1. begun'[j][l] = begun[j][l]
          BY <1>0, <2>1, <4>3
        <5>2. l < i + 1 <=> l < i
          BY <1>0, <4>3, ItemsFacts
        <5> QED BY <4>1, <5>1, <5>2
      <4> QED BY <4>2, <4>3
    <3>2. EndedItems(j)' = EndedItems(j)
      BY <1>1 DEF EndedItems
    <3>3. \A k : k = j => EndedItems(k)' = EndedItems(k)
      BY <1>1 DEF EndedItems
    <3>4. Cnt[j] \in Nat
      BY <1>0, ItemsFacts
    <3>5. tid[r] = Recycle => work_item'[r] >= Cnt[j]
      BY <1>0, <1>1, <3>4 DEF Counts
    <3> SUFFICES ASSUME NEW q, NEW k, q = r, k = j PROVE Counts(q, k)'
      OBVIOUS
    <3> QED BY <1>0, <1>1, <3>1, <3>3, <3>5 DEF Counts
  <2>3. Finished(j) => Finished(j)'
    BY <1>1 DEF Finished
  <2>4. PostedOnce' /\ Shares' /\ Calls' /\ Waiting'
    <3>1. \A k \in Jobs \ {j} : begun'[k] = begun[k]
      BY <2>0
    <3> QED BY <1>0, <1>1, <2>2, <2>3, <3>1, SharedWork
  <2>5. Contract'
    BY <1>1, <1>2, <2>1 DEF SharedPre, SharedInv, Contract, Finished, TypeOK, GhostTypes
  <2>6. Runs'
    <3>1. ASSUME NEW v \in Workers, pc'[v] = "run"
          PROVE begun'[data[at[v]]][item'[v]] = 1 /\ ended[data[at[v]]][item'[v]] = 0
      <4>1. CASE v = w
        BY <2>0, <2>1, <4>1
      <4>2. CASE v # w
        <5>1. data[at[v]] \in Jobs /\ item[v] \in Items
          BY <1>1, <3>1, <4>2, RunMeansLive DEF Busy, SharedPre, TypeOK, WorkerTypes
        <5>2. begun[data[at[v]]][item[v]] = 1 /\ ended[data[at[v]]][item[v]] = 0
          BY <1>1, <3>1, <4>2 DEF SharedPre, SharedInv, Runs
        <5> QED BY <1>1, <2>1, <4>2, <5>1, <5>2
      <4> QED BY <4>1, <4>2
    <3>2. ASSUME NEW v \in Workers, v # w, pc[v] = "run", data[at[v]] = j, item[v] = i PROVE FALSE
      BY <2>1, <3>2 DEF SharedPre, SharedInv, Runs
    <3>3. ASSUME NEW v \in Workers, pc'[v] \in {"spin", "report", "recycle"}
          PROVE  work_item'[reftask[at[v]]] >= Cnt[data[at[v]]]
      <4>1. v # w /\ pc[v] = pc'[v]
        BY <1>1, <2>0, <3>3
      <4>2. reftask[at[v]] \in Slots /\ data[at[v]] \in Jobs /\ work_item[reftask[at[v]]] >= Cnt[data[at[v]]]
        BY <3>3, <4>1, RunMeansLive DEF Busy, SharedPre, SharedInv, Runs
      <4>3. work_item[reftask[at[v]]] \in Nat /\ Cnt[data[at[v]]] \in Nat
        BY <4>2, ItemsFacts DEF SharedPre, TypeOK, SlotTypes
      <4> QED BY <1>0, <1>1, <4>2, <4>3
    <3>4. ASSUME NEW k \in Jobs, NEW l \in Items, begun'[k][l] > 0, ended[k][l] = 0
          PROVE  \E v \in Workers : pc'[v] = "run" /\ data[at[v]] = k /\ item'[v] = l
      <4>1. CASE k = j /\ l = i
        BY <2>0, <4>1
      <4>2. CASE k # j \/ l # i
        <5>1. PICK v \in Workers : pc[v] = "run" /\ data[at[v]] = k /\ item[v] = l
          BY <2>1, <3>4, <4>2 DEF SharedPre, SharedInv, Runs
        <5> QED BY <1>1, <5>1
      <4> QED BY <4>1, <4>2
    <3>5. ASSUME NEW u \in Workers, NEW v \in Workers, pc'[u] = "run", pc'[v] = "run",
                 data[at[u]] = data[at[v]], item'[u] = item'[v]
          PROVE  u = v
      BY <1>1, <2>0, <3>2, <3>5 DEF SharedPre, SharedInv, Runs
    <3> QED BY <1>1, <3>1, <3>3, <3>4, <3>5 DEF Runs
  <2> QED BY <2>4, <2>5, <2>6 DEF SharedInv
<1>3. CASE ~(i < Cnt[j])
  <2>0. UNCHANGED <<begun, item>> /\ pc'[w] # "run" /\ Cnt[j] \in Nat
    BY <1>0, <1>3, ItemsFacts DEF Pick, Left, Goto, SharedPre, TypeOK, WorkerTypes
  <2>2. \A q, k : q = r /\ k = j => Counts(q, k)'
    <3>1. \A l \in Items : (l < Cnt[j] /\ l < i + 1) <=> (l < Cnt[j] /\ l < i)
      BY <1>0, <1>3, <2>0, ItemsFacts
    <3>2. \A k : EndedItems(k)' = EndedItems(k)
      BY <1>1 DEF EndedItems
    <3>3. work_item'[r] >= Cnt[j]
      BY <1>0, <1>1, <1>3, <2>0
    <3> SUFFICES ASSUME NEW q, NEW k, q = r, k = j PROVE Counts(q, k)'
      OBVIOUS
    <3> QED BY <1>0, <1>1, <2>0, <3>1, <3>2, <3>3 DEF Counts
  <2>3. Finished(j) => Finished(j)'
    BY <1>1 DEF Finished
  <2>4. PostedOnce' /\ Shares' /\ Calls' /\ Waiting'
    BY <1>0, <1>1, <2>0, <2>2, <2>3, SharedWork
  <2>5. Contract'
    BY <1>1, <2>0 DEF SharedPre, SharedInv, Contract, Finished
  <2>6. Runs'
    <3>3. ASSUME NEW v \in Workers, pc'[v] \in {"spin", "report", "recycle"}
          PROVE  work_item'[reftask[at[v]]] >= Cnt[data[at[v]]]
      <4>1. CASE v = w
        BY <1>0, <1>1, <1>3, <2>0, <4>1
      <4>2. CASE v # w
        <5>2. /\ reftask[at[v]] \in Slots /\ data[at[v]] \in Jobs
              /\ work_item[reftask[at[v]]] >= Cnt[data[at[v]]]
          BY <1>1, <3>3, <4>2, RunMeansLive DEF Busy, SharedPre, SharedInv, Runs
        <5>3. work_item[reftask[at[v]]] \in Nat /\ Cnt[data[at[v]]] \in Nat
          BY <5>2, ItemsFacts DEF SharedPre, TypeOK, SlotTypes
        <5> QED BY <1>0, <1>1, <5>2, <5>3
      <4> QED BY <4>1, <4>2
    <3> QED BY <1>1, <2>0, <3>3 DEF SharedPre, SharedInv, Runs
  <2> QED BY <2>4, <2>5, <2>6 DEF SharedInv
<1> QED
  BY <1>2, <1>3

\* A worker returns from the run function: one more item of its job is done.
LEMMA SharedFinish ==
  ASSUME SharedPre, NEW w \in Workers, Finish(w)
  PROVE  SharedInv'
<1> DEFINE s == at[w]
           r == reftask[s]
           j == data[s]
           i == item[w]
<1>0. /\ s \in Slots /\ r \in Slots /\ j \in Jobs /\ Refers(r, j) /\ Counts(r, j)
      /\ i \in Items /\ done[r] \in Nat /\ begun[j][i] = 1 /\ ended[j][i] = 0
  BY RunMeansLive DEF Finish, Busy, SharedPre, TypeOK, SlotTypes, WorkerTypes, SharedInv, Runs
<1>1. /\ UNCHANGED <<tid, work_item, work_item_cnt, reftask, data, at, item, clientVars, begun, released>>
      /\ done'[r] = done[r] + 1 /\ \A t \in Slots \ {r} : done'[t] = done[t]
      /\ pc[w] = "run" /\ pc'[w] \in {"exit", "pick"}
      /\ \A v \in Workers \ {w} : pc'[v] = pc[v]
      /\ ended' = [ended EXCEPT ![j][i] = @ + 1]
  BY <1>0 DEF Finish, CountDone, Goto, SharedPre, TypeOK, SlotTypes, WorkerTypes
<1>2. /\ ended'[j][i] = 1
      /\ \A k \in Jobs, l \in Items : k # j \/ l # i => ended'[k][l] = ended[k][l]
  <2>1. /\ ended'[j][i] = ended[j][i] + 1
        /\ \A k \in Jobs, l \in Items : k # j \/ l # i => ended'[k][l] = ended[k][l]
    BY <1>0, <1>1, Bump DEF SharedPre, TypeOK, GhostTypes
  <2> QED BY <1>0, <2>1
<1>3. \A q, k : q = r /\ k = j => Counts(q, k)'
  <2> SUFFICES ASSUME NEW q, NEW k, q = r, k = j PROVE Counts(q, k)'
    OBVIOUS
  <2>1. EndedItems(k)' = EndedItems(k) \cup {i} /\ i \notin EndedItems(k)
    <3>1. k \in Jobs /\ ~(ended[k][i] > 0) /\ ended'[k][i] > 0
      BY <1>0, <1>2
    <3>2. \A l \in Items \ {i} : ended'[k][l] = ended[k][l]
      BY <1>2, <3>1
    <3> HIDE DEF i
    <3> QED BY <1>0, <3>1, <3>2 DEF EndedItems
  <2>2. IsFiniteSet(EndedItems(k))
    <3>1. IsFiniteSet(Items)
      BY ItemsFinite
    <3>2. EndedItems(k) \in SUBSET Items
      BY DEF EndedItems
    <3> QED BY <3>1, <3>2, FS_Subset
  <2>3. Cardinality(EndedItems(k)') = Cardinality(EndedItems(k)) + 1
    <3> HIDE DEF i
    <3> QED BY <2>1, <2>2, FS_AddElement
  <2> QED BY <1>0, <1>1, <2>3 DEF Counts
<1>4. \A k \in Jobs : Finished(k) => Finished(k)'
  <2> SUFFICES ASSUME NEW k \in Jobs, Finished(k), NEW l \in 0 .. Cnt[k] - 1 PROVE ended'[k][l] > 0
    BY DEF Finished
  <2>1. l \in Items /\ ended[k][l] > 0
    BY ItemsFacts DEF Finished
  <2> QED BY <1>2, <2>1
<1>5. PostedOnce' /\ Shares' /\ Calls' /\ Waiting'
  <2>1. \A k \in Jobs \ {j} : ended'[k] = ended[k]
    BY <1>1
  <2>2. Finished(j) => Finished(j)'
    <3>1. ASSUME NEW k, k = j PROVE Finished(k) => Finished(k)'
      BY <1>0, <1>4, <3>1
    <3>2. j' = j
      BY <1>1
    <3> HIDE DEF j
    <3> QED BY <3>1, <3>2
  <2> QED BY <1>0, <1>1, <1>3, <2>1, <2>2, SharedWork
<1>6. Contract'
  <2>1. \A k \in Jobs, l \in Items : begun[k][l] \in Nat /\ ended[k][l] \in Nat
    BY DEF SharedPre, TypeOK, GhostTypes
  <2>2. released \subseteq Jobs
    BY DEF SharedPre, TypeOK, GhostTypes
  <2> QED BY <1>0, <1>1, <1>2, <1>4, <2>1, <2>2 DEF SharedPre, SharedInv, Contract
<1>7. Runs'
  <2>1. ASSUME NEW v \in Workers, pc'[v] = "run"
        PROVE  begun[data[at[v]]][item[v]] = 1 /\ ended'[data[at[v]]][item[v]] = 0
    <3>1. v # w /\ pc[v] = "run"
      BY <1>1, <2>1
    <3>2. data[at[v]] \in Jobs /\ item[v] \in Items
      BY <3>1, RunMeansLive DEF Busy, SharedPre, TypeOK, WorkerTypes
    <3>3. begun[data[at[v]]][item[v]] = 1 /\ ended[data[at[v]]][item[v]] = 0
      BY <3>1 DEF SharedPre, SharedInv, Runs
    <3>4. data[at[v]] # j \/ item[v] # i
      BY <1>1, <3>1 DEF SharedPre, SharedInv, Runs
    <3> QED BY <1>2, <3>2, <3>3, <3>4
  <2>2. ASSUME NEW k \in Jobs, NEW l \in Items, begun[k][l] > 0, ended'[k][l] = 0
        PROVE  \E v \in Workers : pc'[v] = "run" /\ data[at[v]] = k /\ item[v] = l
    <3>1. k # j \/ l # i
      BY <1>2, <2>2
    <3>2. PICK v \in Workers : pc[v] = "run" /\ data[at[v]] = k /\ item[v] = l
      BY <1>2, <2>2, <3>1 DEF SharedPre, SharedInv, Runs
    <3> QED BY <1>1, <3>1, <3>2
  <2> QED BY <1>1, <2>1, <2>2 DEF SharedPre, SharedInv, Runs
<1> QED
  BY <1>5, <1>6, <1>7 DEF SharedInv

\* free is called when every item of the job is done: they were counted.
LEMMA CountedDone ==
  ASSUME SharedPre, NEW r \in Slots, NEW j \in Jobs, Counts(r, j), done[r] >= Cnt[j]
  PROVE  Finished(j)
<1> DEFINE D == EndedItems(j)
           N == 0 .. Cnt[j] - 1
<1>1. Cnt[j] \in Nat /\ Cnt[j] <= MaxItems /\ MaxItems \in Nat
  BY ItemsFacts
<1>2. D \in SUBSET N
  <2> SUFFICES ASSUME NEW i \in Items, ended[j][i] > 0 PROVE i \in N
    BY DEF EndedItems
  <2>1. begun[j][i] > 0
    BY DEF SharedPre, SharedInv, Contract, TypeOK, GhostTypes
  <2>2. i < Cnt[j]
    BY <2>1 DEF SharedPre, SharedInv, Contract
  <2> QED BY <1>1, <2>2, ItemsFacts
<1>3. IsFiniteSet(N) /\ Cardinality(N) = Cnt[j]
  <2>1. 0 \in Int /\ Cnt[j] - 1 \in Int
    BY <1>1
  <2>2. IsFiniteSet(N) /\ Cardinality(N) = IF 0 > Cnt[j] - 1 THEN 0 ELSE Cnt[j] - 1 - 0 + 1
    BY <2>1, FS_Interval
  <2> QED BY <1>1, <2>2
<1>4. Cardinality(D) \in Nat /\ Cardinality(D) <= Cardinality(N) /\ (Cardinality(N) = Cardinality(D) => N = D)
  BY <1>2, <1>3, FS_Subset, FS_CardinalityType
<1>5. Cardinality(D) >= Cnt[j]
  BY DEF Counts
<1>6. Cardinality(N) = Cardinality(D)
  <2> HIDE DEF D, N
  <2> QED BY <1>1, <1>3, <1>4, <1>5
<1>7. N = D
  BY <1>4, <1>6
<1> QED
  BY <1>7 DEF Finished, EndedItems

LEMMA SharedFree ==
  ASSUME SharedPre, NEW w \in Workers, FreeJob(w)
  PROVE  SharedInv' /\ Finished(data[at[w]])
<1> DEFINE s == at[w]
           r == reftask[s]
           j == data[s]
<1>0. /\ s \in Slots /\ r \in Slots /\ j \in Jobs /\ Refers(r, j) /\ Counts(r, j)
      /\ done[r] >= Cnt[j]
  BY RunMeansLive DEF FreeJob, AllDone, Busy
<1>1. /\ UNCHANGED <<slotVars, at, item, clientVars, begun, ended>>
      /\ pc[w] = "spin" /\ pc'[w] = "report"
      /\ \A v \in Workers \ {w} : pc'[v] = pc[v]
      /\ released' = released \cup {j}
  BY DEF FreeJob, Goto, SharedPre, TypeOK, WorkerTypes
<1> USE DEF slotVars
<1>2. Finished(j)
  <2> HIDE DEF r, j
  <2> QED BY <1>0, CountedDone
<1>3. \A k : (Finished(k) <=> Finished(k)') /\ EndedItems(k)' = EndedItems(k)
  BY <1>1 DEF Finished, EndedItems
<1>4. \A q, k : Counts(q, k)' <=> Counts(q, k)
  BY <1>1, <1>3 DEF Counts
<1>5. PostedOnce' /\ Shares' /\ Calls' /\ Waiting'
  <2>1. Counts(r, j)'
    <3>1. r' = r /\ j' = j
      BY <1>1
    <3> HIDE DEF r, j
    <3> QED BY <1>0, <1>4, <3>1
  <2>2. Finished(j) => Finished(j)'
    <3>1. j' = j
      BY <1>1
    <3> HIDE DEF j
    <3> QED BY <1>3, <3>1
  <2>3. \A k \in Jobs \ {j} : k \in released' => k \in released
    BY <1>1
  <2> QED BY <1>0, <1>1, <2>1, <2>2, <2>3, SharedWork
<1>6. Contract'
  BY <1>1, <1>2, <1>3 DEF SharedPre, SharedInv, Contract
<1>7. Runs'
  BY <1>1 DEF SharedPre, SharedInv, Runs
<1> QED
  BY <1>2, <1>5, <1>6, <1>7 DEF SharedInv

\* A slot given back has no item left to pick, so it may still count for the
\* others.
LEMMA SharedGiveBack ==
  ASSUME SharedPre, NEW w \in Workers, GiveBack(w)
  PROVE  SharedInv'
<1> DEFINE s == at[w]
<1>0. /\ s \in Slots /\ tid[s] = w /\ tid' = [tid EXCEPT ![s] = Recycle] /\ pc[w] = "recycle"
      /\ pc' = [pc EXCEPT ![w] = "top"]
      /\ UNCHANGED <<work_item, done, work_item_cnt, reftask, data, at, item, clientVars, begun, ended, released>>
      /\ tid \in [Slots -> {Ready, Initing, Recycle} \cup Workers]
  BY RunMeansLive DEF SharedPre, TypeOK, SlotTypes, GiveBack, Goto, Busy, ghostVars
<1> USE DEF clientVars
<1>1. \A k : Untouched(k)' <=> Untouched(k)
  BY <1>0 DEF Untouched
<1>2. \A k : Finished(k)' <=> Finished(k)
  BY <1>0 DEF Finished
<1>13. \A t \in Slots : Live(t)' => Live(t)
  BY <1>0, NotAState, StatesDiffer DEF Live
<1>4. \A r, k : \A t \in Slots : TaskRefers(t, r, k)' => TaskRefers(t, r, k)
  BY <1>0, <1>13 DEF TaskRefers
<1>6. \A k, r : Refers(r, k)' => Refers(r, k)
  BY <1>0, <1>4 DEF Refers, CallRefers, Posting
<1>14. work_item[reftask[s]] >= Cnt[data[s]]
  BY <1>0 DEF SharedPre, SharedInv, Runs
<1>3. ASSUME NEW r \in Slots, NEW k, Counts(r, k) PROVE Counts(r, k)'
  <2>1. r = s => work_item[r] >= Cnt[k]
    BY <1>3, <1>14 DEF Counts
  <2>2. tid'[r] = (IF r = s THEN Recycle ELSE tid[r])
    BY <1>0
  <2>3. EndedItems(k)' = EndedItems(k)
    BY <1>0 DEF EndedItems
  <2> HIDE DEF s
  <2> QED BY <1>0, <1>3, <2>1, <2>2, <2>3, StatesDiffer DEF Counts
<1>7. Contract'
  BY <1>0, <1>2 DEF SharedPre, SharedInv, Contract
<1>8. PostedOnce'
  BY <1>0, <1>1 DEF SharedPre, SharedInv, PostedOnce
<1>9. Shares'
  BY <1>0, <1>3, <1>6, <1>13 DEF SharedPre, SharedInv, Shares
<1>10. Calls'
  <2>1. ASSUME NEW b \in Clients, cpc[b] = "signal" PROVE tid'[cslot[b]] # Initing
    BY <1>0, <2>1, StatesDiffer DEF SharedPre, SharedInv, Calls, TypeOK, ClientTypes
  <2> QED BY <1>0, <1>1, <1>6, <2>1 DEF SharedPre, SharedInv, Calls, Posting, Watching
<1>11. Runs'
  BY <1>0 DEF SharedPre, SharedInv, Runs
<1>12. Waiting'
  <2> SUFFICES ASSUME NEW b \in Clients, Awaits(b), ~Finished(cjob[b])
               PROVE  Counts(cref[b], cjob[b])' /\ \A q \in Slots : Refers(q, cjob[b]) => q = cref[b]
    BY <1>0, <1>2, <1>6 DEF Waiting, Awaits
  <2>1. /\ Counts(cref[b], cjob[b]) /\ \A q \in Slots : Refers(q, cjob[b]) => q = cref[b]
        /\ cref[b] \in Slots
    BY DEF SharedPre, SharedInv, Waiting, Calls, Awaits, Watching
  <2>2. \A r, k : r = cref[b] /\ k = cjob[b] => Counts(r, k)'
    BY <1>3, <2>1
  <2>3. cref'[b] = cref[b] /\ cjob'[b] = cjob[b]
    BY <1>0
  <2> QED BY <2>1, <2>2, <2>3
<1> QED
  BY <1>7, <1>8, <1>9, <1>10, <1>11, <1>12 DEF SharedInv

LEMMA SharedNext ==
  SharedPre /\ [Next]_vars /\ ~reused' => SharedInv'
<1> SUFFICES ASSUME SharedPre, [Next]_vars, ~reused' PROVE SharedInv'
  OBVIOUS
<1> USE DEF SharedPre, TypeOK, WorkerTypes, ClientTypes, Goto, CGoto, WakeSleepers, slotVars, workerVars,
            clientVars, stopVars, ghostVars
<1>1. ASSUME NEW w \in Workers, Wait(w) \/ Spurious(w) \/ Woken(w) \/ GiveUp(w) \/ Report(w) PROVE SharedInv'
  <2>1. CASE Wait(w) \/ Spurious(w) \/ GiveUp(w)
    BY <2>1, SharedIdle DEF Wait, Spurious, GiveUp
  <2>2. CASE Woken(w)
    BY <2>2, SharedIdle DEF Woken
  <2>3. CASE Report(w)
    BY <2>3, SharedIdle DEF Report
  <2> QED BY <1>1, <2>1, <2>2, <2>3
<1>4. ASSUME NEW w \in Workers, ScanTask(w) PROVE SharedInv'
  <2>1. CASE Takable(at[w])
    BY <1>4, <2>1, SharedTake
  <2>2. CASE ~Takable(at[w])
    BY <1>4, <2>2, SharedIdle DEF ScanTask
  <2> QED BY <2>1, <2>2
<1>5. ASSUME NEW w \in Workers, Pick(w) \/ Finish(w) \/ FreeJob(w) \/ GiveBack(w) PROVE SharedInv'
  BY <1>5, SharedPick, SharedFinish, SharedFree, SharedGiveBack
<1>6. ASSUME NEW c \in Clients, NEW j \in Jobs, Post(c, j) PROVE SharedInv'
  BY <1>6, SharedPost
<1>7. ASSUME NEW c \in Clients, ScanSlot(c) PROVE SharedInv'
  <2>1. CASE tid[cslot[c]] = Recycle
    BY <1>7, <2>1, SharedClaim
  <2>2. CASE tid[cslot[c]] # Recycle
    BY <1>7, <2>2, SharedIdle DEF ScanSlot
  <2> QED BY <2>1, <2>2
<1>8. ASSUME NEW c \in Clients, InitSlot(c) \/ Publish(c) PROVE SharedInv'
  BY <1>8, SharedFill, SharedPublish
<1>9. ASSUME NEW c \in Clients, Signal(c) PROVE SharedInv'
  BY <1>9, SharedIdle DEF Signal
<1>10. ASSUME NEW c \in Clients, Help(c) PROVE SharedInv'
  BY <1>10, SharedIdle DEF Help
<1>11. ASSUME NEW c \in Clients, Posted(c) PROVE SharedInv'
  BY <1>11, SharedIdle DEF Posted
<1>12. ASSUME NEW c \in Clients, Test(c) \/ Sleep(c) \/ Timeout(c) PROVE SharedInv'
  BY <1>12, SharedIdle DEF Test, Sleep, Timeout
<1>13. CASE Shutdown \/ Join
  BY <1>13, SharedIdle DEF Shutdown, Join
<1>14. CASE Broadcast
  BY <1>14, SharedIdle DEF Broadcast
<1>15. CASE UNCHANGED vars
  BY <1>15, SharedIdle DEF vars
<1> QED
  BY <1>1, <1>4, <1>5, <1>6, <1>7, <1>8, <1>9, <1>10, <1>11, <1>12, <1>13, <1>14, <1>15
     DEF Next, WorkerStep, ClientStep

LEMMA ReusedStays == [Next]_vars /\ reused => reused'
<1> SUFFICES ASSUME [Next]_vars, reused PROVE reused'
  OBVIOUS
<1> USE DEF ghostVars, vars
<1>1. ASSUME NEW w \in Workers, WorkerStep(w) \/ Spurious(w) PROVE reused'
  BY <1>1 DEF WorkerStep, Wait, Spurious, Woken, ScanTask, Pick, Finish, FreeJob, GiveUp,
              Report, GiveBack
<1>2. ASSUME NEW c \in Clients, NEW j \in Jobs, ClientStep(c) \/ Post(c, j) PROVE reused'
  BY <1>2 DEF ClientStep, Post, ScanSlot, InitSlot, Publish, Signal, Help, Posted, Test, Sleep,
              Timeout
<1>3. ASSUME NEW c \in Clients, ClientStep(c) PROVE reused'
  BY <1>3 DEF ClientStep, ScanSlot, InitSlot, Publish, Signal, Help, Posted, Test, Sleep,
              Timeout
<1> QED
  BY <1>1, <1>2, <1>3 DEF Next, Shutdown, Broadcast, Join

LEMMA SharedInit == Init => SharedInv
<1> SUFFICES ASSUME Init PROVE SharedInv
  OBVIOUS
<1> USE NotAState, StatesDiffer, ItemsFacts DEF Init, Untouched, Posting, Watching
<1>1. \A r, j : ~Refers(r, j)
  BY DEF Refers, TaskRefers, CallRefers, Live
<1>2. Contract
  BY DEF Contract
<1>3. PostedOnce
  BY DEF PostedOnce
<1>4. Shares
  BY <1>1 DEF Shares, Live
<1>5. Calls
  BY DEF Calls
<1>6. Runs /\ Waiting
  BY DEF Runs, Waiting, Awaits
<1> QED
  BY <1>2, <1>3, <1>4, <1>5, <1>6 DEF SharedInv

SharedAll == TypeOK /\ SlotOwned /\ JobKnown /\ (~reused => SharedInv)

LEMMA SharedStep == SharedAll /\ [Next]_vars => SharedAll'
  BY TypeNext, OwnedNext, SharedNext, ReusedStays DEF SharedAll, SharedPre

LEMMA SharedAlways == Spec => []SharedAll
<1>1. Init => SharedAll
  BY OwnedInit, SharedInit DEF SharedAll
<1> QED
  BY <1>1, SharedStep, PTL DEF Spec

\* However many tasks of however many clients share a job: as long as no slot
\* was handed out while somebody still referred to it, no item is run twice
\* and free comes after the last item.
THEOREM SharedContractHolds == Spec => []SharedContract
<1>1. SharedAll => SharedContract
  BY DEF SharedAll, SharedInv, Contract, SharedContract
<1> QED
  BY <1>1, SharedAlways, PTL

\* What threads_wait waits for is finished when it returns.
THEOREM SharedWaitHolds == Spec => SharedWaitSound
<1> DEFINE Sound == ~reused' => \A c \in Clients :
                      cpc[c] = "test" /\ cpc'[c] = "idle" => Finished(cjob[c])
<1>1. SharedAll /\ [Next]_vars => [Sound]_vars
  <2> SUFFICES ASSUME SharedAll, Next, ~reused', NEW c \in Clients, cpc[c] = "test", cpc'[c] = "idle"
               PROVE  Finished(cjob[c])
    OBVIOUS
  <2>0. SharedPre
    BY ReusedStays DEF SharedAll, SharedPre
  <2>1. Test(c)
    BY TestStep DEF SharedAll
  <2>2. ~Unfinished(cref[c])
    BY <2>0, <2>1 DEF Test, CGoto, SharedPre, TypeOK, ClientTypes
  <2>3. cref[c] \in Slots /\ cjob[c] \in Jobs
    BY <2>0 DEF SharedPre, SharedInv, Calls, Watching, JobKnown
  <2>4. CASE cjob[c] \in Waited /\ Counts(cref[c], cjob[c])
    <3>1. done[cref[c]] >= Cnt[cjob[c]]
      BY <2>0, <2>2, <2>3, <2>4, ItemsFacts DEF Unfinished, Counts, SharedPre, TypeOK, SlotTypes
    <3> QED BY <2>0, <2>3, <2>4, <3>1, CountedDone
  <2>5. cjob[c] \in Waited
    BY <2>0 DEF SharedPre, SharedInv, Calls
  <2> QED BY <2>0, <2>4, <2>5 DEF SharedPre, SharedInv, Waiting, Awaits
<1> QED
  BY <1>1, SharedAlways, PTL DEF SharedWaitSound, Spec

\* The pool keeps its promise to shared jobs: every item is run once, and free
\* is called when all of them are done.
THEOREM SharedImplementsJobPool == Spec => SharedPool
<1>1. Init => Pool!Init
  BY ItemsFacts DEF Init, Pool!Init, ItemView, ViewOf
<1>2. SharedAll /\ [Next]_vars => [~reused' => [Pool!Next]_(Pool!vars)]_vars
  <2> SUFFICES ASSUME SharedAll, Next, ~reused'
               PROVE  Pool!Next \/ UNCHANGED <<ItemView, released>>
    BY DEF Pool!vars
  <2>0. SharedPre
    BY ReusedStays DEF SharedAll, SharedPre
  <2>1. ASSUME NEW w \in Workers, Pick(w)
        PROVE  Pool!Next \/ UNCHANGED <<ItemView, released>>
    <3> DEFINE j == data[at[w]]
               i == work_item[reftask[at[w]]]
    <3>1. /\ j \in Jobs /\ i \in Nat /\ work_item_cnt[at[w]] = Cnt[j]
          /\ Counts(reftask[at[w]], j)
      BY <2>0, <2>1, RunMeansLive DEF Pick, Busy, SharedPre, TypeOK, SlotTypes
    <3>2. UNCHANGED <<ended, released>>
      BY <2>1 DEF Pick
    <3>3. CASE i < Cnt[j]
      <4>1. i \in Items /\ i \in 0 .. Cnt[j] - 1 /\ begun[j][i] = 0
        BY <3>1, <3>3, ItemsFacts DEF Counts
      <4>2. ended[j][i] = 0
        BY <2>0, <3>1, <4>1 DEF SharedPre, SharedInv, Contract, TypeOK, GhostTypes
      <4>3. begun' = [begun EXCEPT ![j][i] = @ + 1]
        BY <2>1, <3>1, <3>3 DEF Pick, Left
      <4>4. /\ begun'[j][i] = begun[j][i] + 1
            /\ \A k \in Jobs, l \in Items : k # j \/ l # i => begun'[k][l] = begun[k][l]
        BY <2>0, <3>1, <4>1, <4>3, Bump DEF SharedPre, TypeOK, GhostTypes
      <4> HIDE DEF j, i
      <4> QED BY <3>1, <3>2, <4>1, <4>2, <4>4, BeginsInPool
    <3>4. CASE ~(i < Cnt[j])
      BY <2>1, <3>1, <3>2, <3>4 DEF Pick, Left, ItemView
    <3> QED BY <3>3, <3>4
  <2>2. ASSUME NEW w \in Workers, Finish(w)
        PROVE  Pool!Next \/ UNCHANGED <<ItemView, released>>
    <3> DEFINE j == data[at[w]]
               i == item[w]
    <3>1. j \in Jobs /\ i \in Items /\ begun[j][i] = 1 /\ ended[j][i] = 0
      BY <2>0, <2>2, RunMeansLive DEF Finish, Busy, SharedPre, TypeOK, WorkerTypes, SharedInv, Runs
    <3>2. UNCHANGED <<begun, released>> /\ ended' = [ended EXCEPT ![j][i] = @ + 1]
      BY <2>2 DEF Finish
    <3>3. /\ ended'[j][i] = ended[j][i] + 1
          /\ \A k \in Jobs, l \in Items : k # j \/ l # i => ended'[k][l] = ended[k][l]
      BY <2>0, <3>1, <3>2, Bump DEF SharedPre, TypeOK, GhostTypes
    <3> HIDE DEF j, i
    <3> QED BY <3>1, <3>2, <3>3, EndsInPool
  <2>3. ASSUME NEW w \in Workers, FreeJob(w)
        PROVE  Pool!Next \/ UNCHANGED <<ItemView, released>>
    <3> DEFINE j == data[at[w]]
    <3>1. j \in Jobs /\ Finished(j)
      BY <2>0, <2>3, RunMeansLive, SharedFree DEF FreeJob, Busy
    <3>2. ASSUME NEW i \in 0 .. Cnt[j] - 1 PROVE i \in Items /\ begun[j][i] = 1 /\ ended[j][i] = 1
      <4>1. i \in Items /\ ended[j][i] > 0
        BY <3>1, <3>2, ItemsFacts DEF Finished
      <4> QED BY <2>0, <3>1, <4>1 DEF SharedPre, SharedInv, Contract, TypeOK, GhostTypes
    <3>3. UNCHANGED <<begun, ended>> /\ released' = released \cup {j}
      BY <2>3 DEF FreeJob
    <3> HIDE DEF j
    <3> QED BY <3>1, <3>2, <3>3, ReleasesInPool
  <2>4. CASE UNCHANGED <<begun, ended, released>>
    BY <2>4 DEF ItemView
  <2> QED BY <2>1, <2>2, <2>3, <2>4, GhostSteps
<1> QED
  BY <1>1, <1>2, SharedAlways, PTL DEF SharedPool, Spec
=============================================================================
