------------------------------ MODULE Threads ------------------------------
(***************************************************************************)
(* The worker pool of src/core/threads.c: a fixed array of task slots that *)
(* clients fill (threads_task) and workers empty (threads_work), both      *)
(* finding a slot by a brute force compare-and-swap scan over `tid`.       *)
(*                                                                         *)
(* One step of the model is one access to memory another thread also       *)
(* writes, or a run of accesses that commute with the other threads'.      *)
(* Lock; pthread_cond_*; unlock is one step: nothing but the wait sets is  *)
(* protected by the two mutexes.  The set of threads waiting on            *)
(* cond_task_push is {w : pc[w] = "wait"}, that of cond_task_done          *)
(* {c : cpc[c] = "sleep"}.                                                 *)
(***************************************************************************)
EXTENDS Naturals, FiniteSets

CONSTANTS Workers,    \* the pool's threads
          Clients,    \* threads that call threads_task and threads_wait
          Main,       \* the client that shuts the pool down
          NSlots,     \* thr.task_max
          Jobs,       \* jobs the clients may post, each once
          MaxItems,   \* bound of work_item_cnt
          Cnt,        \* Cnt[j]: work_item_cnt of job j
          Parts,      \* Parts[j]: calls of threads_task for j, helpers included
          WithFree,   \* jobs posted with a free callback
          Waited,     \* jobs whose client calls threads_wait
          None        \* no slot, no job: the -1 of the code

Slots == 0 .. NSlots - 1
Items == 0 .. MaxItems - 1

\* s_task_state_*: every other value of `tid` is the id of a worker
Ready   == "ready"
Initing == "initing"
Recycle == "recycle"

ASSUME ThreadsAssumption ==
  /\ NSlots \in Nat \ {0}
  /\ MaxItems \in Nat \ {0}
  /\ Main \in Clients
  /\ Cnt \in [Jobs -> 1 .. MaxItems]
  /\ Parts \in [Jobs -> Nat \ {0}]
  /\ WithFree \subseteq Jobs
  /\ Waited \subseteq Jobs
  /\ None \notin Slots \cup Jobs
  /\ Workers \cap {Ready, Initing, Recycle} = {}

VARIABLES tid,            \* per slot: state of the slot, or its worker
          work_item,      \* per slot: next item to pick
          done,           \* per slot: items whose run has returned
          work_item_cnt,  \* per slot
          reftask,        \* per slot: whose counters this slot uses
          data,           \* per slot: the job (run, data, free)
          shutdown,       \* thr.shutdown
          stop,           \* progress of the thread shutting down
          pc, at, item,   \* per worker: next step, slot, item it runs
          cpc, cjob, cslot, cref, cleft,  \* per client
          fresh,          \* jobs not posted yet
          begun, ended,   \* history: calls of run begun and returned
          released,       \* history: jobs whose free callback was called
          reused          \* history: a slot somebody still refers to was claimed

slotVars   == <<tid, work_item, done, work_item_cnt, reftask, data>>
workerVars == <<pc, at, item>>
clientVars == <<cpc, cjob, cslot, cref, cleft, fresh>>
stopVars   == <<shutdown, stop>>
ghostVars  == <<begun, ended, released, reused>>
vars == <<slotVars, workerVars, clientVars, stopVars, ghostVars>>

WorkerPC == {"top", "wait", "woken", "scan", "pick", "run", "spin",
             "report", "recycle", "exit"}
ClientPC == {"idle", "scan", "init", "ready", "signal", "next",
             "test", "block", "sleep"}

\* A worker between taking a slot and giving it back.
Busy   == {"pick", "run", "spin", "report", "recycle"}
\* A client between claiming a slot and marking it ready.
Claims == {"init", "ready"}

SlotTypes ==
  /\ tid \in [Slots -> {Ready, Initing, Recycle} \cup Workers]
  /\ work_item \in [Slots -> Nat]
  /\ done \in [Slots -> Nat]
  /\ work_item_cnt \in [Slots -> 0 .. MaxItems]
  /\ reftask \in [Slots -> Slots]
  /\ data \in [Slots -> Jobs \cup {None}]

WorkerTypes ==
  /\ pc \in [Workers -> WorkerPC]
  /\ at \in [Workers -> Slots]
  /\ item \in [Workers -> Items]

ClientTypes ==
  /\ cpc \in [Clients -> ClientPC]
  /\ cjob \in [Clients -> Jobs \cup {None}]
  /\ cslot \in [Clients -> Slots]
  /\ cref \in [Clients -> Slots \cup {None}]
  /\ cleft \in [Clients -> Nat]
  /\ fresh \subseteq Jobs

StopTypes ==
  /\ shutdown \in BOOLEAN
  /\ stop \in {"no", "first", "second", "join", "joined"}

GhostTypes ==
  /\ begun \in [Jobs -> [Items -> Nat]]
  /\ ended \in [Jobs -> [Items -> Nat]]
  /\ released \subseteq Jobs
  /\ reused \in BOOLEAN

TypeOK == SlotTypes /\ WorkerTypes /\ ClientTypes /\ StopTypes /\ GhostTypes

Init ==
  /\ tid = [s \in Slots |-> Recycle]
  /\ work_item = [s \in Slots |-> 0]
  /\ done = [s \in Slots |-> 0]
  /\ work_item_cnt = [s \in Slots |-> 0]
  /\ reftask = [s \in Slots |-> s]
  /\ data = [s \in Slots |-> None]
  /\ shutdown = FALSE
  /\ stop = "no"
  /\ pc = [w \in Workers |-> "top"]
  /\ at = [w \in Workers |-> 0]
  /\ item = [w \in Workers |-> 0]
  /\ cpc = [c \in Clients |-> "idle"]
  /\ cjob = [c \in Clients |-> None]
  /\ cslot = [c \in Clients |-> 0]
  /\ cref = [c \in Clients |-> None]
  /\ cleft = [c \in Clients |-> 0]
  /\ fresh = Jobs
  /\ begun = [j \in Jobs |-> [i \in Items |-> 0]]
  /\ ended = [j \in Jobs |-> [i \in Items |-> 0]]
  /\ released = {}
  /\ reused = FALSE
-----------------------------------------------------------------------------
(***************************************************************************)
(* Workers: threads_work                                                   *)
(***************************************************************************)
Goto(w, l) == pc' = [pc EXCEPT ![w] = l]

\* Lock and wait: unconditionally, whatever is ready.
Wait(w) ==
  /\ pc[w] = "top"
  /\ Goto(w, "wait")
  /\ UNCHANGED <<at, item, slotVars, clientVars, stopVars, ghostVars>>

\* pthread_cond_wait may return without a signal.
Spurious(w) ==
  /\ pc[w] = "wait"
  /\ Goto(w, "woken")
  /\ UNCHANGED <<at, item, slotVars, clientVars, stopVars, ghostVars>>

Woken(w) ==
  /\ pc[w] = "woken"
  /\ Goto(w, IF shutdown THEN "exit" ELSE "scan")
  /\ at' = [at EXCEPT ![w] = 0]
  /\ UNCHANGED <<item, slotVars, clientVars, stopVars, ghostVars>>

\* Mutant: any slot in use is taken.
Takable_InUse(s) == tid[s] \notin {Recycle, Initing}
\* What the compare and swap of a worker expects.
Takable(s) == tid[s] = Ready

\* Compare and swap of one slot; the slots are tried in order, once each.
ScanTask(w) ==
  /\ pc[w] = "scan"
  /\ \/ /\ Takable(at[w])
        /\ tid' = [tid EXCEPT ![at[w]] = w]
        /\ Goto(w, "pick")
        /\ UNCHANGED at
     \/ /\ ~Takable(at[w])
        /\ at[w] + 1 \in Slots
        /\ at' = [at EXCEPT ![w] = @ + 1]
        /\ UNCHANGED <<tid, pc>>
     \/ /\ ~Takable(at[w])
        /\ at[w] + 1 \notin Slots
        /\ Goto(w, "top")
        /\ UNCHANGED <<tid, at>>
  /\ UNCHANGED <<work_item, done, work_item_cnt, reftask, data, item,
                 clientVars, stopVars, ghostVars>>

\* Mutant: one item too many.
Left_OffByOne(s, i) == i <= work_item_cnt[s]
\* Item i is one of slot s's.
Left(s, i) == i < work_item_cnt[s]

\* Fetch and increment of the counter of the referenced slot; the bound it
\* is compared with is the worker's own slot's.
Pick(w) ==
  LET s == at[w]
      r == reftask[s]
      i == work_item[r]
  IN /\ pc[w] = "pick"
     /\ work_item' = [work_item EXCEPT ![r] = @ + 1]
     /\ \/ /\ Left(s, i)
           /\ item' = [item EXCEPT ![w] = i]
           /\ begun' = [begun EXCEPT ![data[s]][i] = @ + 1]
           /\ Goto(w, "run")
        \/ /\ ~Left(s, i)
           /\ Goto(w, CASE shutdown -> "exit"
                        [] ~shutdown /\ data[s] \in WithFree -> "spin"
                        [] OTHER -> "report")
           /\ UNCHANGED <<item, begun>>
     /\ UNCHANGED <<tid, done, work_item_cnt, reftask, data, at,
                    clientVars, stopVars, ended, released, reused>>

\* Mutant: a helper counts on its own slot.
CountDone_Own(s) == done' = [done EXCEPT ![s] = @ + 1]
CountDone(s) == done' = [done EXCEPT ![reftask[s]] = @ + 1]

\* run(item, data) returns and the item is counted as done.
Finish(w) ==
  LET s == at[w]
  IN /\ pc[w] = "run"
     /\ CountDone(s)
     /\ ended' = [ended EXCEPT ![data[s]][item[w]] = @ + 1]
     /\ Goto(w, IF shutdown THEN "exit" ELSE "pick")
     /\ UNCHANGED <<tid, work_item, work_item_cnt, reftask, data, at, item,
                    clientVars, stopVars, begun, released, reused>>

\* Mutant: waits for the items to be picked, not to be done.
AllDone_Picked(s) == work_item[reftask[s]] >= work_item_cnt[s]
AllDone(s) == done[reftask[s]] >= work_item_cnt[s]

\* Busy wait until everybody is done with the job, then call free.
\* (A failed test loops: a stuttering step.)
FreeJob(w) ==
  /\ pc[w] = "spin"
  /\ ~shutdown
  /\ AllDone(at[w])
  /\ released' = released \cup {data[at[w]]}
  /\ Goto(w, "report")
  /\ UNCHANGED <<slotVars, at, item, clientVars, stopVars, begun, ended, reused>>

\* Mutant: the busy wait does not look at the shutdown flag.
GiveUp_Never(w) == FALSE /\ UNCHANGED vars
\* On shutdown nothing is cleaned up: nobody waits for everybody.
GiveUp(w) ==
  /\ pc[w] = "spin"
  /\ shutdown
  /\ Goto(w, "exit")
  /\ UNCHANGED <<slotVars, at, item, clientVars, stopVars, ghostVars>>

\* Threads waiting in threads_wait go back to their test.
WakeSleepers == [c \in Clients |-> IF cpc[c] = "sleep" THEN "test" ELSE cpc[c]]

Report(w) ==
  /\ pc[w] = "report"
  /\ cpc' = WakeSleepers
  /\ Goto(w, "recycle")
  /\ UNCHANGED <<slotVars, at, item, cjob, cslot, cref, cleft, fresh, stopVars, ghostVars>>

\* The compare and swap back: it leaves a slot alone that is not w's any more
\* (the code asserts this cannot happen, see SlotOwned).
GiveBack(w) ==
  LET s == at[w]
  IN /\ pc[w] = "recycle"
     /\ tid' = [tid EXCEPT ![s] = IF @ = w THEN Recycle ELSE @]
     /\ Goto(w, "top")
     /\ UNCHANGED <<work_item, done, work_item_cnt, reftask, data, at, item,
                    clientVars, stopVars, ghostVars>>

WorkerStep(w) == \/ Wait(w) \/ Woken(w) \/ ScanTask(w) \/ Pick(w)
                 \/ Finish(w) \/ FreeJob(w) \/ GiveUp(w) \/ Report(w) \/ GiveBack(w)
-----------------------------------------------------------------------------
(***************************************************************************)
(* Clients: threads_task and threads_wait.  A client posts a job by        *)
(* Parts[j] calls of threads_task, each passing on what the one before     *)
(* returned, and gives up when a call returns a negative value, as         *)
(* dt_thumbnails_cache_list does; then it may wait for the job.            *)
(***************************************************************************)
CGoto(c, l) == cpc' = [cpc EXCEPT ![c] = l]

\* Beginning of the first call: taskid = -1.
Post(c, j) ==
  /\ cpc[c] = "idle"
  /\ j \in fresh
  /\ c = Main => stop = "no"
  /\ stop # "joined"
  /\ fresh' = fresh \ {j}
  /\ cjob' = [cjob EXCEPT ![c] = j]
  /\ cslot' = [cslot EXCEPT ![c] = 0]
  /\ cref' = [cref EXCEPT ![c] = None]
  /\ cleft' = [cleft EXCEPT ![c] = Parts[j] - 1]
  /\ CGoto(c, "scan")
  /\ UNCHANGED <<slotVars, workerVars, stopVars, ghostVars>>

\* Client c will still use the id s: it passes s on to the call it is in or to
\* the next one, or is about to read from the slot what it will pass on.
Holds(c, s) ==
  \/ cpc[c] \in {"scan", "init", "ready", "signal"} /\ cref[c] = s
  \/ cpc[c] = "signal" /\ cslot[c] = s
  \/ cpc[c] = "next" /\ cleft[c] > 0 /\ cref[c] = s

\* Somebody else still works, or will work, on the counters of slot s.
Referenced(s) ==
  \/ \E t \in Slots \ {s} : reftask[t] = s /\ tid[t] \notin {Recycle, Initing}
  \/ \E c \in Clients : Holds(c, s)

\* Search for a slot to recycle; -1 if there is none.
ScanSlot(c) ==
  LET s == cslot[c]
  IN /\ cpc[c] = "scan"
     /\ \/ /\ tid[s] = Recycle
           /\ tid' = [tid EXCEPT ![s] = Initing]
           /\ reused' = (reused \/ Referenced(s))
           /\ CGoto(c, "init")
           /\ UNCHANGED <<cslot, cleft>>
        \/ /\ tid[s] # Recycle
           /\ s + 1 \in Slots
           /\ cslot' = [cslot EXCEPT ![c] = s + 1]
           /\ UNCHANGED <<tid, reused, cpc, cleft>>
        \/ /\ tid[s] # Recycle
           /\ s + 1 \notin Slots
           /\ CGoto(c, "idle")
           /\ UNCHANGED <<tid, reused, cslot, cleft>>
     /\ UNCHANGED <<work_item, done, work_item_cnt, reftask, data, cjob, cref, fresh,
                    workerVars, stopVars, begun, ended, released>>

ResetCounter(s) == work_item' = [work_item EXCEPT ![s] = 0]

\* The fields of the slot are written while it is `initing'.
InitSlot(c) ==
  LET s == cslot[c]
  IN /\ cpc[c] = "init"
     /\ data' = [data EXCEPT ![s] = cjob[c]]
     /\ work_item_cnt' = [work_item_cnt EXCEPT ![s] = Cnt[cjob[c]]]
     /\ reftask' = [reftask EXCEPT ![s] = IF cref[c] = None THEN s ELSE cref[c]]
     /\ ResetCounter(s)
     /\ CGoto(c, "ready")
     /\ UNCHANGED <<tid, done, cjob, cslot, cref, cleft, fresh, workerVars, stopVars, ghostVars>>

\* done = 0 and the compare and swap that publishes the slot.
Publish(c) ==
  LET s == cslot[c]
  IN /\ cpc[c] = "ready"
     /\ done' = [done EXCEPT ![s] = 0]
     /\ tid' = [tid EXCEPT ![s] = IF @ = Initing THEN Ready ELSE @]
     /\ CGoto(c, "signal")
     /\ UNCHANGED <<work_item, work_item_cnt, reftask, data, cjob, cslot, cref, cleft, fresh,
                    workerVars, stopVars, ghostVars>>

\* pthread_cond_signal wakes one waiting worker, or nobody; then
\* task->reftask is returned.
Signal(c) ==
  /\ cpc[c] = "signal"
  /\ \/ \E w \in Workers : pc[w] = "wait" /\ Goto(w, "woken")
     \/ (\A w \in Workers : pc[w] # "wait") /\ UNCHANGED pc
  /\ cref' = [cref EXCEPT ![c] = reftask[cslot[c]]]
  /\ CGoto(c, "next")
  /\ UNCHANGED <<slotVars, at, item, cjob, cslot, cleft, fresh, stopVars, ghostVars>>

\* The next call for the same job, with the taskid of the first: it is
\* refused (-2) when nothing is left to pick.
Help(c) ==
  LET r == cref[c]
  IN /\ cpc[c] = "next"
     /\ cleft[c] > 0
     /\ \/ /\ work_item_cnt[r] > work_item[r]
           /\ cleft' = [cleft EXCEPT ![c] = @ - 1]
           /\ cslot' = [cslot EXCEPT ![c] = 0]
           /\ CGoto(c, "scan")
        \/ /\ work_item_cnt[r] <= work_item[r]
           /\ CGoto(c, "idle")
           /\ UNCHANGED <<cleft, cslot>>
     /\ UNCHANGED <<slotVars, cjob, cref, fresh, workerVars, stopVars, ghostVars>>

\* All calls made: wait for the job, or go on with something else.
Posted(c) ==
  /\ cpc[c] = "next"
  /\ cleft[c] = 0
  /\ CGoto(c, IF cjob[c] \in Waited THEN "test" ELSE "idle")
  /\ UNCHANGED <<slotVars, cjob, cslot, cref, cleft, fresh, workerVars, stopVars, ghostVars>>

\* Mutant: waits for the items to be picked, not to be done.
Unfinished_Picked(s) == work_item[s] < work_item_cnt[s]
Unfinished(s) == done[s] < work_item_cnt[s]

\* threads_wait: the loop condition, read without the mutex ...
Test(c) ==
  /\ cpc[c] = "test"
  /\ CGoto(c, IF Unfinished(cref[c]) THEN "block" ELSE "idle")
  /\ UNCHANGED <<slotVars, cjob, cslot, cref, cleft, fresh, workerVars, stopVars, ghostVars>>

\* ... then the wait, which misses the broadcasts before it ...
Sleep(c) ==
  /\ cpc[c] = "block"
  /\ CGoto(c, "sleep")
  /\ UNCHANGED <<slotVars, cjob, cslot, cref, cleft, fresh, workerVars, stopVars, ghostVars>>

\* Mutant: a wait without timeout.
Timeout_Never(c) == FALSE /\ UNCHANGED vars
\* ... and ends after a second.
Timeout(c) ==
  /\ cpc[c] = "sleep"
  /\ CGoto(c, "test")
  /\ UNCHANGED <<slotVars, cjob, cslot, cref, cleft, fresh, workerVars, stopVars, ghostVars>>

ClientStep(c) == \/ ScanSlot(c) \/ InitSlot(c) \/ Publish(c) \/ Signal(c)
                 \/ Help(c) \/ Posted(c) \/ Test(c) \/ Sleep(c) \/ Timeout(c)
-----------------------------------------------------------------------------
(***************************************************************************)
(* Shutdown, as main() does it: threads_shutdown, then                     *)
(* threads_global_cleanup, which calls threads_shutdown again and joins.   *)
(***************************************************************************)
Shutdown ==
  /\ stop = "no"
  /\ cpc[Main] = "idle"
  /\ shutdown' = TRUE
  /\ stop' = "first"
  /\ UNCHANGED <<slotVars, workerVars, clientVars, ghostVars>>

\* The two broadcasts of a threads_shutdown call.
Broadcast ==
  /\ stop \in {"first", "second"}
  /\ stop' = IF stop = "first" THEN "second" ELSE "join"
  /\ pc' = [w \in Workers |-> IF pc[w] = "wait" THEN "woken" ELSE pc[w]]
  /\ cpc' = WakeSleepers
  /\ UNCHANGED <<slotVars, at, item, cjob, cslot, cref, cleft, fresh, shutdown, ghostVars>>

\* pthread_join of every worker has returned.
Join ==
  /\ stop = "join"
  /\ \A w \in Workers : pc[w] = "exit"
  /\ stop' = "joined"
  /\ UNCHANGED <<slotVars, workerVars, clientVars, shutdown, ghostVars>>
-----------------------------------------------------------------------------
Next == \/ \E w \in Workers : WorkerStep(w) \/ Spurious(w)
        \/ \E c \in Clients : ClientStep(c) \/ \E j \in Jobs : Post(c, j)
        \/ Shutdown \/ Broadcast \/ Join

Spec == Init /\ [][Next]_vars

\* Every thread that can run keeps running, run callbacks return, and the
\* timed wait times out.  Nothing makes a client post or the program end, and
\* nothing makes pthread_cond_wait return without a signal.
Fairness == /\ \A w \in Workers : WF_vars(WorkerStep(w))
            /\ \A c \in Clients : WF_vars(ClientStep(c))
            /\ WF_vars(Broadcast) /\ WF_vars(Join)

FairSpec == Spec /\ Fairness
-----------------------------------------------------------------------------
(***************************************************************************)
(* Properties                                                              *)
(***************************************************************************)
Finished(j) == \A i \in 0 .. Cnt[j] - 1 : ended[j][i] > 0

\* The assertions at threads.c:121 and threads.c:206: when a worker gives a
\* slot back it is still its own, when a client publishes a slot it still is
\* `initing'; nobody shares a slot.
SlotOwned ==
  /\ \A w \in Workers : pc[w] \in Busy => tid[at[w]] = w
  /\ \A c \in Clients : cpc[c] \in Claims => tid[cslot[c]] = Initing
  /\ \A b, c \in Clients :
       cpc[b] \in Claims /\ cpc[c] \in Claims /\ cslot[b] = cslot[c] => b = c

\* threads.c:107: as long as no slot was handed out again while somebody still
\* referred to it, every item is run at most once and free is called only
\* when all of them are done, however many threads share the job.
SharedContract ==
  ~reused => /\ \A j \in Jobs, i \in Items : begun[j][i] <= 1
             /\ \A j \in released : Finished(j)

\* An item as the pool promises it: b calls of run begun, e returned.
ViewOf(b, e) == CASE b = 0 -> "todo"
                  [] b = 1 /\ e = 0 -> "running"
                  [] b = 1 /\ e = 1 -> "done"
                  [] OTHER -> "repeated"
ItemView == [j \in Jobs |-> [i \in Items |-> ViewOf(begun[j][i], ended[j][i])]]
ItemsOf == [j \in Jobs |-> 0 .. Cnt[j] - 1]

Pool == INSTANCE JobPool WITH item <- ItemView

\* The pool keeps the promise of threads.h to every job.
ImplementsJobPool == Pool!Spec

\* threads.h:62: when threads_wait returns the job is finished, although its
\* slot may meanwhile work for somebody else.
WaitSound ==
  [][\A c \in Clients : cpc[c] = "test" /\ cpc'[c] = "idle" => Finished(cjob[c])]_vars

\* The same two promises for jobs that several tasks share, as long as no slot
\* was handed out while somebody still referred to it.
SharedPool == Pool!Init /\ [][~reused' => [Pool!Next]_(Pool!vars)]_vars

SharedWaitSound ==
  [][~reused' => \A c \in Clients :
       cpc[c] = "test" /\ cpc'[c] = "idle" => Finished(cjob[c])]_vars

\* A slot that was taken is given back: no worker spins for ever on a count
\* that is not reached.
TakenIsGivenBack ==
  \A s \in Slots : (tid[s] \in Workers) ~> (tid[s] \notin Workers \/ shutdown \/ reused)

\* threads.c:225: threads_wait returns although it may miss the broadcast,
\* unless the slot was handed out again and waits for a worker.
WaitReturns ==
  \A c \in Clients :
    (cpc[c] \in {"test", "block", "sleep"} /\ \E s \in Slots : cref[c] = s /\ tid[s] \in Workers)
      ~> \/ cpc[c] = "idle" \/ shutdown
         \/ \E s \in Slots : cref[c] = s /\ tid[s] \in {Initing, Ready}

\* threads.c:105: after shutdown no worker stays locked up in its task,
\* whatever the others left undone.
BusyExits ==
  \A w \in Workers : (shutdown /\ pc[w] \in {"pick", "run", "spin"}) ~> (pc[w] = "exit")

\* threads.h:31, "one task is going to be worked on by one thread".
TaskIsWorkedOn ==
  \A s \in Slots : (tid[s] = Ready) ~> (tid[s] # Ready \/ shutdown)

\* threads.c:303, "unblock everyone, even though we're not done".
ShutdownUnblocks == shutdown ~> (\A w \in Workers : pc[w] = "exit")

\* threads.h:41, free "is called only at the very end to clean up".
FreeAtTheEnd == \A w \in Workers : pc[w] = "run" => data[at[w]] \notin released
=============================================================================
