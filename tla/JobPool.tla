------------------------------ MODULE JobPool ------------------------------
(***************************************************************************)
(* What the thread pool of core/threads.h promises to whoever posts a job: *)
(* every item of the job is processed by one call of the run function, and *)
(* the free callback runs only when no item is left to do.  Slots, workers *)
(* and counters do not appear here; Threads.tla is shown to implement this *)
(* module as long as no helper refers to a slot that was handed out again. *)
(***************************************************************************)
CONSTANTS Jobs,      \* the jobs ever offered to the pool
          Items,     \* item numbers
          ItemsOf    \* ItemsOf[j]: the item numbers of job j, a subset of Items

VARIABLES item,      \* item[j][i]: what has become of item i of job j
          released   \* jobs whose free callback has been called

vars == <<item, released>>

ItemState == {"todo", "running", "done"}

TypeOK == /\ item \in [Jobs -> [Items -> ItemState]]
          /\ released \subseteq Jobs

Finished(j) == \A i \in ItemsOf[j] : item[j][i] = "done"

Init == /\ item = [j \in Jobs |-> [i \in Items |-> "todo"]]
        /\ released = {}

\* A worker calls run(i, data) of job j.
Begin(j, i) == /\ i \in ItemsOf[j]
               /\ item[j][i] = "todo"
               /\ item' = [item EXCEPT ![j][i] = "running"]
               /\ UNCHANGED released

\* That call returns.
End(j, i) == /\ item[j][i] = "running"
             /\ item' = [item EXCEPT ![j][i] = "done"]
             /\ UNCHANGED released

\* The free callback of the job.
Release(j) == /\ Finished(j)
              /\ released' = released \cup {j}
              /\ UNCHANGED item

Next == \E j \in Jobs : \/ Release(j)
                        \/ \E i \in Items : Begin(j, i) \/ End(j, i)

Spec == Init /\ [][Next]_vars
=============================================================================
