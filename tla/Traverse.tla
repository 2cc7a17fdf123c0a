------------------------------ MODULE Traverse ------------------------------
(***************************************************************************)
(* The depth first traversal of pipe/graph-traverse.inc, which decides in  *)
(* which order modules and nodes are set up, allocated, recorded and       *)
(* written to files.  It works with a stack of fixed size, on a graph that *)
(* may be cyclic, and puts off what is only read by feedback connectors    *)
(* (the previous frame) until everything else is done.                     *)
(***************************************************************************)
EXTENDS Integers, Sequences, FiniteSets

CONSTANTS NumNodes,     \* arr_cnt
          Nets,         \* the graphs to traverse
          MaxStack,     \* entries of stack[], 1000 in the code
          MaxFeedback   \* entries of feedback_stack[], 100 in the code

Nodes == 0 .. NumNodes - 1

\* What the traversal looks at: connected sinks, the ones of instance main
\* among them, bvh nodes, and per node the inputs that are connected, in the
\* order of its connectors, with their feedback flag.
Net == [sinks : SUBSET Nodes, main : SUBSET Nodes, bvh : SUBSET Nodes,
        reads : [Nodes -> Seq([node : Nodes, feedback : BOOLEAN])]]

(* The seeds: main sinks upwards, other sinks downwards, bvh upwards *)

Candidate(k) ==
  IF k < NumNodes THEN k
  ELSE IF k < 2 * NumNodes THEN 2 * NumNodes - 1 - k
  ELSE k - 2 * NumNodes

\* Mutant: the loop over the bvh nodes is missing
IsSeed_NoBvh(m, k) ==
  Candidate(k) \in IF k < NumNodes THEN m.main
                   ELSE IF k < 2 * NumNodes THEN m.sinks \ m.main ELSE {}

IsSeed(m, k) ==
  Candidate(k) \in IF k < NumNodes THEN m.main
                   ELSE IF k < 2 * NumNodes THEN m.sinks \ m.main ELSE m.bvh

SeedsUpTo(m, k) == {j \in 0 .. k - 1 : IsSeed(m, j)}

\* Nothing checks that the seeds fit.
ASSUME TraverseAssumption ==
  /\ NumNodes \in Nat
  /\ MaxStack \in Nat
  /\ MaxFeedback \in 0 .. MaxStack
  /\ \A m \in Nets : /\ m \in Net
                     /\ m.main \subseteq m.sinks
                     /\ Cardinality(SeedsUpTo(m, 3 * NumNodes)) <= MaxStack

VARIABLES net,      \* the graph, which no traversal changes
          seeded,   \* candidates the three loops at the start have looked at
          stack,    \* stack[0..sp] with done[]
          later,    \* feedback_stack[0..sp2]
          ran,      \* nodes with mark 3; nothing but the seeds tells 0, 1, 2 apart
          order,    \* nodes TRAVERSE_POST was executed for
          at,       \* the stack entry whose inputs are being pushed, 0 for none
          next,     \* its next input
          full      \* a stack was full and both were emptied

vars == <<net, seeded, stack, later, ran, order, at, next, full>>

Entry == [node : Nodes, done : BOOLEAN]

TypeOK ==
  /\ net \in Net
  /\ seeded \in 0 .. 3 * NumNodes
  /\ stack \in Seq(Entry) /\ Len(stack) <= MaxStack
  /\ later \in Seq(Nodes) /\ Len(later) <= MaxFeedback
  /\ ran \subseteq Nodes
  /\ order \in Seq(Nodes)
  /\ at \in 0 .. Len(stack)
  /\ next \in Nat \ {0}
  /\ full \in BOOLEAN

Init ==
  /\ net \in Nets
  /\ seeded = 0
  /\ stack = <<>>
  /\ later = <<>>
  /\ ran = {}
  /\ order = <<>>
  /\ at = 0
  /\ next = 1
  /\ full = FALSE

Top == stack[Len(stack)]
Popped == SubSeq(stack, 1, Len(stack) - 1)
Fresh(n) == [node |-> n, done |-> FALSE]
Inputs(n) == net.reads[n]

Seed ==
  /\ seeded < 3 * NumNodes
  /\ seeded' = seeded + 1
  /\ stack' = IF IsSeed(net, seeded) THEN Append(stack, Fresh(Candidate(seeded)))
              ELSE stack
  /\ UNCHANGED <<net, later, ran, order, at, next, full>>

-----------------------------------------------------------------------------
(* One round of the inner loop on the top of the stack *)

Working == seeded = 3 * NumNodes /\ at = 0 /\ stack # <<>>

\* Pushed more than once, and finished by another entry
Drop ==
  /\ Working
  /\ Top.node \in ran
  /\ stack' = Popped
  /\ UNCHANGED <<net, seeded, later, ran, order, at, next, full>>

\* All its inputs are done
Post ==
  /\ Working
  /\ Top.node \notin ran
  /\ Top.done
  /\ order' = Append(order, Top.node)
  /\ ran' = ran \cup {Top.node}
  /\ stack' = Popped
  /\ UNCHANGED <<net, seeded, later, at, next, full>>

\* Seen for the first time: come back to this entry after the inputs
Enter ==
  /\ Working
  /\ Top.node \notin ran
  /\ ~Top.done
  /\ stack' = [stack EXCEPT ![Len(stack)].done = TRUE]
  /\ at' = Len(stack)
  /\ next' = 1
  /\ UNCHANGED <<net, seeded, later, ran, order, full>>

-----------------------------------------------------------------------------
(* The loop over the connectors of the entered node *)

Expanded == stack[at].node
Looking  == at # 0 /\ next <= Len(Inputs(Expanded))
Input    == Inputs(Expanded)[next]

\* Mutant: what is on the stack already is not pushed again, so that it may
\* come too late
Pushed_Once == ~Input.feedback /\ \A k \in DOMAIN stack : stack[k].node # Input.node

Pushed == ~Input.feedback /\ Input.node \notin ran
PutOff == Input.feedback /\ Input.node \notin ran

\* Mutant: one entry too many
NoRoom_Late == \/ Pushed /\ Len(stack) > MaxStack
               \/ PutOff /\ Len(later) >= MaxFeedback

\* Mutant: the last entry of a stack is not used
NoRoom_Early == \/ Pushed /\ Len(stack) >= MaxStack - 1
                \/ PutOff /\ Len(later) >= MaxFeedback

NoRoom == \/ Pushed /\ Len(stack) >= MaxStack
          \/ PutOff /\ Len(later) >= MaxFeedback

Push ==
  /\ Looking
  /\ ~NoRoom
  /\ stack' = IF Pushed THEN Append(stack, Fresh(Input.node)) ELSE stack
  /\ later' = IF PutOff THEN Append(later, Input.node) ELSE later
  /\ next' = next + 1
  /\ UNCHANGED <<net, seeded, ran, order, at, full>>

\* A stack is full: both are emptied, which ends all the loops
Overflow ==
  /\ Looking
  /\ NoRoom
  /\ stack' = <<>>
  /\ later' = <<>>
  /\ at' = 0
  /\ full' = TRUE
  /\ UNCHANGED <<net, seeded, ran, order, next>>

Leave ==
  /\ at # 0
  /\ ~Looking
  /\ at' = 0
  /\ UNCHANGED <<net, seeded, stack, later, ran, order, next, full>>

-----------------------------------------------------------------------------
\* What was put off becomes the stack.
NextRound ==
  /\ seeded = 3 * NumNodes
  /\ at = 0
  /\ stack = <<>>
  /\ later # <<>>
  /\ stack' = [k \in DOMAIN later |-> Fresh(later[k])]
  /\ later' = <<>>
  /\ UNCHANGED <<net, seeded, ran, order, at, next, full>>

Next == \/ Seed \/ Drop \/ Post \/ Enter
        \/ Push \/ Overflow \/ Leave \/ NextRound

Spec == Init /\ [][Next]_vars
FairSpec == Spec /\ WF_vars(Next)

Finished ==
  seeded = 3 * NumNodes /\ at = 0 /\ stack = <<>> /\ later = <<>>

-----------------------------------------------------------------------------
(* Properties *)

\* A node comes once, and after everything it reads in the same frame: when
\* TRAVERSE_POST allocates, records or writes it, its inputs are there.  This
\* holds for what is traversed of a cyclic graph, too.
Ordered ==
  \A i \in DOMAIN order :
    /\ \A j \in DOMAIN order : order[i] = order[j] => i = j
    /\ \A c \in DOMAIN Inputs(order[i]) :
         ~Inputs(order[i])[c].feedback
           => \E j \in 1 .. i - 1 : order[j] = Inputs(order[i])[c].node

\* A traversal that did not run out of stack has met all sinks and bvh nodes
\* and everything that is read, by feedback too, by what it has met.
Complete ==
  Finished /\ ~full =>
    /\ net.sinks \cup net.bvh \subseteq ran
    /\ \A n \in ran : \A c \in DOMAIN Inputs(n) : Inputs(n)[c].node \in ran

\* The graph has no cycle but through feedback, and its connections fit.
Acyclic ==
  \E level \in [Nodes -> Nodes] :
    \A n \in Nodes : \A c \in DOMAIN Inputs(n) :
      ~Inputs(n)[c].feedback => level[Inputs(n)[c].node] < level[n]

Conns == UNION {{n} \X DOMAIN Inputs(n) : n \in Nodes}
Count(feedback) ==
  Cardinality({p \in Conns : Inputs(p[1])[p[2]].feedback = feedback})

Fits ==
  /\ Cardinality(net.sinks) + Cardinality(net.bvh) + Count(FALSE) <= MaxStack
  /\ Count(TRUE) + Count(FALSE) <= MaxStack
  /\ Count(TRUE) <= MaxFeedback

\* The stacks suffice for an acyclic graph if they have an entry for every seed
\* and every connection.
Suffices == Acyclic /\ Fits => ~full

\* Every traversal ends, that of a cyclic graph too (by filling the stack),
\* and does not fill a stack that suffices.
Terminates == <>(Finished /\ Suffices)
=============================================================================
