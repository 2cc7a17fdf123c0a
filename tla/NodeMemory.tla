----------------------------- MODULE NodeMemory -----------------------------
(***************************************************************************)
(* How the buffers between nodes share memory: graph-run-nodes-allocate.h  *)
(* walks the nodes in the order of the traversal, notes who uses a buffer  *)
(* last, then gives each output a block and takes it back after its last   *)
(* use, so that later outputs get the same memory.  What has to survive    *)
(* the dispatch is protected and kept in an arena of its own.  The model   *)
(* runs the two passes and then the dispatches that read and write what    *)
(* was laid out.  The allocator is any that keeps the promise of module    *)
(* Allocator: a block it hands out is not in use.                          *)
(***************************************************************************)
EXTENDS Integers, FiniteSets

CONSTANTS NumNodes,     \* cnt, the nodes that were traversed
          Bufs,         \* the output connectors of all nodes
          NoBuf,
          Shared,       \* memory of the arena for aliased buffers
          Kept,         \* memory of the persistent arena
          NoUnit,
          Nets,         \* the graphs that runs may set up
          MaxRuns       \* bound on the number of runs

\* Nodes are named by their place in nodeid[].
Nodes == 1 .. NumNodes
Units == Shared \cup Kept
Blocks == Bufs \X {0, 1}

\* owner[b] writes b; reads and feeds are the inputs of the same frame and of
\* the previous one.  guards are the nodes whose connections protect a buffer:
\* sources, sinks, bvh.  cached are still sources, written when they are
\* uploaded only.  exported outputs were copied from a module's connector; for
\* the lookup of the others, first[k] is what connector 0 of the node with id
\* k reads or writes.
Net == [owner : [Bufs -> Nodes], reads : [Nodes -> SUBSET Bufs],
        feeds : [Nodes -> SUBSET Bufs], guards : SUBSET Nodes,
        sinks : SUBSET Nodes, cached : SUBSET Nodes, exported : SUBSET Bufs,
        first : [0 .. NumNodes - 1 -> Bufs \cup {NoBuf}]]

\* What the traversal promises (Ordered of module Traverse), and what sources
\* and sinks are.
ASSUME MemoryAssumption ==
  /\ NumNodes \in Nat /\ MaxRuns \in Nat
  /\ IsFiniteSet(Bufs) /\ NoBuf \notin Bufs
  /\ NoUnit \notin Units /\ Shared \cap Kept = {}
  /\ \A m \in Nets :
       /\ m \in Net
       /\ \A n \in Nodes : \A b \in m.reads[n] : m.owner[b] < n
       /\ m.sinks \cup m.cached \subseteq m.guards
       /\ \A b \in Bufs, n \in Nodes : m.owner[b] \in m.cached => b \notin m.feeds[n]

VARIABLES net,      \* the nodes
          phase,    \* what dt_graph_run does: mark, place, run, idle
          pos,      \* the node it does it for
          prot,     \* buffers with s_conn_protected
          last,     \* nid_last_ref, 0 if this run did not set it
          mem,      \* the memory of each block
          freed,    \* blocks given back to the arena
          content,  \* what the GPU has written
          made,     \* the run in which a cached source was last written
          runs,     \* number of runs, its parity is double_buffer
          since,    \* the run that allocated
          upload    \* the cached sources that this run uploads

vars == <<net, phase, pos, prot, last, mem, freed, content, made, runs, since, upload>>

Owned(n)  == {b \in Bufs : net.owner[b] = n}
Double(b) == \E n \in Nodes : b \in net.feeds[n]
Block(b, r) == <<b, IF Double(b) THEN r % 2 ELSE 0>>
BlocksOf(S) == {k \in Blocks : k[1] \in S /\ (k[2] = 0 \/ Double(k[1]))}

-----------------------------------------------------------------------------
(* alloc_outputs: what is protected, and who is last to use the rest *)

\* Mutant: sinks do not protect what they read
Shielded_NoSink(n) ==
  net.feeds[n] \cup {b \in Owned(n) : Double(b)}
    \cup (IF n \in net.guards \ net.sinks THEN Owned(n) \cup net.reads[n] ELSE {})

Shielded(n) ==
  net.feeds[n] \cup {b \in Owned(n) : Double(b)}
    \cup (IF n \in net.guards THEN Owned(n) \cup net.reads[n] ELSE {})

Used(n) ==
  IF n \in net.guards THEN {} ELSE net.reads[n] \cup {b \in Owned(n) : ~Double(b)}

Mark ==
  /\ phase = "mark"
  /\ pos <= NumNodes
  /\ prot' = prot \cup Shielded(pos)
  /\ last' = [b \in Bufs |-> IF b \in Used(pos) THEN pos ELSE last[b]]
  /\ pos' = pos + 1
  /\ UNCHANGED <<net, phase, mem, freed, content, made, runs, since, upload>>

Marked ==
  /\ phase = "mark"
  /\ pos = NumNodes + 1
  /\ phase' = "place"
  /\ pos' = 1
  /\ UNCHANGED <<net, prot, last, mem, freed, content, made, runs, since, upload>>

-----------------------------------------------------------------------------
(* alloc_alias_memory *)

\* The buffer the loop over the connectors takes an output for: it looks up
\* the owner of what the output is connected to, but an output that was not
\* copied from a module only counts its readers there.
Count(m, b) == Cardinality({n \in Nodes : b \in m.reads[n]})
                 + Cardinality({n \in Nodes : b \in m.feeds[n]})
LookedUp(m, b) ==
  IF b \in m.exported THEN b
  ELSE IF Count(m, b) < NumNodes THEN m.first[Count(m, b)] ELSE NoBuf

Spared(n, b) ==
  IF b \in Owned(n) THEN LookedUp(net, b) \in prot \cup {NoBuf} ELSE b \in prot

Inputs(n) == net.reads[n] \cup net.feeds[n]

\* Blocks handed out and not given back
InUse == {mem[k] : k \in BlocksOf({b \in Bufs : net.owner[b] < pos}) \ freed}

\* Mutant: no second frame
Given_Single == Owned(pos) \X {0}

Given == BlocksOf(Owned(pos))
Arena(b) == IF b \in prot THEN Kept ELSE Shared

Free == Units \ InUse

\* The blocks that are given back after the node, of the current frame if
\* there are two.  A buffer whose last use was not noted in this run has what
\* an earlier graph left there.
Done(stale) ==
  {Block(b, runs) : b \in {x \in Owned(pos) \cup Inputs(pos) :
                             ~Spared(pos, x) /\ (last[x] = pos \/ x \in stale)}}

Place ==
  /\ phase = "place"
  /\ pos <= NumNodes
  /\ \E place \in [Given -> Free], stale \in SUBSET {b \in Owned(pos) : last[b] = 0} :
       /\ \A k, l \in Given : place[k] = place[l] => k = l
       /\ \A k \in Given : place[k] \in Arena(k[1])
       /\ mem' = [k \in Blocks |-> IF k \in Given THEN place[k] ELSE mem[k]]
       /\ freed' = freed \cup Done(stale)
  /\ pos' = pos + 1
  /\ UNCHANGED <<net, phase, prot, last, content, made, runs, since, upload>>

\* Recorded and submitted
Placed ==
  /\ phase = "place"
  /\ pos = NumNodes + 1
  /\ phase' = "run"
  /\ pos' = 1
  /\ UNCHANGED <<net, prot, last, mem, freed, content, made, runs, since, upload>>

-----------------------------------------------------------------------------
(* The GPU executes the nodes in order *)

Writes(n) == IF n \in net.cached \ upload THEN {} ELSE Owned(n)

Execute ==
  /\ phase = "run"
  /\ pos <= NumNodes
  /\ content' = [u \in Units |->
       IF \E b \in Writes(pos) : mem[Block(b, runs)] = u
         THEN <<CHOOSE b \in Writes(pos) : mem[Block(b, runs)] = u, runs>>
         ELSE content[u]]
  /\ made' = [b \in Bufs |-> IF b \in Writes(pos) THEN runs ELSE made[b]]
  /\ pos' = pos + 1
  /\ UNCHANGED <<net, phase, prot, last, mem, freed, runs, since, upload>>

Executed ==
  /\ phase = "run"
  /\ pos = NumNodes + 1
  /\ phase' = "idle"
  /\ UNCHANGED <<net, pos, prot, last, mem, freed, content, made, runs, since, upload>>

-----------------------------------------------------------------------------
(* The next run *)

\* s_graph_run_alloc, with the nodes created anew.  It comes with an upload of
\* the sources; whatever the memory holds counts as lost.
Allocate ==
  /\ phase = "idle"
  /\ runs < MaxRuns
  /\ net' \in Nets
  /\ runs' = runs + 1
  /\ since' = runs + 1
  /\ upload' = net'.cached
  /\ phase' = "mark"
  /\ pos' = 1
  /\ prot' = {}
  /\ last' = [b \in Bufs |-> 0]
  /\ mem' = [k \in Blocks |-> NoUnit]
  /\ freed' = {}
  /\ content' = [u \in Units |-> <<>>]
  /\ made' = [b \in Bufs |-> 0]

\* s_graph_run_record_cmd_buf only, sources may ask for their upload
Record ==
  /\ phase = "idle"
  /\ runs < MaxRuns
  /\ runs' = runs + 1
  /\ upload' \in SUBSET net.cached
  /\ phase' = "run"
  /\ pos' = 1
  /\ UNCHANGED <<net, prot, last, mem, freed, content, made, since>>

Init ==
  /\ net \in Nets
  /\ phase = "mark"
  /\ pos = 1
  /\ prot = {}
  /\ last = [b \in Bufs |-> 0]
  /\ mem = [k \in Blocks |-> NoUnit]
  /\ freed = {}
  /\ content = [u \in Units |-> <<>>]
  /\ made = [b \in Bufs |-> 0]
  /\ runs = 1
  /\ since = 1
  /\ upload = net.cached

Next == \/ Mark \/ Marked \/ Place \/ Placed
        \/ Execute \/ Executed \/ Allocate \/ Record

Spec == Init /\ [][Next]_vars

-----------------------------------------------------------------------------
(* Properties *)

\* The types.  What is executed has memory, in the arena for its kind, and no
\* memory was given back that was not handed out before.
TypeOK ==
  /\ net \in Nets
  /\ phase \in {"mark", "place", "run", "idle"}
  /\ pos \in 1 .. NumNodes + 1
  /\ prot \subseteq Bufs
  /\ last \in [Bufs -> 0 .. NumNodes]
  /\ mem \in [Blocks -> Units \cup {NoUnit}]
  /\ phase \in {"run", "idle"} => \A k \in BlocksOf(Bufs) : mem[k] \in Arena(k[1])
  /\ freed \subseteq {k \in Blocks : mem[k] # NoUnit}
  /\ content \in [Units -> (Bufs \X Nat) \cup {<<>>}]
  /\ made \in [Bufs -> Nat]
  /\ runs \in Nat /\ since \in Nat
  /\ upload \subseteq net.cached

\* The input holds what was written for it: in this run, or when the source
\* was last uploaded.
Holds(b) ==
  content[mem[Block(b, runs)]] =
    <<b, IF net.owner[b] \in net.cached THEN made[b] ELSE runs>>

\* The memory that a node reads
Read(n) == {mem[Block(b, runs)] : b \in net.reads[n]}
             \cup {mem[Block(b, runs + 1)] : b \in net.feeds[n]}

\* Whatever memory buffers share, a node finds in its inputs what their owners
\* wrote for it: in this run, in the previous one by feedback (unless that was
\* before the memory was laid out), or at the last upload; and it does not
\* overwrite them itself.  What sinks read is still there after the run, when
\* it is displayed or downloaded.
ReadsHold ==
  /\ phase = "run" /\ pos <= NumNodes =>
       /\ \A b \in net.reads[pos] : Holds(b)
       /\ \A b \in net.feeds[pos] : runs > since =>
            content[mem[Block(b, runs + 1)]] = <<b, runs - 1>>
       /\ \A b \in Writes(pos) : mem[Block(b, runs)] \notin Read(pos)
  /\ phase = "idle" => \A n \in net.sinks : \A b \in net.reads[n] : Holds(b)

\* In graph m an output that must survive is not taken for one that need not.
Protected(m, b) ==
  \E n \in Nodes :
    \/ b \in m.feeds[n]
    \/ n \in m.guards /\ (b \in m.reads[n] \/ m.owner[b] = n)

Recognised(m) ==
  \A b \in Bufs : Protected(m, b) =>
    LookedUp(m, b) = NoBuf \/ Protected(m, LookedUp(m, b))
=============================================================================
