---------------------------- MODULE MCNodeMemory ----------------------------
(* Graphs of five nodes for the memory of nodes. *)
EXTENDS NodeMemory, TLC

CONSTANTS a, b, c, d, s1, s2, s3, k1, k2, k3, k4

MCBufs == {a, b, c, d}
MCShared == {s1, s2, s3}
MCKept == {k1, k2, k3, k4}
Symmetric == Permutations(MCShared) \cup Permutations(MCKept)

\* Nodes 1 to 4 write one buffer each, node 5 is the sink.  The first node is
\* a source that is uploaded or, if still is FALSE, a generator; the others read
\* from those before them.  back is a feedback connection: what its node reads.
Graph(still, r3, r4, shown, back, exported) ==
  [owner    |-> a :> 1 @@ b :> 2 @@ c :> 3 @@ d :> 4,
   reads    |-> <<{}, {a}, r3, r4, {shown}>>,
   feeds    |-> [n \in 1 .. 5 |-> {x \in MCBufs : <<n, x>> = back}],
   guards   |-> {5} \cup (IF still THEN {1} ELSE {}),
   sinks    |-> {5},
   cached   |-> IF still THEN {1} ELSE {},
   exported |-> exported,
   first    |-> 0 :> a @@ 1 :> a @@ 2 :> c @@ 3 :> d @@ 4 :> shown]

Some == {Graph(still, r3, r4, shown, back, e) :
           still \in BOOLEAN, r3 \in {{b}, {a, b}}, r4 \in {{b}, {c}, {a, c}},
           shown \in {c, d}, back \in {<<0, a>>, <<2, b>>, <<1, d>>},
           e \in {MCBufs, {a, b, d}}}

\* The graphs that come out right, and one that does not: the sink of a module
\* shows c, which only it reads, so that c is taken for what node 1 reads.
MCNets == {m \in Some : Recognised(m)}
MCMisled == {Graph(FALSE, {b}, {b}, c, <<1, d>>, {a, b, d})}
=============================================================================
