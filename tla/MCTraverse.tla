----------------------------- MODULE MCTraverse -----------------------------
(* Graphs of four nodes for the traversal. *)
EXTENDS Traverse

\* One node is a sink, which nobody reads, and maybe the one before it is
\* another.  The others may read any of them, itself included, by the previous
\* frame or not, and node 1 node 0 besides: cycles, double connections, nodes
\* that no sink needs.
MCReads(sinks) ==
  LET inner == Nodes \ sinks
      read  == [node : inner, feedback : BOOLEAN]
      one   == {<<>>} \cup {<<r>> : r \in read}
      two   == {a \o b : a \in one, b \in {<<r>> : r \in [node : {0}, feedback : BOOLEAN]}}
      sink  == {<<r>> : r \in [node : inner, feedback : {FALSE}]}
  IN  {[n \in Nodes |-> CASE n = 0 -> r0 [] n = 1 -> r1 [] n = 2 -> r2 [] n = 3 -> r3] :
         r0 \in one, r1 \in one \cup two, r2 \in IF 2 \in sinks THEN sink ELSE one,
         r3 \in sink}

MCNets ==
  UNION {{[sinks |-> s, main |-> m, bvh |-> b, reads |-> f] :
            m \in {{}, {2} \cap s}, b \in {{}, {0}}, f \in MCReads(s)} :
         s \in {{3}, {2, 3}}}
=============================================================================
