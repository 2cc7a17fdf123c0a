------------------------------- MODULE Cycles -------------------------------
(***************************************************************************)
(* The search of pipe/cycles.h that dt_module_connect makes before it      *)
(* connects: depth first from the reading module, with the new connection  *)
(* tried before the ones of the graph.  The recursion is written out call  *)
(* by call: a module is entered once, so at and from keep the loop         *)
(* variable and the caller of its activation.                              *)
(***************************************************************************)
EXTENDS ModuleGraph

\* Mutant: feedback is followed too
Pulled_Feedback(h, o, i, m, c) ==
  IF c = -1 THEN (IF m = i[1] THEN o[1] ELSE -1)
  ELSE IF IsIn(h, <<m, c>>) THEN h.src[<<m, c>>][1] ELSE -1

\* The module that m reads through its connector c, or -1; the first call
\* looks at the connection to be made (m0_extra) before its connectors.
Pulled(h, o, i, m, c) ==
  IF c = -1 THEN (IF m = i[1] THEN o[1] ELSE -1)
  ELSE IF IsIn(h, <<m, c>>) /\ <<m, c>> \notin h.fb THEN h.src[<<m, c>>][1] ELSE -1

Enter(s, m) ==
  [s EXCEPT !.visited = @ \cup {m}, !.stack = @ \cup {m},
            !.cur = m, !.from = [s.from EXCEPT ![m] = s.cur]]
Advance(s) == [s EXCEPT !.at = [s.at EXCEPT ![s.cur] = @ + 1]]
Return(s)  == [s EXCEPT !.stack = @ \ {s.cur}, !.cur = s.from[s.cur]]

\* dt_connection_is_cyclic_rec, to the next call, return or connector: hit
\* when a module still on the stack is met.
SearchStep(h, o, i, s) ==
  LET r == Pulled(h, o, i, s.cur, s.at[s.cur])
  IN  IF s.hit \/ s.cur = -1 THEN s
      ELSE IF s.at[s.cur] = NumConns THEN Return(s)
      ELSE IF r = -1 THEN Advance(s)
      ELSE IF r \notin s.visited THEN Enter(s, r)
      ELSE IF r \in s.stack THEN [s EXCEPT !.hit = TRUE]
      ELSE Advance(s)

NotBegun == [visited |-> {}, stack |-> {}, hit |-> FALSE, cur |-> -1,
             at |-> [m \in Slots |-> -1], from |-> [m \in Slots |-> -1]]

\* A module is entered and left once and moves past each of its connectors.
SearchLimit == NumSlots * (NumConns + 3)

\* dt_connection_is_cyclic
IsCyclic(h, o, i) ==
  LET search[n \in 0 .. SearchLimit] ==
        IF n = 0 THEN Enter(NotBegun, i[1])
        ELSE CHOOSE t \in {SearchStep(h, o, i, s) : s \in {search[n - 1]}} : TRUE
  IN  search[SearchLimit].hit

\* The search finds a cycle through the new connection exactly when there is
\* one: it stops at modules it has seen, which could hide one, and it looks at
\* the connection that is about to be replaced, which could invent one.
SearchExact ==
  \A i \in Inputs(g), o \in Outputs(g) \cup {Unset} :
    IsCyclic(g, o, i) <=> Cyclic(g, o, i)
=============================================================================
