---------------------------- MODULE ModuleGraph ----------------------------
(***************************************************************************)
(* The graph of modules of pipe/module.c and pipe/connector.inc: modules   *)
(* live in the slots of an array, an input knows the one output it reads,  *)
(* an output only counts its readers.  Every operation is an operator on   *)
(* the graph, so that the undo history and the configuration files can be  *)
(* modelled as runs of the same operators.                                 *)
(***************************************************************************)
EXTENDS Integers, FiniteSets

CONSTANTS Keys,        \* module:instance names
          NoKey,       \* name 0: an empty slot
          Displays,    \* the keys of display modules
          NumSlots,    \* max_modules - 1, the slots that can be handed out
          NumConns,    \* the most connectors a module has
          Tokens,      \* names of channels and formats
          Class,       \* what the module class says of each connector
          Params,      \* parameter values
          Default      \* the default value

Slots == 0 .. NumSlots - 1
Conns == 0 .. NumConns - 1
Pins  == Slots \X Conns
Unset == <<-1, -1>>

\* The pin is a reading or a writing connector, or the class has no such one.
NoConn == [io |-> "none", chan |-> "", fmt |-> ""]

ASSUME GraphAssumption ==
  /\ NumSlots \in Nat \ {0}
  /\ NumConns \in Nat \ {0}
  /\ NoKey \notin Keys
  /\ Displays \subseteq Keys
  /\ Class \in [Keys -> [Conns -> [io : {"in", "out", "none"},
                                   chan : Tokens, fmt : Tokens]]]
  /\ {"", "*", "&", "rgba", "f16"} \subseteq Tokens
  /\ \A k \in Displays, c \in Conns : Class[k][c].io # "out"
  /\ Default \in Params

VARIABLE g

\* num_modules, the slots, and what dt_connector_t keeps for each pin:
\* connected of an input is src, of an output it is the count ref.
Graph ==
  [num : 0 .. NumSlots, mod : [Slots -> Keys \cup {NoKey}],
   src : [Pins -> Pins \cup {Unset}], ref : [Pins -> Nat],
   fb : SUBSET Pins, chan : [Pins -> Tokens], fmt : [Pins -> Tokens],
   par : [Slots -> Params], oob : BOOLEAN]

Empty ==
  [num |-> 0, mod |-> [s \in Slots |-> NoKey],
   src |-> [p \in Pins |-> Unset], ref |-> [p \in Pins |-> 0],
   fb |-> {}, chan |-> [p \in Pins |-> ""], fmt |-> [p \in Pins |-> ""],
   par |-> [s \in Slots |-> Default], oob |-> FALSE]

-----------------------------------------------------------------------------
Used(h) == {s \in Slots : s < h.num}
Live(h) == {s \in Used(h) : h.mod[s] # NoKey}

PinClass(h, p) ==
  IF h.mod[p[1]] = NoKey THEN NoConn ELSE Class[h.mod[p[1]]][p[2]]
IsIn(h, p)  == PinClass(h, p).io = "in"
IsOut(h, p) == PinClass(h, p).io = "out"
Inputs(h)   == {p \in Pins : p[1] \in Live(h) /\ IsIn(h, p)}
Outputs(h)  == {p \in Pins : p[1] \in Live(h) /\ IsOut(h, p)}
PinsOf(s)   == {s} \X Conns
Readers(h, o) == {p \in Pins : h.src[p] = o}

Least(S) == CHOOSE s \in S : \A t \in S : s <= t

\* dt_module_get: the first module of that name, or -1
Get(h, k) ==
  LET hits == {s \in Used(h) : h.mod[s] = k}
  IN  IF hits = {} THEN -1 ELSE Least(hits)

-----------------------------------------------------------------------------
(* Adding a module *)

\* The search ends at the first slot that holds the key or is empty.
AddSlot(h, k) ==
  LET hits == {s \in Used(h) : h.mod[s] \in {k, NoKey}}
  IN  IF hits = {} THEN h.num ELSE Least(hits)

Unknown(k) == \A c \in Conns : Class[k][c].io = "none"
Exists(h, k) == AddSlot(h, k) < h.num /\ h.mod[AddSlot(h, k)] = k
\* Mutant: no limit
Full_Never(h, k) == FALSE

Full(h, k) == AddSlot(h, k) = NumSlots

\* The module id that dt_module_add returns
AddId(h, k) ==
  IF Exists(h, k) THEN AddSlot(h, k)
  ELSE IF Full(h, k) \/ Unknown(k) THEN -1 ELSE AddSlot(h, k)

\* A fresh module takes all of its connectors from the class.
Fresh(h, s, k) ==
  [h EXCEPT !.num  = IF s = h.num THEN s + 1 ELSE h.num,
            !.mod  = [h.mod EXCEPT ![s] = k],
            !.src  = [p \in Pins |-> IF p[1] = s THEN Unset ELSE h.src[p]],
            !.ref  = [p \in Pins |-> IF p[1] = s THEN 0 ELSE h.ref[p]],
            !.fb   = h.fb \ PinsOf(s),
            !.chan = [p \in Pins |-> IF p[1] = s THEN Class[k][p[2]].chan
                                                 ELSE h.chan[p]],
            !.fmt  = [p \in Pins |-> IF p[1] = s THEN Class[k][p[2]].fmt
                                                 ELSE h.fmt[p]],
            !.par  = [h.par EXCEPT ![s] = Default]]

\* A class that is not installed: the slot keeps the name, and num_modules is
\* taken back whether or not it was counted up before.
Bad(h, s, k) ==
  [h EXCEPT !.mod = [h.mod EXCEPT ![s] = k],
            !.num = IF s = h.num THEN s ELSE h.num - 1]

Added(h, k) ==
  LET s == AddSlot(h, k)
  IN  IF Exists(h, k) \/ Full(h, k) THEN h
      ELSE IF Unknown(k) THEN Bad(h, s, k) ELSE Fresh(h, s, k)

-----------------------------------------------------------------------------
(* Connections *)

\* "sink inconsistent!", errors 4 and 5: nothing is changed
Refused(h, p) ==
  LET o == h.src[p]
  IN  o # Unset /\ (o[1] >= h.num \/ (h.mod[o[1]] # NoKey /\ ~IsOut(h, o)))

\* "sink inconsistent!", error 6: disconnected all the same
Uncounted(h, p) == h.src[p] # Unset /\ h.ref[h.src[p]] = 0

Linked(h, p) == h.src[p] # Unset /\ ~Refused(h, p)

\* Break the connections of the inputs among P: an input goes back to the
\* format of its class, and so does an output that lost its last reader.
Unlink(h, P) ==
  LET gone(p)  == p \in P /\ Linked(h, p)
      lost(o)  == Cardinality({p \in P : Linked(h, p) /\ h.src[p] = o})
      left(o)  == IF lost(o) <= h.ref[o] THEN h.ref[o] - lost(o) ELSE 0
      reset(p) == gone(p) \/ (h.ref[p] > 0 /\ left(p) = 0)
  IN  [h EXCEPT !.src  = [p \in Pins |-> IF gone(p) THEN Unset ELSE h.src[p]],
                !.ref  = [p \in Pins |-> left(p)],
                !.chan = [p \in Pins |-> IF reset(p) THEN PinClass(h, p).chan
                                                     ELSE h.chan[p]],
                !.fmt  = [p \in Pins |-> IF reset(p) THEN PinClass(h, p).fmt
                                                     ELSE h.fmt[p]]]

\* The same for one input
Unlink1(h, i) ==
  LET o == h.src[i]
      last == h.ref[o] = 1
  IN  IF ~Linked(h, i) THEN h
      ELSE [h EXCEPT !.src  = [h.src EXCEPT ![i] = Unset],
                     !.ref  = [h.ref EXCEPT ![o] = IF @ > 0 THEN @ - 1 ELSE 0],
                     !.chan = [h.chan EXCEPT ![i] = PinClass(h, i).chan,
                                             ![o] = IF last THEN PinClass(h, o).chan ELSE @],
                     !.fmt  = [h.fmt EXCEPT ![i] = PinClass(h, i).fmt,
                                            ![o] = IF last THEN PinClass(h, o).fmt ELSE @]]

\* What the format of output and input become: a wildcard takes the other
\* side's, two wildcards take the default.
OutFormat(o, i, d) == IF o # "*" THEN o ELSE IF i # "*" THEN i ELSE d
InFormat(o, i, d)  == IF i # "*" THEN i ELSE IF o = "*" THEN d ELSE o

\* Channels "&" refer to an input of the module, and give nothing to readers.
Given(chan) == IF chan = "&" THEN "*" ELSE chan

\* The channels do not match; an output that refers to an input is exempt.
BadChan(h, o, i) ==
  /\ h.chan[o] # "&"
  /\ OutFormat(h.chan[o], h.chan[i], "rgba") # InFormat(Given(h.chan[o]), h.chan[i], "rgba")

\* Mutant: formats are not compared
BadFmt_Never(h, o, i) == FALSE

BadFmt(h, o, i) ==
  OutFormat(h.fmt[o], h.fmt[i], "f16") # InFormat(h.fmt[o], h.fmt[i], "f16")

\* The formats are assigned before they are compared.
AgreeChan(h, o, i) ==
  [h EXCEPT !.chan = [h.chan EXCEPT ![o] = OutFormat(h.chan[o], h.chan[i], "rgba"),
                                    ![i] = InFormat(Given(h.chan[o]), h.chan[i], "rgba")]]
AgreeFmt(h, o, i) ==
  [h EXCEPT !.fmt = [h.fmt EXCEPT ![o] = OutFormat(h.fmt[o], h.fmt[i], "f16"),
                                  ![i] = InFormat(h.fmt[o], h.fmt[i], "f16")]]

Join(h, o, i) ==
  LET a == AgreeChan(h, o, i)
      b == AgreeFmt(a, o, i)
  IN  IF BadChan(h, o, i) THEN a
      ELSE IF BadFmt(h, o, i) THEN b
      ELSE [b EXCEPT !.src = [h.src EXCEPT ![i] = o],
                     !.ref = [h.ref EXCEPT ![o] = @ + 1],
                     !.fb  = h.fb \ {i}]

\* Mutant: the previous connection is not taken back first
ConnectInternal_Over(h, o, i) ==
  IF h.src[i] = o \/ Refused(h, i) THEN h ELSE IF o = Unset THEN Unlink1(h, i) ELSE Join(h, o, i)

\* connector.inc: connect the output o, or nothing, to the input i.
ConnectInternal(h, o, i) ==
  IF h.src[i] = o \/ Refused(h, i) THEN h
  ELSE IF Uncounted(h, i) \/ o = Unset THEN Unlink1(h, i)
  ELSE Join(Unlink1(h, i), o, i)

\* The connection is refused or left open.
InternalFails(h, o, i) ==
  /\ h.src[i] # o
  /\ \/ Refused(h, i) \/ Uncounted(h, i)
     \/ o # Unset /\ LET u == Unlink1(h, i) IN BadChan(u, o, i) \/ BadFmt(u, o, i)

\* The modules a module reads, without feedback
Reads(h, s) ==
  {h.src[p][1] : p \in {q \in PinsOf(s) : IsIn(h, q) /\ q \notin h.fb /\ h.src[q] # Unset}}

\* Mutant: only the module itself is looked at
Cyclic_Self(h, o, i) == o # Unset /\ o[1] = i[1]

\* dt_connection_is_cyclic: is i's module among those o's module is computed
\* from?  (Cycles.tla has the search.)
Cyclic(h, o, i) ==
  /\ o # Unset
  /\ \A S \in SUBSET Slots :
       o[1] \in S /\ (\A s \in S : Reads(h, s) \subseteq S) => i[1] \in S

Connect(h, o, i) == IF Cyclic(h, o, i) THEN h ELSE ConnectInternal(h, o, i)
ConnectFails(h, o, i) == Cyclic(h, o, i) \/ InternalFails(h, o, i)

\* dt_module_feedback marks the input whatever came of it, and the number of
\* frames is written through o even if that is no pin.
Feedback(h, o, i) ==
  LET c == ConnectInternal(h, o, i)
  IN  [c EXCEPT !.fb = c.fb \cup {i}, !.oob = c.oob \/ o = Unset]

\* What is left of the modules D in their slots: nothing that is ever read,
\* but for the counts of readers.
Cleared(h, D) ==
  LET blank(f, x) == [p \in Pins |-> IF p[1] \in D THEN x ELSE f[p]]
  IN  [h EXCEPT !.mod  = [s \in Slots |-> IF s \in D THEN NoKey ELSE h.mod[s]],
                !.fb   = {p \in h.fb : p[1] \notin D},
                !.chan = blank(h.chan, ""), !.fmt = blank(h.fmt, ""),
                !.par  = [s \in Slots |-> IF s \in D THEN Default ELSE h.par[s]]]

\* dt_module_remove: its attempt to disconnect the outputs is refused.
Removed(h, D) == Cleared(Unlink(h, D \X Conns), D)

\* Mutant: the readers of a module stay connected
ReadersOf_None(h, s) == {}

\* All readers of a module
ReadersOf(h, s) == {p \in Pins : h.src[p][1] = s}

-----------------------------------------------------------------------------
(* The calls on a graph without history *)

Init == g = Empty

AddModule(k) == g' = Added(g, k)

ConnectPins(o, i) ==
  /\ o \in Outputs(g) /\ i \in Inputs(g)
  /\ g' = Connect(g, o, i)

FeedbackPins(o, i) ==
  /\ o \in Outputs(g) /\ i \in Inputs(g)
  /\ g' = Feedback(g, o, i)

DisconnectPin(i) ==
  /\ i \in Inputs(g)
  /\ g' = Connect(g, Unset, i)

\* The readers are disconnected before the module goes.
RemoveModule(s) ==
  /\ s \in Live(g)
  /\ g' = Removed(Unlink(g, ReadersOf(g, s)), {s})

\* dt_graph_disconnect_display_modules: all displays, without such care
RemoveDisplays ==
  g' = Removed(g, {s \in Live(g) : g.mod[s] \in Displays})

\* dt_graph_repurpose
Repurpose == g' = Empty

Next ==
  \/ \E k \in Keys : AddModule(k)
  \/ \E o, i \in Pins : ConnectPins(o, i) \/ FeedbackPins(o, i)
  \/ \E i \in Pins : DisconnectPin(i)
  \/ \E s \in Slots : RemoveModule(s)
  \/ RemoveDisplays
  \/ Repurpose

Spec == Init /\ [][Next]_g

-----------------------------------------------------------------------------
TypeOK == g \in Graph

\* An input that is connected reads an output of a module that is on the
\* graph: a slot is never given to another module while something still reads
\* it (dt_module_remove leaves its readers to the callers).
NoDangling(h) ==
  LET in  == Inputs(h)
      out == Outputs(h)
  IN  \A p \in Pins : h.src[p] # Unset => p \in in /\ h.src[p] \in out

\* The count at an output is the number of its readers, so that the asserts
\* "sink inconsistent!" of connector.inc cannot fail and the format of an
\* output is reset with its last reader, not before.
RefExact(h) == \A o \in Outputs(h) : h.ref[o] = Cardinality(Readers(h, o))

Edges(h) ==
  {<<h.src[p][1], p[1]>> : p \in {q \in Inputs(h) \ h.fb : h.src[q] # Unset}}

\* Apart from feedback, which is read one frame late, the modules can be
\* ordered for a run: every set of modules has one that reads no other in it.
Acyclic(h) ==
  LET edges == Edges(h)
  IN  \A S \in SUBSET Slots :
        S # {} => \E s \in S : \A r \in S : <<r, s>> \notin edges

\* Both ends of a connection carry the same format, and no wildcard is left.
FormatsAgree(h) ==
  \A p \in Pins : h.src[p] # Unset =>
    /\ h.chan[h.src[p]] \in {h.chan[p], "&"}
    /\ h.fmt[h.src[p]] = h.fmt[p]
    /\ "*" \notin {h.chan[p], h.fmt[p]}

\* A module is added once, dt_module_add finds it the next time.
Unique(h) == \A s, t \in Live(h) : h.mod[s] = h.mod[t] => s = t

Dangling     == NoDangling(g)
References   == RefExact(g)
Order        == Acyclic(g)
Formats      == FormatsAgree(g)
Deduplicated == Unique(g)
=============================================================================
