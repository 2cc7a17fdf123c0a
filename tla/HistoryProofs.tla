--------------------------- MODULE HistoryProofs ---------------------------
(***************************************************************************)
(* The undo history, for any set of modules, classes and slots.  First,    *)
(* what the operations on the graph keep of the classes.  Then, lines that *)
(* are read on whatever modules there are keep the invariants of the graph,*)
(* and a graph that is written and read back is the same: line by line,    *)
(* the copy gets what the graph has.                                       *)
(*                                                                         *)
(* And going back or forth brings back what the user saw (the second half, *)
(* from "What the lines of a history bring back").  The argument: leave    *)
(* out the slots and the preview, and a graph is a net of connections      *)
(* between names, and a value per name.  Every line is an operation on the *)
(* net (NetRead) and on each value (ValStep), so what a history brings     *)
(* back is computed from its lines alone, whatever modules are there       *)
(* (Replay).  The inductive invariant (Apt) is that the net and the values *)
(* of the graph are the ones the lines up to `cur` compute (Tracked), and  *)
(* that what an item claims is what the lines up to it compute (Items).    *)
(***************************************************************************)
EXTENDS History, ModuleGraphProofs

-----------------------------------------------------------------------------
(* What the graph keeps of the classes *)

\* What a class says is kept, and a wildcard never becomes a reference.
Formed(chan, fmt, c) ==
  /\ c.chan # "*" => chan = c.chan
  /\ c.fmt # "*" => fmt = c.fmt
  /\ c.chan = "*" => chan # "&"

\* The formats that a class fixes are the ones of the graph, and so is the
\* value of a module without parameters.
Kept(h) ==
  /\ \A s \in Live(h) : h.mod[s] \notin WithParam => h.par[s] = Default
  /\ \A p \in Pins : p[1] \in Live(h) => Formed(h.chan[p], h.fmt[p], PinClass(h, p))

LEMMA FormedClass ==
  ASSUME NEW h, NEW p
  PROVE  Formed(PinClass(h, p).chan, PinClass(h, p).fmt, PinClass(h, p))
  BY DEF Formed

LEMMA UnlinkKept ==
  ASSUME NEW h, Sound(h), Kept(h), NEW P \in SUBSET Pins
  PROVE  Kept(Unlink(h, P))
  <1> DEFINE u == Unlink(h, P)
  <1>1. h \in Graph
    BY DEF Sound, Linking
  <1>2. /\ u.num = h.num /\ u.mod = h.mod /\ u.par = h.par
        /\ \A p \in Pins :
             \/ u.chan[p] = PinClass(h, p).chan /\ u.fmt[p] = PinClass(h, p).fmt
             \/ u.chan[p] = h.chan[p] /\ u.fmt[p] = h.fmt[p]
    BY <1>1, UnlinkFields
  <1> HIDE DEF u
  <1>3. Live(u) = Live(h) /\ \A p \in Pins : PinClass(u, p) = PinClass(h, p)
    BY <1>2, SameModules
  <1>4. ASSUME NEW p \in Pins, p[1] \in Live(u)
        PROVE  Formed(u.chan[p], u.fmt[p], PinClass(u, p))
    <2>1. Formed(h.chan[p], h.fmt[p], PinClass(h, p))
      BY <1>3, <1>4 DEF Kept
    <2> QED
      BY <1>2, <1>3, <2>1, FormedClass
  <1>5. Kept(u)
    BY <1>2, <1>3, <1>4 DEF Kept
  <1> QED
    BY <1>5 DEF u

\* What the two ends become when they are joined
JoinExact(h, o, i, k) ==
  /\ k.num = h.num /\ k.mod = h.mod /\ k.par = h.par
  /\ \A p \in Pins \ {o, i} : k.chan[p] = h.chan[p] /\ k.fmt[p] = h.fmt[p]
  /\ k.chan[o] = OutFormat(h.chan[o], h.chan[i], "rgba")
  /\ k.chan[i] = InFormat(Given(h.chan[o]), h.chan[i], "rgba")
  /\ \/ k.fmt[o] = h.fmt[o] /\ k.fmt[i] = h.fmt[i]
     \/ /\ k.fmt[o] = OutFormat(h.fmt[o], h.fmt[i], "f16")
        /\ k.fmt[i] = InFormat(h.fmt[o], h.fmt[i], "f16")
  /\ ~BadChan(h, o, i) /\ ~BadFmt(h, o, i) =>
       /\ k.src = [h.src EXCEPT ![i] = o] /\ k.fb = h.fb \ {i}
       /\ k.fmt[o] = OutFormat(h.fmt[o], h.fmt[i], "f16")

LEMMA JoinIs ==
  ASSUME NEW h \in Graph, NEW o \in Pins, NEW i \in Pins, o # i
  PROVE  JoinExact(h, o, i, Join(h, o, i))
  <1> DEFINE oc == OutFormat(h.chan[o], h.chan[i], "rgba")
             ic == InFormat(Given(h.chan[o]), h.chan[i], "rgba")
             of == OutFormat(h.fmt[o], h.fmt[i], "f16")
             if == InFormat(h.fmt[o], h.fmt[i], "f16")
             a == AgreeChan(h, o, i)
             b == AgreeFmt(a, o, i)
             d == [b EXCEPT !.src = [h.src EXCEPT ![i] = o],
                            !.ref = [h.ref EXCEPT ![o] = @ + 1],
                            !.fb  = h.fb \ {i}]
  <1>1. h.chan \in [Pins -> Tokens] /\ h.fmt \in [Pins -> Tokens]
    BY DEF Graph
  <1>2. /\ a.num = h.num /\ a.mod = h.mod /\ a.par = h.par /\ a.fmt = h.fmt
        /\ a.chan = [h.chan EXCEPT ![o] = oc, ![i] = ic]
    BY DEF AgreeChan, Graph
  <1>3. /\ b.num = h.num /\ b.mod = h.mod /\ b.par = h.par /\ b.chan = a.chan
        /\ b.fmt = [h.fmt EXCEPT ![o] = of, ![i] = if]
    BY DEF AgreeChan, AgreeFmt, Graph
  <1>4. /\ d.num = h.num /\ d.mod = h.mod /\ d.par = h.par /\ d.chan = a.chan /\ d.fmt = b.fmt
        /\ d.src = [h.src EXCEPT ![i] = o] /\ d.fb = h.fb \ {i}
    BY <1>3 DEF AgreeChan, AgreeFmt, Graph
  <1>5. Join(h, o, i) = IF BadChan(h, o, i) THEN a ELSE IF BadFmt(h, o, i) THEN b ELSE d
    BY DEF Join
  <1> HIDE DEF a, b, d, oc, ic, of, if
  <1>6. /\ \A p \in Pins \ {o, i} : a.chan[p] = h.chan[p] /\ b.fmt[p] = h.fmt[p]
        /\ a.chan[o] = oc /\ a.chan[i] = ic /\ b.fmt[o] = of /\ b.fmt[i] = if
    BY <1>1, <1>2, <1>3
  <1> DEFINE k == Join(h, o, i)
  <1>7. CASE BadChan(h, o, i)
    <2>1. k = a
      BY <1>5, <1>7
    <2> HIDE DEF k
    <2>2. JoinExact(h, o, i, k)
      BY <1>2, <1>6, <1>7, <2>1 DEF JoinExact, oc, ic
    <2> QED
      BY <2>2 DEF k
  <1>8. CASE ~BadChan(h, o, i) /\ BadFmt(h, o, i)
    <2>1. k = b
      BY <1>5, <1>8
    <2> HIDE DEF k
    <2>2. JoinExact(h, o, i, k)
      BY <1>3, <1>6, <1>8, <2>1 DEF JoinExact, oc, ic, of, if
    <2> QED
      BY <2>2 DEF k
  <1>9. CASE ~BadChan(h, o, i) /\ ~BadFmt(h, o, i)
    <2>1. k = d
      BY <1>5, <1>9
    <2> HIDE DEF k
    <2>2. JoinExact(h, o, i, k)
      BY <1>3, <1>4, <1>6, <1>9, <2>1 DEF JoinExact, oc, ic, of, if
    <2> QED
      BY <2>2 DEF k
  <1> QED
    BY <1>7, <1>8, <1>9

\* Joining an output to an input: neither class is lost.
LEMMA JoinKept ==
  ASSUME NEW h, Linking(h), Kept(h), NEW o \in Outputs(h), NEW i \in Inputs(h)
  PROVE  Kept(Join(h, o, i))
  <1> DEFINE k == Join(h, o, i)
  <1>1. /\ h \in Graph /\ o \in Pins /\ i \in Pins /\ o # i
        /\ o[1] \in Live(h) /\ i[1] \in Live(h) /\ IsIn(h, i)
    BY InNotOut DEF Linking, Inputs, Outputs
  <1>2. JoinExact(h, o, i, k)
    BY <1>1, JoinIs
  <1> HIDE DEF k
  <1>3. Live(k) = Live(h) /\ \A p \in Pins : PinClass(k, p) = PinClass(h, p)
    BY <1>2, SameModules DEF JoinExact
  <1> DEFINE co == PinClass(h, o)
             ci == PinClass(h, i)
  <1>4. Formed(h.chan[o], h.fmt[o], co) /\ Formed(h.chan[i], h.fmt[i], ci)
    BY <1>1 DEF Kept
  <1>5. ci.chan # "&"
    <2>1. i[1] \in Slots /\ i[2] \in Conns /\ h.mod[i[1]] # NoKey /\ h.mod[i[1]] \in Keys
      BY <1>1 DEF Pins, Live, Graph
    <2> QED
      BY <1>1, <2>1, HistoryAssumption DEF PinClass, IsIn
  <1> HIDE DEF co, ci
  <1>6. h.chan[i] # "&"
    BY <1>4, <1>5 DEF Formed
  <1>7. Formed(k.chan[o], k.fmt[o], co)
    BY <1>2, <1>4, <1>6 DEF JoinExact, Formed, OutFormat
  <1>8. Formed(k.chan[i], k.fmt[i], ci)
    <2>1. InFormat(Given(h.chan[o]), h.chan[i], "rgba") # "&"
      BY <1>6 DEF InFormat, Given
    <2> QED
      BY <1>2, <1>4, <2>1 DEF JoinExact, Formed, InFormat
  <1>9. ASSUME NEW p \in Pins, p[1] \in Live(h)
        PROVE  Formed(k.chan[p], k.fmt[p], PinClass(h, p))
    <2>1. CASE p = o
      BY <1>7, <2>1 DEF co
    <2>2. CASE p = i
      BY <1>8, <2>2 DEF ci
    <2>3. CASE p \notin {o, i}
      <3>1. k.chan[p] = h.chan[p] /\ k.fmt[p] = h.fmt[p]
        BY <1>2, <2>3 DEF JoinExact
      <3> QED
        BY <1>9, <3>1 DEF Kept
    <2> QED
      BY <2>1, <2>2, <2>3
  <1>10. Kept(k)
    BY <1>2, <1>3, <1>9 DEF Kept, JoinExact
  <1> QED
    BY <1>10 DEF k

LEMMA ConnectInternalKept ==
  ASSUME NEW h, Sound(h), Kept(h), NEW o \in Outputs(h) \cup {Unset}, NEW i \in Inputs(h)
  PROVE  Kept(ConnectInternal(h, o, i)) /\ ConnectInternal(h, o, i).par = h.par
  <1> DEFINE u == Unlink(h, {i})
  <1>1. h \in Graph /\ i \in Pins
    BY DEF Sound, Linking, Inputs
  <1>2. Unlink1(h, i) = u
    BY <1>1, UnlinkOne
  <1>3. u.num = h.num /\ u.mod = h.mod /\ u.par = h.par /\ u \in Graph
    BY <1>1, UnlinkFields
  <1>4. Linking(u) /\ Kept(u)
    BY <1>1, UnlinkLinking, UnlinkKept DEF Sound
  <1>5. Inputs(u) = Inputs(h) /\ Outputs(u) = Outputs(h)
    BY <1>3, SameModules
  <1> HIDE DEF u
  <1>6. ASSUME o # Unset PROVE Kept(Join(u, o, i)) /\ Join(u, o, i).par = h.par
    <2>1. o \in Outputs(u) /\ i \in Inputs(u) /\ o \in Pins /\ o # i
      BY <1>5, <1>6, InNotOut DEF Outputs
    <2> DEFINE k == Join(u, o, i)
    <2>2. k.par = u.par
      <3>1. JoinExact(u, o, i, k)
        BY <2>1, <1>1, <1>3, JoinIs
      <3> HIDE DEF k
      <3> QED
        BY <3>1 DEF JoinExact
    <2> QED
      BY <1>3, <1>4, <2>1, <2>2, JoinKept
  <1> QED
    BY <1>2, <1>3, <1>4, <1>6 DEF ConnectInternal

LEMMA ConnectKept ==
  ASSUME NEW h, Sound(h), Kept(h), NEW o \in Outputs(h) \cup {Unset}, NEW i \in Inputs(h)
  PROVE  Kept(Connect(h, o, i)) /\ Connect(h, o, i).par = h.par
  BY ConnectInternalKept DEF Connect

LEMMA FeedbackKept ==
  ASSUME NEW h, Sound(h), Kept(h), NEW o \in Outputs(h) \cup {Unset}, NEW i \in Inputs(h)
  PROVE  Kept(Feedback(h, o, i)) /\ Feedback(h, o, i).par = h.par
  <1> DEFINE c == ConnectInternal(h, o, i)
             k == Feedback(h, o, i)
  <1>1. Kept(c) /\ c.par = h.par
    BY ConnectInternalKept
  <1>2. c \in Graph
    BY ConnectInternalLinking DEF Rewired, Linking, Sound
  <1>3. /\ k.num = c.num /\ k.mod = c.mod /\ k.par = c.par /\ k.chan = c.chan /\ k.fmt = c.fmt
    BY <1>2 DEF Feedback, Graph
  <1> HIDE DEF c, k
  <1>4. Live(k) = Live(c) /\ \A p \in Pins : PinClass(k, p) = PinClass(c, p)
    BY <1>3, SameModules
  <1>5. Kept(k)
    BY <1>1, <1>3, <1>4 DEF Kept
  <1> QED
    BY <1>1, <1>3, <1>5 DEF k

LEMMA EmptyKept == Kept(Empty)
  BY DEF Kept, Empty, Live, Used, Slots

LEMMA FreshKept ==
  ASSUME NEW h, Sound(h), Kept(h), NEW s \in Slots, NEW m \in Keys,
         s = h.num \/ (s \in Used(h) /\ h.mod[s] = NoKey)
  PROVE  Kept(Fresh(h, s, m))
  <1> DEFINE k == Fresh(h, s, m)
  <1>1. h \in Graph /\ h.num \in Nat
    BY SizeType DEF Sound, Linking, Graph
  <1>2. /\ k.num = IF s = h.num THEN s + 1 ELSE h.num
        /\ k.mod = [h.mod EXCEPT ![s] = m]
        /\ k.par = [h.par EXCEPT ![s] = Default]
        /\ k.chan = [p \in Pins |-> IF p[1] = s THEN Class[m][p[2]].chan ELSE h.chan[p]]
        /\ k.fmt = [p \in Pins |-> IF p[1] = s THEN Class[m][p[2]].fmt ELSE h.fmt[p]]
    BY <1>1 DEF Fresh, Graph
  <1> HIDE DEF k
  <1>3. /\ k.mod[s] = m /\ k.par[s] = Default /\ m # NoKey
        /\ \A t \in Slots \ {s} : k.mod[t] = h.mod[t] /\ k.par[t] = h.par[t]
    BY <1>1, <1>2, GraphAssumption DEF Graph
  <1>4. ASSUME NEW t \in Live(k), t # s PROVE t \in Live(h) /\ t \in Slots
    <2>1. t \in Slots /\ t \in Nat /\ t < k.num /\ k.mod[t] # NoKey
      BY SlotsType DEF Live, Used
    <2>2. s \in Nat /\ (s = h.num => k.num = s + 1) /\ (s # h.num => k.num = h.num)
      BY <1>1, <1>2, SlotsType
    <2>3. t < h.num
      BY <1>1, <1>4, <2>1, <2>2
    <2> QED
      BY <1>3, <1>4, <2>1, <2>3 DEF Live, Used
  <1>5. ASSUME NEW p \in Pins, p[1] \in Live(k)
        PROVE  Formed(k.chan[p], k.fmt[p], PinClass(k, p))
    <2>1. p[1] \in Slots
      BY DEF Pins
    <2>2. CASE p[1] = s
      <3>1. PinClass(k, p) = Class[m][p[2]] /\ k.chan[p] = Class[m][p[2]].chan
            /\ k.fmt[p] = Class[m][p[2]].fmt
        BY <1>2, <1>3, <2>2 DEF PinClass
      <3> QED
        BY <3>1 DEF Formed
    <2>3. CASE p[1] # s
      <3>1. p[1] \in Live(h) /\ PinClass(k, p) = PinClass(h, p)
        BY <1>3, <1>4, <1>5, <2>1, <2>3 DEF PinClass
      <3>2. k.chan[p] = h.chan[p] /\ k.fmt[p] = h.fmt[p]
        BY <1>2, <2>3
      <3> QED
        BY <3>1, <3>2 DEF Kept
    <2> QED
      BY <2>2, <2>3
  <1>6. ASSUME NEW t \in Live(k), k.mod[t] \notin WithParam PROVE k.par[t] = Default
    <2>1. CASE t = s
      BY <1>3, <2>1
    <2>2. CASE t # s
      BY <1>3, <1>4, <1>6, <2>2 DEF Kept
    <2> QED
      BY <2>1, <2>2
  <1>7. Kept(k)
    BY <1>5, <1>6 DEF Kept
  <1> QED
    BY <1>7 DEF k

\* The slot that a new module gets
LEMMA AddSlotIs ==
  ASSUME NEW h, Sound(h), NEW m
  PROVE  AddSlot(h, m) = h.num \/ (AddSlot(h, m) \in Used(h) /\ h.mod[AddSlot(h, m)] \in {m, NoKey})
  <1> DEFINE s == AddSlot(h, m)
             hits == {x \in Used(h) : h.mod[x] \in {m, NoKey}}
  <1>1. CASE hits = {}
    BY <1>1 DEF AddSlot
  <1>2. CASE hits # {}
    <2>1. hits \in SUBSET Slots /\ s = Least(hits)
      BY <1>2 DEF AddSlot, Used
    <2>2. PICK n \in hits : \A t \in hits : n <= t
      BY <1>2, <2>1, LeastOf
    <2>3. Least(hits) \in hits
      BY <2>2 DEF Least
    <2> QED
      BY <2>1, <2>3
  <1> QED
    BY <1>1, <1>2

LEMMA AddedIs ==
  ASSUME KnownClasses, NEW h, Sound(h), NEW m \in Keys, ~Exists(h, m), ~Full(h, m)
  PROVE  LET s == AddSlot(h, m)
         IN  /\ Added(h, m) = Fresh(h, s, m) /\ s \in Slots
             /\ s = h.num \/ (s \in Used(h) /\ h.mod[s] = NoKey)
  <1> DEFINE s == AddSlot(h, m)
  <1>1. ~Unknown(m) /\ h.num \in 0 .. NumSlots
    BY DEF KnownClasses, Sound, Linking, Graph
  <1>2. Added(h, m) = Fresh(h, s, m)
    BY <1>1 DEF Added
  <1>3. s = h.num \/ (s \in Used(h) /\ h.mod[s] \in {m, NoKey})
    BY AddSlotIs
  <1>4. s = h.num => s \in Slots
    BY <1>1, SizeType DEF Full, Slots
  <1>5. s \in Used(h) => s \in Slots /\ s < h.num
    BY DEF Used
  <1> QED
    BY <1>2, <1>3, <1>4, <1>5 DEF Exists

LEMMA AddedKept ==
  ASSUME KnownClasses, NEW h, Sound(h), Kept(h), NEW m \in Keys
  PROVE  Kept(Added(h, m))
  <1>1. CASE Exists(h, m) \/ Full(h, m)
    BY <1>1 DEF Added
  <1>2. CASE ~Exists(h, m) /\ ~Full(h, m)
    BY <1>2, AddedIs, FreshKept
  <1> QED
    BY <1>1, <1>2

LEMMA RemovedKept ==
  ASSUME NEW h, Sound(h), Kept(h), NEW D \in SUBSET Slots
  PROVE  Kept(Removed(h, D))
  <1> DEFINE u == Unlink(h, D \X Conns)
             k == Cleared(u, D)
  <1>1. D \X Conns \in SUBSET Pins /\ h \in Graph
    BY DEF Pins, Sound, Linking
  <1>2. Kept(u) /\ u \in Graph
    BY <1>1, UnlinkKept, UnlinkFields
  <1> HIDE DEF u
  <1>3. /\ k.num = u.num
        /\ k.mod = [s \in Slots |-> IF s \in D THEN NoKey ELSE u.mod[s]]
        /\ k.par = [s \in Slots |-> IF s \in D THEN Default ELSE u.par[s]]
        /\ k.chan = [p \in Pins |-> IF p[1] \in D THEN "" ELSE u.chan[p]]
        /\ k.fmt = [p \in Pins |-> IF p[1] \in D THEN "" ELSE u.fmt[p]]
    BY <1>2 DEF Cleared, Graph
  <1> HIDE DEF k
  <1>4. ASSUME NEW t \in Live(k)
        PROVE  t \in Slots \ D /\ t \in Live(u) /\ k.mod[t] = u.mod[t] /\ k.par[t] = u.par[t]
    BY <1>3 DEF Live, Used
  <1>5. ASSUME NEW p \in Pins, p[1] \in Live(k)
        PROVE  Formed(k.chan[p], k.fmt[p], PinClass(k, p))
    <2>1. p[1] \in Live(u) /\ PinClass(k, p) = PinClass(u, p) /\ p[1] \notin D
      BY <1>4, <1>5 DEF PinClass
    <2>2. k.chan[p] = u.chan[p] /\ k.fmt[p] = u.fmt[p]
      BY <1>3, <2>1
    <2> QED
      BY <1>2, <2>1, <2>2 DEF Kept
  <1>6. Kept(k)
    BY <1>2, <1>4, <1>5 DEF Kept
  <1> QED
    BY <1>6 DEF Removed, k, u

\* The graph of an edit
Good(h) == Sound(h) /\ Kept(h)

LEMMA AddedGood ==
  ASSUME KnownClasses, NEW h, Good(h), NEW m \in Keys
  PROVE  Good(Added(h, m))
  BY AddedSound, AddedKept DEF Good

LEMMA ConnectGood ==
  ASSUME NEW h, Good(h), NEW o \in Outputs(h) \cup {Unset}, NEW i \in Inputs(h)
  PROVE  Good(Connect(h, o, i))
  BY ConnectSound, ConnectKept DEF Good

LEMMA FeedbackGood ==
  ASSUME NEW h, Good(h), NEW o \in Outputs(h) \cup {Unset}, NEW i \in Inputs(h)
  PROVE  Good(Feedback(h, o, i))
  BY FeedbackSound, FeedbackKept DEF Good

LEMMA UnlinkGood ==
  ASSUME NEW h, Good(h), NEW P \in SUBSET Pins
  PROVE  Good(Unlink(h, P))
  BY UnlinkSound, UnlinkKept DEF Good

LEMMA RemovedGood ==
  ASSUME NEW h, Good(h), NEW D \in SUBSET Slots,
         \A p \in Pins : h.src[p] # Unset => h.src[p][1] \notin D
  PROVE  Good(Removed(h, D))
  BY RemovedSound, RemovedKept DEF Good

LEMMA EmptyGood == Good(Empty)
  BY EmptySound, EmptyKept DEF Good
-----------------------------------------------------------------------------
(* Reading and writing lines *)

\* n steps from x in D, the k-th of them F[k]
Steps(D, n) == [1 .. n -> [D -> D]]
Stepped(e, D, x, n, F) ==
  /\ e \in [0 .. n -> D]
  /\ \A k \in 0 .. n : e[k] = IF k = 0 THEN x ELSE F[k][e[k - 1]]

LEMMA StepsExist ==
  ASSUME NEW D, NEW x \in D, NEW n \in Nat, NEW F \in Steps(D, n)
  PROVE  \E e : Stepped(e, D, x, n, F)
  <1> USE DEF Steps
  <1> DEFINE Run(e, m) == \A k \in 0 .. m : e[k] = IF k = 0 THEN x ELSE F[k][e[k - 1]]
             T == {m \in Nat : m <= n => \E e \in [0 .. m -> D] : Run(e, m)}
  <1>1. 0 \in T
    <2> DEFINE e == [k \in 0 .. 0 |-> x]
    <2>1. e \in [0 .. 0 -> D] /\ Run(e, 0)
      OBVIOUS
    <2> HIDE DEF e
    <2> QED
      BY <2>1
  <1>2. ASSUME NEW m \in Nat, m \in T PROVE m + 1 \in T
    <2> SUFFICES ASSUME m + 1 <= n PROVE \E e \in [0 .. m + 1 -> D] : Run(e, m + 1)
      OBVIOUS
    <2>1. PICK e \in [0 .. m -> D] : Run(e, m)
      BY <1>2
    <2> DEFINE f == [k \in 0 .. m + 1 |-> IF k <= m THEN e[k] ELSE F[m + 1][e[m]]]
    <2>2. F[m + 1] \in [D -> D] /\ e[m] \in D
      OBVIOUS
    <2>3. f \in [0 .. m + 1 -> D]
      BY <2>2
    <2>4. ASSUME NEW k \in 0 .. m + 1 PROVE f[k] = IF k = 0 THEN x ELSE F[k][f[k - 1]]
      <3>1. k # 0 => f[k - 1] = e[k - 1]
        OBVIOUS
      <3>2. CASE k <= m
        BY <2>1, <3>1, <3>2
      <3>3. CASE k = m + 1
        BY <3>1, <3>3
      <3> QED
        BY <3>2, <3>3
    <2> HIDE DEF f
    <2> QED
      BY <2>3, <2>4
  <1>3. n \in T
    <2> HIDE DEF T
    <2> QED
      BY <1>1, <1>2, NatInd
  <1> QED
    BY <1>3 DEF Stepped

LEMMA StepsStay ==
  ASSUME NEW D, NEW x \in D, NEW n \in Nat, NEW w, w[0] = x,
         \A k \in 1 .. n : w[k - 1] \in D => w[k] \in D
  PROVE  \A k \in 0 .. n : w[k] \in D
  <1> DEFINE T == {m \in Nat : m <= n => w[m] \in D}
  <1>1. 0 \in T
    OBVIOUS
  <1>2. ASSUME NEW m \in Nat, m \in T PROVE m + 1 \in T
    <2> SUFFICES ASSUME m + 1 <= n PROVE w[m + 1] \in D
      OBVIOUS
    <2>1. m + 1 \in 1 .. n /\ w[(m + 1) - 1] \in D
      BY <1>2
    <2> QED
      BY <2>1
  <1> HIDE DEF T
  <1>3. Nat \subseteq T
    BY <1>1, <1>2, NatInd
  <1> QED
    BY <1>3 DEF T

\* Elements are picked one by one.
Picking(s, S, f) ==
  [n \in 0 .. Len(s) |->
     IF n = 0 THEN <<>>
     ELSE CHOOSE y \in {IF s[n] \in S THEN Append(q, s[n]) ELSE q : q \in {f[n - 1]}} : TRUE]
PickRun(s, S) == CHOOSE f : f = Picking(s, S, f)

LEMMA PickedUnfold ==
  ASSUME NEW s, NEW S
  PROVE  Picked(s, S) = PickRun(s, S)[Len(s)]
  BY DEF Picked, PickRun, Picking, Through, Once

LEMMA PickRuns ==
  ASSUME NEW A, NEW s \in Seq(A), NEW S
  PROVE  LET w == PickRun(s, S)
         IN  /\ w[0] = <<>>
             /\ \A n \in 1 .. Len(s) :
                  w[n] = IF s[n] \in S THEN Append(w[n - 1], s[n]) ELSE w[n - 1]
             /\ \A n \in 0 .. Len(s) : w[n] \in Seq(A \cap S)
  <1> DEFINE D == Seq(A \cap S)
             step(q, n) == IF s[n] \in S THEN Append(q, s[n]) ELSE q
             F == [n \in 1 .. Len(s) |-> [q \in D |-> step(q, n)]]
  <1>0. Len(s) \in Nat /\ <<>> \in D
    OBVIOUS
  <1>1. \A q \in D : \A n \in 1 .. Len(s) : step(q, n) \in D
    OBVIOUS
  <1>2. F \in Steps(D, Len(s))
    BY <1>1 DEF Steps
  <1>3. PICK e : Stepped(e, D, <<>>, Len(s), F)
    <2> HIDE DEF D, F
    <2> QED
      BY <1>0, <1>2, StepsExist
  <1> HIDE DEF step
  <1>4. \A q, n : (CHOOSE y \in {step(v, n) : v \in {q}} : TRUE) = step(q, n)
    OBVIOUS
  <1>5. e = Picking(s, S, e)
    <2>1. ASSUME NEW k \in 0 .. Len(s) PROVE e[k] = Picking(s, S, e)[k]
      <3>1. CASE k = 0
        BY <1>0, <1>3, <3>1 DEF Picking, Stepped
      <3>2. CASE k # 0
        <4>1. k \in 1 .. Len(s) /\ e[k - 1] \in D /\ e[k] = F[k][e[k - 1]]
          <5> HIDE DEF F, D
          <5> QED
            BY <1>0, <1>3, <3>2 DEF Stepped
        <4>2. F[k] = [q \in D |-> step(q, k)]
          BY <4>1
        <4>3. e[k] = step(e[k - 1], k)
          <5> HIDE DEF D, F
          <5> QED
            BY <4>1, <4>2
        <4>4. e[k] = CHOOSE y \in {step(v, k) : v \in {e[k - 1]}} : TRUE
          BY <1>4, <4>3
        <4> QED
          BY <3>2, <4>4 DEF Picking, step
      <3> QED
        BY <3>1, <3>2
    <2>2. e \in [0 .. Len(s) -> D]
      BY <1>3 DEF Stepped
    <2> HIDE DEF D
    <2> QED
      BY <2>1, <2>2 DEF Picking
  <1> DEFINE w == PickRun(s, S)
  <1>6. w = Picking(s, S, w)
    BY <1>5 DEF PickRun
  <1> HIDE DEF w
  <1>7. w[0] = <<>>
    BY <1>0, <1>6 DEF Picking
  <1>8. ASSUME NEW n \in 1 .. Len(s) PROVE w[n] = step(w[n - 1], n)
    <2>1. n \in 0 .. Len(s) /\ n # 0
      BY <1>0
    <2>2. w[n] = Picking(s, S, w)[n]
      BY <1>6
    <2>3. w[n] = CHOOSE y \in {step(q, n) : q \in {w[n - 1]}} : TRUE
      BY <2>1, <2>2 DEF Picking, step
    <2> QED
      BY <1>4, <2>3
  <1>9. \A n \in 0 .. Len(s) : w[n] \in D
    <2> HIDE DEF D
    <2> QED
      BY <1>0, <1>1, <1>7, <1>8, StepsStay
  <1> QED
    BY <1>7, <1>8, <1>9 DEF w, step

\* All that are in S are picked, and nothing else.
LEMMA PickedType ==
  ASSUME NEW A, NEW s \in Seq(A), NEW S
  PROVE  /\ Picked(s, S) \in Seq(A \cap S)
         /\ \A n \in 1 .. Len(s) : s[n] \in S =>
              \E k \in 1 .. Len(Picked(s, S)) : Picked(s, S)[k] = s[n]
  <1> DEFINE w == PickRun(s, S)
             Found(m) == \A n \in 1 .. m : s[n] \in S => \E k \in 1 .. Len(w[m]) : w[m][k] = s[n]
             T == {m \in Nat : m <= Len(s) => Found(m)}
  <1>1. /\ \A n \in 1 .. Len(s) :
             w[n] = IF s[n] \in S THEN Append(w[n - 1], s[n]) ELSE w[n - 1]
        /\ \A n \in 0 .. Len(s) : w[n] \in Seq(A \cap S)
    BY PickRuns, ZenonT(40)
  <1>2. Len(s) \in Nat
    OBVIOUS
  <1> HIDE DEF w
  <1>3. 0 \in T
    OBVIOUS
  <1>4. ASSUME NEW m \in Nat, m \in T PROVE m + 1 \in T
    <2> SUFFICES ASSUME m + 1 <= Len(s), NEW n \in 1 .. m + 1, s[n] \in S
                 PROVE  \E k \in 1 .. Len(w[m + 1]) : w[m + 1][k] = s[n]
      OBVIOUS
    <2> DEFINE q == w[m]
    <2>1. /\ q \in Seq(A \cap S)
          /\ w[m + 1] = IF s[m + 1] \in S THEN Append(q, s[m + 1]) ELSE q
          /\ s[m + 1] \in A
      BY <1>1, <1>2
    <2>2. n <= m => \E k \in 1 .. Len(q) : q[k] = s[n]
      BY <1>2, <1>4
    <2> HIDE DEF q
    <2>3. CASE n = m + 1
      <3>1. w[m + 1] = Append(q, s[n]) /\ s[n] \in A \cap S
        BY <2>1, <2>3
      <3>2. Len(Append(q, s[n])) \in 1 .. Len(Append(q, s[n])) /\ Append(q, s[n])[Len(Append(q, s[n]))] = s[n]
        BY <2>1, <3>1
      <3> QED
        BY <3>1, <3>2
    <2>4. CASE n <= m
      <3>1. PICK k \in 1 .. Len(q) : q[k] = s[n]
        BY <2>2, <2>4
      <3>2. CASE s[m + 1] \in S
        <4>1. w[m + 1] = Append(q, s[m + 1]) /\ s[m + 1] \in A \cap S
          BY <2>1, <3>2
        <4>2. k \in 1 .. Len(w[m + 1]) /\ w[m + 1][k] = q[k]
          BY <2>1, <4>1
        <4> QED
          BY <3>1, <4>2
      <3>3. CASE s[m + 1] \notin S
        BY <2>1, <3>1, <3>3
      <3> QED
        BY <3>2, <3>3
    <2> QED
      BY <2>3, <2>4
  <1>5. Len(s) \in T
    <2> HIDE DEF T
    <2> QED
      BY <1>2, <1>3, <1>4, NatInd
  <1>6. Picked(s, S) = w[Len(s)]
    BY PickedUnfold DEF w
  <1> QED
    BY <1>1, <1>2, <1>5, <1>6

\* Pins are numbered slot by slot.
LEMMA Times ==
  ASSUME NEW a \in Int, NEW b \in Int, NEW c \in Nat, a <= b
  PROVE  c * a <= c * b /\ c * a \in Int /\ c * b \in Int
  BY SMT

LEMMA DivMod ==
  ASSUME NEW x \in Nat, NEW b \in Nat \ {0}
  PROVE  x \div b \in Nat /\ x % b \in 0 .. b - 1 /\ b * (x \div b) <= x
  <1>1. \A q \in Int : q = x \div b => b * q <= x
    BY SMT
  <1>2. x \div b \in Nat /\ x % b \in 0 .. b - 1
    BY SMT
  <1> QED
    BY <1>1, <1>2

LEMMA DivModOnly ==
  ASSUME NEW x \in Int, NEW b \in Nat \ {0}, NEW q \in Int, NEW r \in 0 .. b - 1, x = b * q + r
  PROVE  x \div b = q /\ x % b = r
  BY SMT

LEMMA SlotSeqType ==
  ASSUME NEW S \in SUBSET Slots
  PROVE  SlotSeq(S) \in Seq(S)
  <1> DEFINE s == [n \in 1 .. NumSlots |-> n - 1]
  <1>1. s \in Seq(Slots)
    BY SizeType DEF Slots
  <1> HIDE DEF s
  <1>2. Picked(s, S) \in Seq(Slots \cap S)
    BY <1>1, PickedType
  <1>3. Slots \cap S = S
    OBVIOUS
  <1> QED
    BY <1>2, <1>3 DEF SlotSeq, s

LEMMA PinSeqType ==
  ASSUME NEW P \in SUBSET Pins
  PROVE  /\ PinSeq(P) \in Seq(P)
         /\ \A p \in P : \E k \in 1 .. Len(PinSeq(P)) : PinSeq(P)[k] = p
  <1> DEFINE L == NumSlots * NumConns
             s == [n \in 1 .. L |-> <<(n - 1) \div NumConns, (n - 1) % NumConns>>]
  <1>0. NumSlots \in Nat /\ NumConns \in Nat \ {0} /\ L \in Nat
    BY SizeType, Times
  <1>1. ASSUME NEW n \in 1 .. L
        PROVE  <<(n - 1) \div NumConns, (n - 1) % NumConns>> \in Pins
    <2> DEFINE q == (n - 1) \div NumConns
    <2>1. /\ n - 1 \in Nat /\ q \in Nat /\ (n - 1) % NumConns \in 0 .. NumConns - 1
          /\ NumConns * q <= n - 1
      <3> DEFINE x == n - 1
      <3>1. x \in Nat
        BY <1>0
      <3> HIDE DEF x
      <3>2. x \div NumConns \in Nat /\ x % NumConns \in 0 .. NumConns - 1 /\ NumConns * (x \div NumConns) <= x
        BY <1>0, <3>1, DivMod
      <3> QED
        BY <3>1, <3>2 DEF x
    <2>2. ~(NumSlots <= q)
      <3> HIDE DEF q
      <3> SUFFICES ASSUME NumSlots <= q PROVE FALSE
        OBVIOUS
      <3>1. NumConns * NumSlots <= NumConns * q
        BY <1>0, <2>1, Times
      <3>2. NumConns * NumSlots = NumSlots * NumConns
        BY <1>0, SMT
      <3> QED
        BY <1>0, <2>1, <3>1, <3>2, Times
    <2> QED
      BY <1>0, <2>1, <2>2 DEF Pins, Slots, Conns
  <1>2. s \in Seq(Pins) /\ Len(s) = L
    BY <1>0, <1>1
  <1>3. ASSUME NEW p \in Pins PROVE \E n \in 1 .. L : s[n] = p
    <2>1. PICK a \in Slots, c \in Conns : p = <<a, c>>
      BY DEF Pins
    <2>2. a \in 0 .. NumSlots - 1 /\ c \in 0 .. NumConns - 1
      BY <2>1 DEF Slots, Conns
    <2> DEFINE n == NumConns * a + c + 1
    <2>3. NumConns * a \in Nat
      BY <1>0, <2>2, Times
    <2>4. NumConns * a <= NumConns * (NumSlots - 1)
      BY <1>0, <2>2, Times
    <2>5. NumConns * (NumSlots - 1) = L - NumConns
      BY <1>0, SMT
    <2>6. n \in 1 .. L /\ n - 1 = NumConns * a + c
      BY <1>0, <2>2, <2>3, <2>4, <2>5
    <2>7. (n - 1) \div NumConns = a /\ (n - 1) % NumConns = c
      BY <1>0, <2>2, <2>6, DivModOnly
    <2> HIDE DEF n, L
    <2>8. s[n] = <<a, c>>
      BY <2>6, <2>7
    <2> QED
      BY <2>1, <2>6, <2>8
  <1>4. PinSeq(P) = Picked(s, P)
    BY DEF PinSeq
  <1> HIDE DEF s, L
  <1>5. /\ Picked(s, P) \in Seq(Pins \cap P)
        /\ \A n \in 1 .. Len(s) : s[n] \in P =>
             \E k \in 1 .. Len(Picked(s, P)) : Picked(s, P)[k] = s[n]
    <2>1. s \in Seq(Pins)
      BY <1>2
    <2> QED
      BY ONLY <2>1, PickedType
  <1>6. Pins \cap P = P
    OBVIOUS
  <1>7. ASSUME NEW p \in P PROVE \E k \in 1 .. Len(Picked(s, P)) : Picked(s, P)[k] = p
    <2>1. PICK n \in 1 .. L : s[n] = p
      BY <1>3
    <2> QED
      BY <1>2, <1>5, <2>1
  <1> QED
    BY <1>4, <1>5, <1>6, <1>7

\* The lines of a graph are lines.
LEMMA NamedType ==
  ASSUME NEW h \in Graph, NEW o \in Outputs(h)
  PROVE  /\ Named(h, o) \in Keys \X Conns
         /\ Class[Named(h, o)[1]][Named(h, o)[2]].io = "out"
  <1>1. o \in Pins /\ o[1] \in Live(h) /\ IsOut(h, o)
    BY DEF Outputs
  <1>2. o # Unset /\ o[1] \in Slots /\ o[2] \in Conns /\ h.mod[o[1]] # NoKey
    BY <1>1, UnsetIsNoPin DEF Pins, Live
  <1>3. h.mod[o[1]] \in Keys
    BY <1>2 DEF Graph
  <1> QED
    BY <1>1, <1>2, <1>3 DEF Named, IsOut, PinClass

LEMMA ConnLineType ==
  ASSUME NEW h, Good(h), NEW i \in Inputs(h)
  PROVE  ConnLine(h, i) \in Lines
  <1>1. h \in Graph /\ NoDangling(h)
    BY DEF Good, Sound, Linking
  <1>2. i \in Pins /\ i[1] \in Slots /\ i[2] \in Conns /\ h.mod[i[1]] # NoKey /\ IsIn(h, i)
    BY DEF Inputs, Pins, Live
  <1>3. h.mod[i[1]] \in Keys /\ Class[h.mod[i[1]]][i[2]].io = "in"
    BY <1>1, <1>2 DEF Graph, IsIn, PinClass
  <1> DEFINE f == Named(h, h.src[i])
  <1>4. \/ f = Nowhere
        \/ f \in Keys \X Conns /\ Class[f[1]][f[2]].io = "out"
    <2>1. CASE h.src[i] = Unset
      BY <2>1 DEF Named
    <2>2. CASE h.src[i] # Unset
      <3>1. h.src[i] \in Outputs(h)
        BY <1>1, <1>2, <2>2 DEF NoDangling
      <3> QED
        BY <1>1, <3>1, NamedType
    <2> QED
      BY <2>1, <2>2
  <1> HIDE DEF f
  <1>5. f \in (Keys \X Conns) \cup {Nowhere}
    BY <1>4
  <1>6. ConnLine(h, i) = [cmd |-> IF i \in h.fb THEN "feedback" ELSE "connect",
                          mod |-> h.mod[i[1]], conn |-> i[2], from |-> f, val |-> 0]
    BY DEF ConnLine, Line, f
  <1> QED
    BY <1>2, <1>3, <1>4, <1>5, <1>6 DEF Lines

\* The parameters are numbers.
Numbers == Params = Int

LEMMA SlotLineType ==
  ASSUME Numbers, NEW h \in Graph, NEW s \in Live(h)
  PROVE  ModuleLine(h, s) \in Lines /\ ParamLine(h, s) \in Lines
  <1>1. s \in Slots /\ h.mod[s] \in Keys /\ h.par[s] \in Int
    BY DEF Live, Used, Graph, Numbers
  <1>2. 0 \in Conns
    BY SizeType DEF Conns
  <1> QED
    BY <1>1, <1>2 DEF ModuleLine, ParamLine, Line, Lines

LEMMA FlatType ==
  ASSUME Numbers, NEW h, Good(h), NEW P \in SUBSET Inputs(h)
  PROVE  Flat(h, P) \in Seq(Lines)
  <1> DEFINE ms == SlotSeq(Live(h))
             ps == PinSeq(P)
             vs == SlotSeq({s \in Live(h) : h.mod[s] \in WithParam})
  <1>1. h \in Graph /\ Live(h) \subseteq Slots /\ P \subseteq Pins
    BY DEF Good, Sound, Linking, Live, Used, Inputs
  <1>2. ms \in Seq(Live(h)) /\ vs \in Seq(Live(h))
    <2>1. vs \in Seq({s \in Live(h) : h.mod[s] \in WithParam})
      BY <1>1, SlotSeqType
    <2> HIDE DEF vs
    <2> QED
      BY <1>1, <2>1, SlotSeqType
  <1>3. ps \in Seq(P)
    BY <1>1, PinSeqType
  <1> HIDE DEF ms, ps, vs
  <1>4. [n \in DOMAIN ms |-> ModuleLine(h, ms[n])] \in Seq(Lines)
    <2>1. \A n \in 1 .. Len(ms) : ModuleLine(h, ms[n]) \in Lines
      BY <1>1, <1>2, SlotLineType
    <2> QED
      BY <1>2, <2>1
  <1>5. [n \in DOMAIN ps |-> ConnLine(h, ps[n])] \in Seq(Lines)
    <2>1. \A n \in 1 .. Len(ps) : ConnLine(h, ps[n]) \in Lines
      BY <1>3, ConnLineType
    <2> QED
      BY <1>3, <2>1
  <1>6. [n \in DOMAIN vs |-> ParamLine(h, vs[n])] \in Seq(Lines)
    <2>1. \A n \in 1 .. Len(vs) : ParamLine(h, vs[n]) \in Lines
      BY <1>1, <1>2, SlotLineType
    <2> QED
      BY <1>2, <2>1
  <1>7. Flat(h, P) = [n \in DOMAIN ms |-> ModuleLine(h, ms[n])]
                     \o [n \in DOMAIN ps |-> ConnLine(h, ps[n])]
                     \o [n \in DOMAIN vs |-> ParamLine(h, vs[n])]
    BY DEF Flat, Mapped, ms, ps, vs
  <1> QED
    BY <1>4, <1>5, <1>6, <1>7

\* Reading a line keeps the graph sound, whatever modules there are now.
LEMMA ParGood ==
  ASSUME NEW h, Good(h), NEW v \in [Slots -> Params],
         \A s \in Live(h) : h.mod[s] \notin WithParam => v[s] = Default
  PROVE  Good([h EXCEPT !.par = v])
  <1> DEFINE k == [h EXCEPT !.par = v]
  <1>1. h \in Graph
    BY DEF Good, Sound, Linking
  <1>2. /\ k \in Graph /\ k.num = h.num /\ k.mod = h.mod /\ k.src = h.src /\ k.ref = h.ref
        /\ k.fb = h.fb /\ k.chan = h.chan /\ k.fmt = h.fmt /\ k.par = v
    BY <1>1 DEF Graph
  <1> HIDE DEF k
  <1>3. /\ Inputs(k) = Inputs(h) /\ Outputs(k) = Outputs(h) /\ Live(k) = Live(h)
        /\ \A p \in Pins : PinClass(k, p) = PinClass(h, p)
    BY <1>2, SameModules
  <1>4. Linking(k)
    BY <1>2, <1>3 DEF Good, Sound, Linking, NoDangling, RefExact, Readers, FormatsAgree
  <1>5. Edges(k) = Edges(h)
    BY <1>2, <1>3 DEF Edges
  <1>6. Sound(k)
    BY <1>4, <1>5, FewerEdges DEF Good, Sound
  <1>7. Kept(k)
    BY <1>2, <1>3 DEF Good, Kept
  <1> QED
    BY <1>6, <1>7 DEF k, Good

LEMMA GetIs ==
  ASSUME NEW h, NEW k, Get(h, k) # -1
  PROVE  Get(h, k) \in Used(h) /\ Get(h, k) \in Slots /\ h.mod[Get(h, k)] = k
  <1> DEFINE hits == {s \in Used(h) : h.mod[s] = k}
  <1>1. hits # {} /\ Get(h, k) = Least(hits)
    BY DEF Get
  <1>2. hits \in SUBSET Slots
    BY DEF Used
  <1>3. PICK n \in hits : \A t \in hits : n <= t
    BY <1>1, <1>2, LeastOf
  <1>4. Least(hits) \in hits
    BY <1>3 DEF Least
  <1> QED
    BY <1>1, <1>4 DEF Used

\* A live module is found by its name (or another of that name is).
LEMMA GetLive ==
  ASSUME NEW h \in Graph, NEW s \in Live(h)
  PROVE  Get(h, h.mod[s]) \in Live(h)
  <1> DEFINE k == h.mod[s]
             hits == {x \in Used(h) : h.mod[x] = k}
  <1>1. s \in Used(h) /\ k # NoKey
    BY DEF Live
  <1>2. hits # {} /\ hits \in SUBSET Slots
    BY <1>1 DEF Used
  <1>3. PICK n \in hits : \A x \in hits : n <= x
    BY <1>2, LeastOf
  <1>4. Least(hits) \in hits
    BY <1>3 DEF Least
  <1>5. Get(h, k) = Least(hits)
    BY <1>2 DEF Get
  <1> QED
    BY <1>1, <1>4, <1>5 DEF Live

\* A named pin that is found has the direction that its class says.
LEMMA NamedPin ==
  ASSUME NEW h \in Graph, NEW k \in Keys, NEW c \in Conns, Get(h, k) # -1
  PROVE  /\ Class[k][c].io = "in"  => <<Get(h, k), c>> \in Inputs(h)
         /\ Class[k][c].io = "out" => <<Get(h, k), c>> \in Outputs(h)
  <1> DEFINE s == Get(h, k)
  <1>1. s \in Used(h) /\ s \in Slots /\ h.mod[s] = k /\ k # NoKey
    BY GetIs, GraphAssumption
  <1> HIDE DEF s
  <1>2. s \in Live(h) /\ <<s, c>> \in Pins /\ PinClass(h, <<s, c>>) = Class[k][c]
    BY <1>1 DEF Live, Pins, PinClass
  <1>3. /\ Class[k][c].io = "in"  => <<s, c>> \in Inputs(h)
        /\ Class[k][c].io = "out" => <<s, c>> \in Outputs(h)
    BY <1>2 DEF Inputs, Outputs, IsIn, IsOut
  <1> QED
    BY <1>3 DEF s

LEMMA ReadLineGood ==
  ASSUME KnownClasses, Numbers, NEW h, Good(h), NEW l \in Lines
  PROVE  Good(ReadLine(h, l))
  <1>0. h \in Graph
    BY DEF Good, Sound, Linking
  <1>1. /\ l.cmd \in {"module", "param", "paraminc", "connect", "feedback"}
        /\ l.mod \in Keys /\ l.conn \in Conns /\ l.val \in Int
        /\ l.from # Nowhere => l.from[1] \in Keys /\ l.from[2] \in Conns
    BY DEF Lines
  <1>2. CASE l.cmd = "module"
    BY <1>1, <1>2, AddedGood DEF ReadLine
  <1>3. CASE l.cmd \in {"param", "paraminc"}
    <2> DEFINE s == Get(h, l.mod)
               add == l.cmd = "paraminc"
               v == [h.par EXCEPT ![s] = (IF add THEN @ ELSE 0) + l.val]
    <2>1. ReadLine(h, l) = ReadParam(h, l, add)
      BY <1>3 DEF ReadLine
    <2>2. CASE s = -1 \/ l.mod \notin WithParam
      BY <2>1, <2>2 DEF ReadParam
    <2>3. CASE s # -1 /\ l.mod \in WithParam
      <3>1. s \in Slots /\ h.mod[s] \in WithParam
        BY <2>3, GetIs
      <3>2. h.par \in [Slots -> Int]
        BY <1>0 DEF Graph, Numbers
      <3> HIDE DEF s, add
      <3>3. v \in [Slots -> Int]
        BY <1>1, <3>1, <3>2
      <3>4. v \in [Slots -> Params]
        BY <3>3 DEF Numbers
      <3>p. \A t \in Live(h) : h.mod[t] \notin WithParam => v[t] = Default
        <4>1. \A t \in Slots \ {s} : v[t] = h.par[t]
          BY <3>2
        <4> QED
          BY <3>1, <4>1 DEF Good, Kept, Live, Used
      <3> HIDE DEF v
      <3>5. Good([h EXCEPT !.par = v])
        BY <3>4, <3>p, ParGood
      <3> QED
        BY <2>1, <2>3, <3>5 DEF ReadParam, s, v
    <2> QED
      BY <2>2, <2>3
  <1>4. CASE l.cmd \in {"connect", "feedback"}
    <2> DEFINE m0 == IF l.from = Nowhere THEN -1 ELSE Get(h, l.from[1])
               m1 == Get(h, l.mod)
               o  == IF l.from = Nowhere THEN Unset ELSE <<m0, l.from[2]>>
               i  == <<m1, l.conn>>
    <2>1. /\ Class[l.mod][l.conn].io = "in"
          /\ l.from # Nowhere => Class[l.from[1]][l.from[2]].io = "out"
      BY <1>4 DEF Lines
    <2>2. ReadLine(h, l) = ReadConnection(h, l)
      BY <1>4 DEF ReadLine
    <2>3. CASE (l.from # Nowhere /\ m0 = -1) \/ m1 = -1
      BY <2>2, <2>3 DEF ReadConnection
    <2>4. CASE ~((l.from # Nowhere /\ m0 = -1) \/ m1 = -1)
      <3>1. i \in Inputs(h)
        BY <1>0, <1>1, <2>1, <2>4, NamedPin
      <3>2. o \in Outputs(h) \cup {Unset}
        BY <1>0, <1>1, <2>1, <2>4, NamedPin
      <3> HIDE DEF o, i
      <3>3. Good(Feedback(h, o, i)) /\ Good(Connect(h, o, i))
        BY <3>1, <3>2, FeedbackGood, ConnectGood
      <3>4. ReadConnection(h, l) = IF l.cmd = "feedback" THEN Feedback(h, o, i) ELSE Connect(h, o, i)
        BY <2>4 DEF ReadConnection, o, i
      <3> QED
        BY <2>2, <3>3, <3>4
    <2> QED
      BY <2>3, <2>4
  <1> QED
    BY <1>1, <1>2, <1>3, <1>4

\* Line by line
Reading(h, ls, f) ==
  [n \in 0 .. Len(ls) |->
     IF n = 0 THEN h ELSE CHOOSE y \in {ReadLine(v, ls[n]) : v \in {f[n - 1]}} : TRUE]
ReadRun(h, ls) == CHOOSE f : f = Reading(h, ls, f)

LEMMA ReadUnfold ==
  ASSUME NEW h, NEW ls
  PROVE  ReadLines(h, ls) = ReadRun(h, ls)[Len(ls)]
  BY DEF ReadLines, ReadRun, Reading, Through, Once

GoodGraphs == {h \in Graph : Good(h)}

LEMMA ReadRuns ==
  ASSUME KnownClasses, Numbers, NEW h, Good(h), NEW ls \in Seq(Lines)
  PROVE  LET w == ReadRun(h, ls)
         IN  /\ w[0] = h
             /\ \A n \in 1 .. Len(ls) : w[n] = ReadLine(w[n - 1], ls[n])
             /\ \A n \in 0 .. Len(ls) : Good(w[n])
  <1> DEFINE D == GoodGraphs
             N == Len(ls)
             F == [n \in 1 .. N |-> [q \in D |-> ReadLine(q, ls[n])]]
  <1>0. N \in Nat /\ h \in D
    BY DEF GoodGraphs, Good, Sound, Linking
  <1>1. \A q \in D : \A n \in 1 .. N : ReadLine(q, ls[n]) \in D
    <2> TAKE q \in D
    <2> TAKE n \in 1 .. N
    <2>1. ls[n] \in Lines /\ Good(q)
      BY DEF GoodGraphs
    <2>2. Good(ReadLine(q, ls[n]))
      BY <2>1, ReadLineGood
    <2> QED
      BY <2>2 DEF GoodGraphs, Good, Sound, Linking
  <1> HIDE DEF D
  <1>2. F \in Steps(D, N)
    BY <1>1 DEF Steps
  <1>3. PICK e : Stepped(e, D, h, N, F)
    <2> HIDE DEF F, N
    <2> QED
      BY <1>0, <1>2, StepsExist
  <1>4. \A q, n : (CHOOSE y \in {ReadLine(v, ls[n]) : v \in {q}} : TRUE) = ReadLine(q, ls[n])
    OBVIOUS
  <1>5. e = Reading(h, ls, e)
    <2>1. ASSUME NEW k \in 0 .. N PROVE e[k] = Reading(h, ls, e)[k]
      <3>1. CASE k = 0
        BY <1>0, <1>3, <3>1 DEF Reading, Stepped
      <3>2. CASE k # 0
        <4>1. k \in 1 .. N /\ e[k - 1] \in D /\ e[k] = F[k][e[k - 1]]
          <5> HIDE DEF F
          <5> QED
            BY <1>0, <1>3, <3>2 DEF Stepped
        <4>2. F[k] = [q \in D |-> ReadLine(q, ls[k])]
          BY <4>1
        <4>3. e[k] = ReadLine(e[k - 1], ls[k])
          <5> HIDE DEF F
          <5> QED
            BY <4>1, <4>2
        <4>4. e[k] = CHOOSE y \in {ReadLine(v, ls[k]) : v \in {e[k - 1]}} : TRUE
          BY <1>4, <4>3
        <4> QED
          BY <3>2, <4>4 DEF Reading
      <3> QED
        BY <3>1, <3>2
    <2>2. e \in [0 .. N -> D]
      BY <1>3 DEF Stepped
    <2> QED
      BY <2>1, <2>2 DEF Reading
  <1> DEFINE w == ReadRun(h, ls)
  <1>6. w = Reading(h, ls, w)
    BY <1>5 DEF ReadRun
  <1> HIDE DEF w
  <1>7. w[0] = h
    BY <1>0, <1>6 DEF Reading
  <1>8. ASSUME NEW n \in 1 .. N PROVE w[n] = ReadLine(w[n - 1], ls[n])
    <2>1. n \in 0 .. N /\ n # 0
      BY <1>0
    <2>2. w[n] = Reading(h, ls, w)[n]
      BY <1>6
    <2>3. w[n] = CHOOSE y \in {ReadLine(v, ls[n]) : v \in {w[n - 1]}} : TRUE
      BY <2>1, <2>2 DEF Reading
    <2> QED
      BY <1>4, <2>3
  <1>9. \A n \in 0 .. N : w[n] \in D
    <2> HIDE DEF N
    <2> QED
      BY <1>0, <1>1, <1>7, <1>8, StepsStay
  <1> QED
    BY <1>7, <1>8, <1>9 DEF w, D, GoodGraphs

LEMMA ReadLinesGood ==
  ASSUME KnownClasses, Numbers, NEW h, Good(h), NEW ls \in Seq(Lines)
  PROVE  Good(ReadLines(h, ls))
  <1>1. Len(ls) \in 0 .. Len(ls)
    OBVIOUS
  <1> QED
    BY <1>1, ReadRuns, ReadUnfold

-----------------------------------------------------------------------------
(* The undo history *)

\* What the user saw of a module, and of all
Seen == [par : Params, src : [Conns -> (Keys \X Conns) \cup {Nowhere}], fb : SUBSET Conns]
Views == [Keys \ {Preview} -> Seen \cup {<<>>}]

\* An edit under way: the graph is sound, the history is made of lines, and
\* there is one view for each.
EditStates ==
  {e \in [g : GoodGraphs, hist : Seq(Lines), cur : Nat, snap : Seq(Views), vague : BOOLEAN] :
     e.cur <= Len(e.hist) /\ Len(e.snap) = Len(e.hist)}

LEMMA ViewType ==
  ASSUME NEW h, Good(h)
  PROVE  View(h) \in Views
  <1>1. h \in Graph /\ NoDangling(h)
    BY DEF Good, Sound, Linking
  <1> DEFINE at(s, c) == IF IsIn(h, <<s, c>>) THEN Named(h, h.src[<<s, c>>]) ELSE Nowhere
             seen(s) == [par |-> h.par[s], src |-> [c \in Conns |-> at(s, c)],
                         fb |-> {c \in Conns : <<s, c>> \in h.fb /\ h.src[<<s, c>>] # Unset}]
  <1>2. ASSUME NEW k \in Keys \ {Preview}, Get(h, k) # -1
        PROVE  seen(Get(h, k)) \in Seen
    <2> DEFINE s == Get(h, k)
    <2>1. s \in Used(h) /\ s \in Slots /\ h.mod[s] = k /\ k # NoKey
      BY <1>2, GetIs, GraphAssumption
    <2> HIDE DEF s
    <2>2. ASSUME NEW c \in Conns PROVE at(s, c) \in (Keys \X Conns) \cup {Nowhere}
      <3>1. CASE IsIn(h, <<s, c>>) /\ h.src[<<s, c>>] # Unset
        <4>1. <<s, c>> \in Pins
          BY <2>1 DEF Pins
        <4>2. h.src[<<s, c>>] \in Outputs(h)
          BY <1>1, <3>1, <4>1 DEF NoDangling
        <4> QED
          BY <1>1, <3>1, <4>2, NamedType
      <3>2. CASE ~(IsIn(h, <<s, c>>) /\ h.src[<<s, c>>] # Unset)
        BY <3>2 DEF Named
      <3> QED
        BY <3>1, <3>2
    <2>3. h.par[s] \in Params
      BY <1>1, <2>1 DEF Graph
    <2> HIDE DEF at
    <2>4. seen(s) \in Seen
      BY <2>2, <2>3 DEF Seen
    <2> QED
      BY <2>4 DEF s
  <1>3. View(h) = [k \in Keys \ {Preview} |->
                     IF Get(h, k) = -1 THEN <<>> ELSE seen(Get(h, k))]
    BY DEF View
  <1> HIDE DEF seen
  <1> QED
    BY <1>2, <1>3 DEF Views

LEMMA NothingType == Nothing \in Views
  BY DEF Nothing, Views

LEMMA ClaimType ==
  ASSUME NEW e, View(e.g) \in Views
  PROVE  Claim(e) \in Views
  <1>1. View(e.g) \in Views
    OBVIOUS
  <1> DEFINE v == View(e.g)
  <1> HIDE DEF v
  <1>2. [k \in DOMAIN v |-> IF Known(e, k, e.cur) /\ ~Haunted(e, k) THEN v[k] ELSE <<>>] \in Views
    BY <1>1 DEF Views, v
  <1> QED
    BY <1>2, NothingType DEF Claim, v

\* The parts of an edit
LEMMA EditFields ==
  ASSUME NEW e \in EditStates
  PROVE  /\ Good(e.g) /\ e.g \in Graph
         /\ e.hist \in Seq(Lines) /\ e.snap \in Seq(Views) /\ e.vague \in BOOLEAN
         /\ e.cur \in 0 .. Len(e.hist) /\ Len(e.snap) = Len(e.hist)
  BY DEF EditStates, GoodGraphs

\* The history of e is replaced.
Rewritten(e, a, n, v) == [e EXCEPT !.hist = a, !.cur = n, !.snap = v]

LEMMA EditHistory ==
  ASSUME NEW e \in EditStates, NEW a \in Seq(Lines), NEW v \in Seq(Views), NEW n \in 0 .. Len(a),
         Len(v) = Len(a)
  PROVE  Rewritten(e, a, n, v) \in EditStates
  <1> DEFINE R == [g : GoodGraphs, hist : Seq(Lines), cur : Nat, snap : Seq(Views), vague : BOOLEAN]
             f == [e EXCEPT !.hist = a, !.cur = n, !.snap = v]
  <1>1. e \in R /\ Len(a) \in Nat /\ n \in Nat /\ n <= Len(a)
    BY DEF EditStates
  <1>2. f \in R /\ f.hist = a /\ f.cur = n /\ f.snap = v
    BY <1>1
  <1> HIDE DEF f
  <1>3. f \in EditStates
    BY <1>1, <1>2 DEF EditStates
  <1> QED
    BY <1>3 DEF f, Rewritten

LEMMA EditGraph ==
  ASSUME NEW e \in EditStates, NEW h, Good(h), NEW b \in BOOLEAN
  PROVE  /\ [e EXCEPT !.g = h] \in EditStates
         /\ [e EXCEPT !.g = h, !.vague = b] \in EditStates
         /\ [e EXCEPT !.vague = b] \in EditStates
  <1>1. h \in GoodGraphs
    BY DEF GoodGraphs, Good, Sound, Linking
  <1> QED
    BY <1>1 DEF EditStates

LEMMA CutType ==
  ASSUME NEW e \in EditStates
  PROVE  /\ Cut(e) \in EditStates /\ Len(Cut(e).hist) = e.cur
         /\ Cut(e).cur = e.cur /\ Cut(e).g = e.g /\ Cut(e).vague = e.vague
  <1> DEFINE a == SubSeq(e.hist, 1, e.cur)
             v == SubSeq(e.snap, 1, e.cur)
  <1>1. e.cur \in 0 .. Len(e.hist) /\ e.hist \in Seq(Lines) /\ e.snap \in Seq(Views)
        /\ Len(e.snap) = Len(e.hist)
    BY EditFields
  <1>2. a \in Seq(Lines) /\ Len(a) = e.cur
    BY <1>1
  <1>3. v \in Seq(Views) /\ Len(v) = e.cur
    BY <1>1
  <1>4. Cut(e) = Rewritten(e, a, e.cur, v)
    BY DEF Cut, EditStates, Rewritten
  <1>5. Cut(e).g = e.g /\ Cut(e).vague = e.vague /\ Cut(e).cur = e.cur /\ Cut(e).hist = a
    BY DEF Cut, EditStates
  <1> HIDE DEF a, v
  <1>6. e.cur \in 0 .. Len(a) /\ Len(v) = Len(a)
    BY <1>1, <1>2, <1>3
  <1>7. Cut(e) \in EditStates
    BY <1>2, <1>3, <1>4, <1>6, EditHistory
  <1> QED
    BY <1>2, <1>5, <1>7

LEMMA RecordType ==
  ASSUME NEW e \in EditStates, NEW l \in Lines
  PROVE  Record(e, l) \in EditStates /\ Record(e, l).g = e.g
  <1> DEFINE c == Cut(e)
             a == Append(c.hist, l)
             n == [c EXCEPT !.hist = a, !.cur = @ + 1]
             m == [n EXCEPT !.snap = Append(@, Claim(n))]
  <1>1. c \in EditStates /\ Len(c.hist) = c.cur /\ c.g = e.g
    BY CutType
  <1>2. Record(e, l) = Recording(e, l)
    BY DEF Record, Once
  <1>3. Recording(e, l) = IF c.cur >= ItemMax THEN [c EXCEPT !.vague = TRUE] ELSE m
    BY DEF Recording
  <1> HIDE DEF c
  <1>4. [c EXCEPT !.vague = TRUE] \in EditStates /\ [c EXCEPT !.vague = TRUE].g = e.g
    BY <1>1 DEF EditStates
  <1>5. /\ Good(c.g) /\ c.hist \in Seq(Lines) /\ c.snap \in Seq(Views)
        /\ c.cur \in Nat /\ Len(c.snap) = c.cur
    BY <1>1, EditFields
  <1>6. a \in Seq(Lines) /\ Len(a) = c.cur + 1 /\ c.cur + 1 \in 0 .. Len(a)
    BY <1>1, <1>5
  <1> HIDE DEF a
  <1>7. n.g = c.g /\ n.snap = c.snap
    BY <1>1 DEF EditStates
  \* The claim is made before the history is complete.
  <1>8. Claim(n) \in Views
    BY <1>5, <1>7, ViewType, ClaimType
  <1> DEFINE d == Claim(n)
             v == Append(c.snap, d)
  <1>9. v \in Seq(Views) /\ Len(v) = Len(a)
    <2> HIDE DEF d
    <2> QED
      BY <1>5, <1>6, <1>8 DEF d
  <1> HIDE DEF d
  <1>10. m = Rewritten(c, a, c.cur + 1, v)
    BY <1>1, <1>7 DEF EditStates, Rewritten, d
  <1> HIDE DEF v, n
  <1>11. m \in EditStates
    BY <1>1, <1>6, <1>9, <1>10, EditHistory
  <1>12. m.g = e.g
    BY <1>1, <1>10 DEF EditStates, Rewritten
  <1> QED
    BY <1>2, <1>3, <1>4, <1>11, <1>12

LEMMA RecordParamType ==
  ASSUME Numbers, NEW e \in EditStates, NEW l \in Lines, NEW recent \in BOOLEAN
  PROVE  RecordParam(e, l, recent) \in EditStates /\ RecordParam(e, l, recent).g = e.g
  <1> DEFINE c == Cut(e)
             R == Replaced(c, l)
             j == CHOOSE r \in R : \A q \in R : q <= r
             blur == \E q \in j + 1 .. c.cur : c.hist[q].cmd = "paraminc" /\ c.hist[q].mod = l.mod
             now(v) == IF v[l.mod] = <<>> THEN v ELSE [v EXCEPT ![l.mod].par = l.val]
             a == [c.hist EXCEPT ![j] = l]
             seen(q) == IF q < j THEN c.snap[q] ELSE IF blur THEN Nothing ELSE now(c.snap[q])
             v == [q \in DOMAIN c.snap |-> seen(q)]
             f == [c EXCEPT !.hist[j] = l, !.vague = @ \/ blur, !.snap = v]
  <1>1. RecordParam(e, l, recent) \in {Record(e, l), f}
    BY DEF RecordParam
  <1>2. c \in EditStates /\ c.g = e.g
    BY CutType
  <1> HIDE DEF c, j
  <1>3. c.hist \in Seq(Lines) /\ c.snap \in Seq(Views) /\ c.cur \in 0 .. Len(c.hist)
        /\ Len(c.snap) = Len(c.hist) /\ Good(c.g) /\ c.vague \in BOOLEAN
    BY <1>2, EditFields
  <1>4. a \in Seq(Lines) /\ Len(a) = Len(c.hist)
    <2> DEFINE H == c.hist
    <2>1. H \in [1 .. Len(H) -> Lines] /\ Len(H) \in Nat
      BY <1>3
    <2> HIDE DEF H
    <2>2. [H EXCEPT ![j] = l] \in [1 .. Len(H) -> Lines]
      BY <2>1
    <2>3. [H EXCEPT ![j] = l] \in Seq(Lines) /\ Len([H EXCEPT ![j] = l]) = Len(H)
      <3> DEFINE z == [H EXCEPT ![j] = l]
      <3> HIDE DEF z
      <3> SUFFICES z \in Seq(Lines) /\ Len(z) = Len(H)
        BY DEF z
      <3> QED
        BY <2>1, <2>2 DEF z
    <2> QED
      BY <2>3 DEF H
  <1>5. ASSUME NEW w \in Views PROVE now(w) \in Views
    <2> SUFFICES ASSUME w[l.mod] # <<>> PROVE [w EXCEPT ![l.mod].par = l.val] \in Views
      OBVIOUS
    <2>1. CASE l.mod \in Keys \ {Preview}
      <3> DEFINE u == [w[l.mod] EXCEPT !.par = l.val]
      <3>1. w[l.mod] \in Seen /\ l.val \in Params
        BY <2>1 DEF Views, Lines, Numbers
      <3>2. u \in Seen
        BY <3>1 DEF Seen
      <3>3. [w EXCEPT ![l.mod].par = l.val] = [w EXCEPT ![l.mod] = u]
        BY DEF Views
      <3> HIDE DEF u
      <3> QED
        BY <3>2, <3>3 DEF Views
    <2>2. CASE l.mod \notin Keys \ {Preview}
      <3>1. [w EXCEPT ![l.mod].par = l.val] = w
        BY <2>2 DEF Views
      <3> QED
        BY <3>1
    <2> QED
      BY <2>1, <2>2
  <1> HIDE DEF now, blur
  <1>6. v \in Seq(Views) /\ Len(v) = Len(a)
    <2>1. DOMAIN c.snap = 1 .. Len(c.snap) /\ \A q \in DOMAIN c.snap : c.snap[q] \in Views
      BY <1>3
    <2>2. \A q \in DOMAIN c.snap : seen(q) \in Views
      BY <2>1, <1>5, NothingType
    <2> HIDE DEF seen
    <2> QED
      BY <1>3, <1>4, <2>1, <2>2
  <1>7. (c.vague \/ blur) \in BOOLEAN
    OBVIOUS
  <1> DEFINE b == c.vague \/ blur
             d == Rewritten(c, a, c.cur, v)
  <1>8. f = [d EXCEPT !.vague = b]
    BY <1>2 DEF EditStates, Rewritten
  <1>9. d.g = c.g
    BY <1>2 DEF EditStates, Rewritten
  <1> HIDE DEF a, v, b, f
  <1>10. d \in EditStates
    BY <1>2, <1>3, <1>4, <1>6, EditHistory
  <1> HIDE DEF d
  <1>11. f \in EditStates
    BY <1>3, <1>7, <1>8, <1>10, EditGraph DEF b
  <1>12. f.g = e.g
    BY <1>2, <1>8, <1>9, <1>10 DEF EditStates
  <1> QED
    BY <1>1, <1>11, <1>12, RecordType

\* Connections were only taken away; or perhaps one was made.
SameMods(h, k) == k.num = h.num /\ k.mod = h.mod
Loosened(h, k) == SameMods(h, k) /\ \A p \in Pins : k.src[p] \in {h.src[p], Unset}

LEMMA SamePins ==
  ASSUME NEW h, NEW k, SameMods(h, k)
  PROVE  /\ Inputs(k) = Inputs(h) /\ Outputs(k) = Outputs(h) /\ Live(k) = Live(h)
         /\ \A n : Get(k, n) = Get(h, n)
         /\ \A p \in Pins : PinClass(k, p) = PinClass(h, p)
  <1>1. k.num = h.num /\ k.mod = h.mod
    BY DEF SameMods
  <1>2. \A n : Get(k, n) = Get(h, n)
    BY <1>1 DEF Get, Used
  <1> QED
    BY <1>1, <1>2, SameModules

LEMMA ConnectKeeps ==
  ASSUME NEW h, Good(h), NEW o \in Outputs(h) \cup {Unset}, NEW i \in Inputs(h)
  PROVE  /\ SameMods(h, Connect(h, o, i))
         /\ o = Unset => Loosened(h, Connect(h, o, i)) /\ Connect(h, o, i).src[i] = Unset
  <1> DEFINE k == ConnectInternal(h, o, i)
  <1>1. Rewired(h, o, i, k)
    BY ConnectInternalLinking DEF Good, Sound
  <1>2. Connect(h, o, i) = h \/ Connect(h, o, i) = k
    BY DEF Connect
  <1>3. SameMods(h, Connect(h, o, i))
    BY <1>1, <1>2 DEF SameMods, Rewired
  <1>4. ASSUME o = Unset
        PROVE  Loosened(h, k) /\ k.src[i] = Unset /\ Connect(h, o, i) = k
    <2>1. ~Cyclic(h, o, i)
      BY <1>4 DEF Cyclic
    <2>2. Connect(h, o, i) = k
      BY <2>1 DEF Connect
    <2>3. i \in Pins
      BY DEF Inputs
    <2>4. k.src[i] = Unset
      <3>1. CASE h.src[i] = Unset
        BY <3>1, <1>4 DEF ConnectInternal
      <3>2. CASE h.src[i] # Unset
        <4>1. ~Refused(h, i) /\ Linked(h, i) /\ h \in Graph
          BY <2>3, <3>2, AllLinked DEF Good, Sound, Linking
        <4>2. k = Unlink1(h, i)
          BY <1>4, <3>2, <4>1 DEF ConnectInternal
        <4>3. k = Unlink(h, {i})
          BY <4>1, <4>2, <2>3, UnlinkOne
        <4> QED
          BY <4>1, <4>3, <2>3, UnlinkFields
      <3> QED
        BY <3>1, <3>2
    <2>5. \A p \in Pins : k.src[p] \in {h.src[p], Unset}
      BY <1>1, <2>4 DEF Rewired
    <2> QED
      BY <1>1, <2>2, <2>4, <2>5 DEF Loosened, SameMods, Rewired
  <1> QED
    BY <1>3, <1>4

LEMMA NoPreviewGood ==
  ASSUME NEW h, Good(h)
  PROVE  Good(NoPreview(h)) /\ Loosened(h, NoPreview(h))
  <1> DEFINE s == Get(h, Preview)
             i == <<s, 0>>
  <1>1. h \in Graph /\ NoDangling(h)
    BY DEF Good, Sound, Linking
  <1>2. Loosened(h, h)
    BY DEF Loosened, SameMods
  <1>3. CASE s = -1
    BY <1>2, <1>3 DEF NoPreview
  <1>4. CASE s # -1 /\ Preview = NoKey
    <2>1. s \in Slots /\ h.mod[s] = NoKey
      BY <1>4, GetIs
    <2> HIDE DEF s
    <2>2. i \in Pins /\ i \notin Inputs(h)
      BY <2>1, SizeType DEF Pins, Conns, Inputs, Live
    <2> HIDE DEF i
    <2>3. h.src[i] = Unset
      BY <1>1, <2>2 DEF NoDangling
    <2>4. Connect(h, Unset, i) = h
      BY <2>3 DEF Connect, Cyclic, ConnectInternal
    <2> QED
      BY <1>2, <1>4, <2>4 DEF NoPreview, s, i
  <1>5. CASE s # -1 /\ Preview # NoKey
    <2>1. 0 \in Conns /\ Preview \in Keys /\ Class[Preview][0].io = "in"
      BY <1>5, SizeType, HistoryAssumption DEF Conns
    <2>2. i \in Inputs(h)
      BY <1>1, <1>5, <2>1, NamedPin
    <2> HIDE DEF i
    <2>3. Good(Connect(h, Unset, i)) /\ Loosened(h, Connect(h, Unset, i))
      BY <2>2, ConnectGood, ConnectKeeps
    <2> QED
      BY <1>5, <2>3 DEF NoPreview, i
  <1> QED
    BY <1>3, <1>4, <1>5

\* A connection is edited.
LEMMA ConnectEditIs ==
  ASSUME NEW e, NEW o, NEW i
  PROVE  LET h == NoPreview(e.g)
             k == Connect(h, o, i)
         IN  ConnectEdit(e, o, i) = IF ConnectFails(h, o, i)
                                    THEN [e EXCEPT !.g = k, !.vague = @ \/ k # h]
                                    ELSE Record([e EXCEPT !.g = k], ConnLine(k, i))
  BY DEF ConnectEdit, Once

LEMMA ConnectEditType ==
  ASSUME NEW e \in EditStates, NEW o \in Outputs(e.g) \cup {Unset}, NEW i \in Inputs(e.g)
  PROVE  /\ ConnectEdit(e, o, i) \in EditStates
         /\ SameMods(e.g, ConnectEdit(e, o, i).g)
         /\ o = Unset => /\ Loosened(e.g, ConnectEdit(e, o, i).g)
                         /\ ConnectEdit(e, o, i).g.src[i] = Unset
  <1> DEFINE h == NoPreview(e.g)
             k == Connect(h, o, i)
             x == [e EXCEPT !.g = k, !.vague = @ \/ k # h]
             y == [e EXCEPT !.g = k]
  <1>1. Good(e.g) /\ e.vague \in BOOLEAN
    BY EditFields
  <1>2. Good(h) /\ Loosened(e.g, h)
    BY <1>1, NoPreviewGood
  <1>3. o \in Outputs(h) \cup {Unset} /\ i \in Inputs(h)
    BY <1>2, SamePins DEF Loosened
  <1>4. ConnectEdit(e, o, i) = IF ConnectFails(h, o, i) THEN x ELSE Record(y, ConnLine(k, i))
    BY ConnectEditIs
  <1> HIDE DEF h
  <1>5. /\ Good(k) /\ SameMods(h, k)
        /\ o = Unset => Loosened(h, k) /\ k.src[i] = Unset
    BY <1>2, <1>3, ConnectGood, ConnectKeeps
  <1>6. i \in Inputs(k)
    BY <1>3, <1>5, SamePins
  <1>7. /\ SameMods(e.g, k)
        /\ o = Unset => Loosened(e.g, k) /\ k.src[i] = Unset
    BY <1>2, <1>5 DEF SameMods, Loosened
  <1> HIDE DEF k
  <1>8. x \in EditStates /\ y \in EditStates
    <2> DEFINE b == e.vague \/ k # h
    <2>1. b \in BOOLEAN /\ x = [e EXCEPT !.g = k, !.vague = b]
      BY <1>1 DEF EditStates
    <2> HIDE DEF b, x
    <2> QED
      BY <1>5, <2>1, EditGraph
  <1>9. x.g = k /\ y.g = k
    BY DEF EditStates
  <1>10. ConnLine(k, i) \in Lines
    BY <1>5, <1>6, ConnLineType
  <1> HIDE DEF x, y
  <1>11. ConnectEdit(e, o, i) \in EditStates /\ ConnectEdit(e, o, i).g = k
    BY <1>4, <1>8, <1>9, <1>10, RecordType
  <1> QED
    BY <1>7, <1>11

\* Connections are taken away one after the other.
Disconnecting(e, ps, f) ==
  [n \in 0 .. Len(ps) |->
     IF n = 0 THEN e
     ELSE CHOOSE y \in {ConnectEdit(v, ps[n][1], ps[n][2]) : v \in {f[n - 1]}} : TRUE]
DisconnectRun(e, ps) == CHOOSE f : f = Disconnecting(e, ps, f)

LEMMA DisconnectUnfold ==
  ASSUME NEW e, NEW ps
  PROVE  ConnectEdits(e, ps) = DisconnectRun(e, ps)[Len(ps)]
  BY DEF ConnectEdits, DisconnectRun, Disconnecting, Through, Once

LEMMA LoosenedOn ==
  ASSUME NEW h, NEW k, NEW m, Loosened(h, k), Loosened(k, m)
  PROVE  /\ Loosened(h, m)
         /\ \A p \in Pins : k.src[p] = Unset => m.src[p] = Unset
  BY DEF Loosened, SameMods

LEMMA DisconnectRuns ==
  ASSUME NEW e \in EditStates, NEW qs \in Seq(Inputs(e.g))
  PROVE  LET ps == [n \in DOMAIN qs |-> <<Unset, qs[n]>>]
             w == DisconnectRun(e, ps)
         IN  /\ w[0] = e
             /\ \A n \in 1 .. Len(qs) : w[n] = ConnectEdit(w[n - 1], Unset, qs[n])
             /\ \A n \in 0 .. Len(qs) : w[n] \in EditStates /\ Loosened(e.g, w[n].g)
             /\ Len(ps) = Len(qs)
  <1> DEFINE ps == [n \in DOMAIN qs |-> <<Unset, qs[n]>>]
             D == {f \in EditStates : Loosened(e.g, f.g)}
             N == Len(qs)
             F == [n \in 1 .. N |-> [q \in D |-> ConnectEdit(q, Unset, qs[n])]]
  <1>0. N \in Nat /\ e \in D /\ Len(ps) = N
    BY DEF Loosened, SameMods
  <1>1. \A q \in D : \A n \in 1 .. N : ConnectEdit(q, Unset, qs[n]) \in D
    <2> TAKE q \in D
    <2> TAKE n \in 1 .. N
    <2>1. q \in EditStates /\ Loosened(e.g, q.g) /\ qs[n] \in Inputs(e.g)
      OBVIOUS
    <2>2. qs[n] \in Inputs(q.g)
      BY <2>1, SamePins DEF Loosened
    <2> DEFINE f == ConnectEdit(q, Unset, qs[n])
    <2>3. f \in EditStates /\ Loosened(q.g, f.g)
      BY <2>1, <2>2, ConnectEditType
    <2> HIDE DEF f
    <2>4. Loosened(e.g, f.g)
      BY <2>1, <2>3, LoosenedOn
    <2> QED
      BY <2>3, <2>4 DEF f
  <1>p. \A n \in 1 .. N : ps[n][1] = Unset /\ ps[n][2] = qs[n]
    OBVIOUS
  <1> HIDE DEF D, ps
  <1>2. F \in Steps(D, N)
    BY <1>1 DEF Steps
  <1>3. PICK x : Stepped(x, D, e, N, F)
    <2> HIDE DEF F, N
    <2> QED
      BY <1>0, <1>2, StepsExist
  <1>4. \A q, n : (CHOOSE y \in {ConnectEdit(v, ps[n][1], ps[n][2]) : v \in {q}} : TRUE)
                    = ConnectEdit(q, ps[n][1], ps[n][2])
    OBVIOUS
  <1>5. x = Disconnecting(e, ps, x)
    <2>1. ASSUME NEW k \in 0 .. N PROVE x[k] = Disconnecting(e, ps, x)[k]
      <3>1. CASE k = 0
        BY <1>0, <1>3, <3>1 DEF Disconnecting, Stepped
      <3>2. CASE k # 0
        <4>1. k \in 1 .. N /\ x[k - 1] \in D /\ x[k] = F[k][x[k - 1]]
          <5> HIDE DEF F
          <5> QED
            BY <1>0, <1>3, <3>2, SMTT(30) DEF Stepped
        <4>2. F[k] = [q \in D |-> ConnectEdit(q, Unset, qs[k])]
          BY <4>1
        <4>3. x[k] = ConnectEdit(x[k - 1], Unset, qs[k])
          <5> HIDE DEF F
          <5> QED
            BY <4>1, <4>2
        <4>4. x[k] = CHOOSE y \in {ConnectEdit(v, ps[k][1], ps[k][2]) : v \in {x[k - 1]}} : TRUE
          BY <1>4, <1>p, <4>1, <4>3
        <4>5. Disconnecting(e, ps, x)[k]
                = CHOOSE y \in {ConnectEdit(v, ps[k][1], ps[k][2]) : v \in {x[k - 1]}} : TRUE
          <5> HIDE DEF N
          <5> QED
            BY <1>0, <3>2 DEF Disconnecting
        <4> QED
          BY <4>4, <4>5
      <3> QED
        BY <3>1, <3>2
    <2>2. x \in [0 .. N -> D]
      BY <1>3 DEF Stepped
    <2> HIDE DEF N
    <2> QED
      BY <1>0, <2>1, <2>2 DEF Disconnecting
  <1> DEFINE w == DisconnectRun(e, ps)
  <1>6. w = Disconnecting(e, ps, w)
    BY <1>5 DEF DisconnectRun
  <1> HIDE DEF w, N
  <1>7. w[0] = e
    BY <1>0, <1>6 DEF Disconnecting
  <1>8. ASSUME NEW n \in 1 .. N PROVE w[n] = ConnectEdit(w[n - 1], Unset, qs[n])
    <2>1. n \in 0 .. N /\ n # 0
      BY <1>0
    <2>2. w[n] = Disconnecting(e, ps, w)[n]
      BY <1>6
    <2>3. w[n] = CHOOSE y \in {ConnectEdit(v, ps[n][1], ps[n][2]) : v \in {w[n - 1]}} : TRUE
      BY <1>0, <2>1, <2>2 DEF Disconnecting
    <2> QED
      BY <1>4, <1>p, <2>3
  <1>9. \A n \in 0 .. N : w[n] \in D
    BY <1>0, <1>1, <1>7, <1>8, StepsStay
  <1> QED
    BY <1>0, <1>7, <1>8, <1>9 DEF w, D, ps, N

\* All of them are gone in the end.
LEMMA DisconnectsType ==
  ASSUME NEW e \in EditStates, NEW qs \in Seq(Inputs(e.g)),
         NEW ps, ps = [n \in DOMAIN qs |-> <<Unset, qs[n]>>]
  PROVE  LET f == ConnectEdits(e, ps)
         IN  /\ f \in EditStates /\ Loosened(e.g, f.g)
             /\ \A n \in 1 .. Len(qs) : f.g.src[qs[n]] = Unset
  <1> DEFINE w == DisconnectRun(e, ps)
             N == Len(qs)
             T == {m \in Nat : m <= N => \A n \in 1 .. m : w[m].g.src[qs[n]] = Unset}
  <1>1. /\ w[0] = e
        /\ \A n \in 1 .. N : w[n] = ConnectEdit(w[n - 1], Unset, qs[n])
        /\ \A n \in 0 .. N : w[n] \in EditStates /\ Loosened(e.g, w[n].g)
        /\ Len(ps) = N
    BY DisconnectRuns
  <1>2. N \in Nat
    OBVIOUS
  <1> HIDE DEF w
  <1>3. 0 \in T
    OBVIOUS
  <1>4. ASSUME NEW m \in Nat, m \in T PROVE m + 1 \in T
    <2> SUFFICES ASSUME m + 1 <= N, NEW n \in 1 .. m + 1
                 PROVE  w[m + 1].g.src[qs[n]] = Unset
      OBVIOUS
    <2>1. /\ m \in 0 .. N /\ m + 1 \in 1 .. N /\ (m + 1) - 1 = m
          /\ qs[m + 1] \in Inputs(e.g) /\ qs[n] \in Inputs(e.g)
      BY <1>2
    <2>2. w[m + 1] = ConnectEdit(w[m], Unset, qs[m + 1])
      BY <1>1, <2>1
    <2>3. w[m] \in EditStates /\ Loosened(e.g, w[m].g)
      BY <1>1, <2>1
    <2>4. qs[m + 1] \in Inputs(w[m].g) /\ qs[n] \in Pins
      BY <2>1, <2>3, SamePins DEF Loosened, Inputs
    <2>5. Loosened(w[m].g, w[m + 1].g) /\ w[m + 1].g.src[qs[m + 1]] = Unset
      BY <2>2, <2>3, <2>4, ConnectEditType
    <2>6. n <= m => w[m].g.src[qs[n]] = Unset
      BY <1>4, <2>1
    <2>7. n <= m => w[m + 1].g.src[qs[n]] = Unset
      BY <2>4, <2>5, <2>6 DEF Loosened
    <2> QED
      BY <2>5, <2>7
  <1>5. N \in T
    <2> HIDE DEF T, N
    <2> QED
      BY <1>2, <1>3, <1>4, NatInd
  <1>6. ConnectEdits(e, ps) = w[N]
    BY <1>1, DisconnectUnfold DEF w
  <1>7. \A n \in 1 .. N : w[N].g.src[qs[n]] = Unset
    BY <1>2, <1>5
  <1>8. w[N] \in EditStates /\ Loosened(e.g, w[N].g)
    <2> HIDE DEF N
    <2>1. N \in 0 .. N
      BY <1>2
    <2> QED
      BY <1>1, <2>1, Zenon
  <1> QED
    BY <1>6, <1>7, <1>8

\* The gap a module leaves is closed, reader by reader, until one fails.
BridgeStep(f, o, r) ==
  IF f.bad THEN f
  ELSE [e |-> ConnectEdit(f.e, o, r), bad |-> ConnectFails(NoPreview(f.e.g), o, r)]
Bridging(x, o, rs, f) ==
  [n \in 0 .. Len(rs) |->
     IF n = 0 THEN x ELSE CHOOSE y \in {BridgeStep(v, o, rs[n]) : v \in {f[n - 1]}} : TRUE]
BridgeRun(x, o, rs) == CHOOSE f : f = Bridging(x, o, rs, f)

LEMMA BridgeUnfold ==
  ASSUME NEW e, NEW s
  PROVE  LET h  == NoPreview(e.g)
             n  == [e EXCEPT !.g = h]
             rs == PinSeq(Readers(h, <<s, 1>>))
             o  == h.src[<<s, 0>>]
         IN  \/ Bridge(e, s) = n
             \/ /\ o # Unset /\ In(h, s) = {<<s, 0>>} /\ Out(h, s) = {<<s, 1>>}
                /\ Bridge(e, s) = BridgeRun([e |-> ConnectEdit(n, Unset, <<s, 0>>), bad |-> FALSE],
                                            o, rs)[Len(rs)].e
  BY DEF Bridge, BridgeRun, Bridging, BridgeStep, Through, Once

LEMMA SameModsOn ==
  ASSUME NEW h, NEW k, NEW m, SameMods(h, k), SameMods(k, m)
  PROVE  SameMods(h, m)
  BY DEF SameMods

LEMMA BridgeRuns ==
  ASSUME NEW E, NEW e \in E, NEW o, NEW P, NEW rs \in Seq(P),
         \A q \in E : \A i \in P : ConnectEdit(q, o, i) \in E,
         NEW x, x = [e |-> e, bad |-> FALSE]
  PROVE  BridgeRun(x, o, rs)[Len(rs)].e \in E
  <1> DEFINE D == [e : E, bad : BOOLEAN]
             N == Len(rs)
             F == [n \in 1 .. N |-> [q \in D |-> BridgeStep(q, o, rs[n])]]
  <1>0. N \in Nat /\ x \in D
    OBVIOUS
  <1>1. \A q \in D : \A n \in 1 .. N : BridgeStep(q, o, rs[n]) \in D
    <2> TAKE q \in D
    <2> TAKE n \in 1 .. N
    <2> DEFINE f == ConnectEdit(q.e, o, rs[n])
               b == ConnectFails(NoPreview(q.e.g), o, rs[n])
    <2>1. q.e \in E /\ rs[n] \in P
      OBVIOUS
    <2>2. f \in E
      BY <2>1
    <2>3. b \in BOOLEAN
      BY DEF ConnectFails
    <2>4. BridgeStep(q, o, rs[n]) = q \/ BridgeStep(q, o, rs[n]) = [e |-> f, bad |-> b]
      BY DEF BridgeStep
    <2> HIDE DEF f, b
    <2> QED
      BY <2>2, <2>3, <2>4
  <1> HIDE DEF D
  <1>2. F \in Steps(D, N)
    BY <1>1 DEF Steps
  <1>3. PICK y : Stepped(y, D, x, N, F)
    <2> HIDE DEF F, N
    <2> QED
      BY <1>0, <1>2, StepsExist
  <1>4. \A q, n : (CHOOSE z \in {BridgeStep(v, o, rs[n]) : v \in {q}} : TRUE)
                    = BridgeStep(q, o, rs[n])
    OBVIOUS
  <1>5. y = Bridging(x, o, rs, y)
    <2>1. ASSUME NEW k \in 0 .. N PROVE y[k] = Bridging(x, o, rs, y)[k]
      <3>1. CASE k = 0
        BY <1>0, <1>3, <3>1 DEF Bridging, Stepped
      <3>2. CASE k # 0
        <4>1. k \in 1 .. N /\ y[k - 1] \in D /\ y[k] = F[k][y[k - 1]]
          <5> HIDE DEF F, N
          <5>1. k \in 1 .. N /\ k - 1 \in 0 .. N
            BY <1>0, <3>2
          <5>2. y \in [0 .. N -> D] /\ y[k] = IF k = 0 THEN x ELSE F[k][y[k - 1]]
            BY <1>3 DEF Stepped
          <5> QED
            BY <3>2, <5>1, <5>2
        <4>2. F[k] = [q \in D |-> BridgeStep(q, o, rs[k])]
          BY <4>1
        <4>3. y[k] = BridgeStep(y[k - 1], o, rs[k])
          <5> HIDE DEF F
          <5> QED
            BY <4>1, <4>2
        <4>4. y[k] = CHOOSE z \in {BridgeStep(v, o, rs[k]) : v \in {y[k - 1]}} : TRUE
          BY <1>4, <4>3
        <4> QED
          BY <3>2, <4>4 DEF Bridging
      <3> QED
        BY <3>1, <3>2
    <2>2. y \in [0 .. N -> D]
      BY <1>3 DEF Stepped
    <2> QED
      BY <2>1, <2>2 DEF Bridging
  <1> DEFINE w == BridgeRun(x, o, rs)
  <1>6. w = Bridging(x, o, rs, w)
    BY <1>5 DEF BridgeRun
  <1> HIDE DEF w
  <1>7. w[0] = x
    BY <1>0, <1>6 DEF Bridging
  <1>8. ASSUME NEW n \in 1 .. N PROVE w[n] = BridgeStep(w[n - 1], o, rs[n])
    <2>1. n \in 0 .. N /\ n # 0
      BY <1>0
    <2>2. w[n] = Bridging(x, o, rs, w)[n]
      BY <1>6
    <2>3. w[n] = CHOOSE z \in {BridgeStep(v, o, rs[n]) : v \in {w[n - 1]}} : TRUE
      BY <2>1, <2>2 DEF Bridging
    <2> QED
      BY <1>4, <2>3
  <1>9. \A n \in 0 .. N : w[n] \in D
    <2> HIDE DEF N
    <2> QED
      BY <1>0, <1>1, <1>7, <1>8, StepsStay
  <1>10. w[N] \in D
    BY <1>0, <1>9
  <1> QED
    BY <1>10 DEF w, D

LEMMA ReadersAreInputs ==
  ASSUME NEW h, Good(h), NEW o \in Pins
  PROVE  Readers(h, o) \in SUBSET Inputs(h)
  <1>1. NoDangling(h) /\ o # Unset
    BY UnsetIsNoPin DEF Good, Sound, Linking
  <1> QED
    BY <1>1 DEF NoDangling, Readers

\* What editing a connection keeps is kept when the gap is closed.
LEMMA BridgeStays ==
  ASSUME NEW e \in EditStates, NEW s \in Slots,
         NEW E \in SUBSET {f \in EditStates : SameMods(e.g, f.g)},
         [e EXCEPT !.g = NoPreview(e.g)] \in E,
         \A q \in E : \A o \in Outputs(q.g) \cup {Unset} : \A i \in Inputs(q.g) :
           ConnectEdit(q, o, i) \in E
  PROVE  Bridge(e, s) \in E
  <1> DEFINE h  == NoPreview(e.g)
             n  == [e EXCEPT !.g = h]
             i  == <<s, 0>>
             rs == PinSeq(Readers(h, <<s, 1>>))
             o  == h.src[i]
             d  == ConnectEdit(n, Unset, i)
             x  == [e |-> d, bad |-> FALSE]
  <1>1. Good(e.g) /\ Good(h) /\ SameMods(e.g, h)
    BY EditFields, NoPreviewGood DEF Loosened
  <1>2. n \in EditStates /\ n.g = h
    BY <1>1, EditGraph DEF EditStates
  <1>p. n \in E
    OBVIOUS
  <1>3. CASE Bridge(e, s) = n
    BY <1>3, <1>p
  <1>4. CASE /\ o # Unset /\ In(h, s) = {<<s, 0>>} /\ Out(h, s) = {<<s, 1>>}
             /\ Bridge(e, s) = BridgeRun(x, o, rs)[Len(rs)].e
    <2>1. i \in Pins /\ <<s, 1>> \in Pins
      <3>1. <<s, 1>> \in Out(h, s)
        BY <1>4
      <3>2. 1 \in Conns
        <4> HIDE DEF h
        <4> QED
          BY <3>1 DEF Out
      <3> QED
        BY <3>2, SizeType DEF Pins, Conns
    <2>2. i \in Inputs(h) /\ o \in Outputs(h)
      BY <1>1, <1>4, <2>1 DEF Good, Sound, Linking, NoDangling
    <2>3. rs \in Seq(Inputs(h))
      <3> DEFINE R == Readers(h, <<s, 1>>)
      <3>1. R \in SUBSET Inputs(h) /\ Inputs(h) \subseteq Pins
        BY <1>1, <2>1, ReadersAreInputs DEF Inputs
      <3> HIDE DEF R
      <3>2. PinSeq(R) \in Seq(R)
        BY <3>1, PinSeqType
      <3>3. PinSeq(R) \in Seq(Inputs(h))
        BY <3>1, <3>2
      <3> QED
        BY <3>3 DEF R
    <2> HIDE DEF h, i, o, rs, n
    <2>4. d \in E
      BY <1>2, <1>p, <2>2
    <2>5. \A q \in E : Outputs(q.g) = Outputs(h) /\ Inputs(q.g) = Inputs(h)
      BY <1>1, SamePins
    <2>6. \A q \in E : \A r \in Inputs(h) : ConnectEdit(q, o, r) \in E
      BY <2>2, <2>5
    <2> HIDE DEF d
    <2>7. BridgeRun(x, o, rs)[Len(rs)].e \in E
      BY <2>3, <2>4, <2>6, BridgeRuns
    <2> QED
      BY <1>4, <2>7 DEF i, o, n, rs, h, d
  <1> QED
    BY <1>3, <1>4, BridgeUnfold

LEMMA BridgeType ==
  ASSUME NEW e \in EditStates, NEW s \in Slots
  PROVE  Bridge(e, s) \in EditStates /\ SameMods(e.g, Bridge(e, s).g)
  <1> DEFINE E == {f \in EditStates : SameMods(e.g, f.g)}
             n == [e EXCEPT !.g = NoPreview(e.g)]
  <1>1. n \in E
    <2>1. Good(e.g) /\ Good(NoPreview(e.g)) /\ SameMods(e.g, NoPreview(e.g))
      BY EditFields, NoPreviewGood DEF Loosened
    <2>2. n \in EditStates /\ n.g = NoPreview(e.g)
      BY <2>1, EditGraph DEF EditStates
    <2> QED
      BY <2>1, <2>2
  <1>2. ASSUME NEW q \in E, NEW o \in Outputs(q.g) \cup {Unset}, NEW i \in Inputs(q.g)
        PROVE  ConnectEdit(q, o, i) \in E
    <2> DEFINE f == ConnectEdit(q, o, i)
    <2>1. q \in EditStates /\ SameMods(e.g, q.g)
      OBVIOUS
    <2>2. f \in EditStates /\ SameMods(q.g, f.g)
      BY <1>2, <2>1, ConnectEditType
    <2> HIDE DEF f
    <2>3. SameMods(e.g, f.g)
      BY <2>1, <2>2, SameModsOn
    <2> QED
      BY <2>2, <2>3 DEF f
  <1> HIDE DEF n
  <1>3. Bridge(e, s) \in E
    <2>1. E \in SUBSET {f \in EditStates : SameMods(e.g, f.g)}
      OBVIOUS
    <2>2. \A q \in E : \A o \in Outputs(q.g) \cup {Unset} : \A i \in Inputs(q.g) :
            ConnectEdit(q, o, i) \in E
      BY <1>2
    <2> HIDE DEF E
    <2> QED
      BY <1>1, <2>1, <2>2, BridgeStays DEF n
  <1> QED
    BY <1>3

\* A module is removed when nothing reads it any more.
LEMMA LoosePinsType ==
  ASSUME NEW h, Good(h), NEW t \in Live(h)
  PROVE  /\ LoosePins(h, t) \in Seq(Inputs(h))
         /\ \A p \in Pins : h.src[p] # Unset /\ t \in {p[1], h.src[p][1]} =>
              \E n \in 1 .. Len(LoosePins(h, t)) : LoosePins(h, t)[n] = p
  <1> DEFINE A == In(h, t)
             B == ReadersOf(h, t)
             a == PinSeq(A)
             b == PinSeq(B)
  <1>1. NoDangling(h) /\ t \in Slots
    BY DEF Good, Sound, Linking, Live, Used
  <1>2. A \in SUBSET Inputs(h)
    <2> SUFFICES ASSUME NEW p \in A PROVE p \in Inputs(h)
      OBVIOUS
    <2>1. PICK c \in Conns : p = <<t, c>> /\ IsIn(h, <<t, c>>)
      BY DEF In
    <2> QED
      BY <1>1, <2>1 DEF Inputs, Pins
  <1>3. B \in SUBSET Inputs(h)
    BY <1>1, SlotsType DEF ReadersOf, NoDangling, Unset
  <1>4. \A p \in Pins : h.src[p] # Unset /\ h.src[p][1] = t => p \in B
    BY DEF ReadersOf
  <1>i. ASSUME NEW p \in Pins, h.src[p] # Unset, p[1] = t PROVE p \in A
    <2>1. p \in Inputs(h) /\ p = <<t, p[2]>> /\ p[2] \in Conns
      BY <1>1, <1>i DEF NoDangling, Pins
    <2> QED
      BY <2>1 DEF In, Inputs
  <1>5. Inputs(h) \subseteq Pins
    BY DEF Inputs
  <1>6. LoosePins(h, t) = a \o b
    BY DEF LoosePins
  <1> HIDE DEF A, B
  <1>7. A \in SUBSET Pins /\ B \in SUBSET Pins
    BY <1>2, <1>3, <1>5
  <1>8. /\ a \in Seq(A) /\ b \in Seq(B)
        /\ \A p \in A : \E n \in 1 .. Len(a) : a[n] = p
        /\ \A p \in B : \E n \in 1 .. Len(b) : b[n] = p
    BY <1>7, PinSeqType
  <1> HIDE DEF a, b
  <1>9. a \in Seq(Inputs(h)) /\ b \in Seq(Inputs(h))
    BY <1>2, <1>3, <1>8
  <1>10. ASSUME NEW p \in Pins, h.src[p] # Unset, t \in {p[1], h.src[p][1]}
         PROVE  \E n \in 1 .. Len(a \o b) : (a \o b)[n] = p
    <2>1. CASE p[1] = t
      <3>1. PICK n \in 1 .. Len(a) : a[n] = p
        BY <1>8, <1>10, <1>i, <2>1
      <3>2. n \in 1 .. Len(a \o b) /\ (a \o b)[n] = a[n]
        BY <1>9
      <3> QED
        BY <3>1, <3>2
    <2>2. CASE h.src[p][1] = t
      <3>1. PICK n \in 1 .. Len(b) : b[n] = p
        BY <1>4, <1>8, <1>10, <2>2
      <3>2. Len(a) + n \in 1 .. Len(a \o b) /\ (a \o b)[Len(a) + n] = b[n]
        BY <1>9
      <3> QED
        BY <3>1, <3>2
    <2> QED
      BY <1>10, <2>1, <2>2
  <1> QED
    BY <1>6, <1>9, <1>10

\* The edit that is left when module k is gone
Gone(f, k, t) == [Forget(f, k) EXCEPT !.g = Removed(f.g, {t})]

LEMMA ForgetType ==
  ASSUME NEW e \in EditStates, NEW k
  PROVE  Forget(e, k) \in EditStates /\ Forget(e, k).g = e.g
  <1> DEFINE d(q) == IF q = e.cur THEN [e.snap[q] EXCEPT ![k] = <<>>] ELSE e.snap[q]
             v == [q \in DOMAIN e.snap |-> d(q)]
  <1>1. e.snap \in Seq(Views) /\ e.hist \in Seq(Lines) /\ Len(e.snap) = Len(e.hist)
        /\ e.cur \in 0 .. Len(e.hist)
    BY EditFields
  <1>2. DOMAIN e.snap = 1 .. Len(e.snap) /\ \A q \in DOMAIN e.snap : e.snap[q] \in Views
    BY <1>1
  <1>3. \A w \in Views : [w EXCEPT ![k] = <<>>] \in Views
    BY DEF Views
  <1>4. \A q \in DOMAIN e.snap : d(q) \in Views
    BY <1>2, <1>3
  <1>5. Forget(e, k) = [e EXCEPT !.snap = v]
    BY DEF Forget
  <1> HIDE DEF d
  <1>6. v \in Seq(Views) /\ Len(v) = Len(e.hist)
    BY <1>1, <1>2, <1>4
  <1> HIDE DEF v
  <1>7. Forget(e, k) = Rewritten(e, e.hist, e.cur, v)
    BY <1>5 DEF Rewritten, EditStates
  <1>8. Rewritten(e, e.hist, e.cur, v) \in EditStates
    BY <1>1, <1>6, EditHistory
  <1>9. Forget(e, k).g = e.g
    BY <1>5 DEF EditStates
  <1> QED
    BY <1>7, <1>8, <1>9

LEMMA GoneType ==
  ASSUME NEW e \in EditStates, NEW k, NEW t \in Slots,
         \A p \in Pins : e.g.src[p] # Unset => e.g.src[p][1] # t
  PROVE  Gone(e, k, t) \in EditStates
  <1>1. Good(e.g)
    BY EditFields
  <1>2. Good(Removed(e.g, {t}))
    BY <1>1, RemovedGood
  <1>3. Forget(e, k) \in EditStates
    BY ForgetType, Zenon
  <1> QED
    BY <1>2, <1>3, EditGraph DEF Gone

\* What the removal of a module makes of an edit
Freed(e, s, k) ==
  LET b == Bridge(e, s)
  IN  ConnectEdits(b, Mapped(LAMBDA p : <<Unset, p>>, LoosePins(b.g, Get(b.g, k))))
Removal(e, s, k) == Gone(Freed(e, s, k), k, Get(Bridge(e, s).g, k))

\* In the end the module is connected with nothing.
LEMMA FreedIs ==
  ASSUME NEW e \in EditStates, NEW s \in Live(e.g), NEW k, k = e.g.mod[s]
  PROVE  LET b == Bridge(e, s)
             t == Get(b.g, k)
             f == Freed(e, s, k)
             qs == LoosePins(b.g, t)
         IN  /\ b \in EditStates /\ qs \in Seq(Inputs(b.g))
             /\ f = ConnectEdits(b, [n \in DOMAIN qs |-> <<Unset, qs[n]>>])
             /\ f \in EditStates /\ t \in Live(f.g) /\ t \in Slots /\ f.g.mod[t] = k
             /\ \A p \in Pins : f.g.src[p] # Unset => t \notin {p[1], f.g.src[p][1]}
  <1> DEFINE b == Bridge(e, s)
             t == Get(b.g, k)
             qs == LoosePins(b.g, t)
             ps == [n \in DOMAIN qs |-> <<Unset, qs[n]>>]
             f == ConnectEdits(b, ps)
  <1>1. s \in Slots /\ e.g \in Graph
    BY EditFields DEF Live, Used
  <1>2. b \in EditStates /\ SameMods(e.g, b.g)
    BY <1>1, BridgeType
  <1>3. t \in Live(b.g) /\ b.g.mod[t] = k
    <2>1. Get(e.g, k) \in Live(e.g)
      BY <1>1, GetLive
    <2>2. Get(e.g, k) # -1
      BY <2>1, SlotsType DEF Live, Used
    <2>3. e.g.mod[Get(e.g, k)] = k
      BY <2>2, GetIs
    <2> QED
      BY <1>2, <2>1, <2>3, SamePins DEF SameMods
  <1>4. Freed(e, s, k) = f
    BY DEF Freed, Mapped
  <1> HIDE DEF b
  <1>5. Good(b.g) /\ t \in Slots
    BY <1>2, <1>3, EditFields DEF Live, Used
  <1>6. /\ qs \in Seq(Inputs(b.g))
        /\ \A p \in Pins : b.g.src[p] # Unset /\ t \in {p[1], b.g.src[p][1]} =>
             \E n \in 1 .. Len(qs) : qs[n] = p
    BY <1>3, <1>5, LoosePinsType
  <1>p. ps = [n \in DOMAIN qs |-> <<Unset, qs[n]>>]
    OBVIOUS
  <1> HIDE DEF t, qs, ps
  <1>7. /\ f \in EditStates /\ Loosened(b.g, f.g)
        /\ \A n \in 1 .. Len(qs) : f.g.src[qs[n]] = Unset
    BY <1>2, <1>6, <1>p, DisconnectsType
  <1>f. f = ConnectEdits(b, [n \in DOMAIN qs |-> <<Unset, qs[n]>>])
    BY <1>p
  <1> HIDE DEF f
  <1>8. ASSUME NEW p \in Pins, f.g.src[p] # Unset PROVE t \notin {p[1], f.g.src[p][1]}
    <2>1. f.g.src[p] = b.g.src[p]
      BY <1>7, <1>8 DEF Loosened
    <2> QED
      BY <1>6, <1>7, <1>8, <2>1
  <1>9. t \in Live(f.g) /\ f.g.mod[t] = k
    BY <1>3, <1>7, SamePins DEF Loosened, SameMods
  <1> QED
    BY <1>2, <1>4, <1>5, <1>6, <1>7, <1>8, <1>9, <1>f, Zenon DEF t, qs, b

LEMMA RemovalType ==
  ASSUME NEW e \in EditStates, NEW s \in Live(e.g), NEW k, k = e.g.mod[s]
  PROVE  Removal(e, s, k) \in EditStates
  <1> DEFINE t == Get(Bridge(e, s).g, k)
             f == Freed(e, s, k)
  <1>1. /\ f \in EditStates /\ t \in Slots
        /\ \A p \in Pins : f.g.src[p] # Unset => t \notin {p[1], f.g.src[p][1]}
    BY FreedIs
  <1>2. Removal(e, s, k) = Gone(f, k, t)
    BY DEF Removal
  <1> HIDE DEF f, t
  <1> QED
    BY <1>1, <1>2, GoneType

\* The module that is added is there, and all that was there before.
LEMMA AddedKeeps ==
  ASSUME KnownClasses, NEW h, Good(h), NEW m \in Keys, AddId(h, m) # -1
  PROVE  /\ AddId(h, m) \in Live(Added(h, m)) /\ Added(h, m).mod[AddId(h, m)] = m
         /\ Outputs(h) \subseteq Outputs(Added(h, m))
  <1> DEFINE s == AddSlot(h, m)
             hits == {x \in Used(h) : h.mod[x] \in {m, NoKey}}
             k == Fresh(h, s, m)
  <1>1. ~Unknown(m) /\ m # NoKey /\ h \in Graph /\ h.num \in 0 .. NumSlots
    BY GraphAssumption DEF KnownClasses, Good, Sound, Linking, Graph
  <1>2. AddId(h, m) = s
    BY DEF AddId
  <1>3. s = h.num \/ (s \in Used(h) /\ h.mod[s] \in {m, NoKey})
    <2>1. CASE hits = {}
      BY <2>1 DEF AddSlot
    <2>2. CASE hits # {}
      <3>1. hits \in SUBSET Slots /\ s = Least(hits)
        BY <2>2 DEF AddSlot, Used
      <3>2. PICK n \in hits : \A t \in hits : n <= t
        BY <2>2, <3>1, LeastOf
      <3>3. Least(hits) \in hits
        BY <3>2 DEF Least
      <3> QED
        BY <3>1, <3>3
    <2> QED
      BY <2>1, <2>2
  <1>4. CASE Exists(h, m)
    <2>1. Added(h, m) = h
      BY <1>4 DEF Added
    <2>2. s \in Used(h) /\ h.mod[s] = m
      <3>1. s < h.num /\ h.mod[s] = m
        BY <1>4 DEF Exists
      <3> QED
        BY <1>1, <1>3, <3>1
    <2> QED
      BY <1>1, <1>2, <2>1, <2>2 DEF Live
  <1>5. CASE ~Exists(h, m)
    <2>1. ~Full(h, m) /\ Added(h, m) = k
      BY <1>1, <1>5 DEF Added, AddId
    <2>2. s \in Slots /\ (s = h.num \/ (s \in Used(h) /\ h.mod[s] = NoKey))
      <3>1. s = h.num => s \in Slots
        BY <1>1, <2>1, SizeType DEF Full, Slots
      <3>2. s \in Used(h) => s \in Slots /\ s < h.num
        BY DEF Used
      <3> QED
        BY <1>3, <1>5, <3>1, <3>2 DEF Exists
    <2> HIDE DEF s
    <2>3. /\ k.num = IF s = h.num THEN s + 1 ELSE h.num
          /\ k.mod = [h.mod EXCEPT ![s] = m]
      BY <1>1 DEF Fresh, Graph
    <2> HIDE DEF k
    <2>4. k.mod[s] = m /\ \A t \in Slots \ {s} : k.mod[t] = h.mod[t]
      BY <1>1, <2>2, <2>3 DEF Graph
    <2>5. s \in Live(k)
      BY <1>1, <2>2, <2>3, <2>4, SlotsType DEF Live, Used
    <2>6. ASSUME NEW o \in Outputs(h) PROVE o \in Outputs(k)
      <3>1. o \in Pins /\ o[1] \in Slots /\ o[1] \in Live(h) /\ IsOut(h, o)
        BY DEF Outputs, Pins
      <3>2. o[1] # s
        BY <2>2, <3>1, SlotsType DEF Live, Used
      <3>3. k.mod[o[1]] = h.mod[o[1]]
        BY <2>4, <3>1, <3>2
      <3>4. o[1] \in Live(k)
        <4> DEFINE t == o[1]
        <4>1. t \in Slots /\ t \in Nat /\ t < h.num /\ h.mod[t] # NoKey
          BY <3>1, SlotsType DEF Live, Used
        <4>2. s = h.num => s \in Nat
          BY <1>1
        <4> HIDE DEF t
        <4>3. t < k.num
          BY <1>1, <2>3, <4>1, <4>2
        <4> QED
          BY <3>3, <4>1, <4>3 DEF Live, Used, t
      <3> QED
        BY <3>1, <3>3, <3>4 DEF Outputs, IsOut, PinClass
    <2> QED
      BY <1>2, <2>1, <2>4, <2>5, <2>6
  <1> QED
    BY <1>4, <1>5

LEMMA BlankGood ==
  ASSUME NEW h, Good(h)
  PROVE  Good(Blank(h))
  <1> DEFINE u == Unlink(h, Pins)
             v == [s \in Slots |-> IF s \in Live(h) THEN Default ELSE h.par[s]]
  <1>1. Good(u)
    BY UnlinkGood
  <1>2. h.par \in [Slots -> Params]
    BY DEF Good, Sound, Linking, Graph
  <1>3. v \in [Slots -> Params]
    BY <1>2, GraphAssumption
  <1>p. \A s \in Live(u) : v[s] = Default
    <2>1. u.num = h.num /\ u.mod = h.mod
      BY UnlinkFields DEF Good, Sound, Linking
    <2>2. Live(u) = Live(h)
      BY <2>1, SameModules
    <2> QED
      BY <2>2 DEF Live, Used
  <1> HIDE DEF u, v
  <1>4. Good([u EXCEPT !.par = v])
    BY <1>1, <1>3, <1>p, ParGood
  <1> QED
    BY <1>4 DEF Blank, u, v

\* The state of the graph and its history
HSound == State \in EditStates /\ edits \in 0 .. MaxEdits

LEMMA StateFields ==
  ASSUME State \in EditStates
  PROVE  /\ Good(g) /\ g \in Graph /\ hist \in Seq(Lines) /\ snap \in Seq(Views)
         /\ cur \in 0 .. Len(hist) /\ Len(snap) = Len(hist) /\ vague \in BOOLEAN
  <1>1. /\ State.g = g /\ State.hist = hist /\ State.cur = cur /\ State.snap = snap
        /\ State.vague = vague
    BY DEF State
  <1> QED
    BY <1>1, EditFields

LEMMA StateMade ==
  ASSUME NEW h, Good(h), NEW a \in Seq(Lines), NEW v \in Seq(Views), NEW n \in 0 .. Len(a),
         Len(v) = Len(a), NEW b \in BOOLEAN
  PROVE  [g |-> h, hist |-> a, cur |-> n, snap |-> v, vague |-> b] \in EditStates
  <1> DEFINE e == [g |-> h, hist |-> a, cur |-> n, snap |-> v, vague |-> b]
  <1>1. h \in GoodGraphs
    BY DEF GoodGraphs, Good, Sound, Linking
  <1>2. n \in Nat /\ n <= Len(a)
    OBVIOUS
  <1>3. e \in [g : GoodGraphs, hist : Seq(Lines), cur : Nat, snap : Seq(Views), vague : BOOLEAN]
    BY <1>1, <1>2
  <1>4. e.hist = a /\ e.cur = n /\ e.snap = v
    OBVIOUS
  <1> HIDE DEF e
  <1>5. e \in EditStates
    BY <1>2, <1>3, <1>4 DEF EditStates
  <1> QED
    BY <1>5 DEF e

LEMMA IsType ==
  ASSUME NEW e \in EditStates, Is(e)
  PROVE  State' \in EditStates
  <1>1. g' = e.g /\ hist' = e.hist /\ cur' = e.cur /\ snap' = e.snap /\ vague' = e.vague
    BY DEF Is
  <1>2. State' = [g |-> e.g, hist |-> e.hist, cur |-> e.cur, snap |-> e.snap, vague |-> e.vague]
    BY <1>1 DEF State
  <1>3. e = [g |-> e.g, hist |-> e.hist, cur |-> e.cur, snap |-> e.snap, vague |-> e.vague]
    BY DEF EditStates
  <1> QED
    BY <1>2, <1>3

\* Every edit leaves a sound graph and a history of lines behind.
LEMMA AddEditType ==
  ASSUME KnownClasses, Numbers, State \in EditStates, NEW k \in Keys, AddEdit(k)
  PROVE  State' \in EditStates
  <1> DEFINE h == Added(g, k)
             b == State.vague \/ ~Unique(h)
             n == [State EXCEPT !.g = h, !.vague = b]
             s == AddId(g, k)
  <1>1. Good(g) /\ State.vague \in BOOLEAN
    BY StateFields, EditFields
  <1>2. Good(h) /\ b \in BOOLEAN
    BY <1>1, AddedGood
  <1> HIDE DEF h, b
  <1>3. n \in EditStates /\ n.g = h
    BY <1>2, EditGraph DEF EditStates
  <1>4. Is(IF s = -1 THEN n ELSE Record(n, ModuleLine(n.g, s)))
    BY DEF AddEdit, h, b, State
  <1> HIDE DEF n
  <1>5. CASE s = -1
    BY <1>3, <1>4, <1>5, IsType
  <1>6. CASE s # -1
    <2>1. s \in Live(h) /\ h \in Graph
      BY <1>1, <1>2, <1>6, AddedKeeps DEF h, Good, Sound, Linking
    <2> HIDE DEF s
    <2>2. ModuleLine(h, s) \in Lines
      BY <2>1, SlotLineType
    <2>3. Record(n, ModuleLine(n.g, s)) \in EditStates
      BY <1>3, <2>2, RecordType
    <2> QED
      BY <1>4, <1>6, <2>3, IsType DEF s
  <1> QED
    BY <1>5, <1>6

LEMMA ConnectingType ==
  ASSUME State \in EditStates, NEW o, NEW i, Connecting(o, i)
  PROVE  State' \in EditStates
  <1>1. State.g = g
    BY DEF State
  <1>2. o \in Outputs(State.g) \cup {Unset} /\ i \in Inputs(State.g) /\ Is(ConnectEdit(State, o, i))
    BY <1>1 DEF Connecting
  <1>3. ConnectEdit(State, o, i) \in EditStates
    BY <1>2, ConnectEditType
  <1> QED
    BY <1>2, <1>3, IsType

LEMMA FeedbackEditType ==
  ASSUME State \in EditStates, NEW o, NEW i, FeedbackEdit(o, i)
  PROVE  State' \in EditStates
  <1> DEFINE h == Feedback(g, o, i)
             b == State.vague \/ Bound(g)
             n == [State EXCEPT !.g = h, !.vague = b]
  <1>1. Good(g) /\ o \in Outputs(g) /\ i \in Inputs(g)
    BY StateFields DEF FeedbackEdit
  <1>b. b \in BOOLEAN
    BY EditFields DEF Bound
  <1>2. Good(h)
    BY <1>1, FeedbackGood
  <1>3. i \in Inputs(h)
    <2>1. Rewired(g, o, i, ConnectInternal(g, o, i)) /\ g \in Graph
      BY <1>1, ConnectInternalLinking DEF Good, Sound, Linking
    <2>2. h.num = g.num /\ h.mod = g.mod
      BY <2>1 DEF Feedback, Rewired, Graph
    <2> QED
      BY <1>1, <2>2, SameModules
  <1>4. Is(IF InternalFails(g, o, i) THEN [n EXCEPT !.vague = TRUE]
           ELSE Record(n, ConnLine(n.g, i)))
    BY DEF FeedbackEdit, State
  <1> HIDE DEF h, b
  <1>5. n \in EditStates /\ n.g = h
    BY <1>2, <1>b, EditGraph DEF EditStates
  <1> HIDE DEF n
  <1>6. [n EXCEPT !.vague = TRUE] \in EditStates
    BY <1>5, <1>2, EditGraph
  <1>7. ConnLine(h, i) \in Lines
    BY <1>2, <1>3, ConnLineType
  <1>8. Record(n, ConnLine(n.g, i)) \in EditStates
    BY <1>5, <1>7, RecordType
  <1> QED
    BY <1>4, <1>6, <1>8, IsType

LEMMA RemoveEditType ==
  ASSUME State \in EditStates, NEW s, RemoveEdit(s)
  PROVE  State' \in EditStates
  <1>1. State.g = g
    BY DEF State
  <1>2. s \in Live(State.g)
    BY <1>1 DEF RemoveEdit
  <1>3. Is(Removal(State, s, g.mod[s]))
    BY DEF RemoveEdit, Removal, Freed, Gone, Once
  <1>4. Removal(State, s, g.mod[s]) \in EditStates
    BY <1>1, <1>2, RemovalType
  <1> QED
    BY <1>3, <1>4, IsType

LEMMA ParamEditType ==
  ASSUME Numbers, State \in EditStates, NEW s, NEW v \in UserValues, NEW recent \in BOOLEAN,
         ParamEdit(s, v, recent)
  PROVE  State' \in EditStates
  <1> DEFINE p == [g.par EXCEPT ![s] = v]
             h == [g EXCEPT !.par = p]
             n == [State EXCEPT !.g = h]
  <1>1. Good(g) /\ g \in Graph /\ s \in Live(g) /\ v \in Params
    BY StateFields, HistoryAssumption DEF ParamEdit
  <1>2. p \in [Slots -> Params]
    BY <1>1 DEF Graph
  <1>3. [State EXCEPT !.g.par = p] = n
    BY DEF State
  <1>4. Is(RecordParam(n, ParamLine(n.g, s), recent))
    BY <1>3 DEF ParamEdit
  <1>p. \A t \in Live(g) : g.mod[t] \notin WithParam => p[t] = Default
    <2>1. g.mod[s] \in WithParam /\ Live(g) \subseteq Slots
      BY DEF ParamEdit, Live, Used
    <2>2. \A t \in Slots \ {s} : p[t] = g.par[t]
      BY <1>1 DEF Graph
    <2> QED
      BY <1>1, <2>1, <2>2 DEF Good, Kept
  <1> HIDE DEF p
  <1>5. Good(h)
    BY <1>1, <1>2, <1>p, ParGood
  <1>q. h.mod = g.mod /\ h.num = g.num /\ h \in Graph
    BY <1>1, <1>5 DEF Graph, Good, Sound, Linking
  <1> HIDE DEF h
  <1>6. n \in EditStates /\ n.g = h
    BY <1>5, EditGraph DEF EditStates
  <1> HIDE DEF n
  <1>7. s \in Live(h)
    BY <1>1, <1>q, SameModules
  <1>8. ParamLine(h, s) \in Lines
    BY <1>q, <1>7, SlotLineType
  <1>9. RecordParam(n, ParamLine(n.g, s), recent) \in EditStates
    BY <1>6, <1>8, RecordParamType
  <1> QED
    BY <1>4, <1>9, IsType

LEMMA LineEditType ==
  ASSUME KnownClasses, Numbers, State \in EditStates, NEW s, LineEdit(s)
  PROVE  State' \in EditStates
  <1> DEFINE l == Line("paraminc", g.mod[s], 0, Nowhere, 1)
             h == ReadLine(g, l)
             n == [State EXCEPT !.g = h]
  <1>1. Good(g) /\ g \in Graph /\ s \in Live(g)
    BY StateFields DEF LineEdit
  <1>2. g.mod[s] \in Keys /\ 0 \in Conns
    BY <1>1, SizeType DEF Graph, Live, Used, Conns
  <1>3. l \in Lines
    BY <1>2 DEF Line, Lines
  <1>4. Is(Record(n, l))
    BY DEF LineEdit
  <1> HIDE DEF l
  <1>5. Good(h)
    BY <1>1, <1>3, ReadLineGood
  <1> HIDE DEF h
  <1>6. n \in EditStates
    BY <1>5, EditGraph
  <1> HIDE DEF n
  <1>7. Record(n, l) \in EditStates
    BY <1>3, <1>6, RecordType
  <1> QED
    BY <1>4, <1>7, IsType

LEMMA ActivateType ==
  ASSUME KnownClasses, State \in EditStates, NEW o, Activate(o)
  PROVE  State' \in EditStates
  <1> DEFINE h == Added(g, Preview)
             s == AddId(g, Preview)
             i == <<s, 0>>
  <1>1. /\ Good(g) /\ hist \in Seq(Lines) /\ snap \in Seq(Views)
        /\ cur \in 0 .. Len(hist) /\ Len(snap) = Len(hist) /\ vague \in BOOLEAN
    BY StateFields
  <1>2. /\ o \in Outputs(g) /\ s # -1 /\ g' = Connect(h, o, i)
        /\ hist' = hist /\ cur' = cur /\ snap' = snap /\ vague' = (vague \/ Unclear(g'))
    BY DEF Activate
  <1>3. Preview \in Keys /\ Class[Preview][0].io = "in" /\ 0 \in Conns
    BY HistoryAssumption, SizeType DEF Activate, Conns
  <1>4. Good(h)
    BY <1>1, <1>3, AddedGood
  <1>5. s \in Live(h) /\ h.mod[s] = Preview /\ o \in Outputs(h)
    BY <1>1, <1>2, <1>3, AddedKeeps
  <1> HIDE DEF h, s
  <1>6. i \in Inputs(h)
    <2>1. s \in Slots /\ h.mod[s] # NoKey
      BY <1>5 DEF Live, Used
    <2> QED
      BY <1>3, <1>5, <2>1 DEF Inputs, IsIn, PinClass, Pins
  <1> HIDE DEF i
  <1>7. Good(g')
    BY <1>2, <1>4, <1>5, <1>6, ConnectGood
  <1>8. Good(g)' /\ (hist \in Seq(Lines))' /\ (snap \in Seq(Views))' /\ (cur \in 0 .. Len(hist))'
        /\ (Len(snap) = Len(hist))' /\ (vague \in BOOLEAN)'
    BY <1>1, <1>2, <1>7 DEF Unclear, Stained, Unique
  <1> QED
    BY <1>8, StateMade DEF State

LEMMA SetType ==
  ASSUME KnownClasses, Numbers, State \in EditStates, NEW item, Set(item)
  PROVE  State' \in EditStates
  <1>1. /\ Good(g) /\ hist \in Seq(Lines) /\ snap \in Seq(Views)
        /\ cur \in 0 .. Len(hist) /\ Len(snap) = Len(hist)
    BY StateFields
  <1>2. /\ item \in 0 .. Len(hist) - 1 /\ cur' = item + 1 /\ hist' = hist /\ snap' = snap
        /\ g' = ReadLines(Blank(g), SubSeq(hist, 1, item + 1))
        /\ vague' = \/ Unclear(g) \/ Unclear(g')
                    \/ \E n \in 1 .. cur' : hist[n].cmd = "module" /\ Get(g', hist[n].mod) = -1
    BY DEF Set
  <1>3. Good(Blank(g))
    BY <1>1, BlankGood
  <1>4. SubSeq(hist, 1, item + 1) \in Seq(Lines) /\ item + 1 \in 0 .. Len(hist)
    BY <1>1, <1>2
  <1>5. Good(g')
    BY <1>2, <1>3, <1>4, ReadLinesGood
  <1>6. vague' \in BOOLEAN
    BY <1>2 DEF Unclear, Stained, Unique
  <1>7. (hist \in Seq(Lines))' /\ (snap \in Seq(Views))' /\ (cur \in 0 .. Len(hist))'
        /\ (Len(snap) = Len(hist))'
    BY <1>1, <1>2, <1>4
  <1> QED
    BY <1>5, <1>6, <1>7, StateMade DEF State

\* The graph written out is a history that ends with it.
LEMMA HistoryLinesType ==
  ASSUME Numbers, NEW h, Good(h)
  PROVE  /\ HistoryLines(h) \in Seq(Lines) /\ ConfigLines(h) \in Seq(Lines)
         /\ Len(HistoryLines(h)) \in 0 .. Len(HistoryLines(h))
  <1>1. {p \in Inputs(h) : h.src[p] # Unset} \in SUBSET Inputs(h) /\ Inputs(h) \in SUBSET Inputs(h)
    OBVIOUS
  <1>2. Flat(h, Inputs(h)) \in Seq(Lines)
    BY <1>1, FlatType
  <1>3. Flat(h, {p \in Inputs(h) : h.src[p] # Unset}) \in Seq(Lines)
    BY <1>1, FlatType
  <1> QED
    BY <1>2, <1>3 DEF HistoryLines, ConfigLines

LEMMA ReenterType ==
  ASSUME KnownClasses, Numbers, State \in EditStates, Reenter
  PROVE  State' \in EditStates
  <1> DEFINE h == ReadLines(Empty, ConfigLines(g))
             ls == HistoryLines(h)
             b == Unclear(h) \/ ~OrderFree(h)
             e == [g |-> h, hist |-> ls, cur |-> Len(ls), snap |-> <<>>, vague |-> b]
             d(n) == IF n < Len(ls) THEN Nothing ELSE Claim(e)
  <1>1. Good(g)
    BY StateFields
  <1>2. Good(h)
    BY <1>1, EmptyGood, HistoryLinesType, ReadLinesGood
  <1>3. /\ g' = h /\ hist' = ls /\ cur' = Len(ls) /\ vague' = b
        /\ snap' = [n \in DOMAIN ls |-> d(n)]
    BY DEF Reenter, FreshHistory
  <1>b. b \in BOOLEAN
    BY DEF Unclear, Stained, Unique, OrderFree
  <1> HIDE DEF h, b
  <1>4. ls \in Seq(Lines) /\ Len(ls) \in 0 .. Len(ls)
    BY <1>2, HistoryLinesType
  <1>c. Claim(e) \in Views
    <2>1. View(e.g) \in Views
      BY <1>2, ViewType
    <2> HIDE DEF e
    <2> QED
      BY <2>1, ClaimType
  <1>5. \A n \in DOMAIN ls : d(n) \in Views
    BY <1>c, NothingType
  <1> HIDE DEF d, ls
  <1>6. snap' \in Seq(Views) /\ Len(snap') = Len(ls)
    BY <1>3, <1>4, <1>5
  <1>7. Good(g)' /\ (hist \in Seq(Lines))' /\ (snap \in Seq(Views))' /\ (cur \in 0 .. Len(hist))'
        /\ (Len(snap) = Len(hist))' /\ (vague \in BOOLEAN)'
    BY <1>2, <1>3, <1>4, <1>6, <1>b
  <1> QED
    BY <1>7, StateMade DEF State

LEMMA HInitType ==
  ASSUME KnownClasses, Numbers, HInit
  PROVE  HSound
  <1>1. PICK file \in Configs :
          LET h  == ReadLines(Empty, file)
              ls == HistoryLines(h)
          IN  /\ g = h /\ hist = ls /\ cur = Len(ls) /\ snap = [n \in DOMAIN ls |-> Nothing]
              /\ vague = (Unclear(h) \/ ~OrderFree(h)) /\ edits = 0
    BY DEF HInit
  <1> DEFINE h == ReadLines(Empty, file)
             ls == HistoryLines(h)
  <1>2. file \in Seq(Lines) /\ MaxEdits \in Nat
    BY HistoryAssumption
  <1>3. Good(h)
    BY <1>2, EmptyGood, ReadLinesGood
  <1>4. /\ g = h /\ hist = ls /\ cur = Len(ls) /\ snap = [n \in DOMAIN ls |-> Nothing]
        /\ vague = (Unclear(h) \/ ~OrderFree(h)) /\ edits = 0
    BY <1>1
  <1>b. vague \in BOOLEAN
    BY <1>4 DEF Unclear, Stained, Unique, OrderFree
  <1> HIDE DEF h
  <1>5. ls \in Seq(Lines) /\ Len(ls) \in 0 .. Len(ls)
    BY <1>3, HistoryLinesType
  <1> HIDE DEF ls
  <1>6. snap \in Seq(Views) /\ Len(snap) = Len(ls)
    BY <1>4, <1>5, NothingType
  <1>7. State \in EditStates
    BY <1>3, <1>4, <1>5, <1>6, <1>b, StateMade DEF State
  <1> QED
    BY <1>2, <1>4, <1>7 DEF HSound

LEMMA HStepSound ==
  ASSUME KnownClasses, Numbers, HSound, [HNext]_hvars
  PROVE  HSound'
  <1>0. State \in EditStates /\ edits \in 0 .. MaxEdits /\ MaxEdits \in Nat
    BY HistoryAssumption DEF HSound
  <1>1. ASSUME Edit PROVE State' \in EditStates
    <2>1. ASSUME NEW k \in Keys \ {Preview}, AddEdit(k) PROVE State' \in EditStates
      BY <1>0, <2>1, AddEditType
    <2>2. ASSUME NEW o \in Pins \cup {Unset}, NEW i \in Pins, Connecting(o, i)
          PROVE  State' \in EditStates
      BY <1>0, <2>2, ConnectingType
    <2>3. ASSUME NEW o \in Pins, NEW i \in Pins, FeedbackEdit(o, i) PROVE State' \in EditStates
      BY <1>0, <2>3, FeedbackEditType
    <2>4. ASSUME NEW s \in Slots, RemoveEdit(s) PROVE State' \in EditStates
      BY <1>0, <2>4, RemoveEditType
    <2>5. ASSUME NEW s \in Slots, NEW v \in UserValues, NEW recent \in BOOLEAN,
                 ParamEdit(s, v, recent)
          PROVE  State' \in EditStates
      BY <1>0, <2>5, ParamEditType
    <2>6. ASSUME NEW s \in Slots, LineEdit(s) PROVE State' \in EditStates
      BY <1>0, <2>6, LineEditType
    <2>7. ASSUME NEW o \in Pins, Activate(o) PROVE State' \in EditStates
      BY <1>0, <2>7, ActivateType
    <2> QED
      BY <1>1, <2>1, <2>2, <2>3, <2>4, <2>5, <2>6, <2>7 DEF Edit
  <1>2. CASE edits < MaxEdits /\ edits' = edits + 1 /\ Edit
    <2>1. edits' \in 0 .. MaxEdits
      BY <1>0, <1>2
    <2> QED
      BY <1>1, <1>2, <2>1 DEF HSound
  <1>3. CASE UNCHANGED edits /\ (Reenter \/ \E n \in Oldest .. ItemMax : Set(n))
    <2>1. State' \in EditStates
      BY <1>0, <1>3, ReenterType, SetType
    <2> QED
      BY <1>0, <1>3, <2>1 DEF HSound
  <1>4. CASE UNCHANGED hvars
    <2>1. State' = State /\ edits' = edits
      BY <1>4 DEF hvars, State
    <2> QED
      BY <1>0, <2>1 DEF HSound
  <1> QED
    BY <1>2, <1>3, <1>4 DEF HNext

\* Edits, going back and forth, and leaving and entering the darkroom keep the
\* history a list of lines that can be read back, with one snapshot for each.
THEOREM HistoryInv ==
  ASSUME KnownClasses, Numbers
  PROVE  HSpec => []HSound
  <1>1. HInit => HSound
    BY HInitType
  <1>2. HSound /\ [HNext]_hvars => HSound'
    BY HStepSound
  <1> QED
    BY <1>1, <1>2, PTL DEF HSpec

\* The numbers of the history stay in range.
THEOREM HistoryTypeOK ==
  ASSUME KnownClasses, Numbers
  PROVE  HSpec => []HTypeOK
  <1>1. HSound => HTypeOK
    BY StateFields DEF HSound, HTypeOK
  <1> QED
    BY <1>1, HistoryInv, PTL

\* Whatever a history brings back, and in whatever order its lines are read on
\* the modules that are there now: no input reads a module that is gone, the
\* readers are counted, the modules can be ordered and the formats agree.
THEOREM HistoryGraphs ==
  ASSUME KnownClasses, Numbers
  PROVE  HSpec => [](Dangling /\ References /\ Order /\ Formats)
  <1>1. HSound => Dangling /\ References /\ Order /\ Formats
    <2>1. HSound => Good(g)
      BY StateFields DEF HSound
    <2> QED
      BY <2>1 DEF Good, Sound, Linking, Dangling, References, Order, Formats
  <1> QED
    BY <1>1, HistoryInv, PTL

-----------------------------------------------------------------------------
(* Writing a graph and reading it back *)

\* Slots are picked in ascending order, each once.
Ascending(q, n) ==
  \A k \in 1 .. Len(q) : q[k] < n /\ \A l \in 1 .. Len(q) : k < l => q[k] < q[l]

LEMMA AscendingAppend ==
  ASSUME NEW q \in Seq(Nat), NEW n \in Nat, Ascending(q, n)
  PROVE  Ascending(Append(q, n), n + 1) /\ Ascending(q, n + 1)
  <1>1. \A k \in 1 .. Len(q) : q[k] \in Nat
    OBVIOUS
  <1>2. Ascending(q, n + 1)
    BY <1>1 DEF Ascending
  <1> DEFINE r == Append(q, n)
  <1>3. Len(r) = Len(q) + 1 /\ r[Len(q) + 1] = n /\ \A k \in 1 .. Len(q) : r[k] = q[k]
    OBVIOUS
  <1>4. Len(q) \in Nat
    OBVIOUS
  <1> HIDE DEF r
  <1>5. Ascending(r, n + 1)
    <2> SUFFICES ASSUME NEW k \in 1 .. Len(r)
                 PROVE  r[k] < n + 1 /\ \A l \in 1 .. Len(r) : k < l => r[k] < r[l]
      BY DEF Ascending
    <2>1. CASE k = Len(q) + 1
      BY <1>3, <1>4, <2>1
    <2>2. CASE k \in 1 .. Len(q)
      <3>1. r[k] = q[k] /\ q[k] < n /\ q[k] \in Nat
        BY <1>1, <1>3, <2>2 DEF Ascending
      <3>2. ASSUME NEW l \in 1 .. Len(r), k < l PROVE r[k] < r[l]
        <4>1. CASE l = Len(q) + 1
          BY <1>3, <3>1, <4>1
        <4>2. CASE l \in 1 .. Len(q)
          BY <1>3, <2>2, <3>1, <3>2, <4>2 DEF Ascending
        <4> QED
          BY <1>3, <1>4, <4>1, <4>2
      <3> QED
        BY <3>1, <3>2
    <2> QED
      BY <1>3, <1>4, <2>1, <2>2
  <1> QED
    BY <1>2, <1>5 DEF r

LEMMA SlotSeqOrder ==
  ASSUME NEW S \in SUBSET Slots
  PROVE  /\ SlotSeq(S) \in Seq(S)
         /\ Ascending(SlotSeq(S), NumSlots)
         /\ \A x \in S : \E k \in 1 .. Len(SlotSeq(S)) : SlotSeq(S)[k] = x
  <1> DEFINE s == [n \in 1 .. NumSlots |-> n - 1]
             w == PickRun(s, S)
             T == {m \in Nat : m <= NumSlots => Ascending(w[m], m)}
  <1>0. NumSlots \in Nat /\ Len(s) = NumSlots
    BY SizeType
  <1>1. s \in Seq(Slots)
    BY SizeType DEF Slots
  <1>2. \A n \in 1 .. NumSlots : s[n] = n - 1
    OBVIOUS
  <1>3. SlotSeq(S) = Picked(s, S)
    BY DEF SlotSeq
  <1> HIDE DEF s
  <1>4. /\ w[0] = <<>>
        /\ \A n \in 1 .. Len(s) : w[n] = IF s[n] \in S THEN Append(w[n - 1], s[n]) ELSE w[n - 1]
        /\ \A n \in 0 .. Len(s) : w[n] \in Seq(Slots \cap S)
    BY <1>1, PickRuns
  <1>5. Picked(s, S) = w[Len(s)]
    BY PickedUnfold
  <1> HIDE DEF w
  <1>6. 0 \in T
    BY <1>4 DEF Ascending
  <1>7. ASSUME NEW m \in Nat, m \in T PROVE m + 1 \in T
    <2> SUFFICES ASSUME m + 1 <= NumSlots PROVE Ascending(w[m + 1], m + 1)
      OBVIOUS
    <2>1. /\ Ascending(w[m], m) /\ w[m] \in Seq(Slots \cap S) /\ s[m + 1] = m
          /\ w[m + 1] = IF s[m + 1] \in S THEN Append(w[m], s[m + 1]) ELSE w[m]
      <3>1. m + 1 \in 1 .. NumSlots /\ (m + 1) - 1 = m /\ m <= NumSlots /\ m \in 0 .. Len(s)
        BY <1>0
      <3>2. s[m + 1] = m
        BY <1>2, <3>1
      <3>3. w[m + 1] = IF s[m + 1] \in S THEN Append(w[(m + 1) - 1], s[m + 1]) ELSE w[(m + 1) - 1]
        BY <1>0, <1>4, <3>1
      <3>4. Ascending(w[m], m)
        BY <1>7, <3>1
      <3>5. w[m] \in Seq(Slots \cap S)
        BY <1>4, <3>1
      <3>6. w[m + 1] = IF s[m + 1] \in S THEN Append(w[m], s[m + 1]) ELSE w[m]
        BY <3>1, <3>3
      <3> QED
        BY <3>2, <3>4, <3>5, <3>6
    <2>2. w[m] \in Seq(Nat)
      <3>1. ASSUME NEW q \in Seq(Slots \cap S) PROVE q \in Seq(Nat)
        <4>1. Len(q) \in Nat /\ q \in [1 .. Len(q) -> Slots \cap S]
          OBVIOUS
        <4>2. q \in [1 .. Len(q) -> Nat]
          BY <4>1, SlotsType
        <4> QED
          BY <4>1, <4>2
      <3> QED
        BY <2>1, <3>1
    <2> QED
      BY <2>1, <2>2, AscendingAppend
  <1>8. Ascending(w[NumSlots], NumSlots)
    <2>1. NumSlots \in T
      <3> HIDE DEF T
      <3> QED
        BY <1>0, <1>6, <1>7, NatInd
    <2> QED
      BY <1>0, <2>1
  <1>9. \A n \in 1 .. Len(s) : s[n] \in S =>
          \E k \in 1 .. Len(Picked(s, S)) : Picked(s, S)[k] = s[n]
    BY <1>1, PickedType
  <1>10. ASSUME NEW x \in S
         PROVE  \E k \in 1 .. Len(Picked(s, S)) : Picked(s, S)[k] = x
    <2>1. x + 1 \in 1 .. NumSlots /\ (x + 1) - 1 = x
      BY <1>0 DEF Slots
    <2>2. s[x + 1] = x
      BY <1>2, <2>1
    <2> QED
      BY <1>0, <1>9, <2>1, <2>2
  <1> QED
    BY <1>0, <1>3, <1>5, <1>8, <1>10, SlotSeqType

\* The modules in the order in which they are written, the slot that each is
\* read into, and the place of a connector.
Rows(G)  == SlotSeq(Live(G))
At(G, s) == (CHOOSE x \in 1 .. Len(Rows(G)) : Rows(G)[x] = s) - 1
To(G, p) == <<At(G, p[1]), p[2]>>

LEMMA RowsAre ==
  ASSUME NEW G
  PROVE  /\ Rows(G) \in Seq(Live(G)) /\ Len(Rows(G)) \in 0 .. NumSlots
         /\ \A k \in 1 .. Len(Rows(G)) : At(G, Rows(G)[k]) = k - 1
         /\ \A s \in Live(G) : /\ At(G, s) \in 0 .. Len(Rows(G)) - 1 /\ At(G, s) \in Slots
                               /\ Rows(G)[At(G, s) + 1] = s
         /\ \A k, l \in 1 .. Len(Rows(G)) : Rows(G)[k] = Rows(G)[l] => k = l
  <1> DEFINE q == Rows(G)
             M == Len(q)
  <1>0. Live(G) \in SUBSET Slots /\ NumSlots \in Nat
    BY SizeType DEF Live, Used
  <1>1. /\ q \in Seq(Live(G)) /\ Ascending(q, NumSlots)
        /\ \A x \in Live(G) : \E k \in 1 .. M : q[k] = x
    BY <1>0, SlotSeqOrder DEF Rows
  <1> HIDE DEF q
  <1>2. M \in Nat /\ \A k \in 1 .. M : q[k] \in Nat
    <2>1. M \in Nat /\ \A k \in 1 .. M : q[k] \in Live(G)
      BY <1>1
    <2> HIDE DEF M
    <2> QED
      BY <1>0, <2>1, SlotsType
  <1>3. \A k, l \in 1 .. M : q[k] = q[l] => k = l
    <2> SUFFICES ASSUME NEW k \in 1 .. M, NEW l \in 1 .. M, q[k] = q[l], k # l PROVE FALSE
      OBVIOUS
    <2>1. k < l \/ l < k
      BY <1>2
    <2>2. q[k] < q[l] \/ q[l] < q[k]
      BY <1>1, <2>1 DEF Ascending
    <2> QED
      BY <1>2, <2>2
  <1>4. M <= NumSlots
    <2> DEFINE T == {m \in Nat : m + 1 <= M => m <= q[m + 1]}
    <2>1. 0 \in T
      BY <1>2
    <2>2. ASSUME NEW m \in Nat, m \in T PROVE m + 1 \in T
      <3> SUFFICES ASSUME (m + 1) + 1 <= M PROVE m + 1 <= q[(m + 1) + 1]
        OBVIOUS
      <3>1. m + 1 \in 1 .. M /\ (m + 1) + 1 \in 1 .. M /\ m + 1 < (m + 1) + 1
        BY <1>2
      <3>2. q[m + 1] < q[(m + 1) + 1] /\ q[m + 1] \in Nat /\ q[(m + 1) + 1] \in Nat
        BY <1>1, <1>2, <3>1 DEF Ascending
      <3>3. m <= q[m + 1]
        BY <2>2, <3>1
      <3> QED
        BY <3>2, <3>3
    <2>3. Nat \subseteq T
      <3> HIDE DEF T
      <3> QED
        BY <2>1, <2>2, NatInd
    <2>4. CASE M > 0
      <3>1. M - 1 \in Nat /\ (M - 1) + 1 = M /\ M \in 1 .. M
        BY <1>2, <2>4
      <3>2. M - 1 <= q[M]
        BY <2>3, <3>1
      <3>3. q[M] < NumSlots /\ q[M] \in Nat
        BY <1>1, <1>2, <3>1 DEF Ascending
      <3> QED
        BY <1>0, <1>2, <3>2, <3>3
    <2> QED
      BY <1>0, <1>2, <2>4
  <1>5. ASSUME NEW s \in Live(G)
        PROVE  /\ At(G, s) \in 0 .. M - 1 /\ At(G, s) \in Slots /\ q[At(G, s) + 1] = s
    <2> DEFINE x == CHOOSE x \in 1 .. M : q[x] = s
    <2>1. x \in 1 .. M /\ q[x] = s
      BY <1>1
    <2>2. At(G, s) = x - 1
      BY DEF At, q
    <2> HIDE DEF x
    <2>3. x - 1 \in 0 .. M - 1 /\ (x - 1) + 1 = x /\ x - 1 \in 0 .. NumSlots - 1
      BY <1>0, <1>2, <1>4, <2>1
    <2> QED
      BY <2>1, <2>2, <2>3 DEF Slots
  <1>6. ASSUME NEW k \in 1 .. M PROVE At(G, q[k]) = k - 1
    <2>1. q[k] \in Live(G)
      BY <1>1
    <2>2. At(G, q[k]) + 1 \in 1 .. M /\ q[At(G, q[k]) + 1] = q[k]
      BY <1>2, <1>5, <2>1
    <2>3. At(G, q[k]) + 1 = k /\ At(G, q[k]) \in 0 .. M - 1
      BY <1>3, <1>5, <2>1, <2>2
    <2> QED
      BY <2>3
  <1>7. M \in 0 .. NumSlots
    BY <1>0, <1>2, <1>4
  <1> QED
    BY <1>1, <1>3, <1>5, <1>6, <1>7 DEF q

\* The modules are read: the first n are there, and nothing else.
Copied(G, h, n) ==
  h.num = n /\ \A k \in 1 .. n : h.mod[k - 1] = G.mod[Rows(G)[k]]
Rebuilt(G, h, n) ==
  /\ Copied(G, h, n)
  /\ \A p \in Pins : h.src[p] = Unset
  /\ h.fb = {}
  /\ \A p \in Pins : p[1] < n => h.chan[p] = PinClass(h, p).chan /\ h.fmt[p] = PinClass(h, p).fmt
  /\ \A s \in Slots : h.par[s] = Default

LEMMA EmptyRebuilt ==
  ASSUME NEW G
  PROVE  Rebuilt(G, Empty, 0)
  <1>1. ASSUME NEW p \in Pins PROVE ~(p[1] < 0)
    <2>1. p[1] \in Nat
      BY SlotsType DEF Pins
    <2> QED
      BY <2>1
  <1>2. /\ Empty.num = 0 /\ Empty.fb = {}
        /\ \A p \in Pins : Empty.src[p] = Unset
        /\ \A s \in Slots : Empty.par[s] = Default
    BY DEF Empty
  <1>3. \A k \in 1 .. 0 : FALSE
    OBVIOUS
  <1> QED
    BY <1>1, <1>2, <1>3 DEF Rebuilt, Copied

LEMMA RebuiltStep ==
  ASSUME KnownClasses, NEW G, Good(G), Unique(G), NEW n \in Nat, n < Len(Rows(G)),
         NEW h, Good(h), Rebuilt(G, h, n)
  PROVE  Rebuilt(G, ReadLine(h, ModuleLine(G, Rows(G)[n + 1])), n + 1)
  <1> DEFINE q == Rows(G)
             M == Len(q)
             s == q[n + 1]
             m == G.mod[s]
             k == Fresh(h, n, m)
  <1>1. /\ q \in Seq(Live(G)) /\ M \in 0 .. NumSlots
        /\ \A a, b \in 1 .. M : q[a] = q[b] => a = b
    BY RowsAre
  <1>2. NumSlots \in Nat /\ G \in Graph /\ h \in Graph /\ Sound(h)
    BY SizeType DEF Good, Sound, Linking
  <1> HIDE DEF q
  <1>3. n + 1 \in 1 .. M /\ n \in Slots /\ n < NumSlots
    BY <1>1, <1>2 DEF Slots, q
  <1>4. s \in Live(G) /\ m \in Keys /\ m # NoKey
    <2>1. s \in Live(G)
      BY <1>1, <1>3
    <2> QED
      BY <1>2, <2>1 DEF Live, Used, Graph
  <1>5. \A x \in Used(h) : h.mod[x] \notin {m, NoKey}
    <2> SUFFICES ASSUME NEW x \in Used(h) PROVE h.mod[x] \notin {m, NoKey}
      OBVIOUS
    <2>1. x \in Nat /\ x < n
      BY SlotsType DEF Used, Rebuilt, Copied
    <2>2. x + 1 \in 1 .. n /\ (x + 1) - 1 = x /\ x + 1 \in 1 .. M /\ x + 1 # n + 1
      BY <1>3, <2>1
    <2>3. h.mod[x] = G.mod[q[x + 1]]
      BY <2>2 DEF Rebuilt, Copied, q
    <2>4. q[x + 1] \in Live(G) /\ q[x + 1] # s
      BY <1>1, <1>3, <2>2
    <2>5. G.mod[q[x + 1]] # NoKey /\ G.mod[q[x + 1]] # G.mod[s]
      BY <1>4, <2>4 DEF Live, Unique
    <2> QED
      BY <2>3, <2>5
  <1> HIDE DEF s, m
  <1>6. AddSlot(h, m) = n /\ h.num = n
    BY <1>5 DEF AddSlot, Rebuilt, Copied
  <1>7. ~Exists(h, m) /\ ~Full(h, m)
    BY <1>2, <1>3, <1>6 DEF Exists, Full
  <1>8. Added(h, m) = k
    BY <1>2, <1>4, <1>6, <1>7, AddedIs
  <1>9. ReadLine(h, ModuleLine(G, s)) = Added(h, m)
    BY DEF ReadLine, ModuleLine, Line, m
  <1>10. /\ k.num = n + 1
         /\ k.mod = [h.mod EXCEPT ![n] = m]
         /\ k.par = [h.par EXCEPT ![n] = Default]
         /\ k.src = [p \in Pins |-> IF p[1] = n THEN Unset ELSE h.src[p]]
         /\ k.fb = h.fb \ PinsOf(n)
         /\ k.chan = [p \in Pins |-> IF p[1] = n THEN Class[m][p[2]].chan ELSE h.chan[p]]
         /\ k.fmt = [p \in Pins |-> IF p[1] = n THEN Class[m][p[2]].fmt ELSE h.fmt[p]]
    BY <1>2, <1>6 DEF Fresh, Graph
  <1> HIDE DEF k
  <1>11. k.mod[n] = m /\ \A x \in Slots \ {n} : k.mod[x] = h.mod[x] /\ k.par[x] = h.par[x]
    BY <1>2, <1>3, <1>10 DEF Graph
  <1>12. ASSUME NEW x \in 1 .. n + 1 PROVE k.mod[x - 1] = G.mod[q[x]]
    <2>1. CASE x = n + 1
      BY <1>11, <2>1 DEF m, s
    <2>2. CASE x \in 1 .. n
      <3>1. x - 1 \in Slots \ {n}
        BY <1>3, <2>2, SizeType DEF Slots
      <3>2. h.mod[x - 1] = G.mod[q[x]]
        BY <2>2 DEF Rebuilt, Copied, q
      <3> QED
        BY <1>11, <3>1, <3>2
    <2> QED
      BY <2>1, <2>2
  <1>13. ASSUME NEW p \in Pins, p[1] < n + 1
         PROVE  k.chan[p] = PinClass(k, p).chan /\ k.fmt[p] = PinClass(k, p).fmt
    <2>1. p[1] \in Slots /\ p[1] \in Nat
      BY SlotsType DEF Pins
    <2>2. CASE p[1] = n
      <3>1. PinClass(k, p) = Class[m][p[2]]
        BY <1>4, <1>11, <2>2 DEF PinClass
      <3> QED
        BY <1>10, <2>2, <3>1
    <2>3. CASE p[1] # n
      <3>1. p[1] < n
        BY <1>13, <2>1, <2>3
      <3>2. PinClass(k, p) = PinClass(h, p)
        BY <1>11, <2>1, <2>3 DEF PinClass
      <3> QED
        BY <1>10, <2>3, <3>1, <3>2 DEF Rebuilt
    <2> QED
      BY <2>2, <2>3
  <1>14. Rebuilt(G, k, n + 1)
    <2>1. \A x \in Slots : k.par[x] = Default
      <3>1. k.par[n] = Default
        BY <1>2, <1>3, <1>10 DEF Graph
      <3> QED
        BY <1>11, <3>1 DEF Rebuilt
    <2>2. \A p \in Pins : k.src[p] = Unset
      BY <1>10 DEF Rebuilt
    <2>3. k.fb = {}
      BY <1>10 DEF Rebuilt
    <2> QED
      BY <1>10, <1>12, <1>13, <2>1, <2>2, <2>3 DEF Rebuilt, Copied, q
  <1> QED
    BY <1>8, <1>9, <1>14 DEF q, s

\* A copy has the modules of the graph without the gaps.
LEMMA CopiedIs ==
  ASSUME NEW G \in Graph, NEW h, Copied(G, h, Len(Rows(G)))
  PROVE  /\ \A s \in Live(G) : At(G, s) \in Live(h) /\ h.mod[At(G, s)] = G.mod[s]
         /\ \A x \in Live(h) : \E s \in Live(G) : x = At(G, s)
         /\ \A s, t \in Live(G) : At(G, s) = At(G, t) => s = t
  <1> DEFINE M == Len(Rows(G))
  <1>1. M \in Nat /\ Live(G) \subseteq Slots /\ Slots \subseteq Nat
    <2>1. M \in 0 .. NumSlots /\ NumSlots \in Nat
      BY RowsAre, SizeType
    <2> HIDE DEF M
    <2> QED
      BY <2>1, SlotsType DEF Live, Used
  <1>2. /\ \A k \in 1 .. M : Rows(G)[k] \in Live(G) /\ At(G, Rows(G)[k]) = k - 1
        /\ \A s \in Live(G) : /\ At(G, s) \in 0 .. M - 1 /\ At(G, s) \in Slots
                              /\ Rows(G)[At(G, s) + 1] = s
    BY RowsAre
  <1>3. h.num = M /\ \A k \in 1 .. M : h.mod[k - 1] = G.mod[Rows(G)[k]]
    BY DEF Copied
  <1> HIDE DEF M
  <1>4. ASSUME NEW s \in Live(G)
        PROVE  At(G, s) \in Live(h) /\ h.mod[At(G, s)] = G.mod[s]
    <2>1. At(G, s) + 1 \in 1 .. M /\ (At(G, s) + 1) - 1 = At(G, s) /\ At(G, s) < M
      BY <1>1, <1>2
    <2>2. h.mod[At(G, s)] = G.mod[s]
      BY <1>2, <1>3, <2>1
    <2> QED
      BY <1>2, <1>3, <2>1, <2>2 DEF Live, Used
  <1>5. ASSUME NEW x \in Live(h) PROVE \E s \in Live(G) : x = At(G, s)
    <2>1. x \in Nat /\ x < M
      BY <1>1, <1>3 DEF Live, Used
    <2>2. x + 1 \in 1 .. M /\ (x + 1) - 1 = x
      BY <1>1, <2>1
    <2> QED
      BY <1>2, <2>2
  <1>6. ASSUME NEW s \in Live(G), NEW t \in Live(G), At(G, s) = At(G, t) PROVE s = t
    BY <1>2, <1>6
  <1> QED
    BY <1>4, <1>5, <1>6

\* Its modules are found under the same names.
LEMMA CopiedNames ==
  ASSUME NEW G \in Graph, Unique(G), NEW h \in Graph, Copied(G, h, Len(Rows(G)))
  PROVE  /\ \A s \in Live(G) : Get(G, G.mod[s]) = s /\ Get(h, G.mod[s]) = At(G, s)
         /\ \A k \in Keys : Get(G, k) = -1 => Get(h, k) = -1
  <1>1. /\ \A s \in Live(G) : At(G, s) \in Live(h) /\ h.mod[At(G, s)] = G.mod[s]
        /\ \A x \in Live(h) : \E s \in Live(G) : x = At(G, s)
        /\ \A s, t \in Live(G) : At(G, s) = At(G, t) => s = t
    BY CopiedIs
  <1>2. \A s \in Live(G) \cup Live(h) : s # -1
    BY SlotsType DEF Live, Used
  <1>3. ASSUME NEW s \in Live(G) PROVE Get(G, G.mod[s]) = s
    <2>1. Get(G, G.mod[s]) \in Live(G) /\ G.mod[Get(G, G.mod[s])] = G.mod[s]
      BY <1>2, GetLive, GetIs
    <2> QED
      BY <2>1 DEF Unique
  <1>4. ASSUME NEW s \in Live(G) PROVE Get(h, G.mod[s]) = At(G, s)
    <2> DEFINE x == Get(h, G.mod[s])
    <2>1. x \in Live(h) /\ h.mod[x] = G.mod[s]
      BY <1>1, <1>2, GetLive, GetIs
    <2>2. PICK t \in Live(G) : x = At(G, t)
      BY <1>1, <2>1
    <2>3. G.mod[t] = G.mod[s]
      BY <1>1, <2>1, <2>2
    <2> QED
      BY <2>2, <2>3 DEF Unique
  <1>5. ASSUME NEW k \in Keys, Get(G, k) = -1, Get(h, k) # -1 PROVE FALSE
    <2> DEFINE x == Get(h, k)
    <2>1. x \in Used(h) /\ h.mod[x] = k /\ k # NoKey
      BY <1>5, GetIs, GraphAssumption
    <2>2. PICK s \in Live(G) : x = At(G, s)
      BY <1>1, <2>1 DEF Live
    <2>3. G.mod[s] = k
      BY <1>1, <2>1, <2>2
    <2> QED
      BY <1>2, <1>3, <1>5, <2>3
  <1> QED
    BY <1>3, <1>4, <1>5

\* And so are their connectors.
LEMMA CopiedPins ==
  ASSUME NEW G \in Graph, NEW h, Copied(G, h, Len(Rows(G)))
  PROVE  /\ \A p \in Pins : p[1] \in Live(G) =>
              /\ To(G, p) \in Pins /\ To(G, p) # Unset /\ To(G, p)[1] \in Live(h)
              /\ PinClass(h, To(G, p)) = PinClass(G, p)
              /\ h.mod[To(G, p)[1]] = G.mod[p[1]] /\ To(G, p)[2] = p[2]
         /\ \A p \in Inputs(G) : To(G, p) \in Inputs(h)
         /\ \A p \in Outputs(G) : To(G, p) \in Outputs(h)
         /\ \A p, q \in Pins : p[1] \in Live(G) /\ q[1] \in Live(G) /\ To(G, p) = To(G, q) => p = q
  <1>1. /\ \A s \in Live(G) : At(G, s) \in Live(h) /\ h.mod[At(G, s)] = G.mod[s]
        /\ \A s, t \in Live(G) : At(G, s) = At(G, t) => s = t
    BY CopiedIs
  <1>2. ASSUME NEW p \in Pins, p[1] \in Live(G)
        PROVE  /\ To(G, p) \in Pins /\ To(G, p) # Unset /\ To(G, p)[1] \in Live(h)
               /\ PinClass(h, To(G, p)) = PinClass(G, p)
               /\ h.mod[To(G, p)[1]] = G.mod[p[1]] /\ To(G, p)[2] = p[2]
    <2>1. To(G, p)[1] = At(G, p[1]) /\ To(G, p)[2] = p[2] /\ p[2] \in Conns
      BY DEF To, Pins
    <2>2. To(G, p)[1] \in Live(h) /\ h.mod[To(G, p)[1]] = G.mod[p[1]]
      BY <1>1, <1>2, <2>1
    <2>3. To(G, p) \in Pins
      BY <2>1, <2>2 DEF To, Pins, Live, Used
    <2> QED
      BY <2>1, <2>2, <2>3, UnsetIsNoPin DEF PinClass
  <1>3. ASSUME NEW p \in Pins, NEW q \in Pins, p[1] \in Live(G), q[1] \in Live(G),
               To(G, p) = To(G, q)
        PROVE  p = q
    <2>1. At(G, p[1]) = At(G, q[1]) /\ p[2] = q[2]
      BY <1>3 DEF To
    <2>2. p[1] = q[1]
      BY <1>1, <1>3, <2>1
    <2> QED
      BY <2>1, <2>2 DEF Pins
  <1> QED
    BY <1>2, <1>3 DEF Inputs, Outputs, IsIn, IsOut

\* The inputs that are connected, and what is written about them
Plugged(G) == {p \in Inputs(G) : G.src[p] # Unset}

\* The connections of the inputs Q are made, apart from what feedback is:
\* no other format is touched than those of their ends.
Wired(G, h, Q) ==
  /\ Copied(G, h, Len(Rows(G)))
  /\ \A s \in Slots : h.par[s] = Default
  /\ \A p \in Inputs(G) :
       IF p \in Q THEN h.src[To(G, p)] = To(G, G.src[p])
       ELSE /\ h.src[To(G, p)] = Unset
            /\ h.chan[To(G, p)] = PinClass(G, p).chan
            /\ h.fmt[To(G, p)] = PinClass(G, p).fmt
  /\ \A o \in Outputs(G) : /\ h.chan[To(G, o)] \in {G.chan[o], PinClass(G, o).chan}
                           /\ h.fmt[To(G, o)] \in {G.fmt[o], PinClass(G, o).fmt}
Marked(G, h, Q) ==
  \A p \in Plugged(G) : To(G, p) \in h.fb <=> p \in Q /\ p \in G.fb

\* All modules are there, and nothing is connected.
LEMMA RebuiltWired ==
  ASSUME NEW G \in Graph, NEW h, Rebuilt(G, h, Len(Rows(G)))
  PROVE  Wired(G, h, {}) /\ Marked(G, h, {})
  <1> DEFINE M == Len(Rows(G))
  <1>1. Copied(G, h, M)
    BY DEF Rebuilt
  <1>2. ASSUME NEW p \in Pins, p[1] \in Live(G)
        PROVE  /\ h.chan[To(G, p)] = PinClass(G, p).chan
               /\ h.fmt[To(G, p)] = PinClass(G, p).fmt
               /\ h.src[To(G, p)] = Unset
    <2>1. To(G, p) \in Pins /\ To(G, p)[1] \in Live(h) /\ PinClass(h, To(G, p)) = PinClass(G, p)
      BY <1>1, <1>2, CopiedPins
    <2>2. To(G, p)[1] < M
      BY <1>1, <2>1 DEF Live, Used, Copied
    <2> QED
      BY <2>1, <2>2 DEF Rebuilt
  <1>3. \A p \in Inputs(G) \cup Outputs(G) : p \in Pins /\ p[1] \in Live(G)
    BY DEF Inputs, Outputs
  <1>4. Wired(G, h, {})
    BY <1>1, <1>2, <1>3 DEF Wired, Rebuilt
  <1>5. Marked(G, h, {})
    BY DEF Marked, Rebuilt, Plugged
  <1> QED
    BY <1>4, <1>5

\* An input that is not connected yet finds the output as it was.
LEMMA WiredFits ==
  ASSUME NEW G, Good(G), OrderFree(G), NEW h, Good(h), NEW Q, Wired(G, h, Q),
         NEW i \in Plugged(G), i \notin Q
  PROVE  LET o == G.src[i]
             a == To(G, o)
             b == To(G, i)
         IN  /\ ~BadChan(h, a, b) /\ ~BadFmt(h, a, b)
             /\ OutFormat(h.chan[a], h.chan[b], "rgba") = G.chan[o]
             /\ OutFormat(h.fmt[a], h.fmt[b], "f16") = G.fmt[o]
  <1> DEFINE o == G.src[i]
             a == To(G, o)
             b == To(G, i)
             co == PinClass(G, o)
             ci == PinClass(G, i)
  <1>1. /\ G \in Graph /\ NoDangling(G) /\ FormatsAgree(G) /\ Kept(G)
        /\ i \in Inputs(G) /\ i \in Pins /\ o # Unset /\ i[1] \in Live(G) /\ IsIn(G, i)
    BY DEF Good, Sound, Linking, Plugged, Inputs
  <1>2. o \in Outputs(G) /\ o \in Pins /\ o[1] \in Live(G)
    BY <1>1 DEF NoDangling, Outputs
  <1>3. /\ h.chan[b] = ci.chan /\ h.fmt[b] = ci.fmt
        /\ h.chan[a] \in {G.chan[o], co.chan} /\ h.fmt[a] \in {G.fmt[o], co.fmt}
    BY <1>1, <1>2 DEF Wired
  <1>4. Formed(G.chan[o], G.fmt[o], co) /\ Formed(G.chan[i], G.fmt[i], ci)
    BY <1>1, <1>2 DEF Kept
  <1>5. ci.chan # "&"
    <2>1. i[1] \in Slots /\ i[2] \in Conns /\ G.mod[i[1]] # NoKey /\ G.mod[i[1]] \in Keys
      BY <1>1 DEF Pins, Live, Graph
    <2> QED
      BY <1>1, <2>1, HistoryAssumption DEF PinClass, IsIn
  <1>6. /\ G.chan[o] \in {G.chan[i], "&"} /\ G.fmt[o] = G.fmt[i]
        /\ G.chan[i] # "*" /\ G.fmt[i] # "*"
    BY <1>1 DEF FormatsAgree
  <1>7. /\ co.chan # "*" \/ G.chan[o] = "rgba" \/ ci.chan # "*"
        /\ co.fmt # "*" \/ G.fmt[o] = "f16" \/ ci.fmt # "*"
    <2>1. ci \in {PinClass(G, r) : r \in Readers(G, o)}
      BY <1>1 DEF Readers
    <2> QED
      BY <1>2, <2>1 DEF OrderFree
  <1> HIDE DEF a, b, co, ci, o
  <1>8. /\ OutFormat(h.chan[a], ci.chan, "rgba") = G.chan[o]
        /\ h.chan[a] # "&" => InFormat(Given(h.chan[a]), ci.chan, "rgba") = G.chan[o]
    <2> DEFINE x == h.chan[a]
               go == G.chan[o]
               gi == G.chan[i]
               xo == co.chan
               xi == ci.chan
    <2>1. /\ x \in {go, xo} /\ (xo # "*" => go = xo) /\ (xo = "*" => go # "&")
          /\ (xi # "*" => gi = xi) /\ xi # "&" /\ go \in {gi, "&"} /\ gi # "*"
          /\ xo # "*" \/ go = "rgba" \/ xi # "*"
      BY <1>3, <1>4, <1>5, <1>6, <1>7 DEF Formed
    <2> HIDE DEF x, go, gi, xo, xi
    <2>2. OutFormat(x, xi, "rgba") = go /\ (x # "&" => InFormat(Given(x), xi, "rgba") = go)
      BY <2>1 DEF OutFormat, InFormat, Given
    <2> QED
      BY <2>2 DEF x, go, xi
  <1>9. /\ OutFormat(h.fmt[a], ci.fmt, "f16") = G.fmt[o]
        /\ InFormat(h.fmt[a], ci.fmt, "f16") = G.fmt[o]
    <2> DEFINE x == h.fmt[a]
               go == G.fmt[o]
               xo == co.fmt
               xi == ci.fmt
    <2>1. /\ x \in {go, xo} /\ (xo # "*" => go = xo) /\ (xi # "*" => go = xi) /\ go # "*"
          /\ xo # "*" \/ go = "f16" \/ xi # "*"
      BY <1>3, <1>4, <1>6, <1>7 DEF Formed
    <2> HIDE DEF x, go, xo, xi
    <2>2. OutFormat(x, xi, "f16") = go /\ InFormat(x, xi, "f16") = go
      BY <2>1 DEF OutFormat, InFormat
    <2> QED
      BY <2>2 DEF x, go, xi
  <1>10. /\ ~BadChan(h, a, b) /\ ~BadFmt(h, a, b)
         /\ OutFormat(h.chan[a], h.chan[b], "rgba") = G.chan[o]
         /\ OutFormat(h.fmt[a], h.fmt[b], "f16") = G.fmt[o]
    BY <1>3, <1>8, <1>9 DEF BadChan, BadFmt
  <1> QED
    BY <1>10 DEF a, b, o

\* The connection is made.
LEMMA WiredJoin ==
  ASSUME NEW G, Good(G), OrderFree(G), NEW h, Good(h), NEW Q, Wired(G, h, Q),
         NEW i \in Plugged(G)
  PROVE  LET k == ConnectInternal(h, To(G, G.src[i]), To(G, i))
         IN  /\ Wired(G, k, Q \cup {i})
             /\ k.fb = IF i \in Q THEN h.fb ELSE h.fb \ {To(G, i)}
  <1> DEFINE o == G.src[i]
             a == To(G, o)
             b == To(G, i)
             k == ConnectInternal(h, a, b)
             R == Q \cup {i}
  <1>1. /\ G \in Graph /\ NoDangling(G) /\ h \in Graph
        /\ i \in Inputs(G) /\ i \in Pins /\ o # Unset /\ i[1] \in Live(G)
    BY DEF Good, Sound, Linking, Plugged, Inputs
  <1>2. o \in Outputs(G) /\ o \in Pins /\ o[1] \in Live(G)
    BY <1>1 DEF NoDangling, Outputs
  <1>3. Copied(G, h, Len(Rows(G)))
    BY DEF Wired
  <1>4. /\ a \in Outputs(h) /\ b \in Inputs(h) /\ a \in Pins /\ b \in Pins /\ a # Unset
        /\ \A p \in Pins : p[1] \in Live(G) => To(G, p) \in Pins
        /\ \A p \in Inputs(G) : To(G, p) \in Inputs(h)
        /\ \A p \in Outputs(G) : To(G, p) \in Outputs(h)
        /\ \A p, q \in Pins : p[1] \in Live(G) /\ q[1] \in Live(G) /\ To(G, p) = To(G, q) => p = q
    BY <1>1, <1>2, <1>3, CopiedPins
  <1>5. a # b /\ \A p \in Inputs(h), q \in Outputs(h) : p # q
    BY <1>4, InNotOut
  <1>6. CASE i \in Q
    <2>1. h.src[b] = a
      BY <1>1, <1>6 DEF Wired
    <2>2. k = h
      BY <2>1 DEF ConnectInternal
    <2>3. R = Q
      BY <1>6
    <2> QED
      BY <1>6, <2>2, <2>3
  <1>7. CASE i \notin Q
    <2>1. h.src[b] = Unset
      BY <1>1, <1>7 DEF Wired
    <2>2. ~Refused(h, b) /\ ~Uncounted(h, b) /\ Unlink1(h, b) = h
      BY <2>1 DEF Refused, Uncounted, Unlink1, Linked
    <2>3. k = Join(h, a, b)
      BY <1>4, <2>1, <2>2 DEF ConnectInternal
    <2>4. JoinExact(h, a, b, k)
      BY <1>1, <1>4, <1>5, <2>3, JoinIs
    <2>5. /\ ~BadChan(h, a, b) /\ ~BadFmt(h, a, b)
          /\ OutFormat(h.chan[a], h.chan[b], "rgba") = G.chan[o]
          /\ OutFormat(h.fmt[a], h.fmt[b], "f16") = G.fmt[o]
      BY <1>7, WiredFits
    <2> HIDE DEF k
    <2>6. /\ k.num = h.num /\ k.mod = h.mod /\ k.par = h.par
          /\ \A p \in Pins \ {a, b} : k.chan[p] = h.chan[p] /\ k.fmt[p] = h.fmt[p]
          /\ k.chan[a] = G.chan[o] /\ k.fmt[a] = G.fmt[o]
          /\ k.src = [h.src EXCEPT ![b] = a] /\ k.fb = h.fb \ {b}
      BY <2>4, <2>5 DEF JoinExact
    <2>7. k.src[b] = a /\ \A p \in Pins \ {b} : k.src[p] = h.src[p]
      BY <1>1, <1>4, <2>6 DEF Graph
    <2>8. \A p \in Inputs(G) \cup Outputs(G) : p \in Pins /\ p[1] \in Live(G)
      BY DEF Inputs, Outputs
    <2>9. ASSUME NEW p \in Inputs(G)
          PROVE  IF p \in R THEN k.src[To(G, p)] = To(G, G.src[p])
                 ELSE /\ k.src[To(G, p)] = Unset
                      /\ k.chan[To(G, p)] = PinClass(G, p).chan
                      /\ k.fmt[To(G, p)] = PinClass(G, p).fmt
      <3>1. CASE p = i
        BY <2>7, <3>1
      <3>2. CASE p # i
        <4>1. To(G, p) \in Pins /\ To(G, p) # b /\ To(G, p) # a
          BY <1>1, <1>4, <1>5, <2>8, <3>2
        <4>2. /\ k.src[To(G, p)] = h.src[To(G, p)]
              /\ k.chan[To(G, p)] = h.chan[To(G, p)] /\ k.fmt[To(G, p)] = h.fmt[To(G, p)]
          BY <2>6, <2>7, <4>1
        <4>3. p \in R <=> p \in Q
          BY <3>2
        <4> QED
          BY <4>2, <4>3 DEF Wired
      <3> QED
        BY <3>1, <3>2
    <2>10. ASSUME NEW p \in Outputs(G)
           PROVE  /\ k.chan[To(G, p)] \in {G.chan[p], PinClass(G, p).chan}
                  /\ k.fmt[To(G, p)] \in {G.fmt[p], PinClass(G, p).fmt}
      <3>1. CASE p = o
        BY <2>6, <3>1
      <3>2. CASE p # o
        <4>1. To(G, p) \in Pins /\ To(G, p) # b /\ To(G, p) # a
          BY <1>2, <1>4, <1>5, <2>8, <3>2
        <4>2. k.chan[To(G, p)] = h.chan[To(G, p)] /\ k.fmt[To(G, p)] = h.fmt[To(G, p)]
          BY <2>6, <4>1
        <4> QED
          BY <4>2 DEF Wired
      <3> QED
        BY <3>1, <3>2
    <2>11. Wired(G, k, R)
      BY <2>6, <2>9, <2>10 DEF Wired, Copied
    <2> QED
      BY <1>7, <2>6, <2>11 DEF k
  <1> QED
    BY <1>6, <1>7

\* It closes no cycle: one would be in the graph that was written.
LEMMA WiredAcyclic ==
  ASSUME NEW G, Good(G), NEW h, Good(h), NEW Q \in SUBSET Plugged(G),
         Wired(G, h, Q), Marked(G, h, Q), NEW i \in Plugged(G), i \notin G.fb
  PROVE  ~Cyclic(h, To(G, G.src[i]), To(G, i))
  <1> DEFINE o == G.src[i]
             a == At(G, o[1])
             b == At(G, i[1])
             closed == {D \in SUBSET Slots : (\A s \in D : Reads(h, s) \subseteq D) /\ b \notin D}
             C == UNION closed
             T == {t \in Live(G) : At(G, t) \notin C}
  <1> SUFFICES ASSUME Cyclic(h, To(G, o), To(G, i)) PROVE FALSE
    OBVIOUS
  <1>1. /\ G \in Graph /\ NoDangling(G) /\ Acyclic(G) /\ NoDangling(h) /\ Live(G) \subseteq Slots
        /\ i \in Inputs(G) /\ i \in Pins /\ o # Unset /\ i[1] \in Live(G)
    BY DEF Good, Sound, Linking, Plugged, Inputs, Live, Used
  <1>2. o \in Outputs(G) /\ o \in Pins /\ o[1] \in Live(G)
    BY <1>1 DEF NoDangling, Outputs
  <1>3. Copied(G, h, Len(Rows(G)))
    BY DEF Wired
  <1>4. /\ \A s \in Live(G) : At(G, s) \in Live(h)
        /\ \A x \in Live(h) : \E s \in Live(G) : x = At(G, s)
        /\ \A s, t \in Live(G) : At(G, s) = At(G, t) => s = t
    BY <1>1, <1>3, CopiedIs
  <1>5. To(G, o)[1] = a /\ To(G, i)[1] = b
    BY DEF To
  <1>6. \A S \in SUBSET Slots : a \in S /\ (\A s \in S : Reads(h, s) \subseteq S) => b \in S
    BY <1>5 DEF Cyclic
  <1>7. C \in closed
    OBVIOUS
  <1> HIDE DEF C
  <1>8. a \notin C /\ b \notin C
    BY <1>6, <1>7
  <1>9. o[1] \in T /\ i[1] \in T /\ T \in SUBSET Slots
    BY <1>1, <1>2, <1>8
  <1>10. ASSUME NEW t \in T, t # i[1]
         PROVE  \E r \in Reads(h, At(G, t)) : r \notin C
    <2> SUFFICES ASSUME Reads(h, At(G, t)) \subseteq C PROVE FALSE
      OBVIOUS
    <2>1. At(G, t) # b /\ At(G, t) \in Slots /\ At(G, t) \notin C
      BY <1>1, <1>4, <1>10 DEF Live, Used
    <2>2. C \cup {At(G, t)} \in closed
      BY <1>7, <1>8, <2>1
    <2> QED
      BY <2>1, <2>2 DEF C
  <1>11. ASSUME NEW t \in T, t # i[1]
         PROVE  \E r \in T : <<r, t>> \in Edges(G)
    <2>1. PICK x \in Reads(h, At(G, t)) : x \notin C
      BY <1>10, <1>11
    <2>2. PICK y \in PinsOf(At(G, t)) :
            IsIn(h, y) /\ y \notin h.fb /\ h.src[y] # Unset /\ x = h.src[y][1]
      BY <2>1 DEF Reads
    <2> DEFINE p == <<t, y[2]>>
    <2>3. y[1] = At(G, t) /\ y[2] \in Conns /\ t \in Live(G) /\ t \in Slots /\ y = <<At(G, t), y[2]>>
      BY <1>1, <2>2 DEF PinsOf
    <2>4. p \in Pins /\ p[1] = t /\ To(G, p) = y
      BY <2>3 DEF Pins, To
    <2>5. p \in Inputs(G)
      <3>1. IsIn(G, p)
        BY <1>1, <1>3, <2>2, <2>3, <2>4, CopiedPins DEF IsIn
      <3> QED
        BY <2>3, <2>4, <3>1 DEF Inputs
    <2> HIDE DEF p
    <2>6. p \in Q /\ y = To(G, p)
      BY <2>2, <2>4, <2>5 DEF Wired
    <2>7. h.src[y] = To(G, G.src[p]) /\ p \notin G.fb
      BY <2>2, <2>5, <2>6 DEF Wired, Marked, Plugged
    <2>8. x = At(G, G.src[p][1])
      BY <2>2, <2>7 DEF To
    <2>9. G.src[p] # Unset /\ G.src[p][1] \in Live(G)
      BY <1>1, <2>6 DEF Plugged, NoDangling, Inputs, Outputs
    <2>10. <<G.src[p][1], t>> \in Edges(G)
      BY <2>4, <2>5, <2>7, <2>9 DEF Edges
    <2> QED
      BY <2>1, <2>8, <2>9, <2>10
  <1>12. <<o[1], i[1]>> \in Edges(G)
    BY <1>1 DEF Edges
  <1>13. T # {} /\ \A t \in T : \E r \in T : <<r, t>> \in Edges(G)
    BY <1>9, <1>11, <1>12
  <1> HIDE DEF T
  <1> QED
    BY <1>1, <1>9, <1>13 DEF Acyclic

\* A line about a connection is read as the connection of the copies.
LEMMA ConnLineRead ==
  ASSUME NEW G, Good(G), Unique(G), NEW h, Good(h), Copied(G, h, Len(Rows(G))),
         NEW i \in Plugged(G)
  PROVE  LET a == To(G, G.src[i])
             b == To(G, i)
         IN  ReadLine(h, ConnLine(G, i)) = IF i \in G.fb THEN Feedback(h, a, b) ELSE Connect(h, a, b)
  <1> DEFINE o == G.src[i]
             l == ConnLine(G, i)
  <1>1. /\ G \in Graph /\ NoDangling(G) /\ h \in Graph
        /\ i \in Pins /\ o # Unset /\ i[1] \in Live(G)
    BY DEF Good, Sound, Linking, Plugged, Inputs
  <1>2. o \in Pins /\ o[1] \in Live(G) /\ G.mod[o[1]] # NoKey
    BY <1>1 DEF NoDangling, Outputs, Live
  <1>3. Get(h, G.mod[o[1]]) = At(G, o[1]) /\ Get(h, G.mod[i[1]]) = At(G, i[1])
    BY <1>1, <1>2, CopiedNames
  <1>4. At(G, o[1]) # -1 /\ At(G, i[1]) # -1
    <2>1. At(G, o[1]) \in Slots /\ At(G, i[1]) \in Slots
      BY <1>1, <1>2, RowsAre
    <2> QED
      BY <2>1, SlotsType
  <1>5. /\ l.cmd = IF i \in G.fb THEN "feedback" ELSE "connect"
        /\ l.mod = G.mod[i[1]] /\ l.conn = i[2]
        /\ l.from = <<G.mod[o[1]], o[2]>> /\ l.from # Nowhere
    BY <1>1, <1>2 DEF ConnLine, Line, Named, Nowhere
  <1> HIDE DEF l
  <1>6. ReadConnection(h, l) = IF i \in G.fb THEN Feedback(h, To(G, o), To(G, i))
                               ELSE Connect(h, To(G, o), To(G, i))
    BY <1>3, <1>4, <1>5 DEF ReadConnection, To
  <1>7. ReadLine(h, l) = ReadConnection(h, l)
    BY <1>5 DEF ReadLine
  <1> QED
    BY <1>6, <1>7 DEF l

\* Wired looks at these fields only.
LEMMA WiredSame ==
  ASSUME NEW G, NEW h, NEW k, NEW Q, Wired(G, h, Q),
         k.num = h.num, k.mod = h.mod, k.src = h.src, k.chan = h.chan, k.fmt = h.fmt, k.par = h.par
  PROVE  Wired(G, k, Q)
  BY DEF Wired, Copied

LEMMA WiredStep ==
  ASSUME NEW G, Good(G), Unique(G), OrderFree(G), NEW h, Good(h), NEW Q \in SUBSET Plugged(G),
         Wired(G, h, Q), Marked(G, h, Q), NEW i \in Plugged(G)
  PROVE  LET k == ReadLine(h, ConnLine(G, i))
         IN  Wired(G, k, Q \cup {i}) /\ Marked(G, k, Q \cup {i})
  <1> DEFINE a == To(G, G.src[i])
             b == To(G, i)
             c == ConnectInternal(h, a, b)
             k == ReadLine(h, ConnLine(G, i))
             R == Q \cup {i}
  <1>1. k = IF i \in G.fb THEN Feedback(h, a, b) ELSE Connect(h, a, b)
    <2>1. Copied(G, h, Len(Rows(G)))
      BY DEF Wired
    <2> QED
      BY <2>1, ConnLineRead
  <1>2. Wired(G, c, R) /\ c.fb = IF i \in Q THEN h.fb ELSE h.fb \ {b}
    BY WiredJoin
  <1>3. i \notin G.fb => Connect(h, a, b) = c
    BY WiredAcyclic DEF Connect
  <1>4. /\ i \in Inputs(G) /\ G \in Graph /\ Copied(G, h, Len(Rows(G)))
        /\ \A p \in Inputs(G) : p \in Pins /\ p[1] \in Live(G)
    BY DEF Plugged, Good, Sound, Linking, Inputs, Wired
  <1>5. \A p \in Inputs(G) : To(G, p) = b => p = i
    BY <1>4, CopiedPins
  <1> HIDE DEF a, b, c, k
  <1>6. CASE i \in G.fb
    <2>1. k = Feedback(h, a, b)
      BY <1>1, <1>6
    <2> DEFINE f == [c EXCEPT !.fb = c.fb \cup {b}, !.oob = c.oob \/ a = Unset]
    <2>2. f = k
      BY <2>1 DEF Feedback, c
    <2>3. c \in Graph
      <3>1. a \in Outputs(h) /\ b \in Inputs(h)
        <4>1. G.src[i] \in Outputs(G)
          BY <1>4 DEF Plugged, Good, Sound, Linking, NoDangling
        <4> QED
          BY <1>4, <4>1, CopiedPins DEF a, b
      <3>2. Linking(c)
        <4>1. a \in Outputs(h) \cup {Unset} /\ Linking(h)
          BY <3>1 DEF Good, Sound
        <4> QED
          BY <3>1, <4>1, ConnectInternalLinking DEF c, Rewired
      <3> QED
        BY <3>2 DEF Linking
    <2>4. /\ f.num = c.num /\ f.mod = c.mod /\ f.src = c.src /\ f.chan = c.chan /\ f.fmt = c.fmt
          /\ f.par = c.par /\ f.fb = c.fb \cup {b}
      BY <2>3 DEF Graph
    <2> HIDE DEF f
    <2>5. Wired(G, k, R)
      BY <1>2, <2>2, <2>4, WiredSame
    <2>6. Marked(G, k, R)
      <3> SUFFICES ASSUME NEW p \in Plugged(G)
                   PROVE  To(G, p) \in k.fb <=> p \in R /\ p \in G.fb
        BY DEF Marked
      <3>1. To(G, p) \in h.fb <=> p \in Q /\ p \in G.fb
        BY DEF Marked
      <3>2. k.fb = IF i \in Q THEN h.fb \cup {b} ELSE (h.fb \ {b}) \cup {b}
        BY <1>2, <2>2, <2>4
      <3>3. To(G, p) = b <=> p = i
        BY <1>5 DEF b, Plugged
      <3> QED
        BY <1>6, <3>1, <3>2, <3>3
    <2> QED
      BY <2>5, <2>6 DEF k
  <1>7. CASE i \notin G.fb
    <2>1. k = c
      BY <1>1, <1>3, <1>7
    <2>2. Marked(G, k, R)
      <3> SUFFICES ASSUME NEW p \in Plugged(G)
                   PROVE  To(G, p) \in k.fb <=> p \in R /\ p \in G.fb
        BY DEF Marked
      <3>1. To(G, p) \in h.fb <=> p \in Q /\ p \in G.fb
        BY DEF Marked
      <3>2. To(G, p) = b <=> p = i
        BY <1>5 DEF b, Plugged
      <3> QED
        BY <1>2, <1>7, <2>1, <3>1, <3>2
    <2> QED
      BY <1>2, <2>1, <2>2 DEF k
  <1> QED
    BY <1>6, <1>7

\* An input that is not connected is disconnected once more.
LEMMA OpenStep ==
  ASSUME NEW G, Good(G), Unique(G), NEW h, Good(h), NEW Q \in SUBSET Plugged(G),
         Wired(G, h, Q), Marked(G, h, Q), NEW i \in Inputs(G), i \notin Plugged(G)
  PROVE  LET k == ReadLine(h, ConnLine(G, i))
         IN  Wired(G, k, Q) /\ Marked(G, k, Q)
  <1> DEFINE b == To(G, i)
             l == ConnLine(G, i)
             k == ReadLine(h, l)
  <1>1. /\ G.src[i] = Unset /\ i \in Pins /\ i[1] \in Live(G) /\ G \in Graph /\ h \in Graph
        /\ Copied(G, h, Len(Rows(G)))
    BY DEF Plugged, Inputs, Good, Sound, Linking, Wired
  <1>2. Get(h, G.mod[i[1]]) = b[1] /\ b = <<b[1], i[2]>> /\ b[1] # -1 /\ h.src[b] = Unset
    <2>1. b[1] \in Live(h) /\ At(G, i[1]) \in Slots
      BY <1>1, CopiedPins, RowsAre
    <2>2. h.src[b] = Unset
      BY <1>1 DEF Wired
    <2>3. b[1] = At(G, i[1]) /\ b = <<At(G, i[1]), i[2]>>
      BY DEF To
    <2> QED
      BY <1>1, <2>1, <2>2, <2>3, CopiedNames, SlotsType
  <1>3. l.mod = G.mod[i[1]] /\ l.conn = i[2] /\ l.from = Nowhere /\ l.cmd \in {"connect", "feedback"}
        /\ (l.cmd = "feedback" <=> i \in G.fb)
    BY <1>1 DEF ConnLine, Line, Named
  <1>4. k = IF l.cmd = "feedback" THEN Feedback(h, Unset, b) ELSE Connect(h, Unset, b)
    <2> HIDE DEF b, l
    <2>1. k = ReadConnection(h, l)
      BY <1>3 DEF ReadLine
    <2> QED
      BY <1>2, <1>3, <2>1 DEF ReadConnection
  <1>5. ConnectInternal(h, Unset, b) = h /\ Connect(h, Unset, b) = h
    BY <1>2 DEF ConnectInternal, Connect, Cyclic
  <1> HIDE DEF b, l
  <1>6. CASE l.cmd = "connect"
    BY <1>4, <1>5, <1>6 DEF l
  <1>7. CASE l.cmd = "feedback"
    <2> DEFINE f == [h EXCEPT !.fb = h.fb \cup {b}, !.oob = h.oob \/ Unset = Unset]
    <2>1. k = f
      BY <1>4, <1>5, <1>7 DEF Feedback
    <2>2. /\ f.num = h.num /\ f.mod = h.mod /\ f.src = h.src /\ f.chan = h.chan /\ f.fmt = h.fmt
          /\ f.par = h.par /\ f.fb = h.fb \cup {b}
      BY <1>1 DEF Graph
    <2> HIDE DEF f
    <2>3. Wired(G, f, Q)
      BY <2>2, WiredSame
    <2>4. \A p \in Plugged(G) : To(G, p) # b
      BY <1>1, CopiedPins DEF b, Plugged, Inputs
    <2>5. Marked(G, f, Q)
      BY <2>2, <2>4 DEF Marked
    <2> QED
      BY <2>1, <2>3, <2>5 DEF l
  <1> QED
    BY <1>3, <1>6, <1>7

\* Everything is connected as it was, and the parameters of V are read.
Tied(G, h) ==
  /\ Copied(G, h, Len(Rows(G)))
  /\ \A p \in Inputs(G) :
       IF G.src[p] # Unset THEN /\ h.src[To(G, p)] = To(G, G.src[p])
                                /\ To(G, p) \in h.fb <=> p \in G.fb
       ELSE /\ h.src[To(G, p)] = Unset
            /\ h.chan[To(G, p)] = PinClass(G, p).chan
            /\ h.fmt[To(G, p)] = PinClass(G, p).fmt
  /\ \A o \in Outputs(G) : /\ h.chan[To(G, o)] \in {G.chan[o], PinClass(G, o).chan}
                           /\ h.fmt[To(G, o)] \in {G.fmt[o], PinClass(G, o).fmt}
Valued(G, h, V) ==
  Tied(G, h) /\ \A s \in Live(G) : h.par[At(G, s)] = IF s \in V THEN G.par[s] ELSE Default

LEMMA WiredAll ==
  ASSUME NEW G \in Graph, NEW h, Wired(G, h, Plugged(G)), Marked(G, h, Plugged(G))
  PROVE  Valued(G, h, {})
  <1>1. \A s \in Live(G) : At(G, s) \in Slots
    BY RowsAre
  <1> QED
    BY <1>1 DEF Wired, Marked, Valued, Tied, Plugged

LEMMA ValuedStep ==
  ASSUME Numbers, NEW G, Good(G), Unique(G), NEW h, Good(h), NEW V, Valued(G, h, V),
         NEW s \in Live(G), G.mod[s] \in WithParam
  PROVE  Valued(G, ReadLine(h, ParamLine(G, s)), V \cup {s})
  <1> DEFINE l == ParamLine(G, s)
             v == [h.par EXCEPT ![At(G, s)] = l.val]
             k == [h EXCEPT !.par = v]
  <1>1. G \in Graph /\ h \in Graph /\ Copied(G, h, Len(Rows(G)))
    BY DEF Good, Sound, Linking, Valued, Tied
  <1>2. Get(h, G.mod[s]) = At(G, s) /\ \A t \in Live(G) : At(G, s) = At(G, t) => s = t
    BY <1>1, CopiedNames, CopiedIs
  <1>3. At(G, s) # -1 /\ At(G, s) \in Slots /\ \A t \in Live(G) : At(G, t) \in Slots
    BY RowsAre, SlotsType
  <1>4. l.cmd = "param" /\ l.mod = G.mod[s] /\ l.val = G.par[s] /\ l.val \in Int
    BY <1>1 DEF ParamLine, Line, Live, Used, Graph, Numbers
  <1> HIDE DEF l
  <1>5. ReadLine(h, l) = ReadParam(h, l, FALSE)
    BY <1>4 DEF ReadLine
  <1>6. ReadParam(h, l, FALSE) = [h EXCEPT !.par = [h.par EXCEPT ![At(G, s)] = 0 + l.val]]
    BY <1>2, <1>3, <1>4 DEF ReadParam
  <1>7. 0 + l.val = l.val
    BY <1>4
  <1>8. ReadLine(h, l) = k
    BY <1>5, <1>6, <1>7
  <1>9. /\ k.num = h.num /\ k.mod = h.mod /\ k.src = h.src /\ k.fb = h.fb /\ k.par = v
        /\ k.chan = h.chan /\ k.fmt = h.fmt
    BY <1>1 DEF Graph
  <1> HIDE DEF k
  <1>10. v[At(G, s)] = G.par[s] /\ \A x \in Slots \ {At(G, s)} : v[x] = h.par[x]
    BY <1>1, <1>3, <1>4 DEF Graph
  <1> HIDE DEF v
  <1>11. Tied(G, k)
    BY <1>9 DEF Valued, Tied, Copied
  <1>12. ASSUME NEW t \in Live(G)
         PROVE  k.par[At(G, t)] = IF t \in V \cup {s} THEN G.par[t] ELSE Default
    <2>1. CASE t = s
      BY <1>9, <1>10, <2>1
    <2>2. CASE t # s
      <3>1. At(G, t) \in Slots \ {At(G, s)}
        BY <1>2, <1>3, <2>2
      <3>2. k.par[At(G, t)] = h.par[At(G, t)]
        BY <1>9, <1>10, <3>1
      <3> QED
        BY <2>2, <3>2 DEF Valued
    <2> QED
      BY <2>1, <2>2
  <1>13. Valued(G, k, V \cup {s})
    BY <1>11, <1>12 DEF Valued
  <1> QED
    BY <1>8, <1>13 DEF l

\* Then the user sees the same.
LEMMA ValuedView ==
  ASSUME NEW G, Good(G), Unique(G), NEW h, Good(h),
         Valued(G, h, {s \in Live(G) : G.mod[s] \in WithParam})
  PROVE  View(h) = View(G)
  <1>1. /\ G \in Graph /\ NoDangling(G) /\ Kept(G) /\ h \in Graph /\ NoDangling(h)
        /\ Copied(G, h, Len(Rows(G))) /\ Tied(G, h)
    BY DEF Good, Sound, Linking, Valued, Tied
  <1> DEFINE see(f, s) ==
               [par |-> f.par[s],
                src |-> [c \in Conns |-> IF IsIn(f, <<s, c>>) THEN Named(f, f.src[<<s, c>>])
                                         ELSE Nowhere],
                fb  |-> {c \in Conns : <<s, c>> \in f.fb /\ f.src[<<s, c>>] # Unset}]
             seen(f, k) == IF Get(f, k) = -1 THEN <<>> ELSE see(f, Get(f, k))
  <1>2. /\ View(G) = [k \in Keys \ {Preview} |-> seen(G, k)]
        /\ View(h) = [k \in Keys \ {Preview} |-> seen(h, k)]
    BY DEF View
  <1>3. ASSUME NEW s \in Live(G) PROVE see(h, At(G, s)) = see(G, s)
    <2> DEFINE x == At(G, s)
    <2>1. h.par[x] = G.par[s]
      BY <1>1 DEF Valued, Kept
    <2>2. ASSUME NEW c \in Conns
          PROVE  /\ IsIn(h, <<x, c>>) <=> IsIn(G, <<s, c>>)
                 /\ IsIn(G, <<s, c>>) => Named(h, h.src[<<x, c>>]) = Named(G, G.src[<<s, c>>])
                 /\ <<x, c>> \in h.fb /\ h.src[<<x, c>>] # Unset
                      <=> <<s, c>> \in G.fb /\ G.src[<<s, c>>] # Unset
      <3> DEFINE p == <<s, c>>
                 y == <<x, c>>
      <3>1. p \in Pins /\ p[1] = s /\ y = To(G, p) /\ p[1] \in Live(G)
        BY DEF Pins, Live, Used, To
      <3>2. y \in Pins /\ PinClass(h, y) = PinClass(G, p)
        BY <1>1, <3>1, CopiedPins
      <3> HIDE DEF p, y
      <3>3. IsIn(h, y) <=> IsIn(G, p)
        BY <3>2 DEF IsIn
      <3>4. CASE ~IsIn(G, p)
        <4>1. p \notin Inputs(G) /\ y \notin Inputs(h)
          BY <3>3, <3>4 DEF Inputs
        <4>2. G.src[p] = Unset /\ h.src[y] = Unset
          BY <1>1, <3>1, <3>2, <4>1 DEF NoDangling
        <4> QED
          BY <3>3, <3>4, <4>2 DEF p, y
      <3>5. CASE IsIn(G, p)
        <4>1. p \in Inputs(G)
          BY <3>1, <3>5 DEF Inputs
        <4>2. CASE G.src[p] = Unset
          <5>1. h.src[y] = Unset
            BY <1>1, <3>1, <4>1, <4>2 DEF Tied
          <5> QED
            BY <3>3, <4>2, <5>1 DEF p, y, Named
        <4>3. CASE G.src[p] # Unset
          <5> DEFINE o == G.src[p]
          <5>1. o \in Pins /\ o[1] \in Live(G)
            BY <1>1, <3>1, <4>3 DEF NoDangling, Outputs
          <5>2. /\ To(G, o) # Unset /\ h.mod[To(G, o)[1]] = G.mod[o[1]] /\ To(G, o)[2] = o[2]
            BY <1>1, <5>1, CopiedPins
          <5>3. h.src[y] = To(G, o) /\ (y \in h.fb <=> p \in G.fb)
            BY <1>1, <3>1, <4>1, <4>3 DEF Tied
          <5>4. Named(h, h.src[y]) = Named(G, G.src[p])
            BY <4>3, <5>2, <5>3 DEF Named
          <5> QED
            BY <3>3, <4>3, <5>2, <5>3, <5>4 DEF p, y
        <4> QED
          BY <4>2, <4>3
      <3> QED
        BY <3>4, <3>5
    <2> HIDE DEF x
    <2>3. [c \in Conns |-> IF IsIn(h, <<x, c>>) THEN Named(h, h.src[<<x, c>>]) ELSE Nowhere]
          = [c \in Conns |-> IF IsIn(G, <<s, c>>) THEN Named(G, G.src[<<s, c>>]) ELSE Nowhere]
      BY <2>2
    <2>4. {c \in Conns : <<x, c>> \in h.fb /\ h.src[<<x, c>>] # Unset}
          = {c \in Conns : <<s, c>> \in G.fb /\ G.src[<<s, c>>] # Unset}
      BY <2>2
    <2> QED
      BY <2>1, <2>3, <2>4 DEF x
  <1>4. ASSUME NEW k \in Keys \ {Preview} PROVE seen(h, k) = seen(G, k)
    <2>1. CASE Get(G, k) = -1
      <3>1. Get(h, k) = -1
        BY <1>1, <2>1, CopiedNames
      <3> HIDE DEF see
      <3> QED
        BY <2>1, <3>1
    <2>2. CASE Get(G, k) # -1
      <3> DEFINE s == Get(G, k)
      <3>1. s \in Live(G) /\ G.mod[s] = k
        BY <2>2, GetIs, GraphAssumption DEF Live
      <3>2. Get(h, k) = At(G, s) /\ At(G, s) \in Slots
        BY <1>1, <3>1, CopiedNames, RowsAre
      <3>3. Get(h, k) # -1
        BY <3>2, SlotsType
      <3> HIDE DEF see
      <3>4. seen(h, k) = see(h, At(G, s)) /\ seen(G, k) = see(G, s)
        BY <2>2, <3>2, <3>3
      <3> QED
        BY <1>3, <3>1, <3>4
    <2> QED
      BY <2>1, <2>2
  <1> HIDE DEF seen
  <1> QED
    BY <1>2, <1>4

\* Three sequences in a row
LEMMA TwoAppended ==
  ASSUME NEW D, NEW x \in Seq(D), NEW y \in Seq(D)
  PROVE  /\ x \o y \in Seq(D) /\ Len(x \o y) = Len(x) + Len(y)
         /\ \A n \in 1 .. Len(x) : (x \o y)[n] = x[n]
         /\ \A n \in 1 .. Len(y) : (x \o y)[Len(x) + n] = y[n]
  OBVIOUS

InARow(a, b, c, ls) ==
  /\ Len(ls) = Len(a) + Len(b) + Len(c)
  /\ \A n \in 1 .. Len(a) : ls[n] = a[n]
  /\ \A n \in 1 .. Len(b) : ls[Len(a) + n] = b[n]
  /\ \A n \in 1 .. Len(c) : ls[Len(a) + Len(b) + n] = c[n]

LEMMA Appended ==
  ASSUME NEW D, NEW a, NEW b, NEW c, a \in Seq(D), b \in Seq(D), c \in Seq(D),
         NEW ls, ls = a \o b \o c
  PROVE  InARow(a, b, c, ls)
  <1>1. Len(a) \in Nat /\ Len(b) \in Nat /\ Len(c) \in Nat
    OBVIOUS
  <1> DEFINE ab == a \o b
  <1>2. /\ ab \in Seq(D) /\ Len(ab) = Len(a) + Len(b)
        /\ \A n \in 1 .. Len(a) : ab[n] = a[n]
        /\ \A n \in 1 .. Len(b) : ab[Len(a) + n] = b[n]
    BY TwoAppended
  <1> HIDE DEF ab
  <1>3. /\ Len(ab \o c) = Len(ab) + Len(c)
        /\ \A n \in 1 .. Len(ab) : (ab \o c)[n] = ab[n]
        /\ \A n \in 1 .. Len(c) : (ab \o c)[Len(ab) + n] = c[n]
    <2>1. ab \in Seq(D) /\ c \in Seq(D)
      BY <1>2
    <2> QED
      BY <2>1
  <1>4. /\ \A n \in 1 .. Len(a) : n \in 1 .. Len(ab)
        /\ \A n \in 1 .. Len(b) : Len(a) + n \in 1 .. Len(ab)
    BY <1>1, <1>2
  <1> QED
    BY <1>1, <1>2, <1>3, <1>4 DEF ab, InARow

\* The lines of a graph, one by one
WithValue(G) == {s \in Live(G) : G.mod[s] \in WithParam}
LEMMA FlatLinesAre ==
  ASSUME Numbers, NEW G, Good(G), NEW P \in SUBSET Inputs(G)
  PROVE  LET ls == Flat(G, P)
             ps == PinSeq(P)
             vs == SlotSeq(WithValue(G))
             M == Len(Rows(G))
             N == Len(ps)
             L == Len(vs)
         IN  /\ ls \in Seq(Lines) /\ Len(ls) = M + N + L
             /\ \A n \in 1 .. M : ls[n] = ModuleLine(G, Rows(G)[n])
             /\ \A n \in 1 .. N : ls[M + n] = ConnLine(G, ps[n])
             /\ \A n \in 1 .. L : ls[M + N + n] = ParamLine(G, vs[n])
  <1> DEFINE ms == Rows(G)
             ps == PinSeq(P)
             vs == SlotSeq(WithValue(G))
             as == [n \in DOMAIN ms |-> ModuleLine(G, ms[n])]
             bs == [n \in DOMAIN ps |-> ConnLine(G, ps[n])]
             cs == [n \in DOMAIN vs |-> ParamLine(G, vs[n])]
             M == Len(ms)
             N == Len(ps)
             L == Len(vs)
  <1>1. ms \in Seq(Live(G)) /\ ps \in Seq(P) /\ vs \in Seq(WithValue(G))
    <2>1. P \in SUBSET Pins /\ WithValue(G) \in SUBSET Slots
      BY DEF Inputs, WithValue, Live, Used
    <2>2. ps \in Seq(P)
      BY <2>1, PinSeqType
    <2>3. vs \in Seq(WithValue(G))
      BY <2>1, SlotSeqType
    <2> QED
      BY <2>2, <2>3, RowsAre
  <1>2. Flat(G, P) = as \o bs \o cs
    BY DEF Flat, Mapped, WithValue, Rows
  <1>3. Flat(G, P) \in Seq(Lines)
    BY FlatType
  <1> HIDE DEF ms, ps, vs
  <1>4. /\ M \in Nat /\ N \in Nat /\ L \in Nat
        /\ DOMAIN ms = 1 .. M /\ DOMAIN ps = 1 .. N /\ DOMAIN vs = 1 .. L
    BY <1>1
  <1> DEFINE D == {as[n] : n \in 1 .. M} \cup {bs[n] : n \in 1 .. N} \cup {cs[n] : n \in 1 .. L}
  <1>5. /\ as \in Seq(D) /\ Len(as) = M
        /\ bs \in Seq(D) /\ Len(bs) = N
        /\ cs \in Seq(D) /\ Len(cs) = L
    <2>1. as \in [1 .. M -> D] /\ bs \in [1 .. N -> D] /\ cs \in [1 .. L -> D]
      BY <1>4
    <2> HIDE DEF as, bs, cs, M, N, L, D
    <2>2. ASSUME NEW K \in Nat, NEW q \in [1 .. K -> D] PROVE q \in Seq(D) /\ Len(q) = K
      OBVIOUS
    <2> QED
      BY <1>4, <2>1, <2>2
  <1>6. /\ \A n \in 1 .. M : as[n] = ModuleLine(G, ms[n])
        /\ \A n \in 1 .. N : bs[n] = ConnLine(G, ps[n])
        /\ \A n \in 1 .. L : cs[n] = ParamLine(G, vs[n])
    BY <1>4
  <1> HIDE DEF as, bs, cs, M, N, L, D
  <1>7. InARow(as, bs, cs, Flat(G, P))
    BY <1>2, <1>5, Appended
  <1> QED
    BY <1>3, <1>5, <1>6, <1>7 DEF InARow, M, N, L, ms, ps, vs

\* All the lines are read, those about open inputs too or not.
LEMMA FlatReads ==
  ASSUME KnownClasses, Numbers, NEW G, Good(G), Unique(G), OrderFree(G),
         NEW P \in SUBSET Inputs(G), Plugged(G) \subseteq P
  PROVE  LET h == ReadLines(Empty, Flat(G, P))
         IN  Good(h) /\ Valued(G, h, WithValue(G))
  <1> DEFINE ls == Flat(G, P)
             w == ReadRun(Empty, ls)
             ps == PinSeq(P)
             vs == SlotSeq(WithValue(G))
             M == Len(Rows(G))
             N == Len(ps)
             L == Len(vs)
             Q(n) == {ps[m] : m \in 1 .. n} \cap Plugged(G)
             V(n) == {vs[m] : m \in 1 .. n}
  <1>1. /\ ls \in Seq(Lines) /\ Len(ls) = M + N + L
        /\ \A n \in 1 .. M : ls[n] = ModuleLine(G, Rows(G)[n])
        /\ \A n \in 1 .. N : ls[M + n] = ConnLine(G, ps[n])
        /\ \A n \in 1 .. L : ls[M + N + n] = ParamLine(G, vs[n])
    BY FlatLinesAre
  <1> HIDE DEF ls
  <1>2. /\ w[0] = Empty
        /\ \A n \in 1 .. Len(ls) : w[n] = ReadLine(w[n - 1], ls[n])
        /\ \A n \in 0 .. Len(ls) : Good(w[n])
    BY <1>1, EmptyGood, ReadRuns
  <1>3. ReadLines(Empty, ls) = w[Len(ls)]
    BY ReadUnfold
  <1>4. G \in Graph /\ P \in SUBSET Pins /\ WithValue(G) \in SUBSET Slots
    BY DEF Good, Sound, Linking, Inputs, WithValue, Live, Used
  <1>5. /\ ps \in Seq(P) /\ \A p \in P : \E k \in 1 .. Len(ps) : ps[k] = p
        /\ vs \in Seq(WithValue(G)) /\ \A s \in WithValue(G) : \E k \in 1 .. Len(vs) : vs[k] = s
    BY <1>4, PinSeqType, SlotSeqOrder
  <1>6. M \in Nat /\ N \in Nat /\ L \in Nat
    <2>1. Rows(G) \in Seq(Live(G))
      BY RowsAre
    <2> HIDE DEF ps, vs
    <2> QED
      BY <1>5, <2>1
  <1>7. /\ \A n \in 1 .. N : ps[n] \in P
        /\ \A n \in 1 .. L : vs[n] \in WithValue(G)
    <2> HIDE DEF ps, vs
    <2> QED
      BY <1>5
  <1> HIDE DEF w, ps, vs, M, N, L
  <1>8. Rebuilt(G, w[M], M)
    <2> DEFINE T == {n \in Nat : n <= M => Rebuilt(G, w[n], n)}
    <2>1. 0 \in T
      BY <1>2, EmptyRebuilt
    <2>2. ASSUME NEW n \in Nat, n \in T PROVE n + 1 \in T
      <3> SUFFICES ASSUME n + 1 <= M PROVE Rebuilt(G, w[n + 1], n + 1)
        OBVIOUS
      <3>1. /\ n < M /\ n + 1 \in 1 .. M /\ n + 1 \in 1 .. Len(ls) /\ n \in 0 .. Len(ls)
            /\ (n + 1) - 1 = n
        BY <1>1, <1>6
      <3>2. Rebuilt(G, w[n], n) /\ Good(w[n])
        <4>1. n <= M
          BY <1>6, <3>1
        <4>2. Rebuilt(G, w[n], n)
          BY <2>2, <4>1
        <4> QED
          BY <1>2, <3>1, <4>2
      <3>3. w[n + 1] = ReadLine(w[n], ModuleLine(G, Rows(G)[n + 1]))
        <4>1. w[n + 1] = ReadLine(w[(n + 1) - 1], ls[n + 1])
          BY <1>2, <3>1
        <4> QED
          BY <1>1, <3>1, <4>1
      <3>4. Rebuilt(G, ReadLine(w[n], ModuleLine(G, Rows(G)[n + 1])), n + 1)
        BY <3>1, <3>2, RebuiltStep DEF M
      <3> QED
        BY <3>3, <3>4
    <2>3. M \in T
      <3> HIDE DEF T
      <3> QED
        BY <1>6, <2>1, <2>2, NatInd
    <2> QED
      BY <1>6, <2>3
  <1>9. Wired(G, w[M + N], Q(N)) /\ Marked(G, w[M + N], Q(N))
    <2> DEFINE T == {n \in Nat : n <= N => Wired(G, w[M + n], Q(n)) /\ Marked(G, w[M + n], Q(n))}
    <2>1. 0 \in T
      <3>1. Q(0) = {} /\ M + 0 = M
        BY <1>6
      <3>2. Wired(G, w[M], {}) /\ Marked(G, w[M], {})
        BY <1>4, <1>8, RebuiltWired DEF M
      <3> QED
        BY <3>1, <3>2
    <2>2. ASSUME NEW n \in Nat, n \in T PROVE n + 1 \in T
      <3> SUFFICES ASSUME n + 1 <= N
                   PROVE  Wired(G, w[M + (n + 1)], Q(n + 1)) /\ Marked(G, w[M + (n + 1)], Q(n + 1))
        OBVIOUS
      <3>1. /\ n + 1 \in 1 .. N /\ M + (n + 1) \in 1 .. Len(ls) /\ M + n \in 0 .. Len(ls)
            /\ (M + (n + 1)) - 1 = M + n
        BY <1>1, <1>6
      <3>2. Wired(G, w[M + n], Q(n)) /\ Marked(G, w[M + n], Q(n)) /\ Good(w[M + n])
        BY <1>2, <1>6, <2>2, <3>1
      <3>3. w[M + (n + 1)] = ReadLine(w[M + n], ConnLine(G, ps[n + 1]))
        <4>1. w[M + (n + 1)] = ReadLine(w[(M + (n + 1)) - 1], ls[M + (n + 1)])
          BY <1>2, <3>1
        <4> QED
          BY <1>1, <3>1, <4>1
      <3>4. Q(n + 1) = Q(n) \cup ({ps[n + 1]} \cap Plugged(G))
        <4>1. 1 .. n + 1 = (1 .. n) \cup {n + 1}
          OBVIOUS
        <4> QED
          BY <4>1
      <3>5. Q(n) \in SUBSET Plugged(G) /\ ps[n + 1] \in Inputs(G)
        BY <1>6, <1>7, <3>1
      <3> HIDE DEF Q
      <3>6. CASE ps[n + 1] \in Plugged(G)
        <4>1. Q(n + 1) = Q(n) \cup {ps[n + 1]}
          BY <3>4, <3>6
        <4> QED
          BY <3>2, <3>3, <3>5, <3>6, <4>1, WiredStep
      <3>7. CASE ps[n + 1] \notin Plugged(G)
        <4>1. Q(n + 1) = Q(n)
          BY <3>4, <3>7
        <4> QED
          BY <3>2, <3>3, <3>5, <3>7, <4>1, OpenStep
      <3> QED
        BY <3>6, <3>7
    <2>3. N \in T
      <3> HIDE DEF T
      <3> QED
        BY <1>6, <2>1, <2>2, NatInd
    <2> QED
      BY <1>6, <2>3
  <1>10. Q(N) = Plugged(G)
    BY <1>5, <1>7 DEF N
  <1>11. Valued(G, w[M + N + L], V(L))
    <2> DEFINE T == {n \in Nat : n <= L => Valued(G, w[M + N + n], V(n))}
    <2>1. 0 \in T
      <3>1. V(0) = {} /\ M + N + 0 = M + N
        BY <1>6
      <3>2. Valued(G, w[M + N], {})
        BY <1>4, <1>9, <1>10, WiredAll
      <3> QED
        BY <3>1, <3>2
    <2>2. ASSUME NEW n \in Nat, n \in T PROVE n + 1 \in T
      <3> SUFFICES ASSUME n + 1 <= L PROVE Valued(G, w[M + N + (n + 1)], V(n + 1))
        OBVIOUS
      <3>1. /\ n + 1 \in 1 .. L /\ M + N + (n + 1) \in 1 .. Len(ls) /\ M + N + n \in 0 .. Len(ls)
            /\ (M + N + (n + 1)) - 1 = M + N + n
        BY <1>1, <1>6
      <3>2. Valued(G, w[M + N + n], V(n)) /\ Good(w[M + N + n])
        BY <1>2, <1>6, <2>2, <3>1
      <3>3. w[M + N + (n + 1)] = ReadLine(w[M + N + n], ParamLine(G, vs[n + 1]))
        <4>1. w[M + N + (n + 1)] = ReadLine(w[(M + N + (n + 1)) - 1], ls[M + N + (n + 1)])
          BY <1>2, <3>1
        <4> QED
          BY <1>1, <3>1, <4>1
      <3>4. V(n + 1) = V(n) \cup {vs[n + 1]}
        <4>1. 1 .. n + 1 = (1 .. n) \cup {n + 1}
          OBVIOUS
        <4> QED
          BY <4>1
      <3>5. vs[n + 1] \in Live(G) /\ G.mod[vs[n + 1]] \in WithParam
        BY <1>7, <3>1 DEF WithValue
      <3> HIDE DEF V
      <3> QED
        BY <3>2, <3>3, <3>4, <3>5, ValuedStep
    <2>3. L \in T
      <3> HIDE DEF T
      <3> QED
        BY <1>6, <2>1, <2>2, NatInd
    <2> QED
      BY <1>6, <2>3
  <1>12. V(L) = WithValue(G)
    BY <1>5, <1>7 DEF L
  <1>13. Len(ls) \in 0 .. Len(ls)
    BY <1>1, <1>6
  <1>14. Good(w[Len(ls)]) /\ Valued(G, w[Len(ls)], WithValue(G))
    BY <1>1, <1>2, <1>11, <1>12, <1>13
  <1> QED
    BY <1>3, <1>14 DEF ls

\* The whole file is read.
LEMMA ConfigReads ==
  ASSUME KnownClasses, Numbers, NEW G, Good(G), Unique(G), OrderFree(G)
  PROVE  LET h == ReadLines(Empty, ConfigLines(G))
         IN  Good(h) /\ Valued(G, h, WithValue(G))
  <1>1. Plugged(G) \in SUBSET Inputs(G) /\ ConfigLines(G) = Flat(G, Plugged(G))
    BY DEF Plugged, ConfigLines
  <1> QED
    BY <1>1, FlatReads

\* A graph that is written and read back looks the same.
LEMMA ReadsBack ==
  ASSUME KnownClasses, Numbers, NEW G, Good(G), Unique(G), OrderFree(G)
  PROVE  View(ReadLines(Empty, ConfigLines(G))) = View(G)
  BY ConfigReads, ValuedView DEF WithValue

\* Leaving the darkroom and coming back loses nothing: what darkroom_leave
\* writes is read by darkroom_enter into a graph that shows the same modules,
\* connections, feedback marks and parameters, whatever was edited before.
THEOREM HistoryRoundTrip ==
  ASSUME KnownClasses, Numbers
  PROVE  HSpec => []RoundTrip
  <1>1. HSound => RoundTrip
    <2> SUFFICES ASSUME HSound, Unique(g), OrderFree(g)
                 PROVE  LET h == ReadLines(Empty, ConfigLines(g))
                        IN  Shows(h, View(g)) /\ Shows(g, View(h))
      BY DEF RoundTrip
    <2>1. Good(g)
      BY StateFields DEF HSound
    <2>2. View(ReadLines(Empty, ConfigLines(g))) = View(g)
      BY <2>1, ReadsBack
    <2> QED
      BY <2>2 DEF Shows
  <1> QED
    BY <1>1, HistoryInv, PTL

-----------------------------------------------------------------------------
(* What the lines of a history bring back *)

\* The connectors of all modules but the preview, by name, whether the modules
\* are on the graph or not
Others == Keys \ {Preview}
Names  == {q \in Others \X Conns : Class[q[1]][q[2]].io # "none"}
Here(h, k)    == Get(h, k) # -1
PinOf(h, q)   == <<Get(h, q[1]), q[2]>>
Form(h, p)    == <<h.chan[p], h.fmt[p]>>
NameForm(q)   == <<Class[q[1]][q[2]].chan, Class[q[1]][q[2]].fmt>>
Joined        == <<"", "">>

\* What the input reads, by name, and whether only the preview reads the output
From(h, q)     == IF Here(h, q[1]) THEN Named(h, h.src[PinOf(h, q)]) ELSE Nowhere
Borrowed(h, p) == Readers(h, p) # {} /\ \A r \in Readers(h, p) : h.mod[r[1]] = Preview

\* The net of a graph: its connections by name and the formats of what is not
\* connected, the preview released.  A module that is not there has the formats
\* of its class, as one that is added will.
NetForm(h, q) ==
  IF ~Here(h, q[1]) \/ Borrowed(h, PinOf(h, q)) THEN NameForm(q)
  ELSE IF From(h, q) # Nowhere THEN Joined ELSE Form(h, PinOf(h, q))
Net(h) ==
  [from |-> [q \in Names |-> From(h, q)],
   back |-> {q \in Names : From(h, q) # Nowhere /\ PinOf(h, q) \in h.fb},
   form |-> [q \in Names |-> NetForm(h, q)]]

\* The operations on nets
NetUnlink(n, i) ==
  LET o == n.from[i]
      last == \A r \in Names \ {i} : n.from[r] # o
  IN  IF o = Nowhere THEN n
      ELSE [from |-> [q \in Names |-> IF q = i THEN Nowhere ELSE n.from[q]],
            back |-> n.back \ {i},
            form |-> [q \in Names |-> IF q = i \/ (q = o /\ last) THEN NameForm(q) ELSE n.form[q]]]

FormBadChan(a, b) ==
  a[1] # "&" /\ OutFormat(a[1], b[1], "rgba") # InFormat(Given(a[1]), b[1], "rgba")
FormBadFmt(a, b) == OutFormat(a[2], b[2], "f16") # InFormat(a[2], b[2], "f16")
OutForm(a, b) ==
  <<OutFormat(a[1], b[1], "rgba"),
    IF FormBadChan(a, b) THEN a[2] ELSE OutFormat(a[2], b[2], "f16")>>
InForm(a, b) ==
  <<InFormat(Given(a[1]), b[1], "rgba"),
    IF FormBadChan(a, b) THEN b[2] ELSE InFormat(a[2], b[2], "f16")>>

NetJoin(n, o, i) ==
  LET a == n.form[o]
      b == n.form[i]
      bad == FormBadChan(a, b) \/ FormBadFmt(a, b)
  IN  [from |-> [q \in Names |-> IF q = i /\ ~bad THEN o ELSE n.from[q]],
       back |-> {q \in n.back : q # i \/ bad},
       form |-> [q \in Names |->
                   IF q = o THEN OutForm(a, b)
                   ELSE IF q = i THEN IF bad THEN InForm(a, b) ELSE Joined
                   ELSE n.form[q]]]

NetInternal(n, o, i) ==
  IF n.from[i] = o THEN n
  ELSE IF o = Nowhere THEN NetUnlink(n, i)
  ELSE NetJoin(NetUnlink(n, i), o, i)

NetCyclic(n, o, i) ==
  /\ o # Nowhere
  /\ \A T \in SUBSET Others :
       /\ o[1] \in T
       /\ \A q \in Names \ n.back : q[1] \in T /\ n.from[q] # Nowhere => n.from[q][1] \in T
       => i[1] \in T

NetConnect(n, o, i) == IF NetCyclic(n, o, i) THEN n ELSE NetInternal(n, o, i)
NetFeedback(n, o, i) ==
  LET c == NetInternal(n, o, i)
  IN  IF c.from[i] = Nowhere THEN c
      ELSE [from |-> c.from, back |-> c.back \cup {i}, form |-> c.form]

\* What a line does to the net: the lines about modules and values nothing
NetRead(n, l) ==
  IF l.mod = Preview \/ l.cmd \notin {"connect", "feedback"} THEN n
  ELSE IF l.cmd = "feedback" THEN NetFeedback(n, l.from, <<l.mod, l.conn>>)
  ELSE NetConnect(n, l.from, <<l.mod, l.conn>>)

-----------------------------------------------------------------------------
\* Names and pins, when no two modules have the same name
LEMMA PreviewType ==
  /\ Preview \in Keys => /\ Class[Preview][0].io = "in"
                         /\ \A c \in Conns \ {0} : Class[Preview][c].io = "none"
  /\ \A c \in Conns : Preview \in Keys => Class[Preview][c].io # "out"
  BY HistoryAssumption, GraphAssumption

LEMMA LiveNamed ==
  ASSUME NEW h \in Graph, Unique(h), NEW s \in Live(h)
  PROVE  Get(h, h.mod[s]) = s /\ h.mod[s] \in Keys /\ s \in Slots /\ s # -1
  <1>1. Get(h, h.mod[s]) \in Live(h)
    BY GetLive
  <1>2. s \in Slots /\ Live(h) \subseteq Slots
    BY DEF Live, Used
  <1>3. Get(h, h.mod[s]) # -1 /\ s # -1
    BY <1>1, <1>2, SlotsType
  <1>4. h.mod[Get(h, h.mod[s])] = h.mod[s]
    BY <1>3, GetIs
  <1> QED
    BY <1>1, <1>2, <1>3, <1>4 DEF Unique, Live, Used, Graph

LEMMA HereIs ==
  ASSUME NEW h \in Graph, NEW k \in Keys, Here(h, k)
  PROVE  Get(h, k) \in Live(h) /\ Get(h, k) \in Slots /\ h.mod[Get(h, k)] = k
  BY GetIs, GraphAssumption DEF Here, Live

LEMMA PinNamed ==
  ASSUME NEW h \in Graph, NEW q \in Names, Here(h, q[1])
  PROVE  /\ PinOf(h, q) \in Pins /\ PinOf(h, q)[1] \in Live(h)
         /\ h.mod[PinOf(h, q)[1]] = q[1] /\ Named(h, PinOf(h, q)) = q
         /\ PinClass(h, PinOf(h, q)) = Class[q[1]][q[2]]
         /\ h.mod[PinOf(h, q)[1]] # Preview
  <1>1. q[1] \in Keys /\ q[2] \in Conns /\ q = <<q[1], q[2]>> /\ q[1] # Preview
    BY DEF Names, Others
  <1>2. Get(h, q[1]) \in Live(h) /\ Get(h, q[1]) \in Slots /\ h.mod[Get(h, q[1])] = q[1]
    BY <1>1, HereIs
  <1>3. PinOf(h, q) \in Pins /\ PinOf(h, q)[1] = Get(h, q[1]) /\ PinOf(h, q)[2] = q[2]
    BY <1>1, <1>2 DEF PinOf, Pins
  <1>4. PinOf(h, q) # Unset
    BY <1>3, UnsetIsNoPin
  <1>5. Named(h, PinOf(h, q)) = q
    BY <1>1, <1>2, <1>3, <1>4 DEF Named
  <1>6. PinClass(h, PinOf(h, q)) = Class[q[1]][q[2]]
    BY <1>1, <1>2, <1>3, GraphAssumption DEF PinClass
  <1> QED
    BY <1>1, <1>2, <1>3, <1>5, <1>6

LEMMA NamedPinOf ==
  ASSUME NEW h \in Graph, Unique(h), NEW p \in Inputs(h) \cup Outputs(h), h.mod[p[1]] # Preview
  PROVE  LET q == Named(h, p)
         IN  q \in Names /\ Here(h, q[1]) /\ PinOf(h, q) = p /\ q # Nowhere /\ q[1] = h.mod[p[1]]
  <1>0. /\ p \in Pins /\ p[1] \in Live(h) /\ h.mod[p[1]] # NoKey
        /\ Class[h.mod[p[1]]][p[2]].io # "none"
    BY DEF Inputs, Outputs, Live, IsIn, IsOut, PinClass
  <1>1. Get(h, h.mod[p[1]]) = p[1] /\ h.mod[p[1]] \in Keys /\ p[1] # -1
    BY <1>0, LiveNamed
  <1>2. Named(h, p) = <<h.mod[p[1]], p[2]>> /\ p = <<p[1], p[2]>> /\ p[2] \in Conns
    BY <1>0, UnsetIsNoPin DEF Named, Pins
  <1>3. Named(h, p) # Nowhere
    <2>1. Nowhere[1] = NoKey /\ Named(h, p)[1] = h.mod[p[1]]
      BY <1>2 DEF Nowhere
    <2> QED
      BY <1>1, <2>1, GraphAssumption
  <1> QED
    BY <1>0, <1>1, <1>2, <1>3 DEF Names, Others, Here, PinOf

\* Outputs are not on the preview.
LEMMA OutNamed ==
  ASSUME NEW h \in Graph, NEW o \in Outputs(h)
  PROVE  o \in Pins /\ o[1] \in Live(h) /\ h.mod[o[1]] # Preview
  <1>1. o \in Pins /\ o[1] \in Live(h) /\ IsOut(h, o) /\ h.mod[o[1]] # NoKey /\ h.mod[o[1]] \in Keys
    BY DEF Outputs, Live, Used, Graph
  <1>2. Class[h.mod[o[1]]][o[2]].io = "out" /\ o[2] \in Conns
    BY <1>1 DEF IsOut, PinClass, Pins
  <1> QED
    BY <1>1, <1>2, PreviewType

LEMMA NowhereType == Nowhere \notin Names /\ Nowhere[1] \notin Keys
  BY GraphAssumption DEF Nowhere, Names, Others

\* The preview reads an output with formats of its own, if it reads one.
PreviewFixed(h) ==
  \A p \in Pins : h.src[p] # Unset /\ h.mod[p[1]] = Preview => ~Loose(Named(h, h.src[p]))
PinForm(h, p) == <<PinClass(h, p).chan, PinClass(h, p).fmt>>

\* Good but for the order of the modules
Fair(h) == Linking(h) /\ Kept(h)

LEMMA GoodIs ==
  ASSUME NEW h, Good(h)
  PROVE  /\ h \in Graph /\ NoDangling(h) /\ RefExact(h) /\ FormatsAgree(h) /\ Linking(h)
         /\ Acyclic(h) /\ Kept(h) /\ Sound(h) /\ Fair(h)
  BY DEF Good, Sound, Linking, Fair

LEMMA FairIs ==
  ASSUME NEW h, Fair(h)
  PROVE  /\ h \in Graph /\ NoDangling(h) /\ RefExact(h) /\ FormatsAgree(h) /\ Linking(h)
         /\ Kept(h)
  BY DEF Linking, Fair

LEMMA SameNames ==
  ASSUME NEW h, NEW k, SameMods(h, k)
  PROVE  /\ \A n : Here(k, n) <=> Here(h, n)
         /\ \A q : PinOf(k, q) = PinOf(h, q)
         /\ \A p : Named(k, p) = Named(h, p)
         /\ Unique(h) => Unique(k)
         /\ \A p \in Pins : PinForm(k, p) = PinForm(h, p)
  BY SamePins DEF Here, PinOf, Named, SameMods, Unique, PinForm

\* An output with formats of its own has them.
LEMMA FixedForm ==
  ASSUME NEW h, Fair(h), NEW o \in Outputs(h), ~Loose(Named(h, o))
  PROVE  Form(h, o) = PinForm(h, o)
  <1>1. h \in Graph /\ Kept(h) /\ o \in Pins /\ o[1] \in Live(h) /\ h.mod[o[1]] # NoKey
    BY FairIs DEF Outputs, Live
  <1>2. Named(h, o) = <<h.mod[o[1]], o[2]>>
    BY <1>1, UnsetIsNoPin DEF Named
  <1>3. PinClass(h, o) = Class[h.mod[o[1]]][o[2]]
    BY <1>1 DEF PinClass
  <1>4. PinClass(h, o).chan # "*" /\ PinClass(h, o).fmt # "*"
    BY <1>2, <1>3 DEF Loose
  <1>5. Formed(h.chan[o], h.fmt[o], PinClass(h, o))
    BY <1>1 DEF Kept
  <1> QED
    BY <1>4, <1>5 DEF Formed, Form, PinForm

\* What reads is an input, what is read an output, which does not read.
LEMMA ReadIs ==
  ASSUME NEW h, Fair(h), NEW p \in Pins, h.src[p] # Unset
  PROVE  /\ p \in Inputs(h) /\ h.src[p] \in Outputs(h) /\ h.src[p] \in Pins /\ p # h.src[p]
         /\ h.src[h.src[p]] = Unset
         /\ h.src[p][1] \in Live(h) /\ h.mod[h.src[p][1]] # Preview /\ p[1] \in Live(h)
  <1>1. h \in Graph /\ NoDangling(h)
    BY FairIs
  <1>2. p \in Inputs(h) /\ h.src[p] \in Outputs(h)
    BY <1>1 DEF NoDangling
  <1>3. h.src[p] \in Pins /\ p # h.src[p] /\ h.src[p] \notin Inputs(h)
    BY <1>2, InNotOut DEF Outputs
  <1>4. h.src[h.src[p]] = Unset
    BY <1>1, <1>3 DEF NoDangling
  <1> QED
    BY <1>1, <1>2, <1>3, <1>4, OutNamed DEF Inputs

LEMMA OutputOpen ==
  ASSUME NEW h, Fair(h), NEW o \in Outputs(h)
  PROVE  h.src[o] = Unset
  BY ReadIs, InNotOut DEF Outputs

LEMMA BorrowedForm ==
  ASSUME NEW h, Fair(h), PreviewFixed(h), NEW o \in Pins, Borrowed(h, o)
  PROVE  o \in Outputs(h) /\ Form(h, o) = PinForm(h, o)
  <1>1. PICK r \in Pins : h.src[r] = o /\ h.mod[r[1]] = Preview
    BY DEF Borrowed, Readers
  <1>2. h.src[r] # Unset
    BY <1>1, UnsetIsNoPin
  <1> QED
    BY <1>1, <1>2, ReadIs, FixedForm DEF PreviewFixed

\* Then the net has the formats as they are.
LEMMA PlainForm ==
  ASSUME NEW h, Fair(h), PreviewFixed(h), NEW q \in Names, Here(h, q[1])
  PROVE  NetForm(h, q) = IF From(h, q) # Nowhere THEN Joined ELSE Form(h, PinOf(h, q))
  <1>1. h \in Graph
    BY FairIs
  <1>2. PinOf(h, q) \in Pins /\ PinForm(h, PinOf(h, q)) = NameForm(q)
    BY <1>1, PinNamed DEF PinForm, NameForm
  <1>3. CASE Borrowed(h, PinOf(h, q))
    <2>1. PinOf(h, q) \in Outputs(h) /\ Form(h, PinOf(h, q)) = PinForm(h, PinOf(h, q))
      BY <1>2, <1>3, BorrowedForm
    <2>2. h.src[PinOf(h, q)] = Unset
      BY <2>1, OutputOpen
    <2> QED
      BY <1>2, <1>3, <2>1, <2>2 DEF NetForm, From, Named
  <1> QED
    BY <1>3 DEF NetForm

LEMMA FromIs ==
  ASSUME NEW h, Good(h), Unique(h), NEW q \in Names
  PROVE  /\ From(h, q) # Nowhere =>
              /\ Here(h, q[1]) /\ PinOf(h, q) \in Inputs(h) /\ PinOf(h, q) \in Pins
              /\ h.src[PinOf(h, q)] # Unset
              /\ From(h, q) = Named(h, h.src[PinOf(h, q)])
              /\ From(h, q) \in Names /\ Here(h, From(h, q)[1])
              /\ PinOf(h, From(h, q)) = h.src[PinOf(h, q)]
         /\ Here(h, q[1]) /\ From(h, q) = Nowhere => h.src[PinOf(h, q)] = Unset
  <1>1. h \in Graph
    BY GoodIs
  <1>2. ASSUME Here(h, q[1]), h.src[PinOf(h, q)] # Unset
        PROVE  /\ PinOf(h, q) \in Inputs(h) /\ PinOf(h, q) \in Pins
               /\ From(h, q) = Named(h, h.src[PinOf(h, q)])
               /\ From(h, q) \in Names /\ Here(h, From(h, q)[1]) /\ From(h, q) # Nowhere
               /\ PinOf(h, From(h, q)) = h.src[PinOf(h, q)]
    <2>1. PinOf(h, q) \in Pins
      BY <1>1, <1>2, PinNamed
    <2> DEFINE p == PinOf(h, q)
               x == h.src[p]
    <2>2. From(h, q) = Named(h, x)
      BY <1>2 DEF From
    <2> HIDE DEF p
    <2>3. p \in Inputs(h) /\ x \in Outputs(h) /\ h.mod[x[1]] # Preview
      BY <1>2, <2>1, GoodIs, ReadIs DEF p
    <2> HIDE DEF x
    <2>4. Named(h, x) \in Names /\ Here(h, Named(h, x)[1]) /\ PinOf(h, Named(h, x)) = x
          /\ Named(h, x) # Nowhere
      BY <1>1, <2>3, NamedPinOf
    <2> QED
      BY <2>1, <2>2, <2>3, <2>4 DEF p, x
  <1>3. From(h, q) # Nowhere => Here(h, q[1]) /\ h.src[PinOf(h, q)] # Unset
    BY DEF From, Named
  <1> QED
    BY <1>2, <1>3

LEMMA NamedOnly ==
  ASSUME NEW h, Good(h), Unique(h), NEW o \in Outputs(h) \cup {Unset}, NEW x \in Outputs(h) \cup {Unset},
         Named(h, o) = Named(h, x)
  PROVE  o = x
  <1>1. \A y \in Outputs(h) : Named(h, y) # Nowhere /\ PinOf(h, Named(h, y)) = y
    BY GoodIs, OutNamed, NamedPinOf
  <1>2. Named(h, Unset) = Nowhere
    BY DEF Named
  <1> QED
    BY <1>1, <1>2

\* What Unlink1 does to the formats
Opened(h, i, u) ==
  LET x == h.src[i]
  IN  /\ SameMods(h, u) /\ Good(u) /\ u.par = h.par /\ u.fb = h.fb
      /\ u.src = [h.src EXCEPT ![i] = Unset]
      /\ Form(u, i) = PinForm(h, i)
      /\ Form(u, x) = IF Readers(h, x) = {i} THEN PinForm(h, x) ELSE Form(h, x)
      /\ \A p \in Pins \ {i, x} : Form(u, p) = Form(h, p)
      /\ \A p \in Pins : u.chan[p] = Form(u, p)[1] /\ u.fmt[p] = Form(u, p)[2]

LEMMA Unlink1Is ==
  ASSUME NEW h, Good(h), NEW i \in Pins, h.src[i] # Unset
  PROVE  Opened(h, i, Unlink1(h, i))
  <1> DEFINE u == Unlink1(h, i)
             x == h.src[i]
             last == h.ref[x] = 1
  <1>1. h \in Graph /\ x \in Pins /\ i # x /\ x \in Outputs(h) /\ RefExact(h)
    BY GoodIs, ReadIs
  <1>2. Linked(h, i)
    BY GoodIs, AllLinked
  <1>3. last <=> Readers(h, x) = {i}
    <2>1. h.ref[x] = Cardinality(Readers(h, x)) /\ i \in Readers(h, x) /\ IsFiniteSet(Readers(h, x))
      BY <1>1, ReadersFinite DEF RefExact, Readers
    <2> HIDE DEF x
    <2>2. Cardinality(Readers(h, x)) = 1 <=> \E y : Readers(h, x) = {y}
      BY <2>1, FS_Singleton
    <2> QED
      BY <2>1, <2>2
  <1>4. u = [h EXCEPT !.src  = [h.src EXCEPT ![i] = Unset],
                     !.ref  = [h.ref EXCEPT ![x] = IF @ > 0 THEN @ - 1 ELSE 0],
                     !.chan = [h.chan EXCEPT ![i] = PinClass(h, i).chan,
                                             ![x] = IF last THEN PinClass(h, x).chan ELSE @],
                     !.fmt  = [h.fmt EXCEPT ![i] = PinClass(h, i).fmt,
                                            ![x] = IF last THEN PinClass(h, x).fmt ELSE @]]
    BY <1>2 DEF Unlink1
  <1>5. /\ u.num = h.num /\ u.mod = h.mod /\ u.par = h.par /\ u.fb = h.fb
        /\ u.src = [h.src EXCEPT ![i] = Unset]
        /\ u.chan = [h.chan EXCEPT ![i] = PinClass(h, i).chan,
                                   ![x] = IF last THEN PinClass(h, x).chan ELSE @]
        /\ u.fmt  = [h.fmt EXCEPT ![i] = PinClass(h, i).fmt,
                                  ![x] = IF last THEN PinClass(h, x).fmt ELSE @]
    BY <1>1, <1>4 DEF Graph
  <1>6. Good(u)
    <2>1. {i} \in SUBSET Pins
      OBVIOUS
    <2> QED
      BY <1>1, <2>1, UnlinkOne, UnlinkGood
  <1> HIDE DEF u, x, last
  <1>7. /\ u.chan[i] = PinClass(h, i).chan /\ u.fmt[i] = PinClass(h, i).fmt
        /\ u.chan[x] = IF last THEN PinClass(h, x).chan ELSE h.chan[x]
        /\ u.fmt[x] = IF last THEN PinClass(h, x).fmt ELSE h.fmt[x]
        /\ \A p \in Pins \ {i, x} : u.chan[p] = h.chan[p] /\ u.fmt[p] = h.fmt[p]
    BY <1>1, <1>5 DEF Graph
  <1>8. SameMods(h, u)
    BY <1>5 DEF SameMods
  <1>9. \A p \in Pins : u.chan[p] = Form(u, p)[1] /\ u.fmt[p] = Form(u, p)[2]
    BY DEF Form
  <1> QED
    BY <1>3, <1>5, <1>6, <1>7, <1>8, <1>9 DEF Form, PinForm, u, x, Opened

LEMMA NetFields ==
  ASSUME NEW h
  PROVE  /\ \A q \in Names : Net(h).from[q] = From(h, q) /\ Net(h).form[q] = NetForm(h, q)
         /\ \A q \in Names : q \in Net(h).back <=> From(h, q) # Nowhere /\ PinOf(h, q) \in h.fb
         /\ Net(h).from = [q \in Names |-> From(h, q)]
         /\ Net(h).back = {q \in Names : From(h, q) # Nowhere /\ PinOf(h, q) \in h.fb}
         /\ Net(h).form = [q \in Names |-> NetForm(h, q)]
  BY DEF Net

\* Two graphs with the same net
LEMMA NetSame ==
  ASSUME NEW h, NEW k,
         \A q \in Names : /\ From(k, q) = From(h, q) /\ NetForm(k, q) = NetForm(h, q)
                          /\ From(h, q) # Nowhere =>
                               (PinOf(k, q) \in k.fb <=> PinOf(h, q) \in h.fb)
  PROVE  Net(k) = Net(h)
  <1>1. [q \in Names |-> From(k, q)] = [q \in Names |-> From(h, q)]
    OBVIOUS
  <1>2. [q \in Names |-> NetForm(k, q)] = [q \in Names |-> NetForm(h, q)]
    OBVIOUS
  <1>3. {q \in Names : From(k, q) # Nowhere /\ PinOf(k, q) \in k.fb}
        = {q \in Names : From(h, q) # Nowhere /\ PinOf(h, q) \in h.fb}
    OBVIOUS
  <1> QED
    BY <1>1, <1>2, <1>3 DEF Net

\* The net is made of these parts.
NetIs(h, F, B, M) ==
  /\ F = [q \in Names |-> F[q]] /\ \A q \in Names : From(h, q) = F[q]
  /\ M = [q \in Names |-> M[q]] /\ \A q \in Names : NetForm(h, q) = M[q]
  /\ B \in SUBSET Names
  /\ \A q \in Names : q \in B <=> From(h, q) # Nowhere /\ PinOf(h, q) \in h.fb

LEMMA NetMade ==
  ASSUME NEW h, NEW F, NEW B, NEW M, NetIs(h, F, B, M)
  PROVE  Net(h) = [from |-> F, back |-> B, form |-> M]
  <1>1. [q \in Names |-> From(h, q)] = F
    BY DEF NetIs
  <1>2. [q \in Names |-> NetForm(h, q)] = M
    BY DEF NetIs
  <1>3. {q \in Names : From(h, q) # Nowhere /\ PinOf(h, q) \in h.fb} = B
    BY DEF NetIs
  <1> QED
    BY <1>1, <1>2, <1>3 DEF Net

LEMMA InNamed ==
  ASSUME NEW h, Good(h), Unique(h), NEW i \in Inputs(h), h.mod[i[1]] # Preview
  PROVE  LET q == Named(h, i)
         IN  /\ q \in Names /\ Here(h, q[1]) /\ PinOf(h, q) = i /\ q # Nowhere /\ i \in Pins
             /\ q[1] = h.mod[i[1]]
             /\ From(h, q) = Named(h, h.src[i])
             /\ From(h, q) = Nowhere <=> h.src[i] = Unset
             /\ \A r \in Names : Here(h, r[1]) => (r = q <=> PinOf(h, r) = i)
             /\ PinForm(h, i) = NameForm(q)
  <1>1. h \in Graph /\ i \in Pins /\ i[1] \in Live(h)
    BY GoodIs DEF Inputs
  <1> DEFINE q == Named(h, i)
  <1>2. q \in Names /\ Here(h, q[1]) /\ PinOf(h, q) = i /\ q # Nowhere /\ q[1] = h.mod[i[1]]
    BY <1>1, NamedPinOf
  <1> HIDE DEF q
  <1>3. From(h, q) = Named(h, h.src[i])
    BY <1>2 DEF From
  <1>4. From(h, q) = Nowhere <=> h.src[i] = Unset
    BY <1>2, <1>3, FromIs DEF Named
  <1>5. \A r \in Names : Here(h, r[1]) => (r = q <=> PinOf(h, r) = i)
    BY <1>1, <1>2, PinNamed DEF q
  <1>6. PinForm(h, i) = NameForm(q)
    BY <1>1, <1>2, PinNamed DEF PinForm, NameForm
  <1> QED
    BY <1>1, <1>2, <1>3, <1>4, <1>5, <1>6 DEF q

LEMMA OutIs ==
  ASSUME NEW h, Good(h), Unique(h), NEW o \in Outputs(h)
  PROVE  LET q == Named(h, o)
         IN  /\ q \in Names /\ Here(h, q[1]) /\ PinOf(h, q) = o /\ q # Nowhere /\ o \in Pins
             /\ From(h, q) = Nowhere
             /\ \A r \in Names : Here(h, r[1]) => (r = q <=> PinOf(h, r) = o)
             /\ PinForm(h, o) = NameForm(q)
  <1>1. h \in Graph /\ o \in Pins /\ o[1] \in Live(h) /\ h.mod[o[1]] # Preview
    BY GoodIs, OutNamed
  <1> DEFINE q == Named(h, o)
  <1>2. q \in Names /\ Here(h, q[1]) /\ PinOf(h, q) = o /\ q # Nowhere
    BY <1>1, NamedPinOf
  <1> HIDE DEF q
  <1>3. From(h, q) = Nowhere
    BY <1>2, GoodIs, OutputOpen DEF From, Named
  <1>4. \A r \in Names : Here(h, r[1]) => (r = q <=> PinOf(h, r) = o)
    BY <1>1, <1>2, PinNamed DEF q
  <1>5. PinForm(h, o) = NameForm(q)
    BY <1>1, <1>2, PinNamed DEF PinForm, NameForm
  <1> QED
    BY <1>1, <1>2, <1>3, <1>4, <1>5 DEF q

\* An input is released.
LEMMA NetUnlinks ==
  ASSUME NEW h, Good(h), Unique(h), PreviewFixed(h), NEW i \in Inputs(h), h.mod[i[1]] # Preview
  PROVE  LET u == Unlink1(h, i)
         IN  /\ Net(u) = NetUnlink(Net(h), Named(h, i)) /\ PreviewFixed(u)
             /\ Good(u) /\ SameMods(h, u) /\ u.src[i] = Unset
  <1> DEFINE u == Unlink1(h, i)
             x == h.src[i]
             a == Named(h, i)
             b == Named(h, x)
  <1>1. /\ a \in Names /\ Here(h, a[1]) /\ PinOf(h, a) = i /\ a # Nowhere /\ i \in Pins
        /\ From(h, a) = b /\ (b = Nowhere <=> x = Unset)
        /\ (\A r \in Names : Here(h, r[1]) => (r = a <=> PinOf(h, r) = i))
        /\ PinForm(h, i) = NameForm(a)
    BY InNamed
  <1>2. CASE x = Unset
    <2>1. u = h
      BY <1>2 DEF Unlink1, Linked
    <2>2. NetUnlink(Net(h), a) = Net(h)
      BY <1>1, <1>2, NetFields DEF NetUnlink
    <2> QED
      BY <1>2, <2>1, <2>2 DEF SameMods
  <1>3. CASE x # Unset
    <2>u. Opened(h, i, u)
      BY <1>1, <1>3, Unlink1Is
    <2>1. /\ SameMods(h, u) /\ Good(u) /\ u.par = h.par /\ u.fb = h.fb
          /\ u.src = [h.src EXCEPT ![i] = Unset]
          /\ Form(u, i) = PinForm(h, i)
          /\ Form(u, x) = IF Readers(h, x) = {i} THEN PinForm(h, x) ELSE Form(h, x)
          /\ \A p \in Pins \ {i, x} : Form(u, p) = Form(h, p)
      BY <2>u DEF Opened
    <2>2. x \in Outputs(h) /\ x \in Pins /\ x # i /\ h \in Graph
      BY <1>1, <1>3, ReadIs, GoodIs
    <2>3. /\ b \in Names /\ Here(h, b[1]) /\ PinOf(h, b) = x /\ b # Nowhere /\ From(h, b) = Nowhere
          /\ \A r \in Names : Here(h, r[1]) => (r = b <=> PinOf(h, r) = x)
          /\ PinForm(h, x) = NameForm(b)
      BY <2>2, OutIs
    <2>4. /\ \A n : Here(u, n) <=> Here(h, n)
          /\ \A q : PinOf(u, q) = PinOf(h, q)
          /\ \A p : Named(u, p) = Named(h, p)
      BY <2>1, SameNames
    <2> HIDE DEF u, x, a, b
    <2>5. \A p \in Pins : u.src[p] = IF p = i THEN Unset ELSE h.src[p]
      BY <1>1, <2>1, <2>2 DEF Graph
    <2>6. u.mod = h.mod
      BY <2>1 DEF SameMods
    <2>7. PreviewFixed(u)
      BY <2>4, <2>5, <2>6 DEF PreviewFixed
    <2>8. \A q \in Names : From(u, q) = IF q = a THEN Nowhere ELSE From(h, q)
      <3> SUFFICES ASSUME NEW q \in Names PROVE From(u, q) = IF q = a THEN Nowhere ELSE From(h, q)
        OBVIOUS
      <3>1. CASE Here(h, q[1])
        <4>1. PinOf(h, q) \in Pins
          BY <2>2, <3>1, PinNamed
        <4> QED
          BY <1>1, <2>4, <2>5, <3>1, <4>1 DEF From, Named
      <3>2. CASE ~Here(h, q[1])
        BY <2>4, <3>2 DEF From
      <3> QED
        BY <3>1, <3>2
    <2> DEFINE last == \A r \in Names \ {a} : From(h, r) # b
    \* The names count the readers, unless the preview is among them.
    <2>9. Form(u, x) = IF last THEN NameForm(b) ELSE Form(h, x)
      <3>1. CASE ~last
        <4>1. PICK r \in Names \ {a} : From(h, r) = b
          BY <3>1
        <4>2. Here(h, r[1]) /\ PinOf(h, r) \in Pins /\ h.src[PinOf(h, r)] = x
          BY <2>3, <4>1, FromIs
        <4>3. PinOf(h, r) # i
          BY <1>1, <4>1, <4>2
        <4>4. Readers(h, x) # {i}
          BY <4>2, <4>3 DEF Readers
        <4> QED
          BY <2>1, <3>1, <4>4
      <3>2. CASE last /\ Readers(h, x) # {i}
        <4>1. i \in Readers(h, x)
          BY <1>1 DEF Readers, x
        <4>2. PICK p \in Pins : h.src[p] = x /\ p # i
          BY <3>2, <4>1 DEF Readers
        <4>3. p \in Inputs(h)
          BY <1>3, <4>2, GoodIs, ReadIs
        <4>4. h.mod[p[1]] = Preview
          <5> SUFFICES ASSUME h.mod[p[1]] # Preview PROVE FALSE
            OBVIOUS
          <5>1. Named(h, p) \in Names /\ From(h, Named(h, p)) = b /\ PinOf(h, Named(h, p)) = p
            BY <4>2, <4>3, InNamed DEF b
          <5> QED
            BY <1>1, <3>2, <4>2, <5>1
        <4>5. ~Loose(b)
          BY <1>3, <4>2, <4>4 DEF PreviewFixed, b
        <4>6. Form(h, x) = PinForm(h, x)
          BY <2>2, <4>5, GoodIs, FixedForm DEF b
        <4> QED
          BY <2>1, <2>3, <3>2, <4>6
      <3>3. CASE last /\ Readers(h, x) = {i}
        BY <2>1, <2>3, <3>3
      <3> QED
        BY <3>1, <3>2, <3>3
    <2>10. \A q \in Names : NetForm(u, q) = IF q = a \/ (q = b /\ last) THEN NameForm(q)
                                           ELSE NetForm(h, q)
      <3> SUFFICES ASSUME NEW q \in Names
                   PROVE  NetForm(u, q) = IF q = a \/ (q = b /\ last) THEN NameForm(q)
                                          ELSE NetForm(h, q)
        OBVIOUS
      <3>1. CASE ~Here(h, q[1])
        BY <2>4, <3>1 DEF NetForm
      <3>2. CASE Here(h, q[1])
        <4>1. NetForm(u, q) = IF From(u, q) # Nowhere THEN Joined ELSE Form(u, PinOf(h, q))
          BY <2>1, <2>4, <2>7, <3>2, GoodIs, PlainForm
        <4>2. NetForm(h, q) = IF From(h, q) # Nowhere THEN Joined ELSE Form(h, PinOf(h, q))
          BY <3>2, GoodIs, PlainForm
        <4>3. CASE q = a
          BY <1>1, <2>1, <2>8, <4>1, <4>3
        <4>4. CASE q = b
          BY <1>1, <2>3, <2>8, <2>9, <4>1, <4>2, <4>4
        <4>5. CASE q # a /\ q # b
          <5>1. PinOf(h, q) \in Pins \ {i, x}
            BY <1>1, <2>2, <2>3, <3>2, <4>5, PinNamed
          <5> QED
            BY <2>1, <2>8, <4>1, <4>2, <4>5, <5>1
        <4> QED
          BY <4>3, <4>4, <4>5
      <3> QED
        BY <3>1, <3>2
    <2>11. \A q \in Names : PinOf(u, q) = PinOf(h, q)
      BY <2>4
    <2> DEFINE n == Net(h)
               F == [q \in Names |-> IF q = a THEN Nowhere ELSE n.from[q]]
               B == n.back \ {a}
               M == [q \in Names |-> IF q = a \/ (q = b /\ last) THEN NameForm(q) ELSE n.form[q]]
    <2>n. /\ \A q \in Names : n.from[q] = From(h, q) /\ n.form[q] = NetForm(h, q)
          /\ \A q \in Names : q \in n.back <=> From(h, q) # Nowhere /\ PinOf(h, q) \in h.fb
          /\ n.back \subseteq Names
      BY NetFields
    <2> HIDE DEF n, last
    <2>12. NetUnlink(n, a) = [from |-> F, back |-> B, form |-> M]
      <3>1. n.from[a] = b /\ b # Nowhere
        BY <1>1, <2>3, <2>n
      <3>2. (\A r \in Names \ {a} : n.from[r] # b) <=> last
        BY <2>n DEF last
      <3> QED
        BY <3>1, <3>2 DEF NetUnlink
    <2>13. F = [q \in Names |-> F[q]] /\ \A q \in Names : From(u, q) = F[q]
      BY <2>8, <2>n
    <2>14. M = [q \in Names |-> M[q]] /\ \A q \in Names : NetForm(u, q) = M[q]
      BY <2>10, <2>n
    <2>15. /\ B \in SUBSET Names
           /\ \A q \in Names : q \in B <=> From(u, q) # Nowhere /\ PinOf(u, q) \in u.fb
      BY <2>1, <2>8, <2>11, <2>n
    <2> HIDE DEF F, B, M
    <2>i. NetIs(u, F, B, M)
      BY <2>13, <2>14, <2>15 DEF NetIs
    <2>16. Net(u) = [from |-> F, back |-> B, form |-> M]
      BY <2>i, NetMade
    <2>17. u.src[i] = Unset
      BY <1>1, <2>5
    <2> QED
      BY <2>1, <2>7, <2>12, <2>16, <2>17 DEF u, a, n
  <1> QED
    BY <1>2, <1>3

\* What joining does to the formats
LEMMA JoinForms ==
  ASSUME NEW h \in Graph, NEW o \in Pins, NEW i \in Pins, o # i
  PROVE  LET k == Join(h, o, i)
             a == Form(h, o)
             b == Form(h, i)
         IN  /\ SameMods(h, k) /\ k.par = h.par
             /\ Form(k, o) = OutForm(a, b) /\ Form(k, i) = InForm(a, b)
             /\ \A p \in Pins \ {o, i} : Form(k, p) = Form(h, p)
             /\ IF FormBadChan(a, b) \/ FormBadFmt(a, b) THEN k.src = h.src /\ k.fb = h.fb
                ELSE k.src = [h.src EXCEPT ![i] = o] /\ k.fb = h.fb \ {i}
             /\ (BadChan(h, o, i) <=> FormBadChan(a, b)) /\ (BadFmt(h, o, i) <=> FormBadFmt(a, b))
  <1> DEFINE k == Join(h, o, i)
             f == Form(h, o)
             e == Form(h, i)
             a == AgreeChan(h, o, i)
             b == AgreeFmt(a, o, i)
             c == [b EXCEPT !.src = [h.src EXCEPT ![i] = o],
                            !.ref = [h.ref EXCEPT ![o] = @ + 1],
                            !.fb  = h.fb \ {i}]
  <1>1. k = IF BadChan(h, o, i) THEN a ELSE IF BadFmt(h, o, i) THEN b ELSE c
    BY DEF Join
  <1>2. /\ f[1] = h.chan[o] /\ f[2] = h.fmt[o] /\ e[1] = h.chan[i] /\ e[2] = h.fmt[i]
    BY DEF Form
  <1>3. (BadChan(h, o, i) <=> FormBadChan(f, e)) /\ (BadFmt(h, o, i) <=> FormBadFmt(f, e))
    <2> HIDE DEF e, f
    <2> QED
      BY <1>2 DEF BadChan, BadFmt, FormBadChan, FormBadFmt
  <1> HIDE DEF e, f
  <1>4. /\ SameMods(h, a) /\ a.par = h.par /\ a.src = h.src /\ a.fb = h.fb /\ a.fmt = h.fmt
        /\ a.chan = [h.chan EXCEPT ![o] = OutFormat(h.chan[o], h.chan[i], "rgba"),
                                   ![i] = InFormat(Given(h.chan[o]), h.chan[i], "rgba")]
    BY DEF AgreeChan, SameMods, Graph
  <1>5. /\ SameMods(h, b) /\ b.par = h.par /\ b.src = h.src /\ b.fb = h.fb /\ b.chan = a.chan
        /\ b.fmt = [h.fmt EXCEPT ![o] = OutFormat(h.fmt[o], h.fmt[i], "f16"),
                                 ![i] = InFormat(h.fmt[o], h.fmt[i], "f16")]
    BY DEF AgreeFmt, AgreeChan, SameMods, Graph
  <1>6. /\ SameMods(h, c) /\ c.par = h.par /\ c.chan = b.chan /\ c.fmt = b.fmt
        /\ c.src = [h.src EXCEPT ![i] = o] /\ c.fb = h.fb \ {i}
    BY DEF AgreeFmt, AgreeChan, SameMods, Graph
  <1> HIDE DEF k, a, b, c
  <1>7. /\ a.chan[o] = OutFormat(f[1], e[1], "rgba")
        /\ a.chan[i] = InFormat(Given(f[1]), e[1], "rgba")
        /\ \A p \in Pins \ {o, i} : a.chan[p] = h.chan[p]
    BY <1>2, <1>4 DEF Graph
  <1>8. /\ b.fmt[o] = OutFormat(f[2], e[2], "f16")
        /\ b.fmt[i] = InFormat(f[2], e[2], "f16")
        /\ \A p \in Pins \ {o, i} : b.fmt[p] = h.fmt[p]
    BY <1>2, <1>5 DEF Graph
  <1>9. k.chan = a.chan /\ k.fmt = IF FormBadChan(f, e) THEN h.fmt ELSE b.fmt
    BY <1>1, <1>3, <1>4, <1>5, <1>6
  <1>10. /\ Form(k, o) = OutForm(f, e) /\ Form(k, i) = InForm(f, e)
         /\ \A p \in Pins \ {o, i} : Form(k, p) = Form(h, p)
    BY <1>2, <1>7, <1>8, <1>9 DEF Form, OutForm, InForm
  <1>11. SameMods(h, k) /\ k.par = h.par
    BY <1>1, <1>4, <1>5, <1>6
  <1>12. IF FormBadChan(f, e) \/ FormBadFmt(f, e) THEN k.src = h.src /\ k.fb = h.fb
         ELSE k.src = [h.src EXCEPT ![i] = o] /\ k.fb = h.fb \ {i}
    BY <1>1, <1>3, <1>4, <1>5, <1>6
  <1> QED
    BY <1>3, <1>10, <1>11, <1>12 DEF k, f, e

\* An open input is joined to an output.
LEMMA NetJoins ==
  ASSUME NEW h, Good(h), Unique(h), PreviewFixed(h), NEW o \in Outputs(h), NEW i \in Inputs(h),
         h.mod[i[1]] # Preview, h.src[i] = Unset
  PROVE  LET k == Join(h, o, i)
         IN  /\ Net(k) = NetJoin(Net(h), Named(h, o), Named(h, i)) /\ PreviewFixed(k)
             /\ Fair(k) /\ SameMods(h, k)
  <1> DEFINE k == Join(h, o, i)
             c == Form(h, o)
             d == Form(h, i)
             bad == FormBadChan(c, d) \/ FormBadFmt(c, d)
             a == Named(h, i)
             b == Named(h, o)
  <1>1. /\ a \in Names /\ Here(h, a[1]) /\ PinOf(h, a) = i /\ i \in Pins /\ From(h, a) = Nowhere
        /\ (\A r \in Names : Here(h, r[1]) => (r = a <=> PinOf(h, r) = i))
    BY InNamed
  <1>2. /\ b \in Names /\ Here(h, b[1]) /\ PinOf(h, b) = o /\ b # Nowhere /\ o \in Pins
        /\ From(h, b) = Nowhere
        /\ (\A r \in Names : Here(h, r[1]) => (r = b <=> PinOf(h, r) = o))
    BY OutIs
  <1>3. o # i /\ h \in Graph
    BY GoodIs, InNotOut
  <1>4. /\ SameMods(h, k) /\ k.par = h.par
        /\ Form(k, o) = OutForm(c, d) /\ Form(k, i) = InForm(c, d)
        /\ \A p \in Pins \ {o, i} : Form(k, p) = Form(h, p)
        /\ IF bad THEN k.src = h.src /\ k.fb = h.fb
           ELSE k.src = [h.src EXCEPT ![i] = o] /\ k.fb = h.fb \ {i}
    BY <1>1, <1>2, <1>3, JoinForms
  <1>5. Fair(k)
    BY GoodIs, JoinLinking, JoinKept DEF Fair
  <1>6. /\ \A n : Here(k, n) <=> Here(h, n)
        /\ \A q : PinOf(k, q) = PinOf(h, q)
        /\ \A p : Named(k, p) = Named(h, p)
    BY <1>4, SameNames
  <1>b. bad \in BOOLEAN
    BY DEF FormBadChan, FormBadFmt
  <1> HIDE DEF k, a, b, c, d, bad
  <1>7. \A p \in Pins : k.src[p] = IF p = i /\ ~bad THEN o ELSE h.src[p]
    BY <1>1, <1>3, <1>4 DEF Graph
  <1>8. k.fb = {p \in h.fb : p # i \/ bad}
    BY <1>4
  <1>9. PreviewFixed(k)
    BY <1>4, <1>6, <1>7 DEF PreviewFixed, SameMods
  <1>10. \A q \in Names : From(k, q) = IF q = a /\ ~bad THEN b ELSE From(h, q)
    <2> SUFFICES ASSUME NEW q \in Names
                 PROVE  From(k, q) = IF q = a /\ ~bad THEN b ELSE From(h, q)
      OBVIOUS
    <2>1. CASE Here(h, q[1])
      <3>1. PinOf(h, q) \in Pins
        BY <1>3, <2>1, PinNamed
      <3> QED
        BY <1>1, <1>6, <1>7, <2>1, <3>1 DEF From, b
    <2>2. CASE ~Here(h, q[1])
      BY <1>1, <1>6, <2>2 DEF From
    <2> QED
      BY <2>1, <2>2
  <1> DEFINE n == Net(h)
  <1>n. /\ \A q \in Names : n.from[q] = From(h, q) /\ n.form[q] = NetForm(h, q)
        /\ \A q \in Names : q \in n.back <=> From(h, q) # Nowhere /\ PinOf(h, q) \in h.fb
        /\ n.back \subseteq Names
    BY NetFields
  <1> HIDE DEF n
  <1>11. n.form[b] = c /\ n.form[a] = d
    BY <1>1, <1>2, <1>n, PlainForm, GoodIs DEF c, d
  <1>12. a # b
    BY <1>1, <1>2, <1>3
  <1> DEFINE F == [q \in Names |-> IF q = a /\ ~bad THEN b ELSE n.from[q]]
             B == {q \in n.back : q # a \/ bad}
             M == [q \in Names |-> IF q = b THEN OutForm(c, d)
                                   ELSE IF q = a THEN IF bad THEN InForm(c, d) ELSE Joined
                                   ELSE n.form[q]]
  <1>13. NetJoin(n, b, a) = [from |-> F, back |-> B, form |-> M]
    BY <1>11 DEF NetJoin, bad
  <1>14. \A q \in Names : NetForm(k, q) = IF q = b THEN OutForm(c, d)
                                         ELSE IF q = a THEN IF bad THEN InForm(c, d) ELSE Joined
                                         ELSE NetForm(h, q)
    <2> SUFFICES ASSUME NEW q \in Names
                 PROVE  NetForm(k, q) = IF q = b THEN OutForm(c, d)
                                        ELSE IF q = a THEN IF bad THEN InForm(c, d) ELSE Joined
                                        ELSE NetForm(h, q)
      OBVIOUS
    <2>1. CASE ~Here(h, q[1])
      BY <1>1, <1>2, <1>6, <2>1 DEF NetForm
    <2>2. CASE Here(h, q[1])
      <3>1. NetForm(k, q) = IF From(k, q) # Nowhere THEN Joined ELSE Form(k, PinOf(h, q))
        BY <1>5, <1>6, <1>9, <2>2, PlainForm
      <3>2. NetForm(h, q) = IF From(h, q) # Nowhere THEN Joined ELSE Form(h, PinOf(h, q))
        BY <2>2, PlainForm, GoodIs
      <3>3. CASE q = b
        BY <1>2, <1>4, <1>10, <1>12, <3>1, <3>3
      <3>4. CASE q = a
        BY <1>1, <1>2, <1>4, <1>10, <1>12, <3>1, <3>4
      <3>5. CASE q # a /\ q # b
        <4>1. PinOf(h, q) \in Pins \ {i, o}
          BY <1>1, <1>2, <1>3, <2>2, <3>5, PinNamed
        <4> QED
          BY <1>4, <1>10, <3>1, <3>2, <3>5, <4>1
      <3> QED
        BY <3>3, <3>4, <3>5
    <2> QED
      BY <2>1, <2>2
  <1>15. F = [q \in Names |-> F[q]] /\ \A q \in Names : From(k, q) = F[q]
    BY <1>10, <1>n
  <1>16. M = [q \in Names |-> M[q]] /\ \A q \in Names : NetForm(k, q) = M[q]
    BY <1>14, <1>n
  <1>17. /\ B \in SUBSET Names
         /\ \A q \in Names : q \in B <=> From(k, q) # Nowhere /\ PinOf(k, q) \in k.fb
    <2> SUFFICES ASSUME NEW q \in Names
                 PROVE  q \in B <=> From(k, q) # Nowhere /\ PinOf(k, q) \in k.fb
      BY <1>n
    <2>1. CASE q = a
      BY <1>1, <1>6, <1>8, <1>10, <1>n, <2>1
    <2>2. CASE q # a
      <3>1. From(k, q) = From(h, q) /\ PinOf(k, q) = PinOf(h, q)
        BY <1>6, <1>10, <2>2
      <3>2. From(h, q) # Nowhere => PinOf(h, q) # i
        BY <1>1, <2>2 DEF From
      <3> QED
        BY <1>8, <1>n, <2>2, <3>1, <3>2
    <2> QED
      BY <2>1, <2>2
  <1> HIDE DEF F, B, M
  <1>18. NetIs(k, F, B, M)
    BY <1>15, <1>16, <1>17 DEF NetIs
  <1>19. Net(k) = [from |-> F, back |-> B, form |-> M]
    BY <1>18, NetMade
  <1> QED
    BY <1>4, <1>5, <1>9, <1>13, <1>19 DEF k, a, b, n

\* An input is connected to an output or to nothing.
LEMMA NotRefused ==
  ASSUME NEW h, Good(h), NEW i \in Pins
  PROVE  ~Refused(h, i) /\ ~Uncounted(h, i)
  <1>1. h \in Graph /\ NoDangling(h) /\ RefExact(h)
    BY GoodIs
  <1>2. CASE h.src[i] = Unset
    BY <1>2 DEF Refused, Uncounted
  <1>3. CASE h.src[i] # Unset
    <2>1. ~Refused(h, i) /\ h.src[i] \in Outputs(h)
      BY <1>1, <1>3, AllLinked
    <2>2. h.ref[h.src[i]] = Cardinality(Readers(h, h.src[i]))
      BY <1>1, <2>1 DEF RefExact
    <2>3. i \in Readers(h, h.src[i]) /\ IsFiniteSet(Readers(h, h.src[i]))
      BY <1>1, ReadersFinite DEF Readers
    <2> QED
      BY <2>1, <2>2, <2>3, FS_EmptySet DEF Uncounted
  <1> QED
    BY <1>2, <1>3

LEMMA NetInternals ==
  ASSUME NEW h, Good(h), Unique(h), PreviewFixed(h), NEW o \in Outputs(h) \cup {Unset},
         NEW i \in Inputs(h), h.mod[i[1]] # Preview
  PROVE  LET k == ConnectInternal(h, o, i)
         IN  /\ Net(k) = NetInternal(Net(h), Named(h, o), Named(h, i)) /\ PreviewFixed(k)
             /\ Fair(k) /\ SameMods(h, k)
  <1> DEFINE k == ConnectInternal(h, o, i)
             u == Unlink1(h, i)
             a == Named(h, i)
             b == Named(h, o)
  <1>1. ~Refused(h, i) /\ ~Uncounted(h, i) /\ i \in Pins
    BY NotRefused DEF Inputs
  <1>2. a \in Names /\ From(h, a) = Named(h, h.src[i])
    BY InNamed
  <1>3. h.src[i] \in Outputs(h) \cup {Unset}
    BY <1>1, GoodIs, ReadIs
  <1>4. From(h, a) = b <=> h.src[i] = o
    BY <1>2, <1>3, NamedOnly
  <1>5. b = Nowhere <=> o = Unset
    BY OutIs DEF Named
  <1>6. Net(h).from[a] = From(h, a)
    BY <1>2, NetFields
  <1>7. CASE h.src[i] = o
    <2>1. k = h
      BY <1>7 DEF ConnectInternal
    <2>2. NetInternal(Net(h), b, a) = Net(h)
      BY <1>4, <1>6, <1>7 DEF NetInternal
    <2> QED
      BY <2>1, <2>2, GoodIs DEF SameMods
  <1>8. /\ Net(u) = NetUnlink(Net(h), a) /\ PreviewFixed(u)
        /\ Good(u) /\ SameMods(h, u) /\ u.src[i] = Unset
    BY NetUnlinks
  <1>9. CASE h.src[i] # o /\ o = Unset
    <2>1. k = u
      BY <1>1, <1>9 DEF ConnectInternal
    <2>2. NetInternal(Net(h), b, a) = NetUnlink(Net(h), a)
      BY <1>4, <1>5, <1>6, <1>9 DEF NetInternal
    <2> HIDE DEF u, k, a, b
    <2> QED
      BY <1>8, <2>1, <2>2, GoodIs DEF k, a, b
  <1>10. CASE h.src[i] # o /\ o # Unset
    <2>1. k = Join(u, o, i)
      BY <1>1, <1>10 DEF ConnectInternal
    <2>2. NetInternal(Net(h), b, a) = NetJoin(NetUnlink(Net(h), a), b, a)
      BY <1>4, <1>5, <1>6, <1>10 DEF NetInternal
    <2> HIDE DEF u
    <2>3. o \in Outputs(u) /\ i \in Inputs(u) /\ u.mod = h.mod /\ Unique(u)
          /\ Named(u, o) = b /\ Named(u, i) = a
      BY <1>8, <1>10, SamePins, SameNames DEF SameMods
    <2>4. /\ Net(Join(u, o, i)) = NetJoin(Net(u), Named(u, o), Named(u, i))
          /\ PreviewFixed(Join(u, o, i)) /\ Fair(Join(u, o, i)) /\ SameMods(u, Join(u, o, i))
      BY <1>8, <2>3, NetJoins
    <2>5. SameMods(h, Join(u, o, i))
      BY <1>8, <2>4, SameModsOn
    <2> HIDE DEF k, a, b
    <2>6. Net(k) = NetInternal(Net(h), b, a)
      BY <1>8, <2>1, <2>2, <2>3, <2>4
    <2> QED
      BY <2>1, <2>4, <2>5, <2>6 DEF k, a, b
  <1> QED
    BY <1>7, <1>9, <1>10

\* A cycle is one in the net.
LEMMA NetCycles ==
  ASSUME NEW h, Good(h), Unique(h), NEW o \in Outputs(h) \cup {Unset},
         NEW i \in Inputs(h), h.mod[i[1]] # Preview
  PROVE  Cyclic(h, o, i) <=> NetCyclic(Net(h), Named(h, o), Named(h, i))
  <1> DEFINE a == Named(h, i)
             b == Named(h, o)
             n == Net(h)
  <1>1. b = Nowhere <=> o = Unset
    BY OutIs DEF Named
  <1>2. CASE o = Unset
    BY <1>1, <1>2 DEF Cyclic, NetCyclic
  <1>3. CASE o # Unset
    <2>1. o \in Outputs(h) /\ h \in Graph
      BY <1>3, GoodIs
    <2>2. /\ a \in Names /\ Here(h, a[1]) /\ PinOf(h, a) = i /\ i \in Pins /\ a[1] = h.mod[i[1]]
      BY InNamed
    <2>3. /\ b \in Names /\ Here(h, b[1]) /\ PinOf(h, b) = o /\ o \in Pins
      BY <2>1, OutIs
    <2>4. i[1] = Get(h, a[1]) /\ o[1] = Get(h, b[1]) /\ a[1] \in Others /\ b[1] \in Others
          /\ a[1] \in Keys /\ b[1] \in Keys
      BY <2>2, <2>3 DEF PinOf, Names, Others
    <2>5. o[1] \in Live(h) /\ h.mod[o[1]] = b[1]
      BY <2>1, <2>3, <2>4, HereIs
    <2>n. /\ \A q \in Names : n.from[q] = From(h, q)
          /\ \A q \in Names : q \in n.back <=> From(h, q) # Nowhere /\ PinOf(h, q) \in h.fb
      BY NetFields
    <2> HIDE DEF a, b, n
    <2>6. ASSUME NEW T \in SUBSET Others, b[1] \in T, a[1] \notin T,
                 \A q \in Names \ n.back : q[1] \in T /\ n.from[q] # Nowhere => n.from[q][1] \in T
          PROVE  ~Cyclic(h, o, i)
      <3> DEFINE S == {s \in Live(h) : h.mod[s] \in T}
      <3>1. S \in SUBSET Slots /\ o[1] \in S /\ i[1] \notin S
        BY <2>2, <2>5, <2>6 DEF Live, Used
      <3>2. ASSUME NEW s \in S, NEW r \in Reads(h, s) PROVE r \in S
        <4>1. PICK p \in PinsOf(s) : IsIn(h, p) /\ p \notin h.fb /\ h.src[p] # Unset /\ r = h.src[p][1]
          BY DEF Reads
        <4>2. p \in Pins /\ p[1] = s /\ s \in Live(h) /\ h.mod[s] \in Others
          BY <2>6 DEF PinsOf, Pins, Live, Used
        <4>3. p \in Inputs(h) /\ h.mod[p[1]] # Preview
          BY <4>1, <4>2 DEF Inputs, Others
        <4> DEFINE q == Named(h, p)
        <4>4. /\ q \in Names /\ PinOf(h, q) = p /\ q[1] = h.mod[s]
              /\ From(h, q) = Named(h, h.src[p]) /\ From(h, q) # Nowhere
          BY <4>1, <4>2, <4>3, InNamed
        <4> HIDE DEF q
        <4>5. q \notin n.back
          BY <2>n, <4>1, <4>4
        <4>6. Named(h, h.src[p])[1] \in T
          BY <2>6, <2>n, <4>4, <4>5
        <4>7. h.src[p] \in Outputs(h) /\ h.src[p][1] \in Live(h)
          BY <4>1, <4>2, ReadIs, GoodIs
        <4>8. Named(h, h.src[p])[1] = h.mod[h.src[p][1]]
          BY <4>1 DEF Named
        <4> QED
          BY <4>1, <4>6, <4>7, <4>8
      <3> HIDE DEF S
      <3> QED
        BY <3>1, <3>2 DEF Cyclic
    <2>7. ASSUME NEW S \in SUBSET Slots, o[1] \in S, i[1] \notin S,
                 \A s \in S : Reads(h, s) \subseteq S
          PROVE  ~NetCyclic(n, b, a)
      <3> DEFINE T == {x \in Others : Here(h, x) /\ Get(h, x) \in S}
      <3>1. T \in SUBSET Others /\ b[1] \in T /\ a[1] \notin T
        BY <2>3, <2>4, <2>7
      <3>2. ASSUME NEW q \in Names \ n.back, q[1] \in T, n.from[q] # Nowhere
            PROVE  n.from[q][1] \in T
        <4>1. /\ PinOf(h, q) \in Inputs(h) /\ PinOf(h, q) \in Pins
              /\ h.src[PinOf(h, q)] # Unset
              /\ From(h, q) \in Names /\ Here(h, From(h, q)[1])
              /\ PinOf(h, From(h, q)) = h.src[PinOf(h, q)]
          BY <2>n, <3>2, FromIs
        <4> DEFINE p == PinOf(h, q)
        <4>2. p[1] = Get(h, q[1]) /\ Get(h, q[1]) \in S
          BY <3>2 DEF PinOf
        <4>3. h.src[p][1] = Get(h, From(h, q)[1])
          <5>1. PinOf(h, From(h, q))[1] = Get(h, From(h, q)[1])
            BY DEF PinOf
          <5> QED
            BY <4>1, <5>1
        <4>4. p \notin h.fb
          BY <2>n, <3>2
        <4>5. p \in PinsOf(p[1]) /\ IsIn(h, p)
          <5> HIDE DEF p
          <5>1. p \in Pins /\ p \in Inputs(h)
            BY <4>1 DEF p
          <5> QED
            BY <5>1 DEF PinsOf, Pins, Inputs
        <4>6. h.src[p] # Unset
          BY <4>1
        <4> HIDE DEF p
        <4>7. h.src[p][1] \in Reads(h, p[1])
          BY <4>4, <4>5, <4>6 DEF Reads
        <4>8. Get(h, From(h, q)[1]) \in S
          BY <2>7, <4>2, <4>3, <4>7
        <4>9. From(h, q)[1] \in Others
          BY <4>1 DEF Names
        <4> QED
          BY <2>n, <4>1, <4>8, <4>9
      <3> HIDE DEF T
      <3> QED
        BY <3>1, <3>2 DEF NetCyclic
    <2>8. ~Cyclic(h, o, i) => ~NetCyclic(n, b, a)
      BY <1>3, <2>7 DEF Cyclic
    <2>9. ~NetCyclic(n, b, a) => ~Cyclic(h, o, i)
      BY <1>1, <1>3, <2>6 DEF NetCyclic, b
    <2> QED
      BY <2>8, <2>9 DEF a, b, n
  <1> QED
    BY <1>2, <1>3

LEMMA NetConnects ==
  ASSUME NEW h, Good(h), Unique(h), PreviewFixed(h), NEW o \in Outputs(h) \cup {Unset},
         NEW i \in Inputs(h), h.mod[i[1]] # Preview
  PROVE  LET k == Connect(h, o, i)
         IN  /\ Net(k) = NetConnect(Net(h), Named(h, o), Named(h, i)) /\ PreviewFixed(k)
             /\ Good(k) /\ SameMods(h, k)
  <1>1. Cyclic(h, o, i) <=> NetCyclic(Net(h), Named(h, o), Named(h, i))
    BY NetCycles
  <1> DEFINE k == ConnectInternal(h, o, i)
  <1>2. /\ Net(k) = NetInternal(Net(h), Named(h, o), Named(h, i)) /\ PreviewFixed(k)
        /\ SameMods(h, k)
    BY NetInternals
  <1>3. Good(Connect(h, o, i))
    BY ConnectGood
  <1> HIDE DEF k
  <1>4. Connect(h, o, i) = IF Cyclic(h, o, i) THEN h ELSE k
    BY DEF Connect, k
  <1> QED
    BY <1>1, <1>2, <1>3, <1>4 DEF NetConnect, SameMods

\* Marks and values do not matter for the rest.
LEMMA NetAlike ==
  ASSUME NEW h, NEW k, SameMods(h, k), k.src = h.src, k.chan = h.chan, k.fmt = h.fmt
  PROVE  /\ \A q : From(k, q) = From(h, q) /\ NetForm(k, q) = NetForm(h, q)
         /\ \A q : PinOf(k, q) = PinOf(h, q)
         /\ PreviewFixed(h) => PreviewFixed(k)
  <1>1. /\ \A n : Here(k, n) <=> Here(h, n)
        /\ \A q : PinOf(k, q) = PinOf(h, q)
        /\ \A p : Named(k, p) = Named(h, p)
    BY SameNames
  <1>2. \A q : From(k, q) = From(h, q)
    BY <1>1 DEF From
  <1>3. \A p : (Borrowed(k, p) <=> Borrowed(h, p)) /\ Form(k, p) = Form(h, p)
    BY DEF Borrowed, Readers, SameMods, Form
  <1> QED
    BY <1>1, <1>2, <1>3 DEF NetForm, PreviewFixed, SameMods

LEMMA NetFeedbacks ==
  ASSUME NEW h, Good(h), Unique(h), PreviewFixed(h), NEW o \in Outputs(h) \cup {Unset},
         NEW i \in Inputs(h), h.mod[i[1]] # Preview
  PROVE  LET k == Feedback(h, o, i)
         IN  /\ Net(k) = NetFeedback(Net(h), Named(h, o), Named(h, i)) /\ PreviewFixed(k)
             /\ Good(k) /\ SameMods(h, k)
  <1> DEFINE c == ConnectInternal(h, o, i)
             k == Feedback(h, o, i)
             a == Named(h, i)
             b == Named(h, o)
             n == Net(c)
  <1>1. /\ n = NetInternal(Net(h), b, a) /\ PreviewFixed(c)
        /\ Fair(c) /\ SameMods(h, c)
    BY NetInternals
  <1>2. Good(k)
    BY FeedbackGood
  <1>3. /\ SameMods(c, k) /\ k.src = c.src /\ k.chan = c.chan /\ k.fmt = c.fmt
        /\ k.fb = c.fb \cup {i}
    <2>1. c \in Graph
      BY <1>1, FairIs
    <2> HIDE DEF c
    <2>2. k = [c EXCEPT !.fb = c.fb \cup {i}, !.oob = c.oob \/ o = Unset]
      BY DEF Feedback, c
    <2> QED
      BY <2>1, <2>2 DEF Graph, SameMods
  <1>4. /\ a \in Names /\ Here(h, a[1]) /\ PinOf(h, a) = i
        /\ (\A r \in Names : Here(h, r[1]) => (r = a <=> PinOf(h, r) = i))
    BY InNamed
  <1> HIDE DEF c, k, a, b
  <1>5. /\ \A q : From(k, q) = From(c, q) /\ NetForm(k, q) = NetForm(c, q)
        /\ \A q : PinOf(k, q) = PinOf(c, q)
        /\ PreviewFixed(k)
    BY <1>1, <1>3, NetAlike
  <1>6. /\ \A x : Here(c, x) <=> Here(h, x)
        /\ \A q : PinOf(c, q) = PinOf(h, q)
    BY <1>1, SameNames
  <1>7. SameMods(h, k)
    BY <1>1, <1>3, SameModsOn
  <1>n. /\ \A q \in Names : n.from[q] = From(c, q) /\ n.form[q] = NetForm(c, q)
        /\ \A q \in Names : q \in n.back <=> From(c, q) # Nowhere /\ PinOf(c, q) \in c.fb
        /\ n.back \subseteq Names
        /\ n.from = [q \in Names |-> n.from[q]] /\ n.form = [q \in Names |-> n.form[q]]
        /\ n = [from |-> n.from, back |-> n.back, form |-> n.form]
    BY NetFields DEF Net
  <1> DEFINE F == n.from
             M == n.form
             B == IF n.from[a] = Nowhere THEN n.back ELSE n.back \cup {a}
  <1> HIDE DEF n
  <1>8. ASSUME NEW q \in Names PROVE q \in B <=> From(k, q) # Nowhere /\ PinOf(k, q) \in k.fb
    <2>1. CASE q = a
      BY <1>3, <1>4, <1>5, <1>6, <1>n, <2>1
    <2>2. CASE q # a
      <3>1. From(c, q) # Nowhere => PinOf(c, q) # i
        BY <1>4, <1>6, <2>2 DEF From
      <3> QED
        BY <1>3, <1>5, <1>n, <2>2, <3>1
    <2> QED
      BY <2>1, <2>2
  <1>9. B \in SUBSET Names
    BY <1>4, <1>n
  <1>10. NetFeedback(Net(h), b, a) = [from |-> F, back |-> B, form |-> M]
    <2>1. NetFeedback(Net(h), b, a) = IF n.from[a] = Nowhere THEN n
             ELSE [from |-> n.from, back |-> n.back \cup {a}, form |-> n.form]
      BY <1>1 DEF NetFeedback
    <2>2. CASE n.from[a] = Nowhere
      BY <1>n, <2>1, <2>2
    <2>3. CASE n.from[a] # Nowhere
      BY <2>1, <2>3
    <2> QED
      BY <2>2, <2>3
  <1>11. F = [q \in Names |-> F[q]] /\ \A q \in Names : From(k, q) = F[q]
    BY <1>5, <1>n
  <1>12. M = [q \in Names |-> M[q]] /\ \A q \in Names : NetForm(k, q) = M[q]
    BY <1>5, <1>n
  <1> HIDE DEF F, B, M
  <1>13. NetIs(k, F, B, M)
    BY <1>8, <1>9, <1>11, <1>12 DEF NetIs
  <1>14. Net(k) = [from |-> F, back |-> B, form |-> M]
    BY <1>13, NetMade
  <1> QED
    BY <1>2, <1>5, <1>7, <1>10, <1>14 DEF k, a, b

-----------------------------------------------------------------------------
(* The preview *)

\* The preview has one input.
LEMMA PreviewPinIs ==
  ASSUME NEW h, Good(h), Unique(h), NEW p \in Pins, h.mod[p[1]] = Preview, p \in Inputs(h)
  PROVE  Preview \in Keys /\ Get(h, Preview) # -1 /\ p = <<Get(h, Preview), 0>>
  <1>1. p[1] \in Live(h) /\ h \in Graph /\ IsIn(h, p)
    BY GoodIs DEF Inputs
  <1>2. Get(h, h.mod[p[1]]) = p[1] /\ h.mod[p[1]] \in Keys /\ p[1] # -1
    BY <1>1, LiveNamed
  <1>3. Class[Preview][p[2]].io = "in" /\ p[2] \in Conns
    BY <1>1, <1>2, GraphAssumption DEF IsIn, PinClass, Pins
  <1>4. p[2] = 0
    BY <1>2, <1>3, PreviewType
  <1>5. p = <<p[1], p[2]>>
    BY DEF Pins
  <1> QED
    BY <1>2, <1>4, <1>5

LEMMA BoundFixed ==
  ASSUME NEW h, Good(h), Unique(h), ~Bound(h)
  PROVE  PreviewFixed(h)
  <1> SUFFICES ASSUME NEW p \in Pins, h.src[p] # Unset, h.mod[p[1]] = Preview
               PROVE  ~Loose(Named(h, h.src[p]))
    BY DEF PreviewFixed
  <1>1. p \in Inputs(h)
    BY GoodIs, ReadIs
  <1>2. Get(h, Preview) # -1 /\ p = <<Get(h, Preview), 0>>
    BY <1>1, PreviewPinIs
  <1> QED
    BY <1>2 DEF Bound

\* A name is not that of a connector of the preview.
LEMMA NameNotPreview ==
  ASSUME NEW h \in Graph, NEW q \in Names, Here(h, q[1]), NEW i, h.mod[i[1]] = Preview
  PROVE  PinOf(h, q) # i /\ PinOf(h, q) \in Pins
  BY PinNamed

\* Only what the preview reads has changed: the rest is read as before.
LEMMA FromElsewhere ==
  ASSUME NEW h \in Graph, NEW k \in Graph, SameMods(h, k), NEW i, h.mod[i[1]] = Preview,
         \A p \in Pins \ {i} : k.src[p] = h.src[p]
  PROVE  /\ \A q \in Names : From(k, q) = From(h, q)
         /\ PreviewFixed(h) /\ (i \in Pins /\ k.src[i] # Unset => ~Loose(Named(h, k.src[i])))
              => PreviewFixed(k)
  <1>1. /\ \A n : Here(k, n) <=> Here(h, n)
        /\ \A q : PinOf(k, q) = PinOf(h, q)
        /\ \A p : Named(k, p) = Named(h, p)
    BY SameNames
  <1>2. ASSUME NEW q \in Names PROVE From(k, q) = From(h, q)
    <2>1. CASE Here(h, q[1])
      BY <1>1, <2>1, NameNotPreview DEF From
    <2>2. CASE ~Here(h, q[1])
      BY <1>1, <2>2 DEF From
    <2> QED
      BY <2>1, <2>2
  <1>3. ASSUME PreviewFixed(h), i \in Pins /\ k.src[i] # Unset => ~Loose(Named(h, k.src[i]))
        PROVE  PreviewFixed(k)
    BY <1>1, <1>3 DEF PreviewFixed, SameMods
  <1> QED
    BY <1>2, <1>3

\* Releasing the preview takes its formats away again.
LEMMA PreviewReleased ==
  ASSUME NEW h, Good(h), NEW i \in Inputs(h), h.mod[i[1]] = Preview
  PROVE  LET u == Unlink1(h, i)
         IN  /\ Net(u) = Net(h) /\ (PreviewFixed(h) => PreviewFixed(u))
             /\ Good(u) /\ SameMods(h, u) /\ u.src[i] = Unset
             /\ \A p \in Pins \ {i} : u.src[p] = h.src[p]
  <1> DEFINE u == Unlink1(h, i)
             x == h.src[i]
  <1>1. CASE x = Unset
    <2>1. u = h
      BY <1>1 DEF Unlink1, Linked
    <2> QED
      BY <1>1, <2>1 DEF SameMods
  <1>2. CASE x # Unset
    <2>0. i \in Pins /\ h \in Graph
      BY GoodIs DEF Inputs
    <2>u. Opened(h, i, u)
      BY <1>2, <2>0, Unlink1Is
    <2>1. /\ SameMods(h, u) /\ Good(u) /\ u.par = h.par /\ u.fb = h.fb
          /\ u.src = [h.src EXCEPT ![i] = Unset]
          /\ Form(u, i) = PinForm(h, i)
          /\ Form(u, x) = IF Readers(h, x) = {i} THEN PinForm(h, x) ELSE Form(h, x)
          /\ \A p \in Pins \ {i, x} : Form(u, p) = Form(h, p)
      BY <2>u DEF Opened
    <2>2. x \in Outputs(h) /\ x \in Pins /\ x # i
      BY <1>2, <2>0, ReadIs, GoodIs
    <2> HIDE DEF u
    <2>3. /\ \A n : Here(u, n) <=> Here(h, n)
          /\ \A q : PinOf(u, q) = PinOf(h, q)
          /\ u \in Graph /\ u.mod = h.mod
      BY <2>1, SameNames, GoodIs DEF SameMods
    <2>4. \A p \in Pins : u.src[p] = IF p = i THEN Unset ELSE h.src[p]
      BY <2>0, <2>1 DEF Graph
    <2>5. /\ \A q \in Names : From(u, q) = From(h, q)
          /\ PreviewFixed(h) => PreviewFixed(u)
      <3>1. (\A p \in Pins \ {i} : u.src[p] = h.src[p]) /\ u.src[i] = Unset
        BY <2>0, <2>4
      <3>2. SameMods(h, u)
        BY <2>1
      <3> QED
        BY <2>0, <2>3, <3>1, <3>2, FromElsewhere
    <2>6. \A p \in Pins : Readers(u, p) = Readers(h, p) \ {i}
      BY <2>4, UnsetIsNoPin DEF Readers
    <2>7. ASSUME NEW q \in Names PROVE NetForm(u, q) = NetForm(h, q)
      <3>1. CASE ~Here(h, q[1])
        BY <2>3, <3>1 DEF NetForm
      <3>2. CASE Here(h, q[1])
        <4> DEFINE p == PinOf(h, q)
        <4>1. p \in Pins /\ p # i /\ PinForm(h, p) = NameForm(q)
          BY <2>0, <3>2, NameNotPreview, PinNamed DEF PinForm, NameForm
        <4>2. PinOf(u, q) = p /\ Here(u, q[1])
          BY <2>3, <3>2
        <4> HIDE DEF p
        <4>3. CASE p # x
          <5>1. Readers(u, p) = Readers(h, p)
            BY <2>6, <4>1, <4>3 DEF Readers
          <5>2. Borrowed(u, p) <=> Borrowed(h, p)
            BY <2>3, <5>1 DEF Borrowed
          <5>3. Form(u, p) = Form(h, p)
            BY <2>1, <4>1, <4>3
          <5> QED
            BY <2>5, <3>2, <4>2, <5>2, <5>3 DEF NetForm, p
        <4>4. CASE p = x
          <5>1. From(h, q) = Nowhere
            BY <2>2, <3>2, <4>4, GoodIs, OutputOpen DEF From, Named, p
          <5>2. CASE Readers(h, x) = {i}
            <6>1. Borrowed(h, p) /\ ~Borrowed(u, p)
              BY <2>6, <4>1, <4>4, <5>2 DEF Borrowed
            <6> QED
              BY <2>1, <2>5, <3>2, <4>1, <4>2, <4>4, <5>1, <5>2, <6>1 DEF NetForm, p
          <5>3. CASE Readers(h, x) # {i}
            <6>1. Borrowed(u, p) <=> Borrowed(h, p)
              BY <2>3, <2>6, <4>1, <4>4, <5>3 DEF Borrowed
            <6> QED
              BY <2>1, <2>5, <3>2, <4>1, <4>2, <4>4, <5>1, <5>3, <6>1 DEF NetForm, p
          <5> QED
            BY <5>2, <5>3
        <4> QED
          BY <4>3, <4>4
      <3> QED
        BY <3>1, <3>2
    <2>8. Net(u) = Net(h)
      BY <2>1, <2>3, <2>5, <2>7, NetSame
    <2> QED
      BY <2>0, <2>1, <2>4, <2>5, <2>8 DEF u
  <1> QED
    BY <1>1, <1>2

\* Every open connector has the formats of its class.
Clean(h) ==
  /\ \A p \in Inputs(h) : h.src[p] = Unset => Form(h, p) = PinForm(h, p)
  /\ \A o \in Outputs(h) : Readers(h, o) = {} => Form(h, o) = PinForm(h, o)

LEMMA CleanIs ==
  ASSUME NEW h, Fair(h)
  PROVE  Clean(h) <=> ~Stained(h)
  <1>1. h \in Graph /\ RefExact(h)
    BY FairIs
  <1>2. \A p \in Inputs(h) : IsIn(h, p)
    BY DEF Inputs
  <1>3. \A o \in Outputs(h) : ~IsIn(h, o)
    BY DEF Outputs, IsIn, IsOut
  <1>4. \A o \in Outputs(h) : h.ref[o] = 0 <=> Readers(h, o) = {}
    BY <1>1, ReadersFinite, FS_EmptySet DEF RefExact
  <1> QED
    BY <1>2, <1>3, <1>4 DEF Clean, Stained, Form, PinForm

LEMMA CleanSame ==
  ASSUME NEW h, NEW k, SameMods(h, k), k.src = h.src, k.chan = h.chan, k.fmt = h.fmt
  PROVE  Clean(h) => Clean(k)
  <1>1. Inputs(k) = Inputs(h) /\ Outputs(k) = Outputs(h)
    BY SamePins
  <1>2. \A p \in Pins : PinForm(k, p) = PinForm(h, p)
    BY SameNames
  <1> QED
    BY <1>1, <1>2 DEF Clean, Form, Readers, Inputs, Outputs

LEMMA UnlinkClean ==
  ASSUME NEW h, Good(h), Clean(h), NEW i \in Pins
  PROVE  Clean(Unlink1(h, i))
  <1> DEFINE u == Unlink1(h, i)
             x == h.src[i]
  <1>1. CASE x = Unset
    <2>1. u = h
      BY <1>1 DEF Unlink1, Linked
    <2> QED
      BY <2>1
  <1>2. CASE x # Unset
    <2>u. Opened(h, i, u)
      BY <1>2, Unlink1Is
    <2>1. /\ SameMods(h, u) /\ Good(u) /\ u.par = h.par /\ u.fb = h.fb
          /\ u.src = [h.src EXCEPT ![i] = Unset]
          /\ Form(u, i) = PinForm(h, i)
          /\ Form(u, x) = IF Readers(h, x) = {i} THEN PinForm(h, x) ELSE Form(h, x)
          /\ \A p \in Pins \ {i, x} : Form(u, p) = Form(h, p)
      BY <2>u DEF Opened
    <2>2. x \in Outputs(h) /\ x \in Pins /\ x # i /\ i \in Inputs(h) /\ h \in Graph
      BY <1>2, ReadIs, GoodIs
    <2>3. i \in Readers(h, x)
      BY DEF Readers
    <2> HIDE DEF u, x
    <2>4. /\ Inputs(u) = Inputs(h) /\ Outputs(u) = Outputs(h)
          /\ \A p \in Pins : PinForm(u, p) = PinForm(h, p)
      BY <2>1, SamePins, SameNames
    <2>5. \A p \in Pins : u.src[p] = IF p = i THEN Unset ELSE h.src[p]
      BY <2>1, <2>2 DEF Graph
    <2>6. \A p \in Pins : Readers(u, p) = Readers(h, p) \ {i}
      BY <2>5, UnsetIsNoPin DEF Readers
    <2>7. /\ Inputs(h) \subseteq Pins /\ Outputs(h) \subseteq Pins
          /\ \A p \in Inputs(h) : p # x
          /\ \A o \in Outputs(h) : o # i
      BY <2>2, InNotOut DEF Inputs, Outputs
    <2>8. \A p \in Inputs(u) : u.src[p] = Unset => Form(u, p) = PinForm(u, p)
      BY <2>1, <2>4, <2>5, <2>7 DEF Clean
    <2>9. ASSUME NEW o \in Outputs(u), Readers(u, o) = {}
          PROVE  Form(u, o) = PinForm(u, o)
      <3>1. CASE o = x
        <4>1. Readers(h, x) = {i}
          BY <2>2, <2>3, <2>6, <2>9, <3>1
        <4> QED
          BY <2>1, <2>2, <2>4, <3>1, <4>1
      <3>2. CASE o # x
        <4>1. Readers(h, o) = {}
          <5>1. i \notin Readers(h, o)
            BY <3>2 DEF Readers, x
          <5> QED
            BY <2>4, <2>6, <2>7, <2>9, <5>1
        <4> QED
          BY <2>1, <2>4, <2>7, <3>2, <4>1 DEF Clean
      <3> QED
        BY <3>1, <3>2
    <2>10. Clean(u)
      BY <2>8, <2>9 DEF Clean
    <2> QED
      BY <2>10 DEF u
  <1> QED
    BY <1>1, <1>2

\* A connection that is made stains nothing.
LEMMA JoinClean ==
  ASSUME NEW h, Good(h), Clean(h), NEW o \in Outputs(h), NEW i \in Inputs(h), h.src[i] = Unset,
         ~BadChan(h, o, i), ~BadFmt(h, o, i)
  PROVE  Clean(Join(h, o, i))
  <1> DEFINE k == Join(h, o, i)
  <1>1. o # i /\ h \in Graph /\ o \in Pins /\ i \in Pins
    BY GoodIs, InNotOut DEF Inputs, Outputs
  <1>2. /\ SameMods(h, k)
        /\ \A p \in Pins \ {o, i} : Form(k, p) = Form(h, p)
        /\ k.src = [h.src EXCEPT ![i] = o]
    BY <1>1, JoinForms
  <1> HIDE DEF k
  <1>3. /\ Inputs(k) = Inputs(h) /\ Outputs(k) = Outputs(h)
        /\ \A p \in Pins : PinForm(k, p) = PinForm(h, p)
    BY <1>2, SamePins, SameNames
  <1>4. \A p \in Pins : k.src[p] = IF p = i THEN o ELSE h.src[p]
    BY <1>1, <1>2 DEF Graph
  <1>5. /\ Inputs(h) \subseteq Pins /\ Outputs(h) \subseteq Pins
        /\ \A p \in Inputs(h) : p # o
        /\ \A p \in Outputs(h) : p # i
    BY InNotOut DEF Inputs, Outputs
  <1>6. \A p \in Inputs(k) : k.src[p] = Unset => Form(k, p) = PinForm(k, p)
    BY <1>1, <1>2, <1>3, <1>4, <1>5, UnsetIsNoPin DEF Clean
  <1>7. ASSUME NEW p \in Outputs(k), Readers(k, p) = {}
        PROVE  Form(k, p) = PinForm(k, p)
    <2>1. p # o
      BY <1>1, <1>4, <1>7 DEF Readers
    <2>2. Readers(h, p) = {}
      BY <1>1, <1>3, <1>4, <1>5, <1>7, UnsetIsNoPin DEF Readers
    <2> QED
      BY <1>2, <1>3, <1>5, <2>1, <2>2 DEF Clean
  <1>8. Clean(k)
    BY <1>6, <1>7 DEF Clean
  <1> QED
    BY <1>8 DEF k

LEMMA InternalClean ==
  ASSUME NEW h, Good(h), Clean(h), NEW o \in Outputs(h) \cup {Unset}, NEW i \in Inputs(h),
         ~InternalFails(h, o, i)
  PROVE  Clean(ConnectInternal(h, o, i))
  <1> DEFINE k == ConnectInternal(h, o, i)
             u == Unlink1(h, i)
  <1>1. ~Refused(h, i) /\ ~Uncounted(h, i) /\ i \in Pins
    BY NotRefused DEF Inputs
  <1>2. CASE h.src[i] = o
    BY <1>2 DEF ConnectInternal
  <1>3. Clean(u)
    BY <1>1, UnlinkClean
  <1>4. CASE h.src[i] # o /\ o = Unset
    <2>1. k = u
      BY <1>1, <1>4 DEF ConnectInternal
    <2> QED
      BY <1>3, <2>1
  <1>5. CASE h.src[i] # o /\ o # Unset
    <2>1. k = Join(u, o, i)
      BY <1>1, <1>5 DEF ConnectInternal
    <2>2. ~BadChan(u, o, i) /\ ~BadFmt(u, o, i)
      BY <1>5 DEF InternalFails
    <2>3. Good(u) /\ SameMods(h, u) /\ u.src[i] = Unset
      <3>1. CASE h.src[i] = Unset
        BY <3>1 DEF Unlink1, Linked, SameMods
      <3>2. CASE h.src[i] # Unset
        <4>u. Opened(h, i, u)
          BY <1>1, <3>2, Unlink1Is
        <4>1. Good(u) /\ SameMods(h, u) /\ u.src = [h.src EXCEPT ![i] = Unset]
          BY <4>u DEF Opened
        <4> QED
          BY <1>1, <4>1, GoodIs DEF Graph
      <3> QED
        BY <3>1, <3>2
    <2> HIDE DEF u
    <2>4. o \in Outputs(u) /\ i \in Inputs(u)
      BY <1>5, <2>3, SamePins
    <2>5. Clean(Join(u, o, i))
      BY <1>3, <2>2, <2>3, <2>4, JoinClean
    <2> QED
      BY <2>1, <2>5
  <1> QED
    BY <1>2, <1>4, <1>5

\* And so do connecting, disconnecting and feedback, unless they fail.
LEMMA ConnectClean ==
  ASSUME NEW h, Good(h), Clean(h), NEW o \in Outputs(h) \cup {Unset}, NEW i \in Inputs(h)
  PROVE  /\ ~ConnectFails(h, o, i) => Clean(Connect(h, o, i))
         /\ ~InternalFails(h, o, i) => Clean(Feedback(h, o, i))
  <1>1. ASSUME ~ConnectFails(h, o, i) PROVE Clean(Connect(h, o, i))
    BY <1>1, InternalClean DEF ConnectFails, Connect
  <1>2. ASSUME ~InternalFails(h, o, i) PROVE Clean(Feedback(h, o, i))
    <2> DEFINE c == ConnectInternal(h, o, i)
    <2>1. Clean(c)
      BY <1>2, InternalClean
    <2>2. c \in Graph
      BY ConnectInternalLinking, GoodIs DEF Rewired, Linking
    <2> HIDE DEF c
    <2> DEFINE k == [c EXCEPT !.fb = c.fb \cup {i}, !.oob = c.oob \/ o = Unset]
    <2>3. SameMods(c, k) /\ k.src = c.src /\ k.chan = c.chan /\ k.fmt = c.fmt
      BY <2>2 DEF Graph, SameMods
    <2>4. Feedback(h, o, i) = k
      BY DEF Feedback, c
    <2> HIDE DEF k
    <2> QED
      BY <2>1, <2>3, <2>4, CleanSame
  <1> QED
    BY <1>1, <1>2

\* Joining the preview to an output with formats of its own changes nothing else,
\* nor does joining it to another one, as long as no connector is left stained.
LEMMA PreviewJoined ==
  ASSUME NEW h, Good(h), NEW i \in Inputs(h), h.mod[i[1]] = Preview, h.src[i] = Unset,
         NEW o \in Outputs(h), ~Loose(Named(h, o)) \/ (Clean(h) /\ Clean(Join(h, o, i)))
  PROVE  LET k == Join(h, o, i)
         IN  /\ Net(k) = Net(h)
             /\ PreviewFixed(h) /\ ~Loose(Named(h, o)) => PreviewFixed(k)
             /\ Fair(k) /\ SameMods(h, k)
  <1> DEFINE k == Join(h, o, i)
             c == Form(h, o)
             d == Form(h, i)
  <1>1. o # i /\ h \in Graph /\ o \in Pins /\ i \in Pins
    BY GoodIs, InNotOut DEF Inputs, Outputs
  <1>2. /\ SameMods(h, k) /\ Form(k, o) = OutForm(c, d)
        /\ \A p \in Pins \ {o, i} : Form(k, p) = Form(h, p)
        /\ \/ k.src = h.src /\ k.fb = h.fb
           \/ k.src = [h.src EXCEPT ![i] = o] /\ k.fb = h.fb \ {i}
    BY <1>1, JoinForms
  <1>3. Fair(k)
    BY GoodIs, JoinLinking, JoinKept DEF Fair
  <1>4. ASSUME c[1] # "*" /\ c[2] # "*"
        PROVE  Form(k, o) = c
    <2>1. c = <<c[1], c[2]>>
      BY DEF Form
    <2> HIDE DEF c, d, k
    <2>2. OutForm(c, d) = <<c[1], c[2]>>
      BY <1>4 DEF OutForm, OutFormat
    <2> QED
      BY <1>2, <2>1, <2>2
  <1>5. ASSUME ~Loose(Named(h, o))
        PROVE  c = PinForm(h, o) /\ Form(k, o) = c
    <2>1. c = PinForm(h, o)
      BY <1>5, FixedForm, GoodIs
    <2>2. Named(h, o) = <<h.mod[o[1]], o[2]>> /\ h.mod[o[1]] # NoKey
      BY <1>1, UnsetIsNoPin DEF Named, Outputs, Live
    <2>3. PinForm(h, o)[1] # "*" /\ PinForm(h, o)[2] # "*"
      BY <1>5, <2>2 DEF PinForm, PinClass, Loose
    <2> HIDE DEF c, k
    <2> QED
      BY <1>4, <2>1, <2>3
  <1> HIDE DEF k
  <1>6. /\ \A n : Here(k, n) <=> Here(h, n)
        /\ \A q : PinOf(k, q) = PinOf(h, q)
        /\ k \in Graph /\ k.mod = h.mod
    BY <1>2, <1>3, SameNames, FairIs DEF SameMods
  <1>7. /\ \A p \in Pins \ {i} : k.src[p] = h.src[p]
        /\ k.src[i] \in {Unset, o}
        /\ \A p \in Pins \ {i} : p \in k.fb <=> p \in h.fb
    BY <1>1, <1>2 DEF Graph
  <1>8. /\ \A q \in Names : From(k, q) = From(h, q)
        /\ PreviewFixed(h) /\ ~Loose(Named(h, o)) => PreviewFixed(k)
    <2>1. SameMods(h, k) /\ (k.src[i] # Unset => Named(h, k.src[i]) = Named(h, o))
      BY <1>2, <1>7
    <2> QED
      BY <1>1, <1>6, <1>7, <2>1, FromElsewhere
  <1>9. ASSUME NEW q \in Names
        PROVE  /\ NetForm(k, q) = NetForm(h, q)
               /\ From(h, q) # Nowhere => (PinOf(k, q) \in k.fb <=> PinOf(h, q) \in h.fb)
    <2>1. CASE ~Here(h, q[1])
      BY <1>6, <2>1 DEF NetForm, From
    <2>2. CASE Here(h, q[1])
      <3> DEFINE p == PinOf(h, q)
      <3>1. p \in Pins /\ p # i /\ PinForm(h, p) = NameForm(q)
        BY <1>1, <2>2, NameNotPreview, PinNamed DEF PinForm, NameForm
      <3>2. PinOf(k, q) = p /\ Here(k, q[1])
        BY <1>6, <2>2
      <3> HIDE DEF p
      <3>3. CASE p # o
        <4>1. Readers(k, p) = Readers(h, p)
          <5> SUFFICES ASSUME NEW r \in Pins PROVE k.src[r] = p <=> h.src[r] = p
            BY DEF Readers
          <5>1. k.src[i] # p /\ h.src[i] # p
            BY <1>7, <3>1, <3>3, UnsetIsNoPin
          <5> QED
            BY <1>7, <5>1
        <4>2. Borrowed(k, p) <=> Borrowed(h, p)
          BY <1>6, <4>1 DEF Borrowed
        <4>3. Form(k, p) = Form(h, p)
          BY <1>2, <3>1, <3>3
        <4> QED
          BY <1>7, <1>8, <2>2, <3>1, <3>2, <4>2, <4>3 DEF NetForm, p
      <3>4. CASE p = o
        <4>1. From(h, q) = Nowhere
          BY <2>2, <3>4, GoodIs, OutputOpen DEF From, Named, p
        <4> HIDE DEF c
        <4>2. CASE ~Loose(Named(h, o))
          <5>1. Form(h, p) = NameForm(q) /\ Form(k, p) = NameForm(q)
            BY <1>5, <3>1, <3>4, <4>2 DEF c
          <5> QED
            BY <1>8, <2>2, <3>2, <4>1, <5>1 DEF NetForm, p
        <4>3. CASE Clean(h) /\ Clean(k) /\ \A r \in Readers(h, o) : h.mod[r[1]] = Preview
          <5>1. o \in Outputs(k) /\ PinForm(k, o) = PinForm(h, o)
            BY <1>1, <1>2, SamePins, SameNames
          <5>2. \A r \in Readers(k, o) : h.mod[r[1]] = Preview
            BY <1>7, <4>3 DEF Readers
          <5>3. NetForm(h, q) = NameForm(q)
            BY <2>2, <3>1, <3>4, <4>1, <4>3 DEF NetForm, Clean, Borrowed, p
          <5>4. NetForm(k, q) = NameForm(q)
            BY <1>6, <1>8, <2>2, <3>1, <3>2, <3>4, <4>1, <4>3, <5>1, <5>2
               DEF NetForm, Clean, Borrowed
          <5> QED
            BY <4>1, <5>3, <5>4
        <4>4. ASSUME NEW r \in Readers(h, o), h.mod[r[1]] # Preview
              PROVE  NetForm(k, q) = NetForm(h, q)
          <5>1. r \in Pins /\ r # i /\ h.src[r] = o /\ k.src[r] = o
            BY <1>7, <4>4 DEF Readers
          <5>2. ~Borrowed(h, o) /\ ~Borrowed(k, o)
            BY <1>6, <4>4, <5>1 DEF Borrowed, Readers
          <5>3. c[1] # "*" /\ c[2] # "*"
            BY <1>1, <5>1, GoodIs, UnsetIsNoPin DEF FormatsAgree, Form, c
          <5>4. Form(k, o) = Form(h, o)
            BY <1>4, <5>3 DEF c
          <5> QED
            BY <1>8, <2>2, <3>2, <3>4, <5>2, <5>4 DEF NetForm, p
        <4> QED
          BY <4>1, <4>2, <4>3, <4>4 DEF k
      <3> QED
        BY <3>3, <3>4
    <2> QED
      BY <2>1, <2>2
  <1>10. Net(k) = Net(h)
    BY <1>8, <1>9, NetSame
  <1> QED
    BY <1>2, <1>3, <1>8, <1>10 DEF k

LEMMA PreviewInternals ==
  ASSUME NEW h, Good(h), NEW i \in Inputs(h), h.mod[i[1]] = Preview,
         NEW o \in Outputs(h) \cup {Unset}, 
         o = Unset \/ ~Loose(Named(h, o)) \/ (Clean(h) /\ Clean(ConnectInternal(h, o, i)))
  PROVE  LET k == ConnectInternal(h, o, i)
         IN  /\ Net(k) = Net(h)
             /\ PreviewFixed(h) /\ (o = Unset \/ ~Loose(Named(h, o))) => PreviewFixed(k)
             /\ Fair(k) /\ SameMods(h, k)
  <1> DEFINE k == ConnectInternal(h, o, i)
             u == Unlink1(h, i)
  <1>1. ~Refused(h, i) /\ ~Uncounted(h, i)
    BY NotRefused DEF Inputs
  <1>2. CASE h.src[i] = o
    <2>1. k = h
      BY <1>2 DEF ConnectInternal
    <2> QED
      BY <2>1, GoodIs DEF SameMods
  <1>3. /\ Net(u) = Net(h) /\ (PreviewFixed(h) => PreviewFixed(u))
        /\ Good(u) /\ SameMods(h, u) /\ u.src[i] = Unset
    BY PreviewReleased
  <1>4. CASE h.src[i] # o /\ o = Unset
    <2>1. k = u
      BY <1>1, <1>4 DEF ConnectInternal
    <2> HIDE DEF u, k
    <2> QED
      BY <1>3, <2>1, GoodIs DEF k
  <1>5. CASE h.src[i] # o /\ o # Unset
    <2>1. k = Join(u, o, i)
      BY <1>1, <1>5 DEF ConnectInternal
    <2> HIDE DEF u
    <2>2. o \in Outputs(u) /\ i \in Inputs(u) /\ u.mod[i[1]] = Preview
          /\ Named(u, o) = Named(h, o)
      BY <1>3, <1>5, SamePins, SameNames DEF SameMods
    <2>c. Clean(h) => Clean(u)
      BY UnlinkClean DEF Inputs, u
    <2>3. /\ Net(Join(u, o, i)) = Net(u)
          /\ PreviewFixed(u) /\ ~Loose(Named(u, o)) => PreviewFixed(Join(u, o, i))
          /\ Fair(Join(u, o, i)) /\ SameMods(u, Join(u, o, i))
      BY <1>3, <1>5, <2>1, <2>2, <2>c, PreviewJoined
    <2>4. SameMods(h, Join(u, o, i))
      BY <1>3, <2>3, SameModsOn
    <2> HIDE DEF k
    <2> QED
      BY <1>3, <1>5, <2>1, <2>2, <2>3, <2>4 DEF k
  <1> QED
    BY <1>2, <1>4, <1>5

\* Connecting the preview to an output with formats of its own
LEMMA PreviewConnects ==
  ASSUME NEW h, Good(h), NEW i \in Inputs(h), h.mod[i[1]] = Preview,
         NEW o \in Outputs(h) \cup {Unset}, o = Unset \/ ~Loose(Named(h, o)),
         NEW k \in {Connect(h, o, i), Feedback(h, o, i)}
  PROVE  /\ Net(k) = Net(h) /\ (PreviewFixed(h) => PreviewFixed(k))
         /\ Good(k) /\ SameMods(h, k)
  <1> DEFINE c == ConnectInternal(h, o, i)
  <1>1. /\ Net(c) = Net(h) /\ (PreviewFixed(h) => PreviewFixed(c))
        /\ Fair(c) /\ SameMods(h, c)
    BY PreviewInternals
  <1>2. CASE k = Connect(h, o, i)
    <2>1. Good(k)
      BY <1>2, ConnectGood
    <2>2. k = h \/ k = c
      BY <1>2 DEF Connect
    <2> HIDE DEF c
    <2> QED
      BY <1>1, <2>1, <2>2 DEF SameMods
  <1>3. CASE k = Feedback(h, o, i)
    <2>1. Good(k)
      BY <1>3, FeedbackGood
    <2>2. /\ SameMods(c, k) /\ k.src = c.src /\ k.chan = c.chan /\ k.fmt = c.fmt
          /\ k.fb = c.fb \cup {i}
      <3>1. c \in Graph
        BY <1>1, FairIs
      <3> HIDE DEF c
      <3>2. k = [c EXCEPT !.fb = c.fb \cup {i}, !.oob = c.oob \/ o = Unset]
        BY <1>3 DEF Feedback, c
      <3> QED
        BY <3>1, <3>2 DEF Graph, SameMods
    <2> HIDE DEF c
    <2>3. /\ \A q : From(k, q) = From(c, q) /\ NetForm(k, q) = NetForm(c, q)
          /\ \A q : PinOf(k, q) = PinOf(c, q)
          /\ PreviewFixed(c) => PreviewFixed(k)
      BY <2>2, NetAlike
    <2>4. SameMods(h, k) /\ c \in Graph /\ c.mod = h.mod
      BY <1>1, <2>2, SameModsOn, FairIs DEF SameMods
    <2>5. ASSUME NEW q \in Names, From(c, q) # Nowhere
          PROVE  PinOf(k, q) \in k.fb <=> PinOf(c, q) \in c.fb
      <3>1. Here(c, q[1])
        BY <2>5 DEF From
      <3>2. PinOf(c, q) # i
        BY <2>4, <3>1, NameNotPreview
      <3> QED
        BY <2>2, <2>3, <3>2
    <2>6. Net(k) = Net(c)
      BY <2>3, <2>5, NetSame
    <2> QED
      BY <1>1, <2>1, <2>3, <2>4, <2>6
  <1> QED
    BY <1>2, <1>3

\* Showing any output in the preview
LEMMA PreviewShows ==
  ASSUME NEW h, Good(h), Clean(h), NEW i \in Inputs(h), h.mod[i[1]] = Preview,
         NEW o \in Outputs(h), Clean(Connect(h, o, i))
  PROVE  Net(Connect(h, o, i)) = Net(h) /\ SameMods(h, Connect(h, o, i))
  <1>1. CASE Cyclic(h, o, i)
    BY <1>1 DEF Connect, SameMods
  <1>2. CASE ~Cyclic(h, o, i)
    <2>1. Connect(h, o, i) = ConnectInternal(h, o, i)
      BY <1>2 DEF Connect
    <2> QED
      BY <2>1, PreviewInternals
  <1> QED
    BY <1>1, <1>2

\* The net of a graph is that of the graph without preview.
LEMMA NoPreviewNet ==
  ASSUME NEW h, Good(h), Unique(h)
  PROVE  LET k == NoPreview(h)
         IN  /\ Net(k) = Net(h) /\ PreviewFixed(k)
             /\ Good(k) /\ SameMods(h, k) /\ Unique(k)
             /\ k = h \/ \E i \in Inputs(h) : h.src[i] # Unset /\ k = Unlink1(h, i)
  <1> DEFINE s == Get(h, Preview)
             i == <<s, 0>>
             k == NoPreview(h)
  <1>1. Good(k) /\ Loosened(h, k) /\ SameMods(h, k) /\ Unique(k)
    BY NoPreviewGood, SameNames DEF Loosened
  <1>2. ASSUME NEW p \in Inputs(h), h.mod[p[1]] = Preview
        PROVE  s # -1 /\ p = i
    BY <1>2, PreviewPinIs DEF Inputs
  <1>3. CASE s = -1 \/ h.src[i] = Unset
    <2>1. k = h
      BY <1>3 DEF NoPreview, Connect, ConnectInternal
    <2>2. ASSUME NEW p \in Pins, h.src[p] # Unset, h.mod[p[1]] = Preview PROVE FALSE
      <3>1. p \in Inputs(h)
        BY <2>2, GoodIs, ReadIs
      <3> QED
        BY <1>2, <1>3, <2>2, <3>1
    <2>3. PreviewFixed(h)
      BY <2>2 DEF PreviewFixed
    <2> QED
      BY <1>1, <2>1, <2>3
  <1>4. CASE s # -1 /\ h.src[i] # Unset
    <2>1. i \in Pins /\ h.mod[s] = Preview
      <3>1. s \in Slots /\ h.mod[s] = Preview
        BY <1>4, GetIs
      <3> QED
        BY <3>1, SizeType DEF Pins, Conns
    <2>2. i \in Inputs(h) /\ ~Refused(h, i) /\ ~Uncounted(h, i)
      BY <1>4, <2>1, GoodIs, ReadIs, NotRefused
    <2>3. k = Unlink1(h, i)
      BY <1>4, <2>2 DEF NoPreview, Connect, ConnectInternal, Cyclic
    <2>4. Net(k) = Net(h) /\ k.src[i] = Unset
      BY <2>1, <2>2, <2>3, PreviewReleased
    <2>5. ASSUME NEW p \in Pins, k.src[p] # Unset, k.mod[p[1]] = Preview PROVE FALSE
      <3> HIDE DEF k
      <3>1. p \in Inputs(h) /\ h.mod[p[1]] = Preview
        BY <1>1, <2>5, GoodIs, ReadIs, SamePins DEF SameMods
      <3> QED
        BY <1>2, <2>4, <2>5, <3>1
    <2>6. PreviewFixed(k)
      BY <2>5 DEF PreviewFixed
    <2> HIDE DEF k, i
    <2> QED
      BY <1>1, <1>4, <2>2, <2>3, <2>4, <2>6 DEF k
  <1> QED
    BY <1>3, <1>4

-----------------------------------------------------------------------------
(* Modules come and go *)

Value(h, k) == IF Here(h, k) THEN h.par[Get(h, k)] ELSE Default

\* The modules of h are those of k, or some of them.
Grown(h, k) == Live(h) \subseteq Live(k) /\ \A s \in Live(h) : k.mod[s] = h.mod[s]

LEMMA GrownOn ==
  ASSUME NEW h, NEW k, NEW m, Grown(h, k), Grown(k, m)
  PROVE  Grown(h, m)
  BY DEF Grown

LEMMA GrownSame ==
  ASSUME NEW h, NEW k, SameMods(h, k)
  PROVE  Grown(h, k)
  BY SamePins DEF Grown, SameMods

LEMMA HereLive ==
  ASSUME NEW h \in Graph, NEW k \in Keys
  PROVE  Here(h, k) <=> \E s \in Live(h) : h.mod[s] = k
  <1>1. ASSUME NEW s \in Live(h), h.mod[s] = k PROVE Here(h, k)
    <2>1. Get(h, k) \in Live(h) /\ Live(h) \subseteq Slots
      BY <1>1, GetLive DEF Live, Used
    <2> QED
      BY <2>1, SlotsType DEF Here
  <1> QED
    BY <1>1, HereIs

LEMMA GrownNames ==
  ASSUME NEW h \in Graph, NEW k \in Graph, Grown(h, k), Unique(k)
  PROVE  /\ Unique(h)
         /\ \A x \in Keys : Here(h, x) => Here(k, x) /\ Get(k, x) = Get(h, x)
  <1>1. Unique(h)
    BY DEF Grown, Unique
  <1>2. ASSUME NEW x \in Keys, Here(h, x) PROVE Here(k, x) /\ Get(k, x) = Get(h, x)
    <2>1. Get(h, x) \in Live(h) /\ h.mod[Get(h, x)] = x
      BY <1>2, HereIs
    <2>2. Get(h, x) \in Live(k) /\ k.mod[Get(h, x)] = x
      BY <2>1 DEF Grown
    <2>3. Get(k, k.mod[Get(h, x)]) = Get(h, x) /\ Get(h, x) # -1
      BY <2>2, LiveNamed
    <2> QED
      BY <2>2, <2>3 DEF Here
  <1> QED
    BY <1>1, <1>2

\* Two graphs that differ in modules that are connected with nothing
LEMMA NetApart ==
  ASSUME NEW h, Good(h), NEW k, Good(k), k.src = h.src, NEW m \in Keys,
         \A x \in Keys \ {m} : Get(k, x) = Get(h, x),
         \A p \in Pins : p \in Inputs(h) \cup Outputs(h) /\ h.mod[p[1]] # m =>
            Form(k, p) = Form(h, p) /\ k.mod[p[1]] = h.mod[p[1]] /\ (p \in k.fb <=> p \in h.fb),
         \A p \in Pins : h.src[p] # Unset => h.mod[p[1]] # m /\ h.mod[h.src[p][1]] # m,
         \A q \in Names : q[1] = m => NetForm(k, q) = NameForm(q) /\ NetForm(h, q) = NameForm(q)
                                      /\ From(k, q) = Nowhere /\ From(h, q) = Nowhere
  PROVE  Net(k) = Net(h) /\ (PreviewFixed(h) => PreviewFixed(k))
  <1>1. ASSUME NEW p \in Pins, h.src[p] # Unset
        PROVE  /\ k.mod[p[1]] = h.mod[p[1]] /\ Named(k, h.src[p]) = Named(h, h.src[p])
               /\ p \in k.fb <=> p \in h.fb
    <2>1. p \in Inputs(h) /\ h.src[p] \in Outputs(h) /\ h.src[p] \in Pins
      BY <1>1, GoodIs, ReadIs
    <2> QED
      BY <1>1, <2>1 DEF Named
  <1>2. \A p \in Pins : Borrowed(k, p) <=> Borrowed(h, p)
    BY <1>1, UnsetIsNoPin DEF Borrowed, Readers
  <1>3. ASSUME NEW q \in Names
        PROVE  /\ From(k, q) = From(h, q) /\ NetForm(k, q) = NetForm(h, q)
               /\ From(h, q) # Nowhere => (PinOf(k, q) \in k.fb <=> PinOf(h, q) \in h.fb)
    <2>1. CASE q[1] = m
      BY <2>1
    <2>2. CASE q[1] # m
      <3>1. Get(k, q[1]) = Get(h, q[1]) /\ PinOf(k, q) = PinOf(h, q)
        BY <2>2 DEF PinOf, Names, Others
      <3>2. CASE ~Here(h, q[1])
        BY <3>1, <3>2 DEF From, NetForm, Here
      <3>3. CASE Here(h, q[1])
        <4> DEFINE p == PinOf(h, q)
        <4>1. /\ p \in Pins /\ p[1] \in Live(h) /\ h.mod[p[1]] = q[1]
              /\ PinClass(h, p) = Class[q[1]][q[2]]
          BY <3>3, PinNamed, GoodIs
        <4>2. p \in Inputs(h) \cup Outputs(h)
          <5>1. Class[q[1]][q[2]].io \in {"in", "out"}
            BY ClassType, GoodIs, <4>1 DEF Names
          <5> HIDE DEF p
          <5> QED
            BY <4>1, <5>1 DEF Inputs, Outputs, IsIn, IsOut
        <4>3. Here(k, q[1]) /\ PinOf(k, q) = p
          BY <3>1, <3>3 DEF Here
        <4> HIDE DEF p
        <4>4. Form(k, p) = Form(h, p)
          BY <2>2, <4>1, <4>2
        <4>5. From(k, q) = From(h, q)
          <5>1. From(k, q) = Named(k, h.src[p]) /\ From(h, q) = Named(h, h.src[p])
            BY <3>3, <4>3 DEF From, p
          <5>2. h.src[p] = Unset => Named(k, h.src[p]) = Named(h, h.src[p])
            BY DEF Named
          <5> QED
            BY <1>1, <4>1, <5>1, <5>2
        <4>6. NetForm(k, q) = NetForm(h, q)
          BY <1>2, <3>3, <4>1, <4>3, <4>4, <4>5 DEF NetForm, p
        <4>7. p \in k.fb <=> p \in h.fb
          BY <2>2, <4>1, <4>2
        <4> QED
          BY <4>3, <4>5, <4>6, <4>7 DEF p
      <3> QED
        BY <3>2, <3>3
    <2> QED
      BY <2>1, <2>2
  <1>4. Net(k) = Net(h)
    BY <1>3, NetSame
  <1>5. ASSUME PreviewFixed(h), NEW p \in Pins, k.src[p] # Unset, k.mod[p[1]] = Preview
        PROVE  ~Loose(Named(k, k.src[p]))
    BY <1>1, <1>5 DEF PreviewFixed
  <1> QED
    BY <1>4, <1>5 DEF PreviewFixed

\* What the slots of a graph without other modules than h says
LEMMA SlotNotLive ==
  ASSUME NEW h, Good(h), NEW s \in Slots, s \notin Live(h)
  PROVE  /\ \A p \in Pins : p[1] = s => h.src[p] = Unset
         /\ \A p \in Pins : h.src[p] # Unset => h.src[p][1] # s
  BY GoodIs, ReadIs

\* What a module that is added changes
LEMMA FreshIs ==
  ASSUME NEW h, Good(h), NEW s \in Slots, NEW m \in Keys,
         s = h.num \/ (s \in Used(h) /\ h.mod[s] = NoKey)
  PROVE  LET k == Fresh(h, s, m)
         IN  /\ k.src = h.src /\ s \notin Live(h) /\ Live(k) = Live(h) \cup {s}
             /\ k.mod = [h.mod EXCEPT ![s] = m] /\ k.par = [h.par EXCEPT ![s] = Default]
             /\ k.fb = h.fb \ PinsOf(s)
             /\ \A p \in Pins : Form(k, p) = IF p[1] = s THEN <<Class[m][p[2]].chan, Class[m][p[2]].fmt>>
                                                        ELSE Form(h, p)
  <1> DEFINE k == Fresh(h, s, m)
  <1>1. h \in Graph
    BY GoodIs
  <1>2. s \notin Live(h)
    BY <1>1, SlotsType DEF Live, Used, Graph
  <1>3. /\ k.num = IF s = h.num THEN s + 1 ELSE h.num
        /\ k.mod = [h.mod EXCEPT ![s] = m]
        /\ k.src = [p \in Pins |-> IF p[1] = s THEN Unset ELSE h.src[p]]
        /\ k.fb = h.fb \ PinsOf(s)
        /\ k.chan = [p \in Pins |-> IF p[1] = s THEN Class[m][p[2]].chan ELSE h.chan[p]]
        /\ k.fmt = [p \in Pins |-> IF p[1] = s THEN Class[m][p[2]].fmt ELSE h.fmt[p]]
        /\ k.par = [h.par EXCEPT ![s] = Default]
    BY <1>1 DEF Fresh, Graph
  <1> HIDE DEF k
  <1>4. k.src = h.src
    BY <1>1, <1>2, <1>3, SlotNotLive DEF Graph
  <1>5. Live(k) = Live(h) \cup {s}
    <2>1. \A t \in Slots : k.mod[t] = IF t = s THEN m ELSE h.mod[t]
      BY <1>1, <1>3 DEF Graph
    <2>2. h.num \in Nat /\ \A t \in Slots : t \in Nat
      BY <1>1, SlotsType, SizeType DEF Graph
    <2>3. m # NoKey
      BY GraphAssumption
    <2>4. k.num = IF s = h.num THEN s + 1 ELSE h.num
      BY <1>3
    <2>5. ASSUME NEW t \in Slots PROVE t \in Live(k) <=> t \in Live(h) \/ t = s
      BY <2>1, <2>2, <2>3, <2>4, <2>5 DEF Live, Used
    <2> QED
      BY <2>5 DEF Live, Used
  <1>6. \A p \in Pins : Form(k, p) = IF p[1] = s THEN <<Class[m][p[2]].chan, Class[m][p[2]].fmt>>
                                                ELSE Form(h, p)
    BY <1>3 DEF Form
  <1> QED
    BY <1>2, <1>3, <1>4, <1>5, <1>6 DEF k

\* A module that is added is not in the way of others.
LEMMA AddedNet ==
  ASSUME KnownClasses, NEW h, Good(h), NEW m \in Keys, Unique(Added(h, m))
  PROVE  LET k == Added(h, m)
         IN  /\ Net(k) = Net(h) /\ (PreviewFixed(h) => PreviewFixed(k)) /\ Good(k)
             /\ Grown(h, k) /\ Unique(h) /\ (Clean(h) => Clean(k))
             /\ \A x \in Keys : Value(k, x) = Value(h, x)
             /\ \A x \in Keys : Here(k, x) => Here(h, x) \/ x = m
             /\ Here(k, m) \/ k = h
  <1> DEFINE k == Added(h, m)
  <1>1. CASE Exists(h, m) \/ Full(h, m)
    <2>1. k = h
      BY <1>1 DEF Added
    <2> QED
      BY <2>1 DEF Grown
  <1>2. CASE ~(Exists(h, m) \/ Full(h, m))
    <2> DEFINE s == AddSlot(h, m)
    <2>1. /\ k = Fresh(h, s, m) /\ s \in Slots
          /\ s = h.num \/ (s \in Used(h) /\ h.mod[s] = NoKey)
      BY <1>2, AddedIs, GoodIs
    <2> HIDE DEF s
    <2>2. /\ k.src = h.src /\ s \notin Live(h) /\ Live(k) = Live(h) \cup {s}
          /\ k.mod = [h.mod EXCEPT ![s] = m] /\ k.par = [h.par EXCEPT ![s] = Default]
          /\ k.fb = h.fb \ PinsOf(s)
          /\ \A p \in Pins : Form(k, p) = IF p[1] = s THEN <<Class[m][p[2]].chan, Class[m][p[2]].fmt>>
                                                     ELSE Form(h, p)
      BY <2>1, FreshIs
    <2>3. Good(k) /\ h \in Graph /\ k \in Graph
      BY AddedGood, GoodIs
    <2>4. Unique(k)
      OBVIOUS
    <2> HIDE DEF k
    <2>5. \A t \in Slots : k.mod[t] = IF t = s THEN m ELSE h.mod[t]
      BY <2>1, <2>2, <2>3 DEF Graph
    <2>6. Live(h) \subseteq Slots /\ \A t \in Live(h) : t # s /\ k.mod[t] = h.mod[t]
      BY <2>2, <2>5 DEF Live, Used
    <2>7. Grown(h, k) /\ Unique(h)
      BY <2>2, <2>3, <2>4, <2>6, GrownNames DEF Grown
    <2>8. /\ \A x \in Keys : Here(h, x) => Here(k, x) /\ Get(k, x) = Get(h, x)
      BY <2>3, <2>4, <2>7, GrownNames
    <2>9. Get(k, m) = s /\ Here(k, m)
      <3>1. s \in Live(k) /\ k.mod[s] = m
        BY <2>1, <2>2, <2>5
      <3> QED
        BY <2>3, <2>4, <3>1, LiveNamed DEF Here
    <2>10. ~Here(h, m)
      BY <2>2, <2>3, <2>8, <2>9, HereIs
    <2>11. \A x \in Keys \ {m} : Here(k, x) <=> Here(h, x)
      <3> SUFFICES ASSUME NEW x \in Keys \ {m} PROVE Here(k, x) <=> Here(h, x)
        OBVIOUS
      <3>1. Here(k, x) <=> \E t \in Live(k) : k.mod[t] = x
        BY <2>3, HereLive
      <3>2. Here(h, x) <=> \E t \in Live(h) : h.mod[t] = x
        BY <2>3, HereLive
      <3> QED
        BY <2>1, <2>2, <2>5, <2>6, <3>1, <3>2
    <2>12. \A x \in Keys \ {m} : Get(k, x) = Get(h, x)
      BY <2>8, <2>11 DEF Here
    <2>13. ASSUME NEW p \in Inputs(h) \cup Outputs(h)
           PROVE  /\ Form(k, p) = Form(h, p) /\ k.mod[p[1]] = h.mod[p[1]] /\ (p \in k.fb <=> p \in h.fb)
                  /\ p \in Pins /\ p[1] # s /\ h.mod[p[1]] # m
      <3>1. p \in Pins /\ p[1] \in Live(h)
        BY DEF Inputs, Outputs
      <3>2. p[1] # s /\ h.mod[p[1]] # m
        BY <2>2, <2>3, <2>10, <3>1, HereLive
      <3> QED
        BY <2>2, <2>6, <3>1, <3>2 DEF PinsOf
    <2>14. \A p \in Pins : h.src[p] # Unset => h.mod[p[1]] # m /\ h.mod[h.src[p][1]] # m
      BY <2>13, GoodIs, ReadIs
    <2>15. ASSUME NEW p \in Pins, p[1] = s
           PROVE  k.src[p] = Unset /\ Readers(k, p) = {} /\ Form(k, p) = PinForm(k, p)
      <3>1. h.src[p] = Unset /\ \A r \in Pins : h.src[r] # p
        BY <2>1, <2>2, <2>15, SlotNotLive, UnsetIsNoPin
      <3>2. PinClass(k, p) = Class[m][p[2]]
        BY <2>1, <2>5, <2>15, GraphAssumption, ZenonT(20) DEF PinClass
      <3> QED
        BY <2>2, <2>15, <3>1, <3>2 DEF Readers, PinForm
    <2>16. ASSUME NEW q \in Names, q[1] = m
           PROVE  /\ NetForm(k, q) = NameForm(q) /\ NetForm(h, q) = NameForm(q)
                  /\ From(k, q) = Nowhere /\ From(h, q) = Nowhere
      <3>1. NetForm(h, q) = NameForm(q) /\ From(h, q) = Nowhere
        BY <2>10, <2>16 DEF NetForm, From
      <3>2. Here(k, q[1]) /\ PinOf(k, q)[1] = s
        BY <2>9, <2>16 DEF PinOf
      <3>3. PinOf(k, q) \in Pins /\ PinForm(k, PinOf(k, q)) = NameForm(q)
        BY <2>3, <3>2, PinNamed DEF PinForm, NameForm
      <3>4. From(k, q) = Nowhere
        BY <2>15, <3>2, <3>3 DEF From, Named
      <3>5. ~Borrowed(k, PinOf(k, q)) /\ Form(k, PinOf(k, q)) = NameForm(q)
        BY <2>15, <3>2, <3>3 DEF Borrowed
      <3> QED
        BY <3>1, <3>2, <3>4, <3>5 DEF NetForm
    <2>17. Net(k) = Net(h) /\ (PreviewFixed(h) => PreviewFixed(k))
      <3>1. \A p \in Pins : p \in Inputs(h) \cup Outputs(h) /\ h.mod[p[1]] # m =>
            Form(k, p) = Form(h, p) /\ k.mod[p[1]] = h.mod[p[1]] /\ (p \in k.fb <=> p \in h.fb)
        BY <2>13
      <3>2. \A q \in Names : q[1] = m => NetForm(k, q) = NameForm(q) /\ NetForm(h, q) = NameForm(q)
                                        /\ From(k, q) = Nowhere /\ From(h, q) = Nowhere
        BY <2>16
      <3>3. k.src = h.src
        BY <2>2
      <3> QED
        BY <2>3, <2>12, <2>14, <3>1, <3>2, <3>3, NetApart, Zenon
    <2>18. ASSUME Clean(h) PROVE Clean(k)
      <3>1. ASSUME NEW p \in Inputs(k) \cup Outputs(k), p[1] # s
            PROVE  /\ p \in Inputs(k) => p \in Inputs(h)
                   /\ p \in Outputs(k) => p \in Outputs(h)
                   /\ Form(k, p) = Form(h, p) /\ PinForm(k, p) = PinForm(h, p) /\ p \in Pins
        <4>1. p \in Pins /\ p[1] \in Live(h)
          BY <2>2, <3>1 DEF Inputs, Outputs
        <4>2. PinClass(k, p) = PinClass(h, p)
          BY <2>6, <4>1 DEF PinClass
        <4> QED
          BY <2>2, <3>1, <4>1, <4>2 DEF Inputs, Outputs, IsIn, IsOut, PinForm
      <3>2. \A p \in Inputs(k) \cup Outputs(k) : p \in Pins
        BY DEF Inputs, Outputs
      <3>3. \A p \in Pins : Readers(k, p) = Readers(h, p)
        BY <2>2 DEF Readers
      <3> QED
        BY <2>2, <2>15, <2>18, <3>1, <3>2, <3>3 DEF Clean
    <2>19. ASSUME NEW x \in Keys PROVE Value(k, x) = Value(h, x)
      <3>1. CASE x = m
        <4>1. k.par[s] = Default
          BY <2>1, <2>2, <2>3 DEF Graph
        <4> QED
          BY <2>9, <2>10, <3>1, <4>1 DEF Value
      <3>2. CASE x # m /\ Here(h, x)
        <4>1. Get(k, x) = Get(h, x) /\ Get(h, x) \in Slots /\ Get(h, x) # s
          BY <2>2, <2>3, <2>12, <3>2, HereIs
        <4>2. k.par[Get(h, x)] = h.par[Get(h, x)]
          BY <2>2, <2>3, <4>1 DEF Graph
        <4> QED
          BY <2>11, <3>2, <4>1, <4>2 DEF Value
      <3>3. CASE x # m /\ ~Here(h, x)
        BY <2>11, <3>3 DEF Value
      <3> QED
        BY <3>1, <3>2, <3>3
    <2>20. \A x \in Keys : Here(k, x) => Here(h, x) \/ x = m
      BY <2>11
    <2> HIDE DEF s
    <2> QED
      BY <2>3, <2>7, <2>9, <2>17, <2>18, <2>19, <2>20 DEF k
  <1> QED
    BY <1>1, <1>2

\* What is left when a module without connections is removed
LEMMA RemovedIs ==
  ASSUME NEW h, Good(h), NEW t \in Live(h),
         \A p \in Pins : h.src[p] # Unset => p[1] # t /\ h.src[p][1] # t
  PROVE  LET k == Removed(h, {t})
         IN  /\ Good(k) /\ k.src = h.src /\ Live(k) = Live(h) \ {t}
             /\ k.fb = {p \in h.fb : p[1] # t}
             /\ \A s \in Slots \ {t} : k.mod[s] = h.mod[s] /\ k.par[s] = h.par[s]
             /\ \A p \in Pins : p[1] # t => Form(k, p) = Form(h, p)
  <1> DEFINE P == {t} \X Conns
             u == Unlink(h, P)
             k == Removed(h, {t})
  <1>1. h \in Graph /\ t \in Slots /\ P \in SUBSET Pins /\ \A p \in P : p[1] = t
    BY GoodIs DEF Live, Used, Pins
  <1> HIDE DEF P
  <1>2. \A p \in P : ~Linked(h, p)
    BY <1>1 DEF Linked
  <1>3. \A o \in Pins : Lost(h, P, o) = {}
    BY <1>2 DEF Lost
  <1>4. /\ u \in Graph
        /\ u.num = h.num /\ u.mod = h.mod /\ u.par = h.par /\ u.fb = h.fb
        /\ \A p \in Pins :
             /\ u.src[p] = IF p \in P /\ Linked(h, p) THEN Unset ELSE h.src[p]
             /\ u.ref[p] = IF Cardinality(Lost(h, P, p)) <= h.ref[p]
                           THEN h.ref[p] - Cardinality(Lost(h, P, p)) ELSE 0
             /\ IF (p \in P /\ Linked(h, p)) \/ (h.ref[p] > 0 /\ u.ref[p] = 0)
                THEN u.chan[p] = PinClass(h, p).chan /\ u.fmt[p] = PinClass(h, p).fmt
                ELSE u.chan[p] = h.chan[p] /\ u.fmt[p] = h.fmt[p]
    BY <1>1, UnlinkFields
  <1> HIDE DEF u
  <1>5. ASSUME NEW p \in Pins
        PROVE  u.src[p] = h.src[p] /\ u.chan[p] = h.chan[p] /\ u.fmt[p] = h.fmt[p]
    <2>1. Cardinality(Lost(h, P, p)) = 0 /\ h.ref[p] \in Nat
      BY <1>1, <1>3, FS_EmptySet DEF Graph
    <2>2. u.ref[p] = h.ref[p]
      BY <1>4, <2>1
    <2> QED
      BY <1>2, <1>4, <2>1, <2>2
  <1>6. u.src = h.src
    BY <1>1, <1>4, <1>5 DEF Graph
  <1>7. k = Cleared(u, {t})
    BY DEF Removed, P, u
  <1>8. /\ k.num = h.num /\ k.src = h.src
        /\ k.mod = [s \in Slots |-> IF s \in {t} THEN NoKey ELSE u.mod[s]]
        /\ k.par = [s \in Slots |-> IF s \in {t} THEN Default ELSE u.par[s]]
        /\ k.fb = {p \in h.fb : p[1] \notin {t}}
        /\ k.chan = [p \in Pins |-> IF p[1] \in {t} THEN "" ELSE u.chan[p]]
        /\ k.fmt = [p \in Pins |-> IF p[1] \in {t} THEN "" ELSE u.fmt[p]]
    BY <1>4, <1>6, <1>7, ZenonT(20) DEF Cleared, Graph
  <1>9. Good(k)
    <2>1. {t} \in SUBSET Slots
      BY <1>1
    <2>2. \A p \in Pins : h.src[p] # Unset => h.src[p][1] \notin {t}
      OBVIOUS
    <2> QED
      BY <2>1, <2>2, RemovedGood
  <1> HIDE DEF k
  <1>10. ASSUME NEW s \in Slots \ {t} PROVE k.mod[s] = h.mod[s] /\ k.par[s] = h.par[s]
    <2>1. s \notin {t} /\ s \in Slots
      OBVIOUS
    <2>2. k.mod[s] = u.mod[s]
      <3>1. k.mod = [x \in Slots |-> IF x \in {t} THEN NoKey ELSE u.mod[x]]
        BY <1>8
      <3> QED
        BY <2>1, <3>1
    <2>3. k.par[s] = u.par[s]
      <3>1. k.par = [x \in Slots |-> IF x \in {t} THEN Default ELSE u.par[x]]
        BY <1>8
      <3> QED
        BY <2>1, <3>1
    <2>4. u.mod = h.mod /\ u.par = h.par
      BY <1>4
    <2> QED
      BY <2>2, <2>3, <2>4
  <1>11. \A p \in Pins : p[1] # t => Form(k, p) = Form(h, p)
    BY <1>5, <1>8, ZenonT(40) DEF Form
  <1>12. Live(k) = Live(h) \ {t}
    <2>1. k.mod[t] = NoKey
      BY <1>1, <1>8
    <2> QED
      BY <1>8, <1>10, <2>1 DEF Live, Used
  <1> QED
    BY <1>8, <1>9, <1>10, <1>11, <1>12 DEF k

LEMMA RemovedNet ==
  ASSUME NEW h, Good(h), Unique(h), Clean(h), NEW t \in Live(h),
         \A p \in Pins : h.src[p] # Unset => p[1] # t /\ h.src[p][1] # t
  PROVE  LET k == Removed(h, {t})
         IN  /\ Net(k) = Net(h) /\ (PreviewFixed(h) => PreviewFixed(k)) /\ Good(k)
             /\ Unique(k) /\ Clean(k)
             /\ \A x \in Keys : Here(k, x) <=> Here(h, x) /\ x # h.mod[t]
             /\ \A x \in Keys \ {h.mod[t]} : Value(k, x) = Value(h, x)
  <1> DEFINE k == Removed(h, {t})
             m == h.mod[t]
  <1>1. /\ Good(k) /\ k.src = h.src /\ Live(k) = Live(h) \ {t}
        /\ k.fb = {p \in h.fb : p[1] # t}
        /\ \A s \in Slots \ {t} : k.mod[s] = h.mod[s] /\ k.par[s] = h.par[s]
        /\ \A p \in Pins : p[1] # t => Form(k, p) = Form(h, p)
    BY RemovedIs
  <1> HIDE DEF k
  <1>2. h \in Graph /\ k \in Graph /\ m \in Keys /\ Live(h) \subseteq Slots
    BY <1>1, GoodIs, LiveNamed DEF Live, Used
  <1>3. \A s \in Live(h) : h.mod[s] = m => s = t
    BY DEF Unique
  <1>4. Grown(k, h)
    BY <1>1, <1>2 DEF Grown
  <1>5. Unique(k) /\ \A x \in Keys : Here(k, x) => Here(h, x) /\ Get(h, x) = Get(k, x)
    BY <1>2, <1>4, GrownNames
  <1>6. ASSUME NEW x \in Keys PROVE Here(k, x) <=> Here(h, x) /\ x # m
    <2>1. Here(k, x) <=> \E s \in Live(k) : k.mod[s] = x
      BY <1>2, HereLive
    <2>2. Here(h, x) <=> \E s \in Live(h) : h.mod[s] = x
      BY <1>2, HereLive
    <2> QED
      BY <1>1, <1>2, <1>3, <2>1, <2>2
  <1>7. \A x \in Keys \ {m} : Get(k, x) = Get(h, x)
    BY <1>5, <1>6 DEF Here
  <1>8. ASSUME NEW p \in Inputs(h) \cup Outputs(h), h.mod[p[1]] # m
        PROVE  Form(k, p) = Form(h, p) /\ k.mod[p[1]] = h.mod[p[1]] /\ (p \in k.fb <=> p \in h.fb)
    <2>1. p \in Pins /\ p[1] \in Slots /\ p[1] # t
      BY <1>2, <1>8 DEF Inputs, Outputs
    <2> QED
      BY <1>1, <2>1
  <1>9. ASSUME NEW p \in Pins, h.src[p] # Unset
        PROVE  h.mod[p[1]] # m /\ h.mod[h.src[p][1]] # m
    <2>1. p[1] \in Live(h) /\ h.src[p][1] \in Live(h)
      BY <1>9, GoodIs, ReadIs
    <2> QED
      BY <1>3, <1>9, <2>1
  <1>10. ASSUME NEW q \in Names, q[1] = m
         PROVE  /\ NetForm(k, q) = NameForm(q) /\ NetForm(h, q) = NameForm(q)
                /\ From(k, q) = Nowhere /\ From(h, q) = Nowhere
    <2>1. NetForm(k, q) = NameForm(q) /\ From(k, q) = Nowhere
      BY <1>2, <1>6, <1>10 DEF NetForm, From
    <2>2. Here(h, q[1]) /\ Get(h, q[1]) = t
      BY <1>2, <1>10, LiveNamed DEF Here
    <2> DEFINE p == PinOf(h, q)
    <2>3. p \in Pins /\ p[1] = t /\ PinForm(h, p) = NameForm(q) /\ PinClass(h, p) = Class[q[1]][q[2]]
      BY <1>2, <2>2, PinNamed DEF PinForm, NameForm, PinOf
    <2>4. From(h, q) = Nowhere
      BY <2>2, <2>3 DEF From, Named
    <2> HIDE DEF p
    <2>5. p \in Inputs(h) \cup Outputs(h)
      <3>1. Class[q[1]][q[2]].io \in {"in", "out"}
        BY <1>2, <2>3, ClassType DEF Names
      <3> QED
        BY <2>3, <3>1 DEF Inputs, Outputs, IsIn, IsOut
    <2>6. h.src[p] = Unset /\ Readers(h, p) = {}
      BY <2>3, UnsetIsNoPin DEF Readers
    <2>7. ~Borrowed(h, p) /\ Form(h, p) = NameForm(q)
      BY <2>3, <2>5, <2>6 DEF Borrowed, Clean
    <2> QED
      BY <2>1, <2>2, <2>4, <2>7 DEF NetForm, p
  <1>11. Net(k) = Net(h) /\ (PreviewFixed(h) => PreviewFixed(k))
    <2>1. \A p \in Pins : p \in Inputs(h) \cup Outputs(h) /\ h.mod[p[1]] # m =>
            Form(k, p) = Form(h, p) /\ k.mod[p[1]] = h.mod[p[1]] /\ (p \in k.fb <=> p \in h.fb)
      BY <1>8
    <2> HIDE DEF m
    <2> QED
      BY <1>1, <1>2, <1>7, <1>9, <1>10, <2>1, NetApart
  <1>12. Clean(k)
    <2>1. ASSUME NEW p \in Inputs(k) \cup Outputs(k)
          PROVE  /\ p \in Inputs(k) => p \in Inputs(h)
                 /\ p \in Outputs(k) => p \in Outputs(h)
                 /\ Form(k, p) = Form(h, p) /\ PinForm(k, p) = PinForm(h, p) /\ p \in Pins
      <3>1. p \in Pins /\ p[1] \in Live(h) /\ p[1] # t /\ p[1] \in Slots
        BY <1>1, <1>2 DEF Inputs, Outputs
      <3>2. PinClass(k, p) = PinClass(h, p)
        BY <1>1, <3>1 DEF PinClass
      <3> QED
        BY <1>1, <3>1, <3>2 DEF Inputs, Outputs, IsIn, IsOut, PinForm
    <2>2. \A p \in Pins : Readers(k, p) = Readers(h, p)
      BY <1>1 DEF Readers
    <2> QED
      BY <1>1, <2>1, <2>2 DEF Clean
  <1>13. ASSUME NEW x \in Keys \ {m} PROVE Value(k, x) = Value(h, x)
    <2>1. CASE Here(h, x)
      <3>1. Here(k, x) /\ Get(k, x) = Get(h, x) /\ Get(h, x) \in Slots /\ h.mod[Get(h, x)] = x
        BY <1>2, <1>6, <1>7, <2>1, HereIs
      <3>2. Get(h, x) # t
        BY <3>1
      <3> QED
        BY <1>1, <2>1, <3>1, <3>2 DEF Value
    <2>2. CASE ~Here(h, x)
      BY <1>6, <2>2 DEF Value
    <2> QED
      BY <2>1, <2>2
  <1> QED
    BY <1>1, <1>5, <1>6, <1>11, <1>12, <1>13 DEF k

-----------------------------------------------------------------------------
(* Reading the lines of a history *)

\* Nothing is connected.
OpenNet ==
  [from |-> [q \in Names |-> Nowhere], back |-> {}, form |-> [q \in Names |-> NameForm(q)]]
Bare(h) ==
  /\ \A p \in Pins : h.src[p] = Unset
  /\ \A p \in Inputs(h) \cup Outputs(h) : Form(h, p) = PinForm(h, p)
  /\ \A s \in Live(h) : h.par[s] = Default

LEMMA BareIs ==
  ASSUME NEW h \in Graph, Bare(h)
  PROVE  /\ Net(h) = OpenNet /\ PreviewFixed(h) /\ Clean(h)
         /\ \A x \in Keys : Value(h, x) = Default
  <1>1. ASSUME NEW q \in Names
        PROVE  From(h, q) = Nowhere /\ NetForm(h, q) = NameForm(q)
    <2>1. CASE ~Here(h, q[1])
      BY <2>1 DEF From, NetForm
    <2>2. CASE Here(h, q[1])
      <3> DEFINE p == PinOf(h, q)
      <3>1. /\ p \in Pins /\ p[1] \in Live(h) /\ PinClass(h, p) = Class[q[1]][q[2]]
        BY <2>2, PinNamed
      <3>2. From(h, q) = Nowhere
        BY <2>2, <3>1 DEF From, Named, Bare
      <3> HIDE DEF p
      <3>3. Class[q[1]][q[2]].io \in {"in", "out"}
        BY <3>1, ClassType DEF Names
      <3>4. p \in Inputs(h) \cup Outputs(h)
        BY <3>1, <3>3 DEF Inputs, Outputs, IsIn, IsOut
      <3>5. Form(h, p) = NameForm(q)
        BY <3>1, <3>4 DEF Bare, PinForm, NameForm
      <3>6. Readers(h, p) = {}
        BY <3>1, UnsetIsNoPin DEF Readers, Bare
      <3> QED
        BY <2>2, <3>2, <3>5, <3>6 DEF NetForm, p
    <2> QED
      BY <2>1, <2>2
  <1>2. NetIs(h, OpenNet.from, OpenNet.back, OpenNet.form)
    BY <1>1 DEF NetIs, OpenNet
  <1>3. Net(h) = OpenNet
    BY <1>2, NetMade DEF OpenNet
  <1>4. PreviewFixed(h) /\ Clean(h)
    BY DEF PreviewFixed, Clean, Bare
  <1>5. ASSUME NEW x \in Keys PROVE Value(h, x) = Default
    BY HereIs DEF Value, Bare
  <1> QED
    BY <1>3, <1>4, <1>5

\* What the lines are read into when the user goes back
LEMMA BlankBare ==
  ASSUME NEW h, Good(h), Clean(h)
  PROVE  Good(Blank(h)) /\ Bare(Blank(h)) /\ SameMods(h, Blank(h))
  <1> DEFINE u == Unlink(h, Pins)
             v == [s \in Slots |-> IF s \in Live(h) THEN Default ELSE h.par[s]]
             k == Blank(h)
  <1>1. h \in Graph /\ Pins \in SUBSET Pins /\ NoDangling(h) /\ RefExact(h) /\ Fair(h)
    BY GoodIs
  <1>2. /\ u \in Graph /\ u.num = h.num /\ u.mod = h.mod
        /\ \A p \in Pins :
             /\ u.src[p] = IF p \in Pins /\ Linked(h, p) THEN Unset ELSE h.src[p]
             /\ u.ref[p] = IF Cardinality(Lost(h, Pins, p)) <= h.ref[p]
                           THEN h.ref[p] - Cardinality(Lost(h, Pins, p)) ELSE 0
             /\ IF (p \in Pins /\ Linked(h, p)) \/ (h.ref[p] > 0 /\ u.ref[p] = 0)
                THEN u.chan[p] = PinClass(h, p).chan /\ u.fmt[p] = PinClass(h, p).fmt
                ELSE u.chan[p] = h.chan[p] /\ u.fmt[p] = h.fmt[p]
    BY <1>1, UnlinkFields
  <1> HIDE DEF u
  <1>3. k = [u EXCEPT !.par = v]
    BY DEF Blank, u
  <1>4. k.num = h.num /\ k.mod = h.mod /\ k.src = u.src /\ k.chan = u.chan /\ k.fmt = u.fmt /\ k.par = v
    BY <1>2, <1>3 DEF Graph
  <1> HIDE DEF k
  <1>5. SameMods(h, k) /\ Live(k) = Live(h) /\ Inputs(k) = Inputs(h) /\ Outputs(k) = Outputs(h)
    BY <1>4, SamePins DEF SameMods
  <1>6. ASSUME NEW p \in Pins PROVE u.src[p] = Unset /\ (h.src[p] # Unset <=> Linked(h, p))
    BY <1>1, <1>2, AllLinked DEF Linked
  <1>7. ASSUME NEW p \in Inputs(h) \cup Outputs(h)
        PROVE  Form(k, p) = PinForm(k, p)
    <2>1. p \in Pins /\ PinForm(k, p) = PinForm(h, p) /\ h.ref[p] \in Nat
      BY <1>1, <1>5, SameNames DEF Inputs, Outputs, Graph
    <2>2. CASE h.src[p] # Unset
      BY <1>2, <1>4, <1>6, <2>1, <2>2 DEF Form, PinForm
    <2>3. CASE h.src[p] = Unset /\ p \in Inputs(h)
      BY <1>2, <1>4, <1>6, <2>1, <2>3 DEF Form, PinForm, Clean
    <2>4. CASE h.src[p] = Unset /\ p \in Outputs(h)
      <3>1. h.ref[p] = Cardinality(Readers(h, p))
        BY <1>1, <2>4 DEF RefExact
      <3>2. Lost(h, Pins, p) = Readers(h, p)
        BY <1>6, <2>1, UnsetIsNoPin DEF Lost, Readers
      <3>3. u.ref[p] = 0
        <4>1. u.ref[p] = IF Cardinality(Lost(h, Pins, p)) <= h.ref[p]
                           THEN h.ref[p] - Cardinality(Lost(h, Pins, p)) ELSE 0
          BY <1>2, <2>1
        <4> QED
          BY <2>1, <3>1, <3>2, <4>1
      <3>4. CASE h.ref[p] > 0
        BY <1>2, <1>4, <2>1, <3>3, <3>4 DEF Form, PinForm
      <3>5. CASE ~(h.ref[p] > 0)
        <4>1. Cardinality(Readers(h, p)) = 0
          BY <2>1, <3>1, <3>5
        <4>2. Readers(h, p) = {}
          BY <1>1, <4>1, ReadersFinite, FS_EmptySet
        <4>3. Form(h, p) = PinForm(h, p)
          BY <2>4, <4>2 DEF Clean
        <4> QED
          BY <1>2, <1>4, <1>6, <2>1, <2>4, <3>5, <4>3 DEF Form, PinForm
      <3> QED
        BY <3>4, <3>5
    <2> QED
      BY <2>2, <2>3, <2>4
  <1>8. ASSUME NEW s \in Live(k) PROVE k.par[s] = Default
    <2>1. s \in Slots /\ s \in Live(h)
      BY <1>5 DEF Live, Used
    <2> QED
      BY <1>4, <2>1
  <1>9. Good(k)
    BY BlankGood DEF k
  <1> QED
    BY <1>4, <1>5, <1>6, <1>7, <1>8, <1>9 DEF Bare, k

LEMMA EmptyBare == Bare(Empty) /\ Good(Empty)
  <1>1. Live(Empty) = {}
    BY DEF Live, Used, Empty, Slots
  <1> QED
    BY <1>1, EmptyGood DEF Bare, Empty, Inputs, Outputs

\* Without a free slot no module is added any more.
AllTaken(h) == h.num = NumSlots /\ \A s \in Slots : h.mod[s] # NoKey

LEMMA TakenStays ==
  ASSUME NEW h \in Graph, NEW k \in Graph, Grown(h, k), AllTaken(h), NEW x \in Keys, Here(k, x)
  PROVE  Here(h, x)
  <1>1. PICK s \in Live(k) : k.mod[s] = x
    BY HereLive
  <1>2. s \in Live(h)
    BY <1>1, SizeType DEF AllTaken, Live, Used, Slots
  <1> QED
    BY <1>1, <1>2, HereLive DEF Grown

LEMMA AddedTaken ==
  ASSUME KnownClasses, NEW h, Good(h), NEW m \in Keys
  PROVE  /\ Grown(h, Added(h, m))
         /\ Here(Added(h, m), m) \/ AllTaken(Added(h, m))
  <1> DEFINE k == Added(h, m)
             s == AddSlot(h, m)
             hits == {x \in Used(h) : h.mod[x] \in {m, NoKey}}
  <1>0. h \in Graph /\ Sound(h) /\ Good(k) /\ k \in Graph
    BY AddedGood, GoodIs
  <1>1. CASE Exists(h, m)
    <2>1. k = h
      BY <1>1 DEF Added
    <2>2. s \in Used(h) /\ h.mod[s] = m
      <3>1. s = h.num \/ s \in Used(h)
        BY <1>0, AddSlotIs
      <3> QED
        BY <1>0, <1>1, <3>1 DEF Exists, Graph
    <2>3. s \in Live(h)
      BY <2>2, GraphAssumption DEF Live
    <2> QED
      BY <1>0, <2>1, <2>2, <2>3, HereLive DEF Grown
  <1>2. CASE ~Exists(h, m) /\ Full(h, m)
    <2>1. k = h
      BY <1>2 DEF Added
    <2>2. s = NumSlots
      BY <1>2 DEF Full
    <2>3. h.num \in 0 .. NumSlots /\ NumSlots \notin Used(h)
      BY <1>0, SizeType DEF Graph, Used, Slots
    <2>4. hits = {}
      <3> SUFFICES ASSUME hits # {} PROVE FALSE
        OBVIOUS
      <3>1. hits \in SUBSET Slots
        BY DEF Used
      <3>2. PICK n \in hits : \A t \in hits : n <= t
        BY <3>1, LeastOf
      <3>3. Least(hits) \in hits
        BY <3>2 DEF Least
      <3>4. s = Least(hits)
        BY DEF AddSlot
      <3> QED
        BY <2>2, <2>3, <3>3, <3>4
    <2>5. s = h.num
      BY <2>4 DEF AddSlot
    <2>6. AllTaken(h)
      BY <2>2, <2>4, <2>5, SizeType DEF AllTaken, Used, Slots
    <2> QED
      BY <2>1, <2>6 DEF Grown
  <1>3. CASE ~Exists(h, m) /\ ~Full(h, m)
    <2>1. /\ k = Fresh(h, s, m) /\ s \in Slots
          /\ s = h.num \/ (s \in Used(h) /\ h.mod[s] = NoKey)
      BY <1>0, <1>3, AddedIs
    <2> HIDE DEF s
    <2>2. /\ s \notin Live(h) /\ Live(k) = Live(h) \cup {s}
          /\ k.mod = [h.mod EXCEPT ![s] = m]
      <3>1. /\ k.src = h.src /\ s \notin Live(h) /\ Live(k) = Live(h) \cup {s}
            /\ k.mod = [h.mod EXCEPT ![s] = m] /\ k.par = [h.par EXCEPT ![s] = Default]
            /\ k.fb = h.fb \ PinsOf(s)
            /\ \A p \in Pins : Form(k, p) = IF p[1] = s THEN <<Class[m][p[2]].chan, Class[m][p[2]].fmt>>
                                                       ELSE Form(h, p)
        BY <2>1, FreshIs
      <3> QED
        BY <3>1
    <2> HIDE DEF k
    <2>3. \A t \in Slots : k.mod[t] = IF t = s THEN m ELSE h.mod[t]
      BY <1>0, <2>1, <2>2 DEF Graph
    <2>4. Grown(h, k)
      BY <2>2, <2>3 DEF Grown, Live, Used
    <2>5. Here(k, m)
      BY <1>0, <2>1, <2>2, <2>3, HereLive
    <2> QED
      BY <2>4, <2>5 DEF k
  <1> QED
    BY <1>1, <1>2, <1>3

\* A line about a connection, as it is read
LEMMA ConnectionRead ==
  ASSUME NEW h, Good(h), NEW l \in Lines, l.cmd \in {"connect", "feedback"}, Get(h, l.mod) # -1,
         l.from # Nowhere => Get(h, l.from[1]) # -1
  PROVE  LET o == IF l.from = Nowhere THEN Unset ELSE <<Get(h, l.from[1]), l.from[2]>>
             i == <<Get(h, l.mod), l.conn>>
         IN  /\ o \in Outputs(h) \cup {Unset} /\ i \in Inputs(h)
             /\ ReadLine(h, l) = IF l.cmd = "feedback" THEN Feedback(h, o, i) ELSE Connect(h, o, i)
             /\ h.mod[i[1]] = l.mod /\ Named(h, i) = <<l.mod, l.conn>>
             /\ Named(h, o) = l.from
  <1>0. h \in Graph
    BY GoodIs
  <1>1. /\ l.mod \in Keys /\ l.conn \in Conns
        /\ l.from # Nowhere => l.from \in Keys \X Conns
        /\ Class[l.mod][l.conn].io = "in"
        /\ l.from # Nowhere => Class[l.from[1]][l.from[2]].io = "out"
    BY DEF Lines
  <1> DEFINE o == IF l.from = Nowhere THEN Unset ELSE <<Get(h, l.from[1]), l.from[2]>>
             i == <<Get(h, l.mod), l.conn>>
  <1>2. i \in Inputs(h) /\ o \in Outputs(h) \cup {Unset}
    BY <1>0, <1>1, NamedPin
  <1>3. ReadLine(h, l) = IF l.cmd = "feedback" THEN Feedback(h, o, i) ELSE Connect(h, o, i)
    BY DEF ReadLine, ReadConnection
  <1>4. h.mod[Get(h, l.mod)] = l.mod /\ (l.from # Nowhere => h.mod[Get(h, l.from[1])] = l.from[1])
    BY GetIs
  <1>5. h.mod[i[1]] = l.mod /\ Named(h, i) = <<l.mod, l.conn>>
    <2>1. i # Unset
      BY <1>2, UnsetIsNoPin DEF Inputs
    <2> QED
      BY <1>4, <2>1 DEF Named
  <1>6. Named(h, o) = l.from
    <2>1. CASE l.from = Nowhere
      BY <2>1 DEF Named
    <2>2. CASE l.from # Nowhere
      <3>1. o # Unset /\ o = <<Get(h, l.from[1]), l.from[2]>>
        BY <2>2 DEF Unset
      <3> QED
        BY <1>1, <1>4, <2>2, <3>1 DEF Named
    <2> QED
      BY <2>1, <2>2
  <1> QED
    BY <1>2, <1>3, <1>5, <1>6

\* Lines only add modules.
LEMMA ReadGrown ==
  ASSUME KnownClasses, Numbers, NEW h, Good(h), NEW l \in Lines
  PROVE  /\ Grown(h, ReadLine(h, l)) /\ Good(ReadLine(h, l))
         /\ l.cmd # "module" => SameMods(h, ReadLine(h, l))
  <1> DEFINE k == ReadLine(h, l)
  <1>1. /\ l.cmd \in {"module", "param", "paraminc", "connect", "feedback"}
        /\ l.mod \in Keys
    BY DEF Lines
  <1>2. Good(k)
    BY ReadLineGood
  <1>3. CASE l.cmd = "module"
    <2>1. k = Added(h, l.mod)
      BY <1>3 DEF ReadLine
    <2> QED
      BY <1>1, <1>2, <1>3, <2>1, AddedTaken
  <1>4. CASE l.cmd \in {"param", "paraminc"}
    <2>1. SameMods(h, k)
      BY <1>4, GoodIs DEF ReadLine, ReadParam, SameMods, Graph
    <2> QED
      BY <1>2, <2>1, GrownSame
  <1>5. CASE l.cmd \in {"connect", "feedback"}
    <2>1. CASE Get(h, l.mod) # -1 /\ (l.from # Nowhere => Get(h, l.from[1]) # -1)
      <3> DEFINE o == IF l.from = Nowhere THEN Unset ELSE <<Get(h, l.from[1]), l.from[2]>>
                 i == <<Get(h, l.mod), l.conn>>
      <3>1. /\ o \in Outputs(h) \cup {Unset} /\ i \in Inputs(h)
            /\ ReadLine(h, l) = IF l.cmd = "feedback" THEN Feedback(h, o, i) ELSE Connect(h, o, i)
        BY <1>5, <2>1, ConnectionRead
      <3> HIDE DEF o, i
      <3>2. SameMods(h, Connect(h, o, i))
        BY <3>1, ConnectKeeps
      <3>3. SameMods(h, Feedback(h, o, i))
        <4>1. Rewired(h, o, i, ConnectInternal(h, o, i))
          BY <3>1, GoodIs, ConnectInternalLinking
        <4> QED
          BY <4>1 DEF Rewired, SameMods, Feedback, Linking, Graph
      <3>4. SameMods(h, k)
        BY <3>1, <3>2, <3>3
      <3> QED
        BY <1>2, <3>4, GrownSame
    <2>2. CASE ~(Get(h, l.mod) # -1 /\ (l.from # Nowhere => Get(h, l.from[1]) # -1))
      <3>1. k = h
        BY <1>5, <2>2 DEF ReadLine, ReadConnection
      <3> QED
        BY <1>2, <3>1 DEF Grown, SameMods
    <2> QED
      BY <2>1, <2>2
  <1> QED
    BY <1>1, <1>3, <1>4, <1>5

\* What a line does to the value of module k
ValStep(v, k, l) ==
  IF l.mod # k \/ k \notin WithParam \/ l.cmd \notin {"param", "paraminc"} THEN v
  ELSE IF l.cmd = "param" THEN l.val ELSE v + l.val

LEMMA SameValues ==
  ASSUME NEW h, NEW k, SameMods(h, k), k.par = h.par
  PROVE  \A x : Value(k, x) = Value(h, x)
  BY SameNames, SamePins DEF Value

\* A line about modules that are there does to the graph what it does to its net.
LEMMA ConnectionStep ==
  ASSUME NEW h, Good(h), Unique(h), PreviewFixed(h), NEW l \in Lines,
         l.cmd \in {"connect", "feedback"},
         \A x \in Others : x \in {l.mod, l.from[1]} => Here(h, x),
         ~(l.mod = Preview /\ l.from # Nowhere /\ Loose(l.from))
  PROVE  LET k == ReadLine(h, l)
         IN  /\ Net(k) = NetRead(Net(h), l) /\ PreviewFixed(k)
             /\ \A x \in Others : Value(k, x) = Value(h, x)
  <1> DEFINE k == ReadLine(h, l)
             o == IF l.from = Nowhere THEN Unset ELSE <<Get(h, l.from[1]), l.from[2]>>
             i == <<Get(h, l.mod), l.conn>>
  <1>1. /\ l.mod \in Keys /\ l.conn \in Conns
        /\ l.from # Nowhere => l.from \in Keys \X Conns
        /\ l.from # Nowhere => Class[l.from[1]][l.from[2]].io = "out"
    BY DEF Lines
  <1>2. l.from # Nowhere => l.from[1] \in Others
    BY <1>1, PreviewType DEF Others
  <1>3. l.from # Nowhere => Get(h, l.from[1]) # -1
    BY <1>2 DEF Here
  <1>4. CASE Get(h, l.mod) = -1
    <2>1. k = h
      BY <1>4 DEF ReadLine, ReadConnection
    <2>2. l.mod = Preview
      BY <1>1, <1>4 DEF Others, Here
    <2> QED
      BY <2>1, <2>2 DEF NetRead
  <1>5. CASE Get(h, l.mod) # -1
    <2>1. /\ o \in Outputs(h) \cup {Unset} /\ i \in Inputs(h)
          /\ k = IF l.cmd = "feedback" THEN Feedback(h, o, i) ELSE Connect(h, o, i)
          /\ h.mod[i[1]] = l.mod /\ Named(h, i) = <<l.mod, l.conn>>
          /\ Named(h, o) = l.from
      BY <1>3, <1>5, ConnectionRead
    <2> HIDE DEF o, i, k
    <2>2. SameMods(h, k) /\ k.par = h.par /\ Net(k) = NetRead(Net(h), l) /\ PreviewFixed(k)
      <3>1. Connect(h, o, i).par = h.par /\ Feedback(h, o, i).par = h.par
        BY <2>1, GoodIs, ConnectKept, FeedbackKept
      <3>2. CASE l.mod = Preview
        <4>1. o = Unset \/ ~Loose(Named(h, o))
          <5>1. CASE l.from = Nowhere
            <6>1. Named(h, o) = Nowhere
              BY <2>1, <5>1
            <6>2. o = Unset \/ Named(h, o) \in Keys \X Conns
              BY <2>1, GoodIs, NamedType
            <6> QED
              BY <6>1, <6>2, NowhereType
          <5>2. CASE l.from # Nowhere
            BY <2>1, <3>2, <5>2
          <5> QED
            BY <5>1, <5>2
        <4>2. k \in {Connect(h, o, i), Feedback(h, o, i)}
          BY <2>1
        <4>3. Net(k) = Net(h) /\ (PreviewFixed(h) => PreviewFixed(k)) /\ SameMods(h, k)
          BY <2>1, <3>2, <4>1, <4>2, PreviewConnects
        <4> QED
          BY <2>1, <3>1, <3>2, <4>3 DEF NetRead
      <3>3. CASE l.mod # Preview /\ l.cmd = "feedback"
        <4>1. h.mod[i[1]] # Preview
          BY <2>1, <3>3
        <4>2. /\ Net(Feedback(h, o, i)) = NetFeedback(Net(h), Named(h, o), Named(h, i))
              /\ PreviewFixed(Feedback(h, o, i)) /\ SameMods(h, Feedback(h, o, i))
          BY <2>1, <4>1, NetFeedbacks
        <4> QED
          BY <2>1, <3>1, <3>3, <4>2 DEF NetRead
      <3>4. CASE l.mod # Preview /\ l.cmd = "connect"
        <4>1. h.mod[i[1]] # Preview
          BY <2>1, <3>4
        <4>2. /\ Net(Connect(h, o, i)) = NetConnect(Net(h), Named(h, o), Named(h, i))
              /\ PreviewFixed(Connect(h, o, i)) /\ SameMods(h, Connect(h, o, i))
          BY <2>1, <4>1, NetConnects
        <4> QED
          BY <2>1, <3>1, <3>4, <4>2 DEF NetRead
      <3> QED
        BY <3>2, <3>3, <3>4
    <2>3. \A x \in Others : Value(k, x) = Value(h, x)
      BY <2>2, SameValues
    <2> QED
      BY <2>2, <2>3 DEF k
  <1> QED
    BY <1>4, <1>5

LEMMA ParamStep ==
  ASSUME Numbers, NEW h, Good(h), NEW l \in Lines,
         l.cmd \in {"param", "paraminc"},
         \A x \in Others : x = l.mod => Here(h, x)
  PROVE  LET k == ReadLine(h, l)
         IN  /\ Net(k) = Net(h) /\ (PreviewFixed(h) => PreviewFixed(k))
             /\ SameMods(h, k) /\ (Clean(h) => Clean(k))
             /\ \A x \in Others : Value(k, x) = ValStep(Value(h, x), x, l)
  <1> DEFINE k == ReadLine(h, l)
             s == Get(h, l.mod)
             v == (IF l.cmd = "paraminc" THEN h.par[s] ELSE 0) + l.val
  <1>0. h \in Graph /\ l.mod \in Keys /\ l.val \in Int /\ h.par \in [Slots -> Int]
    BY GoodIs DEF Graph, Lines, Numbers
  <1>1. CASE s = -1 \/ l.mod \notin WithParam
    <2>1. k = h
      BY <1>1 DEF ReadLine, ReadParam
    <2>2. ASSUME NEW x \in Others PROVE Value(k, x) = ValStep(Value(h, x), x, l)
      BY <1>1, <2>1 DEF ValStep, Here
    <2> QED
      BY <2>1, <2>2 DEF SameMods
  <1>2. CASE s # -1 /\ l.mod \in WithParam
    <2>1. k = [h EXCEPT !.par = [h.par EXCEPT ![s] = v]]
      BY <1>2 DEF ReadLine, ReadParam
    <2>2. s \in Slots /\ h.mod[s] = l.mod
      BY <1>2, GetIs
    <2> HIDE DEF k, s
    <2>3. /\ k.num = h.num /\ k.mod = h.mod /\ k.src = h.src /\ k.chan = h.chan /\ k.fmt = h.fmt
          /\ k.fb = h.fb /\ k.par = [h.par EXCEPT ![s] = v]
      BY <1>0, <2>1 DEF Graph
    <2> HIDE DEF v
    <2>4. SameMods(h, k)
      BY <2>3 DEF SameMods
    <2>5. /\ \A q : From(k, q) = From(h, q) /\ NetForm(k, q) = NetForm(h, q)
          /\ \A q : PinOf(k, q) = PinOf(h, q)
          /\ (PreviewFixed(h) => PreviewFixed(k))
      BY <2>3, <2>4, NetAlike
    <2>6. Net(k) = Net(h)
      BY <2>3, <2>5, NetSame
    <2>7. Clean(h) => Clean(k)
      BY <2>3, <2>4, CleanSame
    <2>8. ASSUME NEW x \in Others PROVE Value(k, x) = ValStep(Value(h, x), x, l)
      <3>1. (Here(k, x) <=> Here(h, x)) /\ Get(k, x) = Get(h, x) /\ x \in Keys
        BY <2>4, SameNames, SamePins DEF Others
      <3>2. CASE x = l.mod
        <4>1. Here(h, x) /\ Get(h, x) = s
          BY <1>2, <3>2 DEF Here, s
        <4>2. Value(k, x) = v /\ Value(h, x) = h.par[s]
          BY <1>0, <2>2, <2>3, <3>1, <4>1 DEF Value
        <4>3. v = IF l.cmd = "param" THEN l.val ELSE h.par[s] + l.val
          BY <1>0 DEF v
        <4> QED
          BY <1>2, <3>2, <4>2, <4>3 DEF ValStep
      <3>3. CASE x # l.mod
        <4>1. Here(h, x) => Get(h, x) \in Slots /\ Get(h, x) # s
          BY <2>2, <3>1, <3>3, GetIs DEF Here
        <4>2. Value(k, x) = Value(h, x)
          BY <1>0, <2>3, <3>1, <4>1 DEF Value
        <4> QED
          BY <3>3, <4>2 DEF ValStep
      <3> QED
        BY <3>2, <3>3
    <2> QED
      BY <2>4, <2>5, <2>6, <2>7, <2>8 DEF k
  <1> QED
    BY <1>1, <1>2

LEMMA ReadStep ==
  ASSUME KnownClasses, Numbers, NEW h, Good(h), PreviewFixed(h), NEW l \in Lines,
         Unique(ReadLine(h, l)),
         l.cmd # "module" => \A x \in Others : x \in {l.mod, l.from[1]} => Here(h, x),
         ~(l.mod = Preview /\ l.from # Nowhere /\ Loose(l.from))
  PROVE  LET k == ReadLine(h, l)
         IN  /\ Net(k) = NetRead(Net(h), l) /\ PreviewFixed(k)
             /\ \A x \in Others : Value(k, x) = ValStep(Value(h, x), x, l)
  <1> DEFINE k == ReadLine(h, l)
  <1>0. /\ l.cmd \in {"module", "param", "paraminc", "connect", "feedback"}
        /\ l.mod \in Keys /\ h \in Graph
    BY GoodIs DEF Lines
  <1>1. CASE l.cmd = "module"
    <2>1. k = Added(h, l.mod)
      BY <1>1 DEF ReadLine
    <2>2. /\ Net(k) = Net(h) /\ PreviewFixed(k)
          /\ \A x \in Keys : Value(k, x) = Value(h, x)
      BY <1>0, <2>1, AddedNet
    <2> HIDE DEF k
    <2>3. NetRead(Net(h), l) = Net(h) /\ \A x \in Others : ValStep(Value(h, x), x, l) = Value(h, x)
      BY <1>1 DEF NetRead, ValStep
    <2> QED
      BY <2>2, <2>3 DEF Others, k
  <1>2. CASE l.cmd # "module"
    <2>1. Unique(h)
      <3>1. SameMods(h, k) /\ Good(k)
        BY <1>2, ReadGrown
      <3>2. SameMods(k, h)
        BY <3>1 DEF SameMods
      <3> QED
        BY <3>2, SameNames
    <2>2. CASE l.cmd \in {"param", "paraminc"}
      <3>1. /\ Net(k) = Net(h) /\ PreviewFixed(k)
            /\ \A x \in Others : Value(k, x) = ValStep(Value(h, x), x, l)
        BY <1>2, <2>1, <2>2, ParamStep
      <3>2. NetRead(Net(h), l) = Net(h)
        BY <2>2 DEF NetRead
      <3> QED
        BY <3>1, <3>2
    <2>3. CASE l.cmd \in {"connect", "feedback"}
      <3>1. /\ Net(k) = NetRead(Net(h), l) /\ PreviewFixed(k)
            /\ \A x \in Others : Value(k, x) = Value(h, x)
        BY <1>2, <2>1, <2>3, ConnectionStep
      <3>2. \A x \in Others : ValStep(Value(h, x), x, l) = Value(h, x)
        BY <2>3 DEF ValStep
      <3> QED
        BY <3>1, <3>2
    <2> QED
      BY <1>0, <1>2, <2>2, <2>3
  <1> QED
    BY <1>1, <1>2

\* The nets that lines make one by one, and the values of module k
NetRun(ls, n, w) == w[0] = OpenNet /\ \A m \in 1 .. n : w[m] = NetRead(w[m - 1], ls[m])
ValRun(ls, n, k, v) == v[0] = Default /\ \A m \in 1 .. n : v[m] = ValStep(v[m - 1], k, ls[m])

\* They depend on the lines only.
LEMMA RunsAgree ==
  ASSUME NEW ls, NEW n \in Nat
  PROVE  /\ \A w, x : NetRun(ls, n, w) /\ NetRun(ls, n, x) => w[n] = x[n]
         /\ \A k, v, x : ValRun(ls, n, k, v) /\ ValRun(ls, n, k, x) => v[n] = x[n]
  <1>1. ASSUME NEW w, NEW x, NetRun(ls, n, w), NetRun(ls, n, x) PROVE w[n] = x[n]
    <2> DEFINE T == {m \in Nat : m <= n => w[m] = x[m]}
    <2>1. 0 \in T
      BY <1>1 DEF NetRun
    <2>2. ASSUME NEW m \in Nat, m \in T PROVE m + 1 \in T
      <3>1. ASSUME m + 1 <= n PROVE w[m + 1] = x[m + 1]
        <4>1. m + 1 \in 1 .. n /\ (m + 1) - 1 = m /\ w[m] = x[m]
          BY <2>2, <3>1
        <4>2. w[m + 1] = NetRead(w[m], ls[m + 1]) /\ x[m + 1] = NetRead(x[m], ls[m + 1])
          BY <1>1, <4>1 DEF NetRun
        <4> QED
          BY <4>1, <4>2
      <3> QED
        BY <3>1
    <2> HIDE DEF T
    <2>3. Nat \subseteq T
      BY <2>1, <2>2, NatInd
    <2> QED
      BY <2>3 DEF T
  <1>2. ASSUME NEW k, NEW w, NEW x, ValRun(ls, n, k, w), ValRun(ls, n, k, x) PROVE w[n] = x[n]
    <2> DEFINE T == {m \in Nat : m <= n => w[m] = x[m]}
    <2>1. 0 \in T
      BY <1>2 DEF ValRun
    <2>2. ASSUME NEW m \in Nat, m \in T PROVE m + 1 \in T
      <3>1. ASSUME m + 1 <= n PROVE w[m + 1] = x[m + 1]
        <4>1. m + 1 \in 1 .. n /\ (m + 1) - 1 = m /\ w[m] = x[m]
          BY <2>2, <3>1
        <4>2. w[m + 1] = ValStep(w[m], k, ls[m + 1]) /\ x[m + 1] = ValStep(x[m], k, ls[m + 1])
          BY <1>2, <4>1 DEF ValRun
        <4> QED
          BY <4>1, <4>2
      <3> QED
        BY <3>1
    <2> HIDE DEF T
    <2>3. Nat \subseteq T
      BY <2>1, <2>2, NatInd
    <2> QED
      BY <2>3 DEF T
  <1> QED
    BY <1>1, <1>2

LEMMA RunsAlike ==
  ASSUME NEW ls, NEW as, NEW n \in Nat, NEW m \in 0 .. n, \A q \in 1 .. m : as[q] = ls[q]
  PROVE  /\ \A w : NetRun(ls, n, w) => NetRun(as, m, w)
         /\ \A k, v : ValRun(ls, n, k, v) => ValRun(as, m, k, v)
  <1>1. \A q \in 1 .. m : q \in 1 .. n
    OBVIOUS
  <1>2. ASSUME NEW w, NetRun(ls, n, w) PROVE NetRun(as, m, w)
    BY <1>1, <1>2 DEF NetRun
  <1>3. ASSUME NEW k, NEW v, ValRun(ls, n, k, v) PROVE ValRun(as, m, k, v)
    BY <1>1, <1>3 DEF ValRun
  <1> QED
    BY <1>2, <1>3

\* Every module is there before it is used, and the preview shows no output
\* without formats of its own.
Brought(ls, k, n) == \E m \in 1 .. n : ls[m].cmd = "module" /\ ls[m].mod = k
Ordered(ls, n) ==
  \A m \in 1 .. n, k \in Others : k \in {ls[m].mod, ls[m].from[1]} => Brought(ls, k, m)
Unshown(ls, n) ==
  \A m \in 1 .. n : ~(ls[m].mod = Preview /\ ls[m].from # Nowhere /\ Loose(ls[m].from))

LEMMA GrownRun ==
  ASSUME KnownClasses, Numbers, NEW b, Good(b), NEW ls \in Seq(Lines)
  PROVE  \A m, n \in 0 .. Len(ls) : m <= n => Grown(ReadRun(b, ls)[m], ReadRun(b, ls)[n])
  <1> DEFINE R == ReadRun(b, ls)
             N == Len(ls)
  <1>1. /\ \A n \in 1 .. N : R[n] = ReadLine(R[n - 1], ls[n])
        /\ \A n \in 0 .. N : Good(R[n])
    BY ReadRuns
  <1>2. N \in Nat /\ \A n \in 1 .. N : ls[n] \in Lines
    OBVIOUS
  <1> HIDE DEF R, N
  <1>3. ASSUME NEW m \in 0 .. N
        PROVE  \A n \in 0 .. N : m <= n => Grown(R[m], R[n])
    <2> DEFINE T == {d \in Nat : m + d <= N => Grown(R[m], R[m + d])}
    <2>1. 0 \in T
      BY <1>3 DEF Grown
    <2>2. ASSUME NEW d \in Nat, d \in T PROVE d + 1 \in T
      <3>1. ASSUME m + (d + 1) <= N PROVE Grown(R[m], R[m + (d + 1)])
        <4>1. /\ m + (d + 1) \in 1 .. N /\ (m + (d + 1)) - 1 = m + d /\ m + d \in 0 .. N
              /\ Grown(R[m], R[m + d])
          BY <1>2, <1>3, <2>2, <3>1
        <4>2. R[m + (d + 1)] = ReadLine(R[m + d], ls[m + (d + 1)]) /\ Good(R[m + d])
          BY <1>1, <4>1
        <4>3. Grown(R[m + d], R[m + (d + 1)])
          BY <1>2, <4>1, <4>2, ReadGrown
        <4> QED
          BY <4>1, <4>3, GrownOn
      <3> QED
        BY <3>1
    <2> HIDE DEF T
    <2>3. Nat \subseteq T
      BY <2>1, <2>2, NatInd
    <2>4. ASSUME NEW n \in 0 .. N, m <= n PROVE Grown(R[m], R[n])
      <3>1. n - m \in T /\ m + (n - m) = n
        BY <1>2, <1>3, <2>3, <2>4
      <3> QED
        BY <1>2, <3>1 DEF T
    <2> QED
      BY <2>4
  <1> QED
    BY <1>3 DEF R, N

\* Read on whatever modules there are, the lines make the same net and the same
\* values, as long as no module is missing and no two have the same name.
LEMMA Replay ==
  ASSUME KnownClasses, Numbers, NEW b, Good(b), Bare(b), NEW ls \in Seq(Lines),
         Ordered(ls, Len(ls)), Unshown(ls, Len(ls)), Unique(ReadLines(b, ls)),
         \A m \in 1 .. Len(ls) : ls[m].cmd = "module" => Here(ReadLines(b, ls), ls[m].mod)
  PROVE  LET r == ReadLines(b, ls)
         IN  /\ PreviewFixed(r)
             /\ \E w : NetRun(ls, Len(ls), w) /\ w[Len(ls)] = Net(r)
             /\ \A x \in Others : \E v : ValRun(ls, Len(ls), x, v) /\ v[Len(ls)] = Value(r, x)
  <1> DEFINE R == ReadRun(b, ls)
             N == Len(ls)
             r == ReadLines(b, ls)
  <1>1. /\ R[0] = b
        /\ \A n \in 1 .. N : R[n] = ReadLine(R[n - 1], ls[n])
        /\ \A n \in 0 .. N : Good(R[n])
    BY ReadRuns
  <1>2. N \in Nat /\ \A n \in 1 .. N : ls[n] \in Lines
    OBVIOUS
  <1>3. r = R[N]
    BY ReadUnfold
  <1>4. \A m, n \in 0 .. N : m <= n => Grown(R[m], R[n])
    BY GrownRun
  <1>5. /\ Ordered(ls, N) /\ Unshown(ls, N) /\ Unique(r)
        /\ \A m \in 1 .. N : ls[m].cmd = "module" => Here(r, ls[m].mod)
    OBVIOUS
  <1> HIDE DEF R, N, r
  <1>6. ASSUME NEW n \in 0 .. N PROVE Good(R[n]) /\ R[n] \in Graph /\ Grown(R[n], r) /\ Unique(R[n])
    <2>1. Good(R[n]) /\ R[n] \in Graph /\ r \in Graph
      BY <1>1, <1>2, <1>3, GoodIs
    <2>2. Grown(R[n], r)
      BY <1>2, <1>3, <1>4
    <2> QED
      BY <1>5, <2>1, <2>2, GrownNames
  <1>7. ASSUME NEW m \in 1 .. N, ls[m].cmd = "module", NEW n \in 0 .. N, m <= n
        PROVE  Here(R[n], ls[m].mod)
    <2>1. /\ m - 1 \in 0 .. N /\ m \in 0 .. N /\ ls[m].mod \in Keys /\ Good(R[m - 1])
          /\ R[m] = ReadLine(R[m - 1], ls[m]) /\ R[m] \in Graph /\ R[n] \in Graph /\ r \in Graph
      <3>1. m - 1 \in 0 .. N /\ m \in 0 .. N /\ N \in 0 .. N
        BY <1>2
      <3>2. ls[m].mod \in Keys
        BY <1>2 DEF Lines
      <3> QED
        BY <1>1, <1>3, <1>6, <3>1, <3>2
    <2>2. R[m] = Added(R[m - 1], ls[m].mod)
      BY <1>7, <2>1 DEF ReadLine
    <2>3. Here(R[m], ls[m].mod) \/ AllTaken(R[m])
      BY <2>1, <2>2, AddedTaken
    <2>4. Grown(R[m], r) /\ Here(r, ls[m].mod)
      BY <1>5, <1>6, <1>7, <2>1
    <2>5. Here(R[m], ls[m].mod)
      BY <2>1, <2>3, <2>4, TakenStays
    <2>6. Grown(R[m], R[n]) /\ Unique(R[n])
      BY <1>4, <1>6, <1>7, <2>1
    <2> QED
      BY <2>1, <2>5, <2>6, GrownNames
  <1>8. ASSUME NEW n \in 1 .. N, PreviewFixed(R[n - 1])
        PROVE  /\ Net(R[n]) = NetRead(Net(R[n - 1]), ls[n]) /\ PreviewFixed(R[n])
               /\ \A x \in Others : Value(R[n], x) = ValStep(Value(R[n - 1], x), x, ls[n])
    <2>1. /\ n - 1 \in 0 .. N /\ n \in 0 .. N /\ ls[n] \in Lines /\ Good(R[n - 1])
          /\ R[n] = ReadLine(R[n - 1], ls[n]) /\ Unique(R[n])
      BY <1>1, <1>2, <1>6, <1>8
    <2>2. ASSUME ls[n].cmd # "module", NEW x \in Others, x \in {ls[n].mod, ls[n].from[1]}
          PROVE  Here(R[n - 1], x)
      <3>1. PICK m \in 1 .. n : ls[m].cmd = "module" /\ ls[m].mod = x
        BY <1>5, <2>2 DEF Ordered, Brought
      <3>2. m <= n - 1 /\ m \in 1 .. N
        BY <1>2, <1>8, <2>2, <3>1
      <3> QED
        BY <1>7, <2>1, <3>1, <3>2
    <2>3. ~(ls[n].mod = Preview /\ ls[n].from # Nowhere /\ Loose(ls[n].from))
      BY <1>5, <1>8 DEF Unshown
    <2>4. ls[n].cmd # "module" => \A x \in Others : x \in {ls[n].mod, ls[n].from[1]} => Here(R[n - 1], x)
      BY <2>2
    <2>5. Unique(ReadLine(R[n - 1], ls[n]))
      BY <2>1
    <2>6. LET k == ReadLine(R[n - 1], ls[n])
          IN  /\ Net(k) = NetRead(Net(R[n - 1]), ls[n]) /\ PreviewFixed(k)
              /\ \A x \in Others : Value(k, x) = ValStep(Value(R[n - 1], x), x, ls[n])
      BY <1>8, <2>1, <2>3, <2>4, <2>5, ReadStep
    <2> QED
      BY <2>1, <2>6
  <1>9. \A n \in 0 .. N : PreviewFixed(R[n])
    <2> DEFINE T == {n \in Nat : n <= N => PreviewFixed(R[n])}
    <2>1. 0 \in T
      BY <1>1, BareIs, GoodIs
    <2>2. ASSUME NEW n \in Nat, n \in T PROVE n + 1 \in T
      <3>1. ASSUME n + 1 <= N PROVE PreviewFixed(R[n + 1])
        <4>1. n + 1 \in 1 .. N /\ (n + 1) - 1 = n /\ PreviewFixed(R[n])
          BY <1>2, <2>2, <3>1
        <4> QED
          BY <1>8, <4>1
      <3> QED
        BY <3>1
    <2> HIDE DEF T
    <2>3. Nat \subseteq T
      BY <2>1, <2>2, NatInd
    <2> QED
      BY <1>2, <2>3 DEF T
  <1>10. Net(b) = OpenNet /\ \A x \in Others : Value(b, x) = Default
    BY BareIs, GoodIs DEF Others
  <1>11. \E w : NetRun(ls, N, w) /\ w[N] = Net(r)
    <2> DEFINE w == [n \in 0 .. N |-> Net(R[n])]
    <2>1. w[0] = OpenNet /\ w[N] = Net(r)
      BY <1>1, <1>2, <1>3, <1>10
    <2>2. ASSUME NEW n \in 1 .. N PROVE w[n] = NetRead(w[n - 1], ls[n])
      <3>1. n \in 0 .. N /\ n - 1 \in 0 .. N
        BY <1>2
      <3> QED
        BY <1>8, <1>9, <3>1
    <2> HIDE DEF w
    <2> QED
      BY <2>1, <2>2 DEF NetRun
  <1>12. ASSUME NEW x \in Others
         PROVE  \E v : ValRun(ls, N, x, v) /\ v[N] = Value(r, x)
    <2> DEFINE v == [n \in 0 .. N |-> Value(R[n], x)]
    <2>1. v[0] = Default /\ v[N] = Value(r, x)
      BY <1>1, <1>2, <1>3, <1>10
    <2>2. ASSUME NEW n \in 1 .. N PROVE v[n] = ValStep(v[n - 1], x, ls[n])
      <3>1. n \in 0 .. N /\ n - 1 \in 0 .. N
        BY <1>2
      <3> QED
        BY <1>8, <1>9, <3>1
    <2> HIDE DEF v
    <2> QED
      BY <2>1, <2>2 DEF ValRun
  <1>13. PreviewFixed(r)
    BY <1>2, <1>3, <1>9
  <1> QED
    BY <1>11, <1>12, <1>13 DEF N, r

\* What the user sees of a module is in the net, but for its value.
NetView(n, x, k) ==
  [par |-> x,
   src |-> [c \in Conns |-> IF Class[k][c].io = "in" THEN n.from[<<k, c>>] ELSE Nowhere],
   fb  |-> {c \in Conns : <<k, c>> \in n.back}]

LEMMA NameIs ==
  ASSUME NEW k \in Others, NEW c \in Conns
  PROVE  /\ <<k, c>> \in Names <=> Class[k][c].io # "none"
         /\ <<k, c>>[1] = k /\ <<k, c>>[2] = c
  BY DEF Names

\* Only inputs read.
LEMMA FromIn ==
  ASSUME NEW h, Good(h), NEW q \in Names, Here(h, q[1])
  PROVE  /\ From(h, q) = Named(h, h.src[PinOf(h, q)]) /\ PinOf(h, q) \in Pins
         /\ From(h, q) # Nowhere <=> h.src[PinOf(h, q)] # Unset
         /\ From(h, q) # Nowhere => Class[q[1]][q[2]].io = "in"
         /\ IsIn(h, PinOf(h, q)) <=> Class[q[1]][q[2]].io = "in"
  <1> DEFINE p == PinOf(h, q)
  <1>1. /\ p \in Pins /\ PinClass(h, p) = Class[q[1]][q[2]] /\ h \in Graph
        /\ From(h, q) = Named(h, h.src[p])
    BY GoodIs, PinNamed DEF From
  <1> HIDE DEF p
  <1>2. CASE h.src[p] = Unset
    BY <1>1, <1>2 DEF Named, p, IsIn
  <1>3. CASE h.src[p] # Unset
    <2>1. p \in Inputs(h) /\ h.src[p] \in Outputs(h)
      BY <1>1, <1>3, GoodIs, ReadIs
    <2>2. Named(h, h.src[p]) \in Keys \X Conns
      BY <1>1, <2>1, NamedType
    <2>3. Named(h, h.src[p]) # Nowhere
      BY <2>2, NowhereType
    <2> QED
      BY <1>1, <1>3, <2>1, <2>3 DEF Inputs, IsIn, p
  <1> QED
    BY <1>2, <1>3

LEMMA ViewIs ==
  ASSUME NEW h, Good(h), NEW k \in Others
  PROVE  View(h)[k] = IF Here(h, k) THEN NetView(Net(h), Value(h, k), k) ELSE <<>>
  <1> DEFINE s == Get(h, k)
             seen == [par |-> h.par[s],
                      src |-> [c \in Conns |-> IF IsIn(h, <<s, c>>) THEN Named(h, h.src[<<s, c>>])
                                               ELSE Nowhere],
                      fb  |-> {c \in Conns : <<s, c>> \in h.fb /\ h.src[<<s, c>>] # Unset}]
  <1>1. View(h)[k] = IF s = -1 THEN <<>> ELSE seen
    BY DEF View, Others
  <1>2. CASE Here(h, k)
    <2> DEFINE n == Net(h)
    <2>1. ASSUME NEW c \in Conns
          PROVE  /\ (IF IsIn(h, <<s, c>>) THEN Named(h, h.src[<<s, c>>]) ELSE Nowhere)
                    = IF Class[k][c].io = "in" THEN n.from[<<k, c>>] ELSE Nowhere
                 /\ <<s, c>> \in h.fb /\ h.src[<<s, c>>] # Unset <=> <<k, c>> \in n.back
      <3> DEFINE q == <<k, c>>
      <3>1. PinOf(h, q) = <<s, c>> /\ q[1] = k /\ q[2] = c
        BY DEF PinOf
      <3>2. PinClass(h, <<s, c>>) = Class[k][c] /\ <<s, c>> \in Pins
        <4>1. s \in Slots /\ h.mod[s] = k /\ k # NoKey
          BY <1>2, GetIs, GraphAssumption DEF Here, Others
        <4> QED
          BY <4>1 DEF PinClass, Pins
      <3>3. CASE Class[k][c].io = "none"
        <4>1. q \notin Names
          BY <3>1, <3>3 DEF Names
        <4>2. q \notin n.back
          BY <4>1 DEF Net
        <4>3. <<s, c>> \notin Inputs(h)
          BY <3>2, <3>3 DEF Inputs, IsIn
        <4>4. h.src[<<s, c>>] = Unset
          BY <3>2, <4>3, GoodIs, ReadIs
        <4> QED
          BY <3>2, <3>3, <4>2, <4>4 DEF IsIn
      <3>4. CASE Class[k][c].io # "none"
        <4>1. q \in Names
          BY <3>4, NameIs
        <4> HIDE DEF q
        <4>2. /\ From(h, q) = Named(h, h.src[<<s, c>>])
              /\ From(h, q) # Nowhere <=> h.src[<<s, c>>] # Unset
              /\ IsIn(h, <<s, c>>) <=> Class[k][c].io = "in"
          BY <1>2, <3>1, <4>1, FromIn
        <4>3. /\ n.from[q] = From(h, q)
              /\ q \in n.back <=> From(h, q) # Nowhere /\ PinOf(h, q) \in h.fb
          BY <4>1, NetFields
        <4> QED
          BY <3>1, <4>2, <4>3 DEF q
      <3> QED
        BY <3>3, <3>4
    <2> HIDE DEF n
    <2>2. [c \in Conns |-> IF IsIn(h, <<s, c>>) THEN Named(h, h.src[<<s, c>>]) ELSE Nowhere]
          = [c \in Conns |-> IF Class[k][c].io = "in" THEN n.from[<<k, c>>] ELSE Nowhere]
      BY <2>1
    <2>3. {c \in Conns : <<s, c>> \in h.fb /\ h.src[<<s, c>>] # Unset}
          = {c \in Conns : <<k, c>> \in n.back}
      BY <2>1
    <2>4. Value(h, k) = h.par[s]
      BY <1>2 DEF Value
    <2> HIDE DEF s
    <2>5. seen = NetView(n, Value(h, k), k)
      BY <2>2, <2>3, <2>4 DEF NetView
    <2> QED
      BY <1>1, <1>2, <2>5 DEF Here, n, s
  <1>3. CASE ~Here(h, k)
    BY <1>1, <1>3 DEF Here
  <1> QED
    BY <1>2, <1>3

\* A graph that is written and read back has the same net and values.
LEMMA CopyNet ==
  ASSUME NEW G, Good(G), Unique(G), Clean(G), PreviewFixed(G),
         NEW h, Good(h), Valued(G, h, WithValue(G)), PreviewFixed(h)
  PROVE  /\ Net(h) = Net(G)
         /\ \A x \in Others : Value(h, x) = Value(G, x)
  <1>1. /\ G \in Graph /\ h \in Graph /\ Copied(G, h, Len(Rows(G))) /\ Tied(G, h)
        /\ Fair(G) /\ Fair(h)
    BY GoodIs DEF Valued, Tied
  <1>2. View(h) = View(G)
    BY ValuedView DEF WithValue
  <1>3. ASSUME NEW k \in Others PROVE Here(h, k) <=> Here(G, k)
    <2>1. k \in Keys
      BY DEF Others
    <2>2. CASE Get(G, k) = -1
      BY <1>1, <2>1, <2>2, CopiedNames DEF Here
    <2>3. CASE Get(G, k) # -1
      <3>1. Get(G, k) \in Live(G) /\ G.mod[Get(G, k)] = k
        BY <1>1, <2>1, <2>3, HereIs DEF Here
      <3>2. Get(h, k) = At(G, Get(G, k)) /\ At(G, Get(G, k)) \in Slots
        BY <1>1, <3>1, CopiedNames, RowsAre
      <3>3. -1 \notin Slots
        BY SizeType DEF Slots
      <3> QED
        BY <2>3, <3>2, <3>3 DEF Here
    <2> QED
      BY <2>2, <2>3
  <1>4. ASSUME NEW k \in Others, Here(G, k)
        PROVE  /\ Value(h, k) = Value(G, k)
               /\ \A c \in Conns : /\ Class[k][c].io = "in" => Net(h).from[<<k, c>>] = Net(G).from[<<k, c>>]
                                   /\ <<k, c>> \in Net(h).back <=> <<k, c>> \in Net(G).back
    <2>1. NetView(Net(h), Value(h, k), k) = NetView(Net(G), Value(G, k), k)
      <3>1. View(h)[k] = NetView(Net(h), Value(h, k), k)
        BY <1>3, <1>4, ViewIs
      <3>2. View(G)[k] = NetView(Net(G), Value(G, k), k)
        BY <1>4, ViewIs
      <3> QED
        BY <1>2, <3>1, <3>2
    <2>2. \A n, x : /\ NetView(n, x, k).par = x
                    /\ NetView(n, x, k).src = [c \in Conns |-> IF Class[k][c].io = "in" THEN n.from[<<k, c>>]
                                                                ELSE Nowhere]
                    /\ NetView(n, x, k).fb = {c \in Conns : <<k, c>> \in n.back}
      BY DEF NetView
    <2> DEFINE a == Net(h)
               b == Net(G)
               x == Value(h, k)
               y == Value(G, k)
    <2> HIDE DEF a, b, x, y
    <2>3. NetView(a, x, k) = NetView(b, y, k)
      BY <2>1 DEF a, b, x, y
    <2>4. x = y
      BY <2>2, <2>3
    <2>5. ASSUME NEW c \in Conns
          PROVE  /\ Class[k][c].io = "in" => a.from[<<k, c>>] = b.from[<<k, c>>]
                 /\ <<k, c>> \in a.back <=> <<k, c>> \in b.back
      <3>1. [d \in Conns |-> IF Class[k][d].io = "in" THEN a.from[<<k, d>>] ELSE Nowhere]
            = [d \in Conns |-> IF Class[k][d].io = "in" THEN b.from[<<k, d>>] ELSE Nowhere]
        <4>1. NetView(a, x, k).src
              = [d \in Conns |-> IF Class[k][d].io = "in" THEN a.from[<<k, d>>] ELSE Nowhere]
          BY <2>2
        <4>2. NetView(b, y, k).src
              = [d \in Conns |-> IF Class[k][d].io = "in" THEN b.from[<<k, d>>] ELSE Nowhere]
          BY <2>2
        <4> HIDE DEF NetView
        <4>3. NetView(a, x, k).src = NetView(b, y, k).src
          BY <2>3
        <4> QED
          BY <4>1, <4>2, <4>3
      <3>2. {d \in Conns : <<k, d>> \in a.back} = {d \in Conns : <<k, d>> \in b.back}
        BY <2>2, <2>3
      <3>3. <<k, c>> \in a.back <=> <<k, c>> \in b.back
        BY <3>2
      <3>4. (IF Class[k][c].io = "in" THEN a.from[<<k, c>>] ELSE Nowhere)
            = IF Class[k][c].io = "in" THEN b.from[<<k, c>>] ELSE Nowhere
        BY <3>1
      <3> QED
        BY <3>3, <3>4
    <2> QED
      BY <2>4, <2>5 DEF a, b, x, y
  <1>5. ASSUME NEW q \in Names
        PROVE  /\ From(h, q) = From(G, q) /\ NetForm(h, q) = NetForm(G, q)
               /\ From(G, q) # Nowhere => (PinOf(h, q) \in h.fb <=> PinOf(G, q) \in G.fb)
    <2> DEFINE k == q[1]
               c == q[2]
    <2>1. k \in Others /\ c \in Conns /\ q = <<k, c>>
      BY DEF Names
    <2>2. CASE ~Here(G, k)
      BY <1>3, <2>1, <2>2 DEF From, NetForm
    <2>3. CASE Here(G, k)
      <3>1. Here(h, k)
        BY <1>3, <2>1, <2>3
      <3>2. /\ Class[k][c].io = "in" => Net(h).from[q] = Net(G).from[q]
            /\ q \in Net(h).back <=> q \in Net(G).back
        BY <1>4, <2>1, <2>3
      <3>3. From(h, q) = From(G, q)
        <4>1. /\ From(h, q) # Nowhere => Class[k][c].io = "in"
              /\ From(G, q) # Nowhere => Class[k][c].io = "in"
          BY <2>3, <3>1, FromIn
        <4>2. Net(h).from[q] = From(h, q) /\ Net(G).from[q] = From(G, q)
          BY NetFields
        <4> QED
          BY <3>2, <4>1, <4>2
      <3>4. From(G, q) # Nowhere => (PinOf(h, q) \in h.fb <=> PinOf(G, q) \in G.fb)
        <4>1. /\ q \in Net(h).back <=> From(h, q) # Nowhere /\ PinOf(h, q) \in h.fb
              /\ q \in Net(G).back <=> From(G, q) # Nowhere /\ PinOf(G, q) \in G.fb
          BY NetFields
        <4> QED
          BY <3>2, <3>3, <4>1
      <3>5. CASE From(G, q) # Nowhere
        <4>1. NetForm(h, q) = Joined /\ NetForm(G, q) = Joined
          BY <1>1, <2>3, <3>1, <3>3, <3>5, PlainForm
        <4> QED
          BY <3>3, <3>4, <4>1
      <3>6. CASE From(G, q) = Nowhere
        <4> DEFINE p == PinOf(G, q)
                   y == To(G, p)
        <4>1. /\ p \in Pins /\ p[1] \in Live(G) /\ G.mod[p[1]] = k
              /\ PinClass(G, p) = Class[k][c] /\ p[1] = Get(G, k) /\ p[2] = c
          BY <1>1, <2>3, PinNamed DEF PinOf
        <4>2. PinOf(h, q) = y
          <5>1. Get(h, k) = At(G, p[1])
            BY <1>1, <4>1, CopiedNames
          <5> QED
            BY <4>1, <5>1 DEF PinOf, To
        <4>3. y \in Pins /\ PinClass(h, y) = PinClass(G, p) /\ y[1] \in Live(h)
          BY <1>1, <4>1, CopiedPins
        <4>4. G.src[p] = Unset
          BY <2>3, <3>6, FromIn
        <4>5. Form(h, y) = Form(G, p)
          <5> HIDE DEF p, y
          <5>1. PinForm(h, y) = PinForm(G, p)
            BY <4>3 DEF PinForm
          <5>2. Class[k][c].io \in {"in", "out"}
            BY <1>1, <4>1, <2>1, ClassType DEF Names
          <5>3. CASE Class[k][c].io = "in"
            <6>1. p \in Inputs(G)
              BY <4>1, <5>3 DEF Inputs, IsIn
            <6>2. Form(G, p) = PinForm(G, p)
              BY <4>4, <6>1 DEF Clean
            <6>3. Form(h, y) = PinForm(G, p)
              BY <1>1, <4>4, <6>1 DEF Tied, Form, PinForm, y
            <6> QED
              BY <6>2, <6>3
          <5>4. CASE Class[k][c].io = "out"
            <6>1. p \in Outputs(G)
              BY <4>1, <5>4 DEF Outputs, IsOut
            <6>2. /\ h.chan[y] \in {G.chan[p], PinClass(G, p).chan}
                  /\ h.fmt[y] \in {G.fmt[p], PinClass(G, p).fmt}
              BY <1>1, <6>1 DEF Tied, y
            <6>3. CASE Readers(G, p) = {}
              <7>1. Form(G, p) = PinForm(G, p)
                BY <6>1, <6>3 DEF Clean
              <7> QED
                BY <6>2, <7>1 DEF Form, PinForm
            <6>4. CASE Readers(G, p) # {}
              <7>1. PICK r \in Pins : G.src[r] = p
                BY <6>4 DEF Readers
              <7>2. r \in Inputs(G) /\ p # Unset
                BY <1>1, <4>1, <7>1, UnsetIsNoPin, ReadIs
              <7>3. h.src[To(G, r)] = y /\ To(G, r) \in Pins
                <8>1. r[1] \in Live(G)
                  BY <7>2 DEF Inputs
                <8> QED
                  BY <1>1, <7>1, <7>2, <8>1, CopiedPins DEF Tied, y
              <7>4. y # Unset
                BY <4>3, UnsetIsNoPin
              <7>5. /\ h.chan[y] \in {h.chan[To(G, r)], "&"} /\ h.fmt[y] = h.fmt[To(G, r)]
                    /\ "*" \notin {h.chan[To(G, r)], h.fmt[To(G, r)]}
                BY <1>1, <7>3, <7>4, FairIs DEF FormatsAgree
              <7>6. h.chan[y] # "*" /\ h.fmt[y] # "*"
                BY <7>5
              <7>7. Formed(G.chan[p], G.fmt[p], PinClass(G, p))
                BY <1>1, <4>1, FairIs DEF Kept
              <7> QED
                BY <6>2, <7>6, <7>7 DEF Formed, Form
            <6> QED
              BY <6>3, <6>4
          <5> QED
            BY <5>2, <5>3, <5>4
        <4> HIDE DEF p, y
        <4>6. NetForm(h, q) = Form(h, y) /\ NetForm(G, q) = Form(G, p)
          <5>1. NetForm(h, q) = IF From(h, q) # Nowhere THEN Joined ELSE Form(h, PinOf(h, q))
            BY <1>1, <3>1, PlainForm
          <5>2. NetForm(G, q) = IF From(G, q) # Nowhere THEN Joined ELSE Form(G, PinOf(G, q))
            BY <1>1, <2>3, PlainForm
          <5> QED
            BY <3>3, <3>6, <4>2, <5>1, <5>2 DEF p
        <4> QED
          BY <3>3, <3>4, <4>5, <4>6
      <3> QED
        BY <3>5, <3>6
    <2> QED
      BY <2>2, <2>3
  <1>6. Net(h) = Net(G)
    BY <1>5, NetSame
  <1>7. ASSUME NEW x \in Others PROVE Value(h, x) = Value(G, x)
    <2>1. CASE Here(G, x)
      BY <1>4, <2>1
    <2>2. CASE ~Here(G, x)
      BY <1>3, <2>2 DEF Value
    <2> QED
      BY <2>1, <2>2
  <1> QED
    BY <1>6, <1>7

-----------------------------------------------------------------------------
(* What the history promises *)

\* A value of k may be read that k had before it was removed and added again.
Ghost(ls, n, k) ==
  \E i, m \in 1 .. n : /\ i < m /\ ls[i].mod = k /\ ls[m].mod = k
                       /\ ls[i].cmd \in {"param", "paraminc"} /\ ls[m].cmd = "module"

\* The graph has the net and the values that the first n lines make.
Tracked(h, ls, n) ==
  Ordered(ls, n) /\ Unshown(ls, n) =>
    /\ \A w : NetRun(ls, n, w) => Net(h) = w[n]
    /\ \A k \in Others : Here(h, k) /\ ~Ghost(ls, n, k) =>
         \A v : ValRun(ls, n, k, v) => Value(h, k) = v[n]

\* What the user saw of k is what the first n lines make.
Kin(ls, n, k, x) ==
  /\ Ordered(ls, n) /\ Unshown(ls, n) /\ Brought(ls, k, n) /\ ~Ghost(ls, n, k)
  /\ \A w, v : NetRun(ls, n, w) /\ ValRun(ls, n, k, v) => x = NetView(w[n], v[n], k)
Backed(ls, n, s) == \A k \in Others : s[k] # <<>> => Kin(ls, n, k, s[k])

\* Every item is backed by the lines up to it, and unless the history promises
\* nothing, the graph is what its lines make and looks like the current item.
Items(e) == \A q \in 1 .. Len(e.hist) : Backed(e.hist, q, e.snap[q])
Apt(e) ==
  /\ Items(e)
  /\ ~e.vague => /\ Unique(e.g) /\ Clean(e.g) /\ Tracked(e.g, e.hist, e.cur)
                 /\ e.cur > 0 => Shows(e.g, e.snap[e.cur])

LEMMA LinesAlike ==
  ASSUME NEW ls, NEW as, NEW n \in Nat, \A q \in 1 .. n : as[q] = ls[q]
  PROVE  /\ Ordered(as, n) <=> Ordered(ls, n)
         /\ Unshown(as, n) <=> Unshown(ls, n)
         /\ \A k : (Brought(as, k, n) <=> Brought(ls, k, n)) /\ (Ghost(as, n, k) <=> Ghost(ls, n, k))
         /\ \A w : NetRun(as, n, w) <=> NetRun(ls, n, w)
         /\ \A k, v : ValRun(as, n, k, v) <=> ValRun(ls, n, k, v)
  <1>1. ASSUME NEW k, NEW m \in 0 .. n PROVE Brought(as, k, m) <=> Brought(ls, k, m)
    <2>1. ASSUME NEW q \in 1 .. m PROVE as[q] = ls[q]
      <3>1. q \in 1 .. n
        OBVIOUS
      <3> QED
        BY <3>1
    <2> QED
      BY <2>1 DEF Brought
  <1>2. Ordered(as, n) <=> Ordered(ls, n)
    <2>1. \A q \in 1 .. n : q \in 0 .. n
      OBVIOUS
    <2>2. ASSUME NEW q \in 1 .. n, NEW k
          PROVE  as[q] = ls[q] /\ (Brought(as, k, q) <=> Brought(ls, k, q))
      BY <1>1, <2>1
    <2> QED
      BY <2>2 DEF Ordered
  <1>3. Unshown(as, n) <=> Unshown(ls, n)
    BY DEF Unshown
  <1>4. \A k : Ghost(as, n, k) <=> Ghost(ls, n, k)
    BY DEF Ghost
  <1>5. n \in 0 .. n /\ \A q \in 1 .. n : ls[q] = as[q]
    <2>1. n \in 0 .. n
      OBVIOUS
    <2>2. ASSUME NEW q \in 1 .. n PROVE ls[q] = as[q]
      OBVIOUS
    <2> QED
      BY <2>1, <2>2
  <1>6. \A w : NetRun(as, n, w) <=> NetRun(ls, n, w)
    BY <1>5, RunsAlike
  <1>7. \A k, v : ValRun(as, n, k, v) <=> ValRun(ls, n, k, v)
    BY <1>5, RunsAlike
  <1> QED
    BY <1>1, <1>2, <1>3, <1>4, <1>5, <1>6, <1>7

LEMMA BackedAlike ==
  ASSUME NEW ls, NEW as, NEW n \in Nat, \A q \in 1 .. n : as[q] = ls[q]
  PROVE  /\ \A s : Backed(ls, n, s) => Backed(as, n, s)
         /\ \A h : Tracked(h, ls, n) => Tracked(h, as, n)
  <1>1. /\ Ordered(as, n) <=> Ordered(ls, n)
        /\ Unshown(as, n) <=> Unshown(ls, n)
        /\ \A k : (Brought(as, k, n) <=> Brought(ls, k, n)) /\ (Ghost(as, n, k) <=> Ghost(ls, n, k))
        /\ \A w : NetRun(as, n, w) <=> NetRun(ls, n, w)
        /\ \A k, v : ValRun(as, n, k, v) <=> ValRun(ls, n, k, v)
    BY LinesAlike
  <1>2. \A k, x : Kin(ls, n, k, x) => Kin(as, n, k, x)
    BY <1>1 DEF Kin
  <1> QED
    BY <1>1, <1>2 DEF Backed, Tracked

\* One line more
Longer(ls, n, l) == Append(SubSeq(ls, 1, n), l)

LEMMA LongerIs ==
  ASSUME NEW ls \in Seq(Lines), NEW n \in 0 .. Len(ls), NEW l \in Lines
  PROVE  LET as == Longer(ls, n, l)
         IN  /\ as \in Seq(Lines) /\ Len(as) = n + 1
             /\ as[n + 1] = l /\ \A q \in 1 .. n : as[q] = ls[q]
  <1> DEFINE c == SubSeq(ls, 1, n)
  <1>1. c \in Seq(Lines) /\ Len(c) = n /\ \A q \in 1 .. n : c[q] = ls[q]
    OBVIOUS
  <1> HIDE DEF c
  <1>2. /\ Append(c, l) \in Seq(Lines) /\ Len(Append(c, l)) = n + 1
        /\ Append(c, l)[n + 1] = l /\ \A q \in 1 .. n : Append(c, l)[q] = c[q]
    BY <1>1
  <1> QED
    BY <1>1, <1>2 DEF Longer, c

\* What as makes is what the n lines of ls make, and then l.
Grew(ls, as, n, l) ==
  /\ Ordered(as, n + 1) => Ordered(ls, n)
  /\ Unshown(as, n + 1) =>
       /\ Unshown(ls, n)
       /\ ~(l.mod = Preview /\ l.from # Nowhere /\ Loose(l.from))
  /\ \A x : ~Ghost(as, n + 1, x) =>
       /\ ~Ghost(ls, n, x)
       /\ l.cmd = "module" /\ l.mod = x =>
            \A i \in 1 .. n : ls[i].mod # x \/ ls[i].cmd \notin {"param", "paraminc"}
  /\ \A w : NetRun(as, n + 1, w) => NetRun(ls, n, w) /\ w[n + 1] = NetRead(w[n], l)
  /\ \A x, v : ValRun(as, n + 1, x, v) => ValRun(ls, n, x, v) /\ v[n + 1] = ValStep(v[n], x, l)

LEMMA LongerRuns ==
  ASSUME NEW ls, NEW as, NEW n \in Nat, NEW l, as[n + 1] = l, \A q \in 1 .. n : as[q] = ls[q]
  PROVE  Grew(ls, as, n, l)
  <1>a. /\ n + 1 \in 1 .. n + 1 /\ (n + 1) - 1 = n /\ n \in 0 .. n + 1 /\ n + 1 \in Nat
        /\ \A q \in 1 .. n : q \in 1 .. n + 1 /\ q < n + 1
    OBVIOUS
  <1>b. ASSUME NEW q \in 1 .. n PROVE ls[q] = as[q]
    OBVIOUS
  <1>0. /\ n + 1 \in 1 .. n + 1 /\ (n + 1) - 1 = n /\ n \in 0 .. n + 1 /\ n + 1 \in Nat
        /\ \A q \in 1 .. n : q \in 1 .. n + 1 /\ q < n + 1
        /\ \A q \in 1 .. n : ls[q] = as[q]
    BY <1>a, <1>b
  <1>1. /\ Ordered(as, n) <=> Ordered(ls, n)
        /\ Unshown(as, n) <=> Unshown(ls, n)
        /\ \A k : Ghost(as, n, k) <=> Ghost(ls, n, k)
    BY LinesAlike
  <1>2. Ordered(as, n + 1) => Ordered(as, n)
    BY <1>0 DEF Ordered
  <1>3. Unshown(as, n + 1) => Unshown(as, n)
    BY <1>0 DEF Unshown
  <1>4. Unshown(as, n + 1) => ~(l.mod = Preview /\ l.from # Nowhere /\ Loose(l.from))
    BY <1>0 DEF Unshown
  <1>5. ASSUME NEW k, ~Ghost(as, n + 1, k)
        PROVE  /\ ~Ghost(as, n, k)
               /\ l.cmd = "module" /\ l.mod = k =>
                    \A i \in 1 .. n : ls[i].mod # k \/ ls[i].cmd \notin {"param", "paraminc"}
    <2>1. ~Ghost(as, n, k)
      BY <1>0, <1>5 DEF Ghost
    <2>2. ASSUME l.cmd = "module", l.mod = k, NEW i \in 1 .. n
          PROVE  ls[i].mod # k \/ ls[i].cmd \notin {"param", "paraminc"}
      <3>1. i \in 1 .. n + 1 /\ i < n + 1 /\ as[i] = ls[i]
        BY <1>0
      <3> QED
        BY <1>0, <1>5, <2>2, <3>1 DEF Ghost
    <2> QED
      BY <2>1, <2>2
  <1>6. ASSUME NEW w, NetRun(as, n + 1, w) PROVE NetRun(ls, n, w) /\ w[n + 1] = NetRead(w[n], l)
    <2>1. NetRun(ls, n, w)
      BY <1>0, <1>6, RunsAlike
    <2>2. w[n + 1] = NetRead(w[(n + 1) - 1], as[n + 1])
      BY <1>0, <1>6 DEF NetRun
    <2> QED
      BY <1>0, <2>1, <2>2
  <1>7. ASSUME NEW k, NEW v, ValRun(as, n + 1, k, v)
        PROVE  ValRun(ls, n, k, v) /\ v[n + 1] = ValStep(v[n], k, l)
    <2>1. ValRun(ls, n, k, v)
      BY <1>0, <1>7, RunsAlike
    <2>2. v[n + 1] = ValStep(v[(n + 1) - 1], k, as[n + 1])
      BY <1>0, <1>7 DEF ValRun
    <2> QED
      BY <1>0, <2>1, <2>2
  <1> QED
    BY <1>1, <1>2, <1>3, <1>4, <1>5, <1>6, <1>7 DEF Grew

\* A module without lines about its value has the default one.
LEMMA Untouched ==
  ASSUME NEW ls, NEW n \in Nat, NEW k, NEW v, ValRun(ls, n, k, v),
         \A i \in 1 .. n : ls[i].mod # k \/ ls[i].cmd \notin {"param", "paraminc"}
  PROVE  v[n] = Default
  <1> DEFINE T == {m \in Nat : m <= n => v[m] = Default}
  <1>1. 0 \in T
    BY DEF ValRun
  <1>2. ASSUME NEW m \in Nat, m \in T PROVE m + 1 \in T
    <2>1. ASSUME m + 1 <= n PROVE v[m + 1] = Default
      <3>1. m + 1 \in 1 .. n /\ (m + 1) - 1 = m /\ v[m] = Default
        BY <1>2, <2>1
      <3>2. v[m + 1] = ValStep(v[m], k, ls[m + 1])
        BY <3>1 DEF ValRun
      <3> QED
        BY <3>1, <3>2 DEF ValStep
    <2> QED
      BY <2>1
  <1> HIDE DEF T
  <1>3. Nat \subseteq T
    BY <1>1, <1>2, NatInd
  <1> QED
    BY <1>3 DEF T

\* The graph goes the way of its new line.
Advanced(h, k, l) ==
  /\ ~(l.mod = Preview /\ l.from # Nowhere /\ Loose(l.from)) => Net(k) = NetRead(Net(h), l)
  /\ \A x \in Others : Here(k, x) =>
       \/ Here(h, x) /\ Value(k, x) = ValStep(Value(h, x), x, l)
       \/ ~Here(h, x) /\ l.cmd = "module" /\ l.mod = x /\ Value(k, x) = Default

LEMMA TrackedOn ==
  ASSUME NEW ls \in Seq(Lines), NEW n \in 0 .. Len(ls), NEW l \in Lines, NEW h, NEW k,
         Tracked(h, ls, n), Advanced(h, k, l)
  PROVE  Tracked(k, Longer(ls, n, l), n + 1)
  <1> DEFINE as == Longer(ls, n, l)
  <1>n. n \in Nat
    OBVIOUS
  <1>l. as[n + 1] = l
    BY LongerIs
  <1>a. \A q \in 1 .. n : as[q] = ls[q]
    BY LongerIs
  <1> HIDE DEF as
  <1>1. as[n + 1] = l /\ (\A q \in 1 .. n : as[q] = ls[q]) /\ n \in Nat
    BY <1>n, <1>l, <1>a
  <1>2. /\ Ordered(as, n + 1) => Ordered(ls, n)
        /\ Unshown(as, n + 1) =>
             /\ Unshown(ls, n)
             /\ ~(l.mod = Preview /\ l.from # Nowhere /\ Loose(l.from))
        /\ \A x : ~Ghost(as, n + 1, x) =>
             /\ ~Ghost(ls, n, x)
             /\ l.cmd = "module" /\ l.mod = x =>
                  \A i \in 1 .. n : ls[i].mod # x \/ ls[i].cmd \notin {"param", "paraminc"}
        /\ \A w : NetRun(as, n + 1, w) => NetRun(ls, n, w) /\ w[n + 1] = NetRead(w[n], l)
        /\ \A x, v : ValRun(as, n + 1, x, v) => ValRun(ls, n, x, v) /\ v[n + 1] = ValStep(v[n], x, l)
    <2>1. Grew(ls, as, n, l)
      BY <1>n, <1>l, <1>a, LongerRuns
    <2> QED
      BY <2>1 DEF Grew
  <1>3. SUFFICES ASSUME Ordered(as, n + 1), Unshown(as, n + 1)
                 PROVE  /\ \A w : NetRun(as, n + 1, w) => Net(k) = w[n + 1]
                        /\ \A x \in Others : Here(k, x) /\ ~Ghost(as, n + 1, x) =>
                             \A v : ValRun(as, n + 1, x, v) => Value(k, x) = v[n + 1]
    BY DEF Tracked, as
  <1>4. /\ \A w : NetRun(ls, n, w) => Net(h) = w[n]
        /\ \A x \in Others : Here(h, x) /\ ~Ghost(ls, n, x) =>
             \A v : ValRun(ls, n, x, v) => Value(h, x) = v[n]
        /\ Net(k) = NetRead(Net(h), l)
    BY <1>2, <1>3 DEF Tracked, Advanced
  <1>5. ASSUME NEW w, NetRun(as, n + 1, w) PROVE Net(k) = w[n + 1]
    BY <1>2, <1>4, <1>5
  <1>6. ASSUME NEW x \in Others, Here(k, x), ~Ghost(as, n + 1, x), NEW v, ValRun(as, n + 1, x, v)
        PROVE  Value(k, x) = v[n + 1]
    <2>1. /\ ValRun(ls, n, x, v) /\ v[n + 1] = ValStep(v[n], x, l) /\ ~Ghost(ls, n, x)
          /\ l.cmd = "module" /\ l.mod = x =>
               \A i \in 1 .. n : ls[i].mod # x \/ ls[i].cmd \notin {"param", "paraminc"}
      BY <1>2, <1>6
    <2>2. CASE Here(h, x) /\ Value(k, x) = ValStep(Value(h, x), x, l)
      BY <1>4, <2>1, <2>2
    <2>3. CASE ~Here(h, x) /\ l.cmd = "module" /\ l.mod = x /\ Value(k, x) = Default
      <3>1. v[n] = Default
        BY <1>1, <2>1, <2>3, Untouched
      <3> QED
        BY <2>1, <2>3, <3>1 DEF ValStep
    <2> QED
      BY <1>6, <2>2, <2>3 DEF Advanced
  <1> QED
    BY <1>5, <1>6

\* What is promised of a new item is backed, and what the user sees.
LEMMA ClaimIs ==
  ASSUME NEW e, Good(e.g), e.cur \in Nat, ~e.vague => Tracked(e.g, e.hist, e.cur)
  PROVE  Backed(e.hist, e.cur, Claim(e)) /\ Shows(e.g, Claim(e))
  <1>1. CASE e.vague \/ ~Sourced(e) \/ Previewed(e)
    <2>1. Claim(e) = Nothing
      BY <1>1 DEF Claim
    <2>2. \A k \in Others : Nothing[k] = <<>>
      BY DEF Nothing, Others
    <2>3. DOMAIN Nothing = Others
      BY DEF Nothing, Others
    <2> QED
      BY <2>1, <2>2, <2>3 DEF Backed, Shows
  <1>2. CASE ~(e.vague \/ ~Sourced(e) \/ Previewed(e))
    <2>1. Ordered(e.hist, e.cur) /\ Unshown(e.hist, e.cur)
      <3>1. ASSUME NEW m \in 1 .. e.cur, NEW k \in Others, k \in {e.hist[m].mod, e.hist[m].from[1]}
            PROVE  Brought(e.hist, k, m)
        BY <1>2, <3>1 DEF Sourced, Known, Brought, Others
      <3> QED
        BY <1>2, <3>1 DEF Ordered, Unshown, Previewed
    <2>2. Tracked(e.g, e.hist, e.cur)
      BY <1>2
    <2> DEFINE c == Claim(e)
    <2>3. DOMAIN View(e.g) = Others
      BY DEF View, Others
    <2>4. c = [k \in Others |-> IF Known(e, k, e.cur) /\ ~Haunted(e, k) THEN View(e.g)[k] ELSE <<>>]
      BY <1>2, <2>3 DEF Claim
    <2>5. DOMAIN c = Others
      BY <2>4
    <2> HIDE DEF c
    <2>6. ASSUME NEW k \in Others, c[k] # <<>>
          PROVE  Kin(e.hist, e.cur, k, c[k]) /\ c[k] = View(e.g)[k]
      <3>1. Known(e, k, e.cur) /\ ~Haunted(e, k) /\ c[k] = View(e.g)[k]
        BY <2>4, <2>6
      <3>2. Brought(e.hist, k, e.cur) /\ ~Ghost(e.hist, e.cur, k)
        BY <3>1 DEF Known, Haunted, Brought, Ghost
      <3>3. Here(e.g, k) /\ c[k] = NetView(Net(e.g), Value(e.g, k), k)
        BY <2>6, <3>1, ViewIs
      <3>4. ASSUME NEW w, NEW v, NetRun(e.hist, e.cur, w), ValRun(e.hist, e.cur, k, v)
            PROVE  c[k] = NetView(w[e.cur], v[e.cur], k)
        <4>1. Net(e.g) = w[e.cur]
          BY <2>1, <2>2, <3>4 DEF Tracked
        <4>2. Value(e.g, k) = v[e.cur]
          BY <2>1, <2>2, <3>2, <3>3, <3>4 DEF Tracked
        <4> QED
          BY <3>3, <4>1, <4>2
      <3> QED
        BY <2>1, <3>1, <3>2, <3>4 DEF Kin
    <2>7. Backed(e.hist, e.cur, c)
      BY <2>6 DEF Backed
    <2>8. Shows(e.g, c)
      BY <2>5, <2>6 DEF Shows
    <2> QED
      BY <2>7, <2>8 DEF c
  <1> QED
    BY <1>1, <1>2

\* What was undone is cut off.
LEMMA CutIs ==
  ASSUME NEW e \in EditStates
  PROVE  LET c == Cut(e)
         IN  /\ c.hist = SubSeq(e.hist, 1, e.cur) /\ c.snap = SubSeq(e.snap, 1, e.cur)
             /\ c.cur = e.cur /\ c.g = e.g /\ c.vague = e.vague
             /\ Len(c.hist) = e.cur /\ Len(c.snap) = e.cur
             /\ \A q \in 1 .. e.cur : c.hist[q] = e.hist[q] /\ c.snap[q] = e.snap[q]
             /\ Items(e) => Items(c)
             /\ \A h : Tracked(h, e.hist, e.cur) => Tracked(h, c.hist, e.cur)
  <1> DEFINE c == Cut(e)
  <1>1. e.cur \in 0 .. Len(e.hist) /\ e.hist \in Seq(Lines) /\ e.snap \in Seq(Views)
        /\ Len(e.snap) = Len(e.hist)
    BY EditFields
  <1>2. /\ c.hist = SubSeq(e.hist, 1, e.cur) /\ c.snap = SubSeq(e.snap, 1, e.cur)
        /\ c.cur = e.cur /\ c.g = e.g /\ c.vague = e.vague
    BY DEF Cut, EditStates
  <1> HIDE DEF c
  <1>3. /\ Len(c.hist) = e.cur /\ Len(c.snap) = e.cur
        /\ \A q \in 1 .. e.cur : c.hist[q] = e.hist[q] /\ c.snap[q] = e.snap[q]
    BY <1>1, <1>2
  <1>4. ASSUME NEW n \in 0 .. e.cur, NEW q \in 1 .. n PROVE c.hist[q] = e.hist[q]
    <2>1. q \in 1 .. e.cur
      BY <1>1
    <2> QED
      BY <1>3, <2>1
  <1>5. ASSUME Items(e), NEW q \in 1 .. Len(c.hist) PROVE Backed(c.hist, q, c.snap[q])
    <2>1. q \in 1 .. Len(e.hist) /\ q \in 0 .. e.cur /\ q \in Nat /\ q \in 1 .. e.cur
      BY <1>1, <1>3
    <2>2. Backed(e.hist, q, e.snap[q])
      BY <1>5, <2>1 DEF Items
    <2>3. \A i \in 1 .. q : c.hist[i] = e.hist[i]
      BY <1>4, <2>1
    <2>4. Backed(c.hist, q, e.snap[q])
      BY <2>1, <2>2, <2>3, BackedAlike
    <2> QED
      BY <1>3, <2>1, <2>4
  <1>6. ASSUME NEW h, Tracked(h, e.hist, e.cur) PROVE Tracked(h, c.hist, e.cur)
    <2>1. e.cur \in Nat /\ \A i \in 1 .. e.cur : c.hist[i] = e.hist[i]
      BY <1>1, <1>3
    <2> QED
      BY <1>6, <2>1, BackedAlike
  <1>7. Items(e) => Items(c)
    BY <1>5 DEF Items
  <1> QED
    BY <1>2, <1>3, <1>6, <1>7 DEF c

\* An item is recorded, or there is no room for it.
LEMMA RecordIs ==
  ASSUME NEW e \in EditStates, NEW l \in Lines
  PROVE  LET r == Record(e, l)
             c == Cut(e)
         IN  \/ r.g = e.g /\ r.hist = c.hist /\ r.snap = c.snap /\ r.vague
             \/ /\ r.g = e.g /\ r.vague = e.vague
                /\ r.hist = Longer(e.hist, e.cur, l) /\ r.cur = e.cur + 1
                /\ \E n : /\ n.g = e.g /\ n.hist = r.hist /\ n.cur = r.cur /\ n.vague = e.vague
                          /\ r.snap = Append(c.snap, Claim(n))
  <1> DEFINE c == Cut(e)
             a == Append(c.hist, l)
             n == [c EXCEPT !.hist = a, !.cur = @ + 1]
             m == [n EXCEPT !.snap = Append(@, Claim(n))]
  <1>1. /\ c \in EditStates /\ c.g = e.g /\ c.hist = SubSeq(e.hist, 1, e.cur)
        /\ c.cur = e.cur /\ c.vague = e.vague
    BY CutType, CutIs
  <1>2. Record(e, l) = IF c.cur >= ItemMax THEN [c EXCEPT !.vague = TRUE] ELSE m
    BY DEF Record, Recording, Once
  <1> HIDE DEF c
  <1>3. CASE c.cur >= ItemMax
    <2>1. LET d == [c EXCEPT !.vague = TRUE]
          IN  d.g = c.g /\ d.hist = c.hist /\ d.snap = c.snap /\ d.vague
      BY <1>1 DEF EditStates
    <2> QED
      BY <1>1, <1>2, <1>3, <2>1 DEF c
  <1>4. CASE ~(c.cur >= ItemMax)
    <2>1. a = Longer(e.hist, e.cur, l)
      BY <1>1 DEF Longer
    <2> HIDE DEF a
    <2>2. n.g = c.g /\ n.hist = a /\ n.cur = c.cur + 1 /\ n.vague = c.vague /\ n.snap = c.snap
      BY <1>1 DEF EditStates
    <2>3. \A x : LET d == [n EXCEPT !.snap = x]
                 IN  d.g = c.g /\ d.hist = a /\ d.cur = c.cur + 1 /\ d.vague = c.vague /\ d.snap = x
      BY <1>1 DEF EditStates
    <2>4. m = [n EXCEPT !.snap = Append(c.snap, Claim(n))]
      BY <1>1 DEF EditStates
    <2> HIDE DEF n
    <2>5. /\ m.g = c.g /\ m.hist = a /\ m.cur = c.cur + 1 /\ m.vague = c.vague
          /\ m.snap = Append(c.snap, Claim(n))
      BY <2>3, <2>4
    <2> HIDE DEF m
    <2> QED
      BY <1>1, <1>2, <1>4, <2>1, <2>2, <2>5 DEF c
  <1> QED
    BY <1>3, <1>4

\* An edit whose graph has gone the way of the line is recorded.
LEMMA RecordApt ==
  ASSUME NEW e \in EditStates, Items(e), NEW l \in Lines,
         ~e.vague => Unique(e.g) /\ Clean(e.g) /\ Tracked(e.g, Longer(e.hist, e.cur, l), e.cur + 1)
  PROVE  Apt(Record(e, l))
  <1> DEFINE r == Record(e, l)
             c == Cut(e)
             as == Longer(e.hist, e.cur, l)
  <1>1. /\ Items(c) /\ Len(c.hist) = e.cur /\ Len(c.snap) = e.cur
        /\ \A q \in 1 .. e.cur : c.hist[q] = e.hist[q] /\ c.snap[q] = e.snap[q]
    BY CutIs
  <1>2. e.cur \in 0 .. Len(e.hist) /\ e.hist \in Seq(Lines) /\ Good(e.g) /\ c.snap \in Seq(Views)
    BY EditFields, CutType
  <1>h. e.hist \in Seq(Lines) /\ Len(e.hist) \in Nat
    BY <1>2
  <1>c. e.cur \in 0 .. Len(e.hist)
    BY <1>2
  <1>3. /\ as \in Seq(Lines) /\ Len(as) = e.cur + 1
        /\ as[e.cur + 1] = l /\ \A q \in 1 .. e.cur : as[q] = e.hist[q]
    BY <1>h, <1>c, LongerIs
  <1>4. \/ r.g = e.g /\ r.hist = c.hist /\ r.snap = c.snap /\ r.vague
        \/ /\ r.g = e.g /\ r.vague = e.vague
           /\ r.hist = as /\ r.cur = e.cur + 1
           /\ \E n : /\ n.g = e.g /\ n.hist = r.hist /\ n.cur = r.cur /\ n.vague = e.vague
                     /\ r.snap = Append(c.snap, Claim(n))
    BY RecordIs
  <1>a. ~e.vague => Unique(e.g) /\ Clean(e.g) /\ Tracked(e.g, as, e.cur + 1)
    OBVIOUS
  <1> HIDE DEF r, c, as
  <1>5. CASE r.g = e.g /\ r.hist = c.hist /\ r.snap = c.snap /\ r.vague
    BY <1>1, <1>5 DEF Apt, Items, r
  <1>6. CASE /\ r.g = e.g /\ r.vague = e.vague
             /\ r.hist = as /\ r.cur = e.cur + 1
             /\ \E n : /\ n.g = e.g /\ n.hist = r.hist /\ n.cur = r.cur /\ n.vague = e.vague
                       /\ r.snap = Append(c.snap, Claim(n))
    <2>1. PICK n : /\ n.g = e.g /\ n.hist = r.hist /\ n.cur = r.cur /\ n.vague = e.vague
                   /\ r.snap = Append(c.snap, Claim(n))
      BY <1>6
    <2> DEFINE d == Claim(n)
    <2>2. n.g = e.g /\ n.hist = as /\ n.cur = e.cur + 1 /\ n.cur \in Nat /\ n.vague = e.vague
      BY <1>2, <1>6, <2>1
    <2>3. Good(n.g) /\ (~n.vague => Tracked(n.g, n.hist, n.cur))
      BY <1>2, <1>a, <2>2
    <2>4. Backed(n.hist, n.cur, d) /\ Shows(n.g, d)
      BY <2>2, <2>3, ClaimIs
    <2>5. Backed(as, e.cur + 1, d) /\ Shows(e.g, d)
      BY <2>2, <2>4
    <2> HIDE DEF d
    <2>6. r.snap = Append(c.snap, d)
      BY <2>1 DEF d
    <2>7. r.snap[e.cur + 1] = d /\ \A q \in 1 .. e.cur : r.snap[q] = c.snap[q]
      BY <1>1, <1>2, <2>6
    <2>8. ASSUME NEW q \in 1 .. Len(r.hist) PROVE Backed(r.hist, q, r.snap[q])
      <3>1. CASE q = e.cur + 1
        BY <1>6, <2>5, <2>7, <3>1
      <3>2. CASE q # e.cur + 1
        <4>1. q \in 1 .. e.cur /\ q \in Nat /\ q \in 1 .. Len(e.hist)
          <5>1. q \in 1 .. e.cur + 1
            BY <1>3, <1>6
          <5> QED
            BY <1>h, <1>c, <3>2, <5>1
        <4>2. Backed(c.hist, q, c.snap[q])
          BY <1>1, <4>1 DEF Items
        <4>3. ASSUME NEW i \in 1 .. q PROVE as[i] = c.hist[i]
          <5>1. i \in 1 .. e.cur
            BY <1>2, <4>1
          <5> QED
            BY <1>1, <1>3, <5>1
        <4>4. Backed(as, q, c.snap[q])
          BY <4>1, <4>2, <4>3, BackedAlike
        <4> QED
          BY <1>6, <2>7, <4>1, <4>4
      <3> QED
        BY <3>1, <3>2
    <2>9. Items(r)
      BY <2>8 DEF Items
    <2> QED
      BY <1>6, <1>a, <2>5, <2>7, <2>9 DEF Apt, r
  <1> QED
    BY <1>4, <1>5, <1>6

-----------------------------------------------------------------------------
(* Edits of connections *)

LEMMA InternalMade ==
  ASSUME NEW h, Good(h), NEW o \in Outputs(h) \cup {Unset}, NEW i \in Inputs(h),
         ~InternalFails(h, o, i)
  PROVE  ConnectInternal(h, o, i).src[i] = o
  <1> DEFINE k == ConnectInternal(h, o, i)
             u == Unlink1(h, i)
  <1>1. ~Refused(h, i) /\ ~Uncounted(h, i) /\ i \in Pins
    BY NotRefused DEF Inputs
  <1>2. CASE h.src[i] = o
    BY <1>2 DEF ConnectInternal
  <1>3. Good(u) /\ SameMods(h, u) /\ u.src[i] = Unset
    <2>1. CASE h.src[i] = Unset
      BY <2>1 DEF Unlink1, Linked, SameMods
    <2>2. CASE h.src[i] # Unset
      <3>u. Opened(h, i, u)
        BY <1>1, <2>2, Unlink1Is
      <3>1. Good(u) /\ SameMods(h, u) /\ u.src = [h.src EXCEPT ![i] = Unset]
        BY <3>u DEF Opened
      <3> QED
        BY <1>1, <3>1, GoodIs DEF Graph
    <2> QED
      BY <2>1, <2>2
  <1>4. CASE h.src[i] # o /\ o = Unset
    <2>1. k = u
      BY <1>1, <1>4 DEF ConnectInternal
    <2> QED
      BY <1>3, <1>4, <2>1
  <1>5. CASE h.src[i] # o /\ o # Unset
    <2>1. k = Join(u, o, i)
      BY <1>1, <1>5 DEF ConnectInternal
    <2>2. ~BadChan(u, o, i) /\ ~BadFmt(u, o, i)
      BY <1>5 DEF InternalFails
    <2> HIDE DEF u, k
    <2>3. o \in Outputs(u) /\ i \in Inputs(u) /\ u \in Graph
      BY <1>3, <1>5, SamePins, GoodIs
    <2>4. o \in Pins /\ o # i
      BY <2>3, InNotOut DEF Outputs
    <2>5. JoinExact(u, o, i, Join(u, o, i))
      BY <1>1, <2>3, <2>4, JoinIs
    <2>6. k.src = [u.src EXCEPT ![i] = o]
      BY <2>1, <2>2, <2>5 DEF JoinExact
    <2> QED
      BY <1>1, <2>3, <2>6 DEF Graph, k
  <1> QED
    BY <1>2, <1>4, <1>5

LEMMA NamedNowhere ==
  ASSUME NEW h \in Graph, NEW o \in Outputs(h) \cup {Unset}
  PROVE  Named(h, o) = Nowhere <=> o = Unset
  <1>1. ASSUME o # Unset PROVE Named(h, o) \in Keys \X Conns
    BY <1>1, NamedType
  <1> QED
    BY <1>1, NowhereType DEF Named

\* The line that is recorded of a connection does to the net what the edit did.
LEMMA LineMade ==
  ASSUME NEW h, Good(h), Unique(h), PreviewFixed(h),
         NEW o \in Outputs(h) \cup {Unset}, NEW i \in Inputs(h), NEW k,
         \/ k = Connect(h, o, i) /\ ~ConnectFails(h, o, i)
         \/ k = Feedback(h, o, i) /\ ~InternalFails(h, o, i)
  PROVE  Advanced(h, k, ConnLine(k, i)) /\ Good(k) /\ SameMods(h, k) /\ k.par = h.par
  <1> DEFINE c == ConnectInternal(h, o, i)
             l == ConnLine(k, i)
             q == Named(h, i)
  <1>1. c.src[i] = o
    BY InternalMade DEF ConnectFails
  <1>2. k.src[i] = o /\ (k = Feedback(h, o, i) => i \in k.fb)
        /\ (k # Feedback(h, o, i) => k = c /\ ~Cyclic(h, o, i))
    <2>1. CASE k = Connect(h, o, i) /\ ~ConnectFails(h, o, i)
      <3>1. k = c
        BY <2>1 DEF Connect, ConnectFails
      <3>2. c \in Graph
        BY ConnectInternalLinking, GoodIs DEF Rewired, Linking
      <3> HIDE DEF c
      <3>3. ASSUME k = Feedback(h, o, i) PROVE i \in k.fb
        BY <3>2, <3>3 DEF Feedback, Graph, c
      <3> QED
        BY <1>1, <2>1, <3>1, <3>3 DEF ConnectFails
    <2>2. CASE k = Feedback(h, o, i)
      <3>1. c \in Graph
        BY ConnectInternalLinking, GoodIs DEF Rewired, Linking
      <3>2. k = [c EXCEPT !.fb = c.fb \cup {i}, !.oob = c.oob \/ o = Unset]
        BY <2>2 DEF Feedback
      <3> HIDE DEF c
      <3>3. k.src = c.src /\ k.fb = c.fb \cup {i}
        BY <3>1, <3>2 DEF Graph
      <3> QED
        BY <1>1, <2>2, <3>3
    <2> QED
      BY <2>1, <2>2
  <1>3. Good(k) /\ SameMods(h, k) /\ k.par = h.par
    <2>1. CASE k = Connect(h, o, i)
      BY <2>1, ConnectGood, ConnectKeeps, ConnectKept, GoodIs
    <2>2. CASE k = Feedback(h, o, i)
      <3>1. Good(k) /\ k.par = h.par
        BY <2>2, FeedbackGood, FeedbackKept, GoodIs
      <3>2. Rewired(h, o, i, c)
        BY ConnectInternalLinking, GoodIs
      <3>3. SameMods(h, c) /\ c \in Graph
        BY <3>2 DEF Rewired, SameMods, Linking
      <3> HIDE DEF c
      <3>4. SameMods(h, k)
        BY <2>2, <3>3 DEF Feedback, SameMods, Graph, c
      <3> QED
        BY <3>1, <3>4
    <2> QED
      BY <2>1, <2>2
  <1>4. /\ l.from = Named(h, o) /\ l.mod = h.mod[i[1]] /\ l.conn = i[2]
        /\ l.cmd = IF i \in k.fb THEN "feedback" ELSE "connect"
        /\ q = <<l.mod, l.conn>>
    <2>1. i # Unset /\ h.mod = k.mod
      BY <1>3, UnsetIsNoPin DEF Inputs, SameMods
    <2>2. Named(k, o) = Named(h, o)
      BY <1>3, SameNames
    <2> QED
      BY <1>2, <2>1, <2>2 DEF ConnLine, Line, Named
  <1> HIDE DEF c, l, q
  <1>5. ASSUME ~(l.mod = Preview /\ l.from # Nowhere /\ Loose(l.from))
        PROVE  Net(k) = NetRead(Net(h), l)
    <2>1. CASE l.mod = Preview
      <3>1. o = Unset \/ ~Loose(Named(h, o))
        BY <1>4, <1>5, <2>1, NamedNowhere, GoodIs
      <3>2. k \in {Connect(h, o, i), Feedback(h, o, i)}
        OBVIOUS
      <3>3. Net(k) = Net(h)
        BY <1>4, <2>1, <3>1, <3>2, PreviewConnects
      <3> QED
        BY <2>1, <3>3 DEF NetRead
    <2>2. CASE l.mod # Preview /\ k = Feedback(h, o, i)
      <3>1. h.mod[i[1]] # Preview
        BY <1>4, <2>2
      <3>2. Net(Feedback(h, o, i)) = NetFeedback(Net(h), Named(h, o), Named(h, i))
        BY <3>1, NetFeedbacks
      <3> QED
        BY <1>2, <1>4, <2>2, <3>2 DEF NetRead, q
    <2>3. CASE l.mod # Preview /\ k # Feedback(h, o, i)
      <3>1. h.mod[i[1]] # Preview
        BY <1>4, <2>3
      <3>2. /\ Net(ConnectInternal(h, o, i)) = NetInternal(Net(h), Named(h, o), Named(h, i))
            /\ Cyclic(h, o, i) <=> NetCyclic(Net(h), Named(h, o), Named(h, i))
        BY <3>1, NetInternals, NetCycles
      <3>3. /\ Net(k) = NetInternal(Net(h), Named(h, o), q) /\ ~NetCyclic(Net(h), Named(h, o), q)
        BY <1>2, <2>3, <3>2 DEF c, q
      <3>4. CASE i \notin k.fb
        BY <1>4, <2>3, <3>3, <3>4 DEF NetRead, NetConnect
      <3>5. CASE i \in k.fb
        <4>1. NetRead(Net(h), l) = NetFeedback(Net(h), Named(h, o), q)
          BY <1>4, <2>3, <3>5 DEF NetRead
        <4>2. NetFeedback(Net(h), Named(h, o), q) =
                IF Net(k).from[q] = Nowhere THEN Net(k)
                ELSE [from |-> Net(k).from, back |-> Net(k).back \cup {q}, form |-> Net(k).form]
          BY <3>3 DEF NetFeedback
        <4>3. q \in Names /\ PinOf(h, q) = i
          BY <3>1, InNamed DEF q
        <4>4. PinOf(k, q) = i
          BY <1>3, <4>3, SameNames
        <4>5. ASSUME Net(k).from[q] # Nowhere PROVE q \in Net(k).back
          BY <3>5, <4>3, <4>4, <4>5, NetFields
        <4>6. Net(k) = [from |-> Net(k).from, back |-> Net(k).back, form |-> Net(k).form]
          BY DEF Net
        <4>7. CASE Net(k).from[q] = Nowhere
          BY <4>1, <4>2, <4>7
        <4>8. CASE Net(k).from[q] # Nowhere
          <5>1. Net(k).back \cup {q} = Net(k).back
            BY <4>5, <4>8
          <5> QED
            BY <4>1, <4>2, <4>6, <4>8, <5>1
        <4> QED
          BY <4>7, <4>8
      <3> QED
        BY <3>4, <3>5
    <2> QED
      BY <2>1, <2>2, <2>3
  <1>6. ASSUME NEW x \in Others, Here(k, x)
        PROVE  Here(h, x) /\ Value(k, x) = ValStep(Value(h, x), x, l)
    <2>1. Here(h, x)
      BY <1>3, <1>6, SameNames
    <2>2. Value(k, x) = Value(h, x)
      BY <1>3, SameValues
    <2> QED
      BY <1>4, <2>1, <2>2 DEF ValStep
  <1> QED
    BY <1>3, <1>5, <1>6 DEF Advanced, l

\* A change that nobody records and that does not show
Alike(h, k) ==
  /\ Net(k) = Net(h)
  /\ \A x \in Others : (Here(k, x) <=> Here(h, x)) /\ Value(k, x) = Value(h, x)

LEMMA AlikeKept ==
  ASSUME NEW h, Good(h), NEW k, Good(k), Alike(h, k)
  PROVE  /\ \A ls, n : Tracked(h, ls, n) => Tracked(k, ls, n)
         /\ \A v \in Views : Shows(h, v) => Shows(k, v)
  <1>1. ASSUME NEW ls, NEW n, Tracked(h, ls, n) PROVE Tracked(k, ls, n)
    BY <1>1 DEF Tracked, Alike
  <1>2. \A x \in Others : View(k)[x] = View(h)[x]
    BY ViewIs DEF Alike
  <1>3. ASSUME NEW v \in Views, Shows(h, v) PROVE Shows(k, v)
    <2>1. DOMAIN v = Others
      BY DEF Views, Others
    <2> QED
      BY <1>2, <1>3, <2>1 DEF Shows
  <1> QED
    BY <1>1, <1>3

LEMMA AlikeSame ==
  ASSUME NEW h, NEW k, SameMods(h, k), k.par = h.par, Net(k) = Net(h)
  PROVE  Alike(h, k)
  BY SameNames, SameValues DEF Alike

\* Releasing the preview does not show.
LEMMA NoPreviewAlike ==
  ASSUME NEW h, Good(h), Unique(h)
  PROVE  LET k == NoPreview(h)
         IN  /\ Alike(h, k) /\ PreviewFixed(k) /\ Good(k) /\ SameMods(h, k) /\ Unique(k)
             /\ k.par = h.par
             /\ Clean(h) => Clean(k)
  <1> DEFINE k == NoPreview(h)
  <1>1. /\ Net(k) = Net(h) /\ PreviewFixed(k)
        /\ Good(k) /\ SameMods(h, k) /\ Unique(k)
        /\ k = h \/ \E i \in Inputs(h) : h.src[i] # Unset /\ k = Unlink1(h, i)
    BY NoPreviewNet
  <1> HIDE DEF k
  <1>2. k.par = h.par /\ (Clean(h) => Clean(k))
    <2>1. CASE k = h
      BY <2>1
    <2>2. ASSUME NEW i \in Inputs(h), h.src[i] # Unset, k = Unlink1(h, i)
          PROVE  k.par = h.par /\ (Clean(h) => Clean(k))
      <3>1. i \in Pins
        BY DEF Inputs
      <3> QED
        BY <2>2, <3>1, Unlink1Is, UnlinkClean DEF Opened
    <2> QED
      BY <1>1, <2>1, <2>2
  <1> QED
    BY <1>1, <1>2, AlikeSame DEF k

\* An edit promises nothing any more, or its graph changes without showing it.
LEMMA UnrecordedApt ==
  ASSUME NEW e \in EditStates, Apt(e), NEW f \in EditStates,
         f.hist = e.hist, f.snap = e.snap, f.cur = e.cur,
         ~f.vague => ~e.vague /\ Alike(e.g, f.g) /\ Unique(f.g) /\ Clean(f.g)
  PROVE  Apt(f)
  <1>1. Items(f)
    BY DEF Apt, Items
  <1>2. ASSUME ~f.vague
        PROVE  Tracked(f.g, f.hist, f.cur) /\ (f.cur > 0 => Shows(f.g, f.snap[f.cur]))
    <2>1. /\ Tracked(e.g, e.hist, e.cur) /\ (e.cur > 0 => Shows(e.g, e.snap[e.cur]))
          /\ Good(e.g) /\ Good(f.g) /\ Alike(e.g, f.g)
      BY <1>2, EditFields DEF Apt
    <2>2. ASSUME e.cur > 0 PROVE e.snap[e.cur] \in Views
      <3>1. e.snap \in Seq(Views) /\ e.cur \in 0 .. Len(e.hist) /\ Len(e.snap) = Len(e.hist)
        BY EditFields
      <3>2. e.cur \in 1 .. Len(e.snap)
        BY <2>2, <3>1
      <3> QED
        BY <3>1, <3>2
    <2>3. /\ \A ls, n : Tracked(e.g, ls, n) => Tracked(f.g, ls, n)
          /\ \A v \in Views : Shows(e.g, v) => Shows(f.g, v)
      BY <2>1, AlikeKept
    <2> QED
      BY <2>1, <2>2, <2>3
  <1> QED
    BY <1>1, <1>2 DEF Apt

\* A connection that the user makes, breaks or fails to make, and feedback
LEMMA ConnectEditApt ==
  ASSUME NEW e \in EditStates, Apt(e), NEW o \in Outputs(e.g) \cup {Unset}, NEW i \in Inputs(e.g)
  PROVE  Apt(ConnectEdit(e, o, i))
  <1> DEFINE h == NoPreview(e.g)
             k == Connect(h, o, i)
             x == [e EXCEPT !.g = k, !.vague = @ \/ k # h]
             y == [e EXCEPT !.g = k]
             l == ConnLine(k, i)
  <1>1. Good(e.g) /\ e.vague \in BOOLEAN
    BY EditFields
  <1>2. Good(h) /\ SameMods(e.g, h)
    BY <1>1, NoPreviewGood DEF Loosened
  <1>3. o \in Outputs(h) \cup {Unset} /\ i \in Inputs(h)
    BY <1>2, SamePins
  <1>4. ConnectEdit(e, o, i) = IF ConnectFails(h, o, i) THEN x ELSE Record(y, l)
    BY ConnectEditIs
  <1>v. ~e.vague => Unique(e.g) /\ Clean(e.g) /\ Tracked(e.g, e.hist, e.cur)
    BY DEF Apt
  <1>5. ~e.vague => /\ Alike(e.g, h) /\ PreviewFixed(h) /\ Unique(h) /\ Clean(h)
    BY <1>1, <1>v, NoPreviewAlike
  <1> HIDE DEF h
  <1>6. Good(k) /\ SameMods(h, k)
    BY <1>2, <1>3, ConnectGood, ConnectKeeps
  <1>7. i \in Inputs(k)
    BY <1>3, <1>6, SamePins
  <1>8. x \in EditStates /\ y \in EditStates
    <2> DEFINE b == e.vague \/ k # h
    <2>1. b \in BOOLEAN /\ x = [e EXCEPT !.g = k, !.vague = b]
      BY <1>1 DEF EditStates
    <2> HIDE DEF b, x, k
    <2> QED
      BY <1>6, <2>1, EditGraph
  <1>9. /\ x.g = k /\ x.hist = e.hist /\ x.snap = e.snap /\ x.cur = e.cur
        /\ x.vague = (e.vague \/ k # h)
        /\ y.g = k /\ y.hist = e.hist /\ y.snap = e.snap /\ y.cur = e.cur /\ y.vague = e.vague
    <2> HIDE DEF k
    <2> QED
      BY DEF EditStates
  <1>10. l \in Lines
    BY <1>6, <1>7, ConnLineType
  <1>11. CASE ConnectFails(h, o, i)
    <2>1. ASSUME ~x.vague PROVE ~e.vague /\ k = h
      BY <1>9, <2>1
    <2> HIDE DEF x, y, k, l
    <2>2. Apt(x)
      BY <1>5, <1>8, <1>9, <2>1, UnrecordedApt
    <2> QED
      BY <1>4, <1>11, <2>2
  <1>12. CASE ~ConnectFails(h, o, i)
    <2>1. ASSUME ~e.vague
          PROVE  Unique(k) /\ Clean(k) /\ Tracked(k, Longer(e.hist, e.cur, l), e.cur + 1)
      <3>1. Clean(k)
        BY <1>2, <1>3, <1>5, <1>12, <2>1, ConnectClean
      <3>2. Unique(k)
        BY <1>5, <1>6, <2>1, SameNames
      <3>3. Advanced(h, k, l)
        BY <1>2, <1>3, <1>5, <1>12, <2>1, LineMade
      <3>4. Tracked(h, e.hist, e.cur)
        BY <1>1, <1>2, <1>5, <1>v, <2>1, AlikeKept
      <3>5. e.hist \in Seq(Lines) /\ e.cur \in 0 .. Len(e.hist)
        BY EditFields
      <3> HIDE DEF k, l
      <3>6. Tracked(k, Longer(e.hist, e.cur, l), e.cur + 1)
        BY <1>10, <3>3, <3>4, <3>5, TrackedOn
      <3> QED
        BY <3>1, <3>2, <3>6
    <2>2. Items(y)
      BY <1>9 DEF Apt, Items
    <2> HIDE DEF x, y, k, l
    <2>3. ~y.vague => Unique(y.g) /\ Clean(y.g) /\ Tracked(y.g, Longer(y.hist, y.cur, l), y.cur + 1)
      BY <1>9, <2>1
    <2>4. Apt(Record(y, l))
      BY <1>8, <1>10, <2>2, <2>3, RecordApt
    <2> QED
      BY <1>4, <1>12, <2>4
  <1> QED
    BY <1>11, <1>12

LEMMA IsState ==
  ASSUME NEW e \in EditStates, Is(e)
  PROVE  State' = e
  <1>1. g' = e.g /\ hist' = e.hist /\ cur' = e.cur /\ snap' = e.snap /\ vague' = e.vague
    BY DEF Is
  <1>2. State' = [g |-> e.g, hist |-> e.hist, cur |-> e.cur, snap |-> e.snap, vague |-> e.vague]
    BY <1>1 DEF State
  <1>3. e = [g |-> e.g, hist |-> e.hist, cur |-> e.cur, snap |-> e.snap, vague |-> e.vague]
    BY DEF EditStates
  <1> QED
    BY <1>2, <1>3

LEMMA ConnectingApt ==
  ASSUME State \in EditStates, Apt(State), NEW o, NEW i, Connecting(o, i)
  PROVE  Apt(State')
  <1>1. State.g = g
    BY DEF State
  <1>2. o \in Outputs(State.g) \cup {Unset} /\ i \in Inputs(State.g) /\ Is(ConnectEdit(State, o, i))
    BY <1>1 DEF Connecting
  <1>3. ConnectEdit(State, o, i) \in EditStates /\ Apt(ConnectEdit(State, o, i))
    BY <1>2, ConnectEditType, ConnectEditApt
  <1>4. State' = ConnectEdit(State, o, i)
    BY <1>2, <1>3, IsState
  <1> QED
    BY <1>3, <1>4

\* An edit of the graph alone
LEMMA OnlyGraph ==
  ASSUME NEW e \in EditStates, NEW h, NEW b
  PROVE  LET n == [e EXCEPT !.g = h, !.vague = b]
         IN  n.g = h /\ n.vague = b /\ n.hist = e.hist /\ n.cur = e.cur /\ n.snap = e.snap
  BY DEF EditStates

LEMMA FeedbackEditApt ==
  ASSUME State \in EditStates, Apt(State), NEW o, NEW i, FeedbackEdit(o, i)
  PROVE  Apt(State')
  <1> DEFINE h == Feedback(g, o, i)
             b == State.vague \/ Bound(g)
             n == [State EXCEPT !.g = h, !.vague = b]
             m == [n EXCEPT !.vague = TRUE]
             l == ConnLine(h, i)
  <1>1. Good(g) /\ o \in Outputs(g) /\ i \in Inputs(g) /\ State.g = g
    BY StateFields DEF FeedbackEdit, State
  <1>b. b \in BOOLEAN
    BY EditFields DEF Bound
  <1>2. Good(h)
    BY <1>1, FeedbackGood
  <1>3. i \in Inputs(h)
    <2>1. Rewired(g, o, i, ConnectInternal(g, o, i)) /\ g \in Graph
      BY <1>1, ConnectInternalLinking DEF Good, Sound, Linking
    <2>2. h.num = g.num /\ h.mod = g.mod
      BY <2>1 DEF Feedback, Rewired, Graph
    <2> QED
      BY <1>1, <2>2, SameModules
  <1>4. Is(IF InternalFails(g, o, i) THEN m ELSE Record(n, ConnLine(n.g, i)))
    BY DEF FeedbackEdit, State
  <1>5. ~b => Unique(g) /\ Clean(g) /\ Tracked(g, State.hist, State.cur) /\ PreviewFixed(g)
    <2>1. ASSUME ~b PROVE Unique(g) /\ Clean(g) /\ Tracked(g, State.hist, State.cur) /\ ~Bound(g)
      BY <1>1, <2>1 DEF Apt
    <2> QED
      BY <1>1, <2>1, BoundFixed
  <1>6. l \in Lines
    BY <1>2, <1>3, ConnLineType
  <1> HIDE DEF b
  <1>7. ASSUME ~b, ~InternalFails(g, o, i)
        PROVE  Unique(h) /\ Clean(h) /\ Tracked(h, Longer(State.hist, State.cur, l), State.cur + 1)
    <2>1. Clean(h)
      BY <1>1, <1>5, <1>7, ConnectClean
    <2>2. Advanced(g, h, l) /\ SameMods(g, h)
      BY <1>1, <1>5, <1>7, LineMade
    <2>3. Unique(h)
      BY <1>5, <1>7, <2>2, SameNames
    <2>4. State.hist \in Seq(Lines) /\ State.cur \in 0 .. Len(State.hist)
      BY EditFields
    <2> HIDE DEF h, l
    <2>5. Tracked(h, Longer(State.hist, State.cur, l), State.cur + 1)
      BY <1>5, <1>6, <1>7, <2>2, <2>4, TrackedOn
    <2> QED
      BY <2>1, <2>3, <2>5
  <1> HIDE DEF h
  <1>8. n \in EditStates
    BY <1>2, <1>b, EditGraph
  <1>9. n.g = h /\ n.vague = b /\ n.hist = State.hist /\ n.cur = State.cur /\ n.snap = State.snap
    BY OnlyGraph
  <1> HIDE DEF n
  <1>10. m \in EditStates /\ m.vague /\ m.hist = n.hist /\ m.cur = n.cur /\ m.snap = n.snap
    <2>1. m \in EditStates
      BY <1>8, <1>2, EditGraph
    <2> QED
      BY <1>8, <2>1 DEF EditStates
  <1> HIDE DEF m, l
  <1>11. CASE InternalFails(g, o, i)
    <2>1. Apt(m)
      BY <1>9, <1>10, UnrecordedApt
    <2>2. State' = m
      BY <1>4, <1>10, <1>11, IsState
    <2> QED
      BY <2>1, <2>2
  <1>12. CASE ~InternalFails(g, o, i)
    <2>1. Items(n)
      BY <1>9 DEF Apt, Items
    <2>2. ~n.vague => Unique(n.g) /\ Clean(n.g) /\ Tracked(n.g, Longer(n.hist, n.cur, l), n.cur + 1)
      BY <1>7, <1>9, <1>12
    <2>3. Apt(Record(n, l)) /\ Record(n, l) \in EditStates
      BY <1>6, <1>8, <2>1, <2>2, RecordApt, RecordType
    <2>4. Is(Record(n, l))
      BY <1>4, <1>9, <1>12 DEF l
    <2>5. State' = Record(n, l)
      BY <2>3, <2>4, IsState
    <2> QED
      BY <2>3, <2>5
  <1> QED
    BY <1>11, <1>12

LEMMA AddEditApt ==
  ASSUME KnownClasses, Numbers, State \in EditStates, Apt(State),
         NEW k \in Keys, AddEdit(k)
  PROVE  Apt(State')
  <1> DEFINE h == Added(g, k)
             b == State.vague \/ ~Unique(h)
             n == [State EXCEPT !.g = h, !.vague = b]
             s == AddId(g, k)
             l == ModuleLine(h, s)
  <1>1. Good(g) /\ State.vague \in BOOLEAN /\ State.g = g
    BY StateFields, EditFields DEF State
  <1>2. Good(h) /\ b \in BOOLEAN
    BY <1>1, AddedGood
  <1>3. Is(IF s = -1 THEN n ELSE Record(n, ModuleLine(n.g, s)))
    BY DEF AddEdit, State
  <1>4. ~b => Unique(h) /\ Unique(g) /\ Clean(g) /\ Clean(h) /\ Tracked(g, State.hist, State.cur)
    <2>1. ASSUME ~b PROVE Unique(h) /\ Unique(g) /\ Clean(g) /\ Tracked(g, State.hist, State.cur)
      BY <1>1, <2>1 DEF Apt
    <2> QED
      BY <1>1, <2>1, AddedNet
  <1> HIDE DEF b
  <1>5. n \in EditStates
    <2> HIDE DEF h
    <2> QED
      BY <1>2, EditGraph
  <1>6. n.g = h /\ n.vague = b /\ n.hist = State.hist /\ n.cur = State.cur /\ n.snap = State.snap
    BY OnlyGraph
  <1> HIDE DEF n
  <1>7. CASE s = -1
    <2>1. h = g
      <3>1. CASE Exists(g, k)
        BY <3>1 DEF Added
      <3>2. CASE ~Exists(g, k) /\ Full(g, k)
        BY <3>2 DEF Added
      <3>3. CASE ~Exists(g, k) /\ ~Full(g, k)
        <4>1. s = AddSlot(g, k)
          BY <3>3 DEF AddId, KnownClasses
        <4>2. AddSlot(g, k) \in Slots
          BY <1>1, <3>3, GoodIs, AddedIs
        <4> QED
          BY <1>7, <4>1, <4>2, SlotsType
      <3> QED
        BY <3>1, <3>2, <3>3
    <2> HIDE DEF h, s
    <2>2. Alike(g, g)
      BY DEF Alike
    <2>3. ~n.vague => ~State.vague /\ Alike(State.g, n.g) /\ Unique(n.g) /\ Clean(n.g)
      BY <1>1, <1>4, <1>6, <2>1, <2>2 DEF b
    <2>4. Apt(n)
      BY <1>5, <1>6, <2>3, UnrecordedApt
    <2>5. State' = n
      BY <1>3, <1>5, <1>7, IsState
    <2> QED
      BY <2>4, <2>5
  <1>8. CASE s # -1
    <2>1. s \in Live(h) /\ h \in Graph /\ h.mod[s] = k
      BY <1>1, <1>2, <1>8, AddedKeeps, GoodIs
    <2>2. ASSUME ~b
          PROVE  Tracked(h, Longer(State.hist, State.cur, l), State.cur + 1)
      <3>1. /\ Net(h) = Net(g) /\ \A x \in Keys : Value(h, x) = Value(g, x)
            /\ \A x \in Keys : Here(h, x) => Here(g, x) \/ x = k
        BY <1>1, <1>4, <2>2, AddedNet
      <3>2. l.cmd = "module" /\ l.mod = k
        BY <2>1 DEF ModuleLine, Line
      <3> HIDE DEF h, l
      <3>3. ASSUME NEW x \in Others, Here(h, x)
            PROVE  \/ Here(g, x) /\ Value(h, x) = ValStep(Value(g, x), x, l)
                   \/ ~Here(g, x) /\ l.cmd = "module" /\ l.mod = x /\ Value(h, x) = Default
        <4>1. x \in Keys
          BY DEF Others
        <4>2. CASE Here(g, x)
          BY <3>1, <3>2, <4>1, <4>2 DEF ValStep
        <4>3. CASE ~Here(g, x)
          <5>1. Value(g, x) = Default
            BY <4>3 DEF Value
          <5> QED
            BY <3>1, <3>2, <3>3, <4>1, <4>3, <5>1
        <4> QED
          BY <4>2, <4>3
      <3>4. Net(h) = NetRead(Net(g), l)
        BY <3>1, <3>2 DEF NetRead
      <3>5. Advanced(g, h, l)
        BY <3>3, <3>4 DEF Advanced
      <3>6. State.hist \in Seq(Lines) /\ State.cur \in 0 .. Len(State.hist)
        BY EditFields
      <3>7. l \in Lines
        BY <2>1, SlotLineType DEF l
      <3> QED
        BY <1>4, <2>2, <3>5, <3>6, <3>7, TrackedOn
    <2> HIDE DEF h, s
    <2>3. l \in Lines
      BY <2>1, SlotLineType
    <2>4. Items(n)
      BY <1>6 DEF Apt, Items
    <2> HIDE DEF l
    <2>5. ~n.vague => Unique(n.g) /\ Clean(n.g) /\ Tracked(n.g, Longer(n.hist, n.cur, l), n.cur + 1)
      BY <1>4, <1>6, <2>2
    <2>6. Apt(Record(n, l)) /\ Record(n, l) \in EditStates
      BY <1>5, <2>3, <2>4, <2>5, RecordApt, RecordType
    <2>7. Is(Record(n, l))
      BY <1>3, <1>6, <1>8 DEF l
    <2>8. State' = Record(n, l)
      BY <2>6, <2>7, IsState
    <2> QED
      BY <2>6, <2>8
  <1> QED
    BY <1>7, <1>8

\* The preview shows an output, which changes no format.
LEMMA ActivateApt ==
  ASSUME KnownClasses, State \in EditStates, Apt(State), State' \in EditStates,
         NEW o, Activate(o)
  PROVE  Apt(State')
  <1> DEFINE h == Added(g, Preview)
             s == AddId(g, Preview)
             i == <<s, 0>>
             f == State'
  <1>1. Good(g) /\ Good(g') /\ g' \in Graph
    <2>1. Good(State'.g) /\ State'.g = g'
      BY EditFields DEF State
    <2> QED
      BY <2>1, StateFields, GoodIs
  <1>2. /\ o \in Outputs(g) /\ s # -1 /\ g' = Connect(h, o, i)
        /\ hist' = hist /\ cur' = cur /\ snap' = snap /\ vague' = (vague \/ Unclear(g'))
    BY DEF Activate
  <1>3. Preview \in Keys /\ Class[Preview][0].io = "in" /\ 0 \in Conns
    BY HistoryAssumption, SizeType DEF Activate, Conns
  <1>4. Good(h)
    BY <1>1, <1>3, AddedGood
  <1>5. s \in Live(h) /\ h.mod[s] = Preview /\ o \in Outputs(h)
    BY <1>1, <1>2, <1>3, AddedKeeps
  <1> HIDE DEF s
  <1>6. i \in Inputs(h) /\ h.mod[i[1]] = Preview
    <2>1. s \in Slots /\ h.mod[s] # NoKey
      BY <1>5 DEF Live, Used
    <2> QED
      BY <1>3, <1>5, <2>1 DEF Inputs, IsIn, PinClass, Pins
  <1> HIDE DEF i
  <1>7. /\ f.g = g' /\ f.hist = hist /\ f.cur = cur /\ f.snap = snap
        /\ f.vague = (vague \/ Unclear(g'))
        /\ State.g = g /\ State.hist = hist /\ State.cur = cur /\ State.snap = snap
        /\ State.vague = vague
    BY <1>2 DEF State
  <1>8. ASSUME ~vague, ~Unclear(g')
        PROVE  Alike(g, g') /\ Unique(g') /\ Clean(g')
    <2>1. Unique(g') /\ Clean(g')
      BY <1>1, <1>8, CleanIs, GoodIs DEF Unclear
    <2>2. Clean(g)
      BY <1>7, <1>8 DEF Apt
    <2>3. SameMods(h, g')
      BY <1>2, <1>4, <1>5, <1>6, ConnectKeeps
    <2>4. Unique(h)
      <3>1. SameMods(g', h)
        BY <2>3 DEF SameMods
      <3> HIDE DEF h
      <3> QED
        BY <2>1, <3>1, SameNames
    <2>5. /\ Net(h) = Net(g) /\ Grown(g, h) /\ Clean(h)
          /\ \A x \in Keys : Value(h, x) = Value(g, x)
          /\ \A x \in Keys : Here(h, x) => Here(g, x) \/ x = Preview
      BY <1>1, <1>3, <2>2, <2>4, AddedNet
    <2>6. h \in Graph /\ g \in Graph
      BY <1>1, <1>4, GoodIs
    <2> HIDE DEF h
    <2>7. \A x \in Keys : Here(g, x) => Here(h, x)
      BY <2>4, <2>5, <2>6, GrownNames
    <2>8. Net(g') = Net(h)
      BY <1>2, <1>4, <1>5, <1>6, <2>1, <2>5, PreviewShows
    <2>9. g'.par = h.par
      BY <1>2, <1>4, <1>5, <1>6, ConnectKept, GoodIs
    <2>10. /\ \A x : Here(g', x) <=> Here(h, x)
           /\ \A x : Value(g', x) = Value(h, x)
      BY <2>3, <2>9, SameNames, SameValues
    <2>11. Alike(g, g')
      BY <2>5, <2>7, <2>8, <2>10 DEF Alike, Others
    <2> QED
      BY <2>1, <2>11
  <1> HIDE DEF f
  <1>9. f \in EditStates
    BY DEF f
  <1>10. f.hist = State.hist /\ f.snap = State.snap /\ f.cur = State.cur
    BY <1>7
  <1>11. ~f.vague => ~State.vague /\ Alike(State.g, f.g) /\ Unique(f.g) /\ Clean(f.g)
    BY <1>7, <1>8
  <1>12. Apt(f)
    BY <1>9, <1>10, <1>11, UnrecordedApt
  <1> QED
    BY <1>12 DEF f

\* A value is incremented by a line, which is recorded.
LEMMA LineEditApt ==
  ASSUME KnownClasses, Numbers, State \in EditStates, Apt(State), NEW s, LineEdit(s)
  PROVE  Apt(State')
  <1> DEFINE l == Line("paraminc", g.mod[s], 0, Nowhere, 1)
             h == ReadLine(g, l)
             n == [State EXCEPT !.g = h]
  <1>1. Good(g) /\ g \in Graph /\ s \in Live(g) /\ State.g = g
    BY StateFields DEF LineEdit, State
  <1>2. g.mod[s] \in Keys /\ 0 \in Conns
    BY <1>1, SizeType DEF Graph, Live, Used, Conns
  <1>3. l \in Lines /\ l.cmd = "paraminc" /\ l.mod = g.mod[s]
    BY <1>2 DEF Line, Lines
  <1>4. Is(Record(n, l))
    BY DEF LineEdit
  <1> HIDE DEF l
  <1>5. Good(h)
    BY <1>1, <1>3, ReadLineGood
  <1>6. Here(g, g.mod[s])
    BY <1>1, <1>2, HereLive
  <1>7. /\ Net(h) = Net(g) /\ SameMods(g, h) /\ (Clean(g) => Clean(h))
        /\ \A x \in Others : Value(h, x) = ValStep(Value(g, x), x, l)
    BY <1>1, <1>3, <1>6, ParamStep
  <1> HIDE DEF h
  <1>8. n \in EditStates
    BY <1>5, EditGraph
  <1>9. n.g = h /\ n.vague = vague /\ n.hist = hist /\ n.cur = cur /\ n.snap = snap
    BY DEF State
  <1> HIDE DEF n
  <1>10. /\ State.hist = hist /\ State.cur = cur /\ State.vague = vague /\ State.snap = snap
    BY DEF State
  <1>11. ASSUME ~vague PROVE Unique(h) /\ Clean(h) /\ Tracked(h, Longer(hist, cur, l), cur + 1)
    <2>1. Unique(g) /\ Clean(g) /\ Tracked(g, hist, cur)
      BY <1>1, <1>10, <1>11 DEF Apt
    <2>2. Unique(h)
      BY <1>7, <2>1, SameNames
    <2>3. Net(h) = NetRead(Net(g), l)
      BY <1>3, <1>7 DEF NetRead
    <2>4. \A x : Here(h, x) <=> Here(g, x)
      BY <1>7, SameNames
    <2>5. Advanced(g, h, l)
      BY <1>7, <2>3, <2>4 DEF Advanced
    <2>6. hist \in Seq(Lines) /\ cur \in 0 .. Len(hist)
      BY StateFields
    <2>7. Tracked(h, Longer(hist, cur, l), cur + 1)
      BY <1>3, <2>1, <2>5, <2>6, TrackedOn
    <2> QED
      BY <1>7, <2>1, <2>2, <2>7
  <1>12. Items(n)
    BY <1>9, <1>10 DEF Apt, Items
  <1>13. ~n.vague => Unique(n.g) /\ Clean(n.g) /\ Tracked(n.g, Longer(n.hist, n.cur, l), n.cur + 1)
    BY <1>9, <1>11
  <1>14. Apt(Record(n, l)) /\ Record(n, l) \in EditStates
    BY <1>3, <1>8, <1>12, <1>13, RecordApt, RecordType
  <1>15. State' = Record(n, l)
    BY <1>4, <1>14, IsState
  <1> QED
    BY <1>14, <1>15

-----------------------------------------------------------------------------
(* A value in the history is replaced *)

LEMMA GreatestOf ==
  ASSUME NEW n \in Nat, NEW S \in SUBSET (1 .. n), S # {}
  PROVE  \E x \in S : \A y \in S : y <= x
  <1> DEFINE T == {n - y : y \in S}
  <1>1. T \in SUBSET Nat /\ T # {}
    <2>1. \A y \in S : y \in Nat /\ y <= n /\ n - y \in Nat
      OBVIOUS
    <2>2. \A u \in T : u \in Nat
      BY <2>1
    <2>3. PICK y \in S : TRUE
      OBVIOUS
    <2>4. n - y \in T
      OBVIOUS
    <2> HIDE DEF T
    <2> QED
      BY <2>2, <2>4
  <1>2. PICK t \in T : \A u \in T : t <= u
    <2> HIDE DEF T
    <2> QED
      BY <1>1, NatMin
  <1>3. PICK x \in S : t = n - x
    OBVIOUS
  <1>4. ASSUME NEW y \in S PROVE y <= x
    <2>1. t <= n - y
      BY <1>2
    <2> QED
      BY <1>3, <2>1
  <1> QED
    BY <1>4

\* What the user saw with the new value
Renewed(v, l) == IF v[l.mod] = <<>> THEN v ELSE [v EXCEPT ![l.mod].par = l.val]
Blurred(ls, j, n, l) == \E q \in j + 1 .. n : ls[q].cmd = "paraminc" /\ ls[q].mod = l.mod
Replacing(e, r, j, l) ==
  LET c == Cut(e)
      blur == Blurred(c.hist, j, e.cur, l)
  IN  /\ j \in 1 .. e.cur
      /\ SameParam(c.hist[j], l.mod)
      /\ \A q \in j + 1 .. e.cur : ~SameParam(c.hist[q], l.mod)
      /\ r.g = e.g /\ r.cur = e.cur /\ r.hist = [c.hist EXCEPT ![j] = l]
      /\ r.vague = (e.vague \/ blur)
      /\ r.snap = [q \in 1 .. e.cur |-> IF q < j THEN c.snap[q]
                                        ELSE IF blur THEN Nothing ELSE Renewed(c.snap[q], l)]

\* RecordParam takes the last such line, or records another one.
LEMMA RecordParamIs ==
  ASSUME NEW e \in EditStates, NEW l \in Lines, NEW recent
  PROVE  LET r == RecordParam(e, l, recent)
         IN  r = Record(e, l) \/ \E j : Replacing(e, r, j, l)
  <1> DEFINE c == Cut(e)
             R == Replaced(c, l)
             j == CHOOSE r \in R : \A q \in R : q <= r
             blur == Blurred(c.hist, j, c.cur, l)
             v == [q \in DOMAIN c.snap |-> IF q < j THEN c.snap[q]
                                          ELSE IF blur THEN Nothing ELSE Renewed(c.snap[q], l)]
             f == [c EXCEPT !.hist[j] = l, !.vague = @ \/ blur, !.snap = v]
  <1>1. RecordParam(e, l, recent) = IF c.cur >= ItemMax \/ ~recent \/ R = {} THEN Record(e, l) ELSE f
    BY DEF RecordParam, Renewed, Blurred
  <1>2. c \in EditStates /\ c.g = e.g /\ c.cur = e.cur /\ c.vague = e.vague /\ Len(c.snap) = e.cur
        /\ Len(c.hist) = e.cur /\ c.snap \in Seq(Views) /\ e.cur \in Nat
    BY CutType, CutIs, EditFields
  <1> HIDE DEF c
  <1>3. SUFFICES ASSUME R # {} PROVE Replacing(e, f, j, l)
    BY <1>1
  <1>4. R \in SUBSET (1 .. e.cur)
    BY <1>2 DEF Replaced
  <1>5. \E x \in R : \A y \in R : y <= x
    <2> HIDE DEF R
    <2> QED
      BY <1>2, <1>3, <1>4, GreatestOf
  <1>6. j \in R /\ \A y \in R : y <= j
    <2> HIDE DEF R
    <2> QED
      BY <1>5
  <1>7. /\ j \in 1 .. e.cur /\ j > e.cur - LookBack /\ SameParam(c.hist[j], l.mod)
        /\ LookBack \in Nat
    BY <1>2, <1>6, HistoryAssumption DEF Replaced
  <1> HIDE DEF j
  <1>8. ASSUME NEW q \in j + 1 .. e.cur PROVE ~SameParam(c.hist[q], l.mod)
    <2>1. q \notin R
      <3> HIDE DEF R
      <3>1. ~(q <= j)
        BY <1>2, <1>7
      <3> QED
        BY <1>6, <3>1
    <2>2. q \in 1 .. e.cur /\ q > e.cur - LookBack
      BY <1>2, <1>7
    <2> QED
      BY <1>2, <2>1, <2>2 DEF Replaced
  <1>9. DOMAIN c.snap = 1 .. e.cur
    BY <1>2
  <1> HIDE DEF blur, v, R
  <1>10. /\ f.g = c.g /\ f.cur = c.cur /\ f.hist = [c.hist EXCEPT ![j] = l]
         /\ f.vague = (c.vague \/ blur) /\ f.snap = v
    BY <1>2 DEF EditStates
  <1>11. v = [q \in 1 .. e.cur |-> IF q < j THEN c.snap[q]
                                   ELSE IF blur THEN Nothing ELSE Renewed(c.snap[q], l)]
    BY <1>9 DEF v
  <1>12. blur <=> Blurred(c.hist, j, e.cur, l)
    BY <1>2 DEF blur
  <1> HIDE DEF f
  <1> QED
    BY <1>2, <1>7, <1>8, <1>10, <1>11, <1>12 DEF Replacing, c

\* Line j is another line about the same value, the last one among the first n.
Swapped(ls, as, n, j, l) ==
  /\ n \in Nat /\ j \in 1 .. n
  /\ as[j] = l /\ \A q \in 1 .. n : q # j => as[q] = ls[q]
  /\ l.cmd = "param" /\ ls[j].cmd = "param" /\ ls[j].mod = l.mod
  /\ l.from = Nowhere /\ ls[j].from = Nowhere
  /\ l.mod \in WithParam
  /\ \A q \in j + 1 .. n : ls[q].mod # l.mod \/ ls[q].cmd \notin {"param", "paraminc"}

\* Everything but the value is as before.
LEMMA SwappedSame ==
  ASSUME NEW ls, NEW as, NEW n, NEW j, NEW l, Swapped(ls, as, n, j, l), NEW m \in 0 .. n
  PROVE  /\ Ordered(as, m) <=> Ordered(ls, m)
         /\ Unshown(as, m) <=> Unshown(ls, m)
         /\ \A k : (Brought(as, k, m) <=> Brought(ls, k, m)) /\ (Ghost(as, m, k) <=> Ghost(ls, m, k))
         /\ \A w : NetRun(as, m, w) <=> NetRun(ls, m, w)
         /\ \A k, v : k # l.mod => (ValRun(as, m, k, v) <=> ValRun(ls, m, k, v))
  <1>1. ASSUME NEW q \in 1 .. n
        PROVE  /\ as[q].cmd = ls[q].cmd /\ as[q].mod = ls[q].mod /\ as[q].from = ls[q].from
               /\ \A w : NetRead(w, as[q]) = NetRead(w, ls[q])
               /\ \A k, v : k # l.mod => ValStep(v, k, as[q]) = ValStep(v, k, ls[q])
    <2>1. CASE q = j
      BY <2>1 DEF Swapped, NetRead, ValStep
    <2>2. CASE q # j
      BY <2>2 DEF Swapped
    <2> QED
      BY <2>1, <2>2
  <1>2. ASSUME NEW i \in 0 .. n, NEW q \in 1 .. i PROVE q \in 1 .. n /\ q \in 0 .. n
    BY DEF Swapped
  <1>3. ASSUME NEW i \in 0 .. n, NEW k PROVE Brought(as, k, i) <=> Brought(ls, k, i)
    <2>1. \A q \in 1 .. i : as[q].cmd = ls[q].cmd /\ as[q].mod = ls[q].mod
      BY <1>1, <1>2
    <2> QED
      BY <2>1 DEF Brought
  <1>4. \A q \in 1 .. m : /\ as[q].cmd = ls[q].cmd /\ as[q].mod = ls[q].mod
                          /\ as[q].from = ls[q].from
    BY <1>1, <1>2
  <1>5. \A q \in 1 .. m : \A k : Brought(as, k, q) <=> Brought(ls, k, q)
    BY <1>2, <1>3
  <1>6. Ordered(as, m) <=> Ordered(ls, m)
    BY <1>4, <1>5 DEF Ordered
  <1>7. Unshown(as, m) <=> Unshown(ls, m)
    BY <1>4 DEF Unshown
  <1>8. \A k : Ghost(as, m, k) <=> Ghost(ls, m, k)
    BY <1>4, ZenonT(30) DEF Ghost
  <1>9. \A w : NetRun(as, m, w) <=> NetRun(ls, m, w)
    <2>1. \A q \in 1 .. m : \A w : NetRead(w, as[q]) = NetRead(w, ls[q])
      BY <1>1, <1>2
    <2> QED
      BY <2>1 DEF NetRun
  <1>10. \A k, v : k # l.mod => (ValRun(as, m, k, v) <=> ValRun(ls, m, k, v))
    <2>1. \A q \in 1 .. m : \A k, v : k # l.mod => ValStep(v, k, as[q]) = ValStep(v, k, ls[q])
      BY <1>1, <1>2
    <2> QED
      BY <2>1, ZenonT(20) DEF ValRun
  <1> QED
    BY <1>3, <1>6, <1>7, <1>8, <1>9, <1>10

\* From line j on, the value is that of the line.
EndsWith(as, n, j, l) == \A m \in j .. n : \A v : ValRun(as, m, l.mod, v) => v[m] = l.val
HadRuns(ls, as, n, j, l) ==
  \A m \in j .. n : \A v : ValRun(as, m, l.mod, v) => \E u : ValRun(ls, m, l.mod, u)

LEMMA SwappedValue ==
  ASSUME NEW ls, NEW as, NEW n, NEW j, NEW l, Swapped(ls, as, n, j, l)
  PROVE  EndsWith(as, n, j, l) /\ HadRuns(ls, as, n, j, l)
  <1> SUFFICES ASSUME NEW m \in j .. n, NEW v, ValRun(as, m, l.mod, v)
               PROVE  v[m] = l.val /\ \E u : ValRun(ls, m, l.mod, u)
    BY DEF EndsWith, HadRuns
  <1>0. n \in Nat /\ j \in Nat /\ m \in Nat /\ j >= 1 /\ j <= m /\ m <= n
    BY DEF Swapped
  <1>1. ASSUME NEW q \in 1 .. m, q > j, NEW z
        PROVE  ValStep(z, l.mod, as[q]) = z /\ ValStep(z, l.mod, ls[q]) = z
    <2>1. q \in j + 1 .. n /\ q \in 1 .. n /\ q # j
      BY <1>0, <1>1
    <2> QED
      BY <2>1 DEF Swapped, ValStep
  <1>2. \A z : ValStep(z, l.mod, as[j]) = l.val /\ ValStep(z, l.mod, ls[j]) = ls[j].val
    BY DEF Swapped, ValStep
  <1> DEFINE T == {i \in Nat : j + i <= m => v[j + i] = l.val}
  <1>3. 0 \in T
    <2>1. j \in 1 .. m /\ j + 0 = j
      BY <1>0
    <2>2. v[j] = ValStep(v[j - 1], l.mod, as[j])
      BY <2>1 DEF ValRun
    <2> QED
      BY <1>2, <2>1, <2>2
  <1>4. ASSUME NEW i \in Nat, i \in T PROVE i + 1 \in T
    <2>1. ASSUME j + (i + 1) <= m PROVE v[j + (i + 1)] = l.val
      <3>1. j + (i + 1) \in 1 .. m /\ j + (i + 1) > j /\ (j + (i + 1)) - 1 = j + i /\ v[j + i] = l.val
        BY <1>0, <1>4, <2>1
      <3> DEFINE q == j + (i + 1)
      <3>2. q \in 1 .. m /\ q > j /\ v[q - 1] = l.val
        BY <3>1
      <3> HIDE DEF q
      <3>3. v[q] = ValStep(v[q - 1], l.mod, as[q])
        BY <3>2 DEF ValRun
      <3>4. v[q] = l.val
        BY <1>1, <3>2, <3>3
      <3> QED
        BY <3>4 DEF q
    <2> QED
      BY <2>1
  <1> HIDE DEF T
  <1>5. Nat \subseteq T
    BY <1>3, <1>4, NatInd
  <1>6. v[m] = l.val
    <2>1. m - j \in Nat /\ j + (m - j) = m
      BY <1>0
    <2>2. m - j \in T
      BY <1>5, <2>1
    <2> QED
      BY <1>0, <2>1, <2>2 DEF T
  <1> DEFINE u == [i \in 0 .. m |-> IF i < j THEN v[i] ELSE ls[j].val]
  <1>7. u[0] = Default
    BY <1>0 DEF ValRun
  <1>8. ASSUME NEW q \in 1 .. m PROVE u[q] = ValStep(u[q - 1], l.mod, ls[q])
    <2>1. q \in 0 .. m /\ q - 1 \in 0 .. m /\ q \in 1 .. n
      BY <1>0
    <2>2. CASE q < j
      <3>0. as[q] = ls[q]
        <4>1. q # j
          BY <1>0, <2>2
        <4> QED
          BY <2>1, <4>1 DEF Swapped
      <3>1. u[q] = v[q] /\ u[q - 1] = v[q - 1] /\ as[q] = ls[q]
        BY <1>0, <2>1, <2>2, <3>0
      <3>2. v[q] = ValStep(v[q - 1], l.mod, as[q])
        BY DEF ValRun
      <3> QED
        BY <3>1, <3>2
    <2>3. CASE q = j
      <3>1. u[q] = ls[j].val
        BY <1>0, <2>1, <2>3
      <3> QED
        BY <1>2, <2>3, <3>1
    <2>4. CASE q > j
      <3>1. u[q] = ls[j].val /\ u[q - 1] = ls[j].val
        BY <1>0, <2>1, <2>4
      <3> QED
        BY <1>1, <2>4, <3>1
    <2> QED
      BY <1>0, <2>2, <2>3, <2>4
  <1> HIDE DEF u
  <1>9. ValRun(ls, m, l.mod, u)
    BY <1>7, <1>8 DEF ValRun
  <1> QED
    BY <1>6, <1>9

\* A value is set.
LEMMA ValueSet ==
  ASSUME NEW h, Good(h), Unique(h), NEW s \in Live(h), NEW v,
         NEW k, k.num = h.num /\ k.mod = h.mod /\ k.src = h.src /\ k.chan = h.chan /\ k.fmt = h.fmt
                /\ k.fb = h.fb /\ k.par = [h.par EXCEPT ![s] = v]
  PROVE  /\ Net(k) = Net(h) /\ SameMods(h, k) /\ (Clean(h) => Clean(k))
         /\ \A x \in Others : /\ Here(k, x) <=> Here(h, x)
                              /\ Value(k, x) = IF x = h.mod[s] THEN v ELSE Value(h, x)
  <1>1. h \in Graph /\ h.par \in [Slots -> Params] /\ s \in Slots
    BY GoodIs DEF Graph, Live, Used
  <1>2. /\ k.num = h.num /\ k.mod = h.mod /\ k.src = h.src /\ k.chan = h.chan /\ k.fmt = h.fmt
        /\ k.fb = h.fb /\ k.par = [h.par EXCEPT ![s] = v]
    OBVIOUS
  <1>3. SameMods(h, k)
    BY <1>2 DEF SameMods
  <1>4. /\ \A q : From(k, q) = From(h, q) /\ NetForm(k, q) = NetForm(h, q)
        /\ \A q : PinOf(k, q) = PinOf(h, q)
        /\ PreviewFixed(h) => PreviewFixed(k)
    BY <1>2, <1>3, NetAlike
  <1>5. Net(k) = Net(h)
    BY <1>2, <1>4, NetSame
  <1>6. Clean(h) => Clean(k)
    BY <1>2, <1>3, CleanSame
  <1>7. ASSUME NEW x \in Others
        PROVE  /\ Here(k, x) <=> Here(h, x)
               /\ Value(k, x) = IF x = h.mod[s] THEN v ELSE Value(h, x)
    <2>1. (Here(k, x) <=> Here(h, x)) /\ Get(k, x) = Get(h, x) /\ x \in Keys
      BY <1>3, SameNames, SamePins DEF Others
    <2>2. CASE x = h.mod[s]
      <3>1. Get(h, x) = s /\ s # -1
        BY <1>1, <2>2, LiveNamed
      <3> QED
        BY <1>1, <1>2, <2>1, <2>2, <3>1 DEF Value, Here
    <2>3. CASE x # h.mod[s]
      <3>1. Here(h, x) => Get(h, x) \in Slots /\ Get(h, x) # s
        BY <1>1, <2>1, <2>3, HereIs
      <3>2. Value(k, x) = Value(h, x)
        BY <1>1, <1>2, <2>1, <3>1 DEF Value
      <3> QED
        BY <2>1, <2>3, <3>2
    <2> QED
      BY <2>2, <2>3
  <1> QED
    BY <1>3, <1>5, <1>6, <1>7

\* It looks like that.
LEMMA RenewedIs ==
  ASSUME NEW v \in Views, NEW l, NEW x \in Others
  PROVE  Renewed(v, l)[x] = IF x = l.mod /\ v[x] # <<>> THEN [v[x] EXCEPT !.par = l.val] ELSE v[x]
  <1>1. DOMAIN v = Others
    BY DEF Views, Others
  <1> QED
    BY <1>1 DEF Renewed

LEMMA NetViewSet ==
  ASSUME NEW n, NEW z, NEW k, NEW y
  PROVE  [NetView(n, z, k) EXCEPT !.par = y] = NetView(n, y, k)
  <1>1. \A a, b : [[par |-> z, src |-> a, fb |-> b] EXCEPT !.par = y]
                    = [par |-> y, src |-> a, fb |-> b]
    OBVIOUS
  <1> QED
    BY <1>1, Zenon DEF NetView

\* The items after the line show the new value.
LEMMA SwappedBacked ==
  ASSUME NEW ls, NEW as, NEW n, NEW j, NEW l, Swapped(ls, as, n, j, l), NEW m \in j .. n,
         NEW s \in Views, Backed(ls, m, s)
  PROVE  Backed(as, m, Renewed(s, l))
  <1>1. m \in 0 .. n
    BY DEF Swapped
  <1>2. /\ Ordered(as, m) <=> Ordered(ls, m)
        /\ Unshown(as, m) <=> Unshown(ls, m)
        /\ \A k : (Brought(as, k, m) <=> Brought(ls, k, m)) /\ (Ghost(as, m, k) <=> Ghost(ls, m, k))
        /\ \A w : NetRun(as, m, w) <=> NetRun(ls, m, w)
        /\ \A k, v : k # l.mod => (ValRun(as, m, k, v) <=> ValRun(ls, m, k, v))
    BY <1>1, SwappedSame
  <1>3. SUFFICES ASSUME NEW k \in Others, Renewed(s, l)[k] # <<>>
                 PROVE  Kin(as, m, k, Renewed(s, l)[k])
    BY DEF Backed
  <1>4. Renewed(s, l)[k] = IF k = l.mod /\ s[k] # <<>> THEN [s[k] EXCEPT !.par = l.val] ELSE s[k]
    BY RenewedIs
  <1>5. s[k] # <<>>
    BY <1>3, <1>4
  <1>6. Kin(ls, m, k, s[k])
    BY <1>5 DEF Backed
  <1>7. /\ Ordered(as, m) /\ Unshown(as, m) /\ Brought(as, k, m) /\ ~Ghost(as, m, k)
        /\ \A w, v : NetRun(ls, m, w) /\ ValRun(ls, m, k, v) => s[k] = NetView(w[m], v[m], k)
    BY <1>2, <1>6 DEF Kin
  <1> DEFINE y == Renewed(s, l)[k]
  <1>8. ASSUME NEW w, NEW v, NetRun(as, m, w), ValRun(as, m, k, v)
        PROVE  y = NetView(w[m], v[m], k)
    <2>1. NetRun(ls, m, w)
      BY <1>2, <1>8
    <2>2. CASE k = l.mod
      <3>e. EndsWith(as, n, j, l) /\ HadRuns(ls, as, n, j, l)
        BY SwappedValue
      <3>1. v[m] = l.val /\ \E u : ValRun(ls, m, l.mod, u)
        BY <1>8, <2>2, <3>e DEF EndsWith, HadRuns
      <3>2. PICK u : ValRun(ls, m, k, u)
        BY <2>2, <3>1
      <3>3. s[k] = NetView(w[m], u[m], k)
        BY <1>7, <2>1, <3>2
      <3>4. y = [NetView(w[m], u[m], k) EXCEPT !.par = l.val]
        BY <1>4, <1>5, <2>2, <3>3
      <3> QED
        BY <3>1, <3>4, NetViewSet
    <2>3. CASE k # l.mod
      <3>1. ValRun(ls, m, k, v)
        BY <1>2, <1>8, <2>3
      <3> QED
        BY <1>4, <1>7, <2>1, <2>3, <3>1
    <2> QED
      BY <2>2, <2>3
  <1> QED
    BY <1>7, <1>8 DEF Kin

\* The graph with the new value is tracked and looks like the item.
Revalued(h, k, l) ==
  /\ Net(k) = Net(h)
  /\ \A x \in Others : /\ Here(k, x) <=> Here(h, x)
                       /\ Value(k, x) = IF x = l.mod THEN l.val ELSE Value(h, x)
LEMMA SwappedTracked ==
  ASSUME NEW h, Good(h), NEW k, Good(k), NEW l, Revalued(h, k, l),
         NEW ls, NEW as, NEW n, NEW j, Swapped(ls, as, n, j, l),
         Tracked(h, ls, n), NEW s \in Views, Renewed(s, l) \in Views, Shows(h, s)
  PROVE  Tracked(k, as, n) /\ Shows(k, Renewed(s, l))
  <1>0. n \in 0 .. n /\ n \in j .. n
    BY DEF Swapped
  <1>e. EndsWith(as, n, j, l)
    BY SwappedValue
  <1>v. \A m \in j .. n : \A v : ValRun(as, m, l.mod, v) => v[m] = l.val
    BY <1>e DEF EndsWith
  <1>r. /\ Net(k) = Net(h)
        /\ \A x \in Others : /\ Here(k, x) <=> Here(h, x)
                             /\ Value(k, x) = IF x = l.mod THEN l.val ELSE Value(h, x)
    BY DEF Revalued
  <1>1. /\ Ordered(as, n) <=> Ordered(ls, n)
        /\ Unshown(as, n) <=> Unshown(ls, n)
        /\ \A x : (Brought(as, x, n) <=> Brought(ls, x, n)) /\ (Ghost(as, n, x) <=> Ghost(ls, n, x))
        /\ \A w : NetRun(as, n, w) <=> NetRun(ls, n, w)
        /\ \A x, v : x # l.mod => (ValRun(as, n, x, v) <=> ValRun(ls, n, x, v))
    BY <1>0, SwappedSame
  <1>2. ASSUME Ordered(as, n), Unshown(as, n)
        PROVE  /\ \A w : NetRun(as, n, w) => Net(k) = w[n]
               /\ \A x \in Others : Here(k, x) /\ ~Ghost(as, n, x) =>
                    \A v : ValRun(as, n, x, v) => Value(k, x) = v[n]
    <2>1. /\ \A w : NetRun(ls, n, w) => Net(h) = w[n]
          /\ \A x \in Others : Here(h, x) /\ ~Ghost(ls, n, x) =>
               \A v : ValRun(ls, n, x, v) => Value(h, x) = v[n]
      BY <1>1, <1>2 DEF Tracked
    <2>2. ASSUME NEW x \in Others, Here(k, x), ~Ghost(as, n, x), NEW v, ValRun(as, n, x, v)
          PROVE  Value(k, x) = v[n]
      <3>1. CASE x = l.mod
        <4>1. ValRun(as, n, l.mod, v)
          BY <2>2, <3>1
        <4>2. v[n] = l.val
          BY <1>0, <1>v, <4>1
        <4> QED
          BY <1>r, <2>2, <3>1, <4>2
      <3>2. CASE x # l.mod
        BY <1>1, <1>r, <2>1, <2>2, <3>2
      <3> QED
        BY <3>1, <3>2
    <2> QED
      BY <1>1, <1>r, <2>1, <2>2
  <1>3. Tracked(k, as, n)
    BY <1>2 DEF Tracked
  <1>4. ASSUME NEW x \in DOMAIN Renewed(s, l), Renewed(s, l)[x] # <<>>
        PROVE  View(k)[x] = Renewed(s, l)[x]
    <2>1. x \in Others /\ x \in DOMAIN s
      BY <1>4 DEF Views, Others
    <2>2. Renewed(s, l)[x] = IF x = l.mod /\ s[x] # <<>> THEN [s[x] EXCEPT !.par = l.val] ELSE s[x]
      BY <2>1, RenewedIs
    <2>3. s[x] # <<>>
      BY <1>4, <2>2
    <2>4. View(h)[x] = s[x]
      BY <2>1, <2>3 DEF Shows
    <2>5. View(h)[x] = IF Here(h, x) THEN NetView(Net(h), Value(h, x), x) ELSE <<>>
      BY <2>1, ViewIs
    <2>6. View(k)[x] = IF Here(k, x) THEN NetView(Net(k), Value(k, x), x) ELSE <<>>
      BY <2>1, ViewIs
    <2>7. Here(h, x) /\ s[x] = NetView(Net(h), Value(h, x), x)
      BY <2>3, <2>4, <2>5
    <2>8. View(k)[x] = NetView(Net(h), IF x = l.mod THEN l.val ELSE Value(h, x), x)
      BY <1>r, <2>1, <2>6, <2>7
    <2>9. [NetView(Net(h), Value(h, x), x) EXCEPT !.par = l.val] = NetView(Net(h), l.val, x)
      BY NetViewSet
    <2> QED
      BY <2>2, <2>3, <2>7, <2>8, <2>9
  <1> QED
    BY <1>3, <1>4 DEF Shows

\* What is replaced is another line about the same value.
LEMMA ReplacingSwaps ==
  ASSUME NEW e \in EditStates, NEW r, NEW j, NEW l \in Lines, Replacing(e, r, j, l),
         ~Blurred(Cut(e).hist, j, e.cur, l), l.cmd = "param", l.mod \in WithParam
  PROVE  Swapped(Cut(e).hist, r.hist, e.cur, j, l)
  <1> DEFINE ls == Cut(e).hist
  <1>1. ls \in Seq(Lines) /\ Len(ls) = e.cur /\ e.cur \in Nat
    BY CutType, CutIs, EditFields
  <1>2. /\ j \in 1 .. e.cur /\ r.hist = [ls EXCEPT ![j] = l] /\ SameParam(ls[j], l.mod)
        /\ \A q \in j + 1 .. e.cur : ~SameParam(ls[q], l.mod)
    BY DEF Replacing
  <1>3. \A q \in j + 1 .. e.cur : ~(ls[q].cmd = "paraminc" /\ ls[q].mod = l.mod)
    BY DEF Blurred
  <1> HIDE DEF ls
  <1>4. ls[j] \in Lines /\ ls[j].cmd = "param" /\ ls[j].mod = l.mod
    BY <1>1, <1>2 DEF SameParam
  <1>5. l.from = Nowhere /\ ls[j].from = Nowhere
    BY <1>4 DEF Lines
  <1>6. r.hist[j] = l /\ \A q \in 1 .. e.cur : q # j => r.hist[q] = ls[q]
    BY <1>1, <1>2
  <1>7. \A q \in j + 1 .. e.cur : ls[q].mod # l.mod \/ ls[q].cmd \notin {"param", "paraminc"}
    BY <1>2, <1>3 DEF SameParam
  <1> QED
    BY <1>1, <1>2, <1>4, <1>5, <1>6, <1>7 DEF Swapped, ls

\* The value is replaced in the line and in what the user saw since.
LEMMA ReplacingApt ==
  ASSUME NEW h, Good(h), NEW e \in EditStates, Items(e),
         NEW r \in EditStates, NEW j, NEW l \in Lines, Replacing(e, r, j, l),
         l.cmd = "param", l.mod \in WithParam,
         ~e.vague => /\ Revalued(h, e.g, l)
                     /\ Unique(e.g) /\ Clean(e.g) /\ Tracked(h, e.hist, e.cur)
                     /\ e.cur > 0 => Shows(h, e.snap[e.cur])
  PROVE  Apt(r)
  <1> DEFINE c == Cut(e)
             blur == Blurred(c.hist, j, e.cur, l)
  <1>1. /\ c.hist \in Seq(Lines) /\ Len(c.hist) = e.cur /\ e.cur \in Nat
        /\ c.snap \in Seq(Views) /\ Len(c.snap) = e.cur
        /\ Items(c)
        /\ \A q \in 1 .. e.cur : c.snap[q] = e.snap[q]
        /\ \A k : Tracked(k, e.hist, e.cur) => Tracked(k, c.hist, e.cur)
    <2>1. c \in EditStates /\ Len(c.hist) = e.cur /\ Len(c.snap) = e.cur
      BY CutType, CutIs
    <2>2. c.hist \in Seq(Lines) /\ c.snap \in Seq(Views) /\ e.cur \in 0 .. Len(e.hist)
          /\ e.hist \in Seq(Lines)
      BY <2>1, EditFields
    <2>3. /\ \A q \in 1 .. e.cur : c.hist[q] = e.hist[q] /\ c.snap[q] = e.snap[q]
          /\ Items(e) => Items(c)
          /\ \A k : Tracked(k, e.hist, e.cur) => Tracked(k, c.hist, e.cur)
      BY CutIs
    <2> HIDE DEF c
    <2>4. e.cur \in Nat
      BY <2>2
    <2> QED
      BY <2>1, <2>2, <2>3, <2>4
  <1>2. /\ j \in 1 .. e.cur
        /\ r.g = e.g /\ r.cur = e.cur /\ r.hist = [c.hist EXCEPT ![j] = l]
        /\ r.vague = (e.vague \/ blur)
        /\ r.snap = [q \in 1 .. e.cur |-> IF q < j THEN c.snap[q]
                                          ELSE IF blur THEN Nothing ELSE Renewed(c.snap[q], l)]
    BY DEF Replacing
  <1>3. r.hist \in Seq(Lines) /\ Len(r.hist) = Len(r.snap) /\ r.snap \in Seq(Views) /\ Good(r.g)
        /\ Len(r.hist) = e.cur
    <2>1. Len(r.hist) = Len(r.snap) /\ Good(r.g) /\ r.hist \in Seq(Lines) /\ r.snap \in Seq(Views)
      BY EditFields
    <2>2. Len(r.snap) = e.cur
      BY <1>1, <1>2
    <2> QED
      BY <2>1, <2>2
  <1>4. ~blur => Swapped(c.hist, r.hist, e.cur, j, l)
    BY ReplacingSwaps
  <1>5. \A q \in 1 .. e.cur : Backed(c.hist, q, c.snap[q])
    BY <1>1 DEF Items
  <1> HIDE DEF c, blur
  <1>6. ASSUME NEW q \in 1 .. e.cur PROVE Backed(r.hist, q, r.snap[q])
    <2>1. c.snap[q] \in Views /\ q \in Nat
      BY <1>1
    <2>2. CASE q < j
      <3>1. r.snap[q] = c.snap[q]
        BY <1>2, <2>2
      <3>2. \A i \in 1 .. q : r.hist[i] = c.hist[i]
        BY <1>1, <1>2, <2>2
      <3>3. Backed(r.hist, q, c.snap[q])
        BY <1>5, <2>1, <3>2, BackedAlike
      <3> QED
        BY <3>1, <3>3
    <2>3. CASE ~(q < j) /\ blur
      <3>1. r.snap[q] = Nothing
        BY <1>2, <2>3
      <3> QED
        BY <3>1 DEF Backed, Nothing, Others
    <2>4. CASE ~(q < j) /\ ~blur
      <3>1. r.snap[q] = Renewed(c.snap[q], l)
        BY <1>2, <2>4
      <3>2. q \in j .. e.cur
        BY <1>1, <1>2, <2>1, <2>4
      <3>3. Backed(r.hist, q, Renewed(c.snap[q], l))
        BY <1>4, <1>5, <2>1, <2>4, <3>2, SwappedBacked
      <3> QED
        BY <3>1, <3>3
    <2> QED
      BY <2>2, <2>3, <2>4
  <1>7. Items(r)
    BY <1>3, <1>6 DEF Items
  <1>8. ASSUME ~r.vague
        PROVE  Unique(r.g) /\ Clean(r.g) /\ Tracked(r.g, r.hist, r.cur) /\ Shows(r.g, r.snap[r.cur])
    <2>1. ~e.vague /\ ~blur
      BY <1>2, <1>8
    <2>2. Swapped(c.hist, r.hist, e.cur, j, l)
      BY <1>4, <2>1
    <2>3. e.cur \in 1 .. e.cur /\ e.cur > 0 /\ ~(e.cur < j)
      BY <1>1, <1>2
    <2>4. Tracked(h, c.hist, e.cur) /\ Shows(h, c.snap[e.cur])
      BY <1>1, <2>1, <2>3
    <2>5. r.snap[e.cur] = Renewed(c.snap[e.cur], l) /\ c.snap[e.cur] \in Views /\ r.snap[e.cur] \in Views
      BY <1>1, <1>2, <1>3, <2>1, <2>3
    <2>6. Renewed(c.snap[e.cur], l) \in Views
      BY <2>5
    <2>7. Good(e.g)
      BY EditFields
    <2>8. Tracked(e.g, r.hist, e.cur) /\ Shows(e.g, Renewed(c.snap[e.cur], l))
      <3>1. Revalued(h, e.g, l)
        BY <2>1
      <3> QED
        BY <2>2, <2>4, <2>5, <2>6, <2>7, <3>1, SwappedTracked
    <2> QED
      BY <1>2, <2>1, <2>5, <2>8
  <1> QED
    BY <1>7, <1>8 DEF Apt

\* A value that the user sets is recorded, or replaces the one set just before.
LEMMA ParamEditApt ==
  ASSUME Numbers, State \in EditStates, Apt(State), NEW s, NEW v \in UserValues,
         NEW recent \in BOOLEAN, ParamEdit(s, v, recent)
  PROVE  Apt(State')
  <1> DEFINE p == [g.par EXCEPT ![s] = v]
             h == [g EXCEPT !.par = p]
             n == [State EXCEPT !.g = h]
             l == ParamLine(h, s)
             r == RecordParam(n, l, recent)
  <1>1. Good(g) /\ g \in Graph /\ s \in Live(g) /\ v \in Params /\ g.mod[s] \in WithParam
    BY StateFields, HistoryAssumption DEF ParamEdit
  <1>2. p \in [Slots -> Params] /\ s \in Slots
    BY <1>1 DEF Graph, Live, Used
  <1>3. [State EXCEPT !.g.par = p] = n
    BY DEF State
  <1>p. \A t \in Live(g) : g.mod[t] \notin WithParam => p[t] = Default
    <2>1. Live(g) \subseteq Slots
      BY DEF Live, Used
    <2>2. \A t \in Slots \ {s} : p[t] = g.par[t]
      BY <1>1 DEF Graph
    <2> QED
      BY <1>1, <2>1, <2>2 DEF Good, Kept
  <1>4. Good(h)
    BY <1>1, <1>2, <1>p, ParGood
  <1>5. h.mod = g.mod /\ h.num = g.num /\ h \in Graph /\ h.par[s] = v
    BY <1>1, <1>2, <1>4 DEF Graph, Good, Sound, Linking
  <1>6. /\ h.num = g.num /\ h.mod = g.mod /\ h.src = g.src /\ h.chan = g.chan /\ h.fmt = g.fmt
        /\ h.fb = g.fb /\ h.par = [g.par EXCEPT ![s] = v]
    BY <1>1 DEF Graph
  <1>7. Is(RecordParam(n, ParamLine(n.g, s), recent))
    BY <1>3 DEF ParamEdit
  <1> HIDE DEF h, p
  <1>8. n \in EditStates
    BY <1>4, EditGraph
  <1>9. n.g = h /\ n.vague = vague /\ n.hist = hist /\ n.cur = cur /\ n.snap = snap
        /\ State.hist = hist /\ State.cur = cur /\ State.vague = vague /\ State.snap = snap
        /\ State.g = g
    BY DEF State
  <1> HIDE DEF n
  <1>10. s \in Live(h)
    BY <1>1, <1>5, SameModules
  <1>11. l \in Lines /\ l.cmd = "param" /\ l.mod = g.mod[s] /\ l.val = v
    <2>1. l.cmd = "param" /\ l.mod = g.mod[s] /\ l.val = v
      BY <1>5 DEF ParamLine, Line
    <2>2. l \in Lines
      BY <1>5, <1>10, SlotLineType
    <2> QED
      BY <2>1, <2>2
  <1>12. Is(r)
    BY <1>7, <1>9
  <1> HIDE DEF l
  <1>13. Items(n)
    BY <1>9 DEF Apt, Items
  <1>14. ASSUME Unique(g)
         PROVE  /\ Net(h) = Net(g) /\ SameMods(g, h) /\ (Clean(g) => Clean(h)) /\ Unique(h)
                /\ \A x \in Others : /\ Here(h, x) <=> Here(g, x)
                                     /\ Value(h, x) = IF x = l.mod THEN l.val ELSE Value(g, x)
    <2>1. /\ Net(h) = Net(g) /\ SameMods(g, h) /\ (Clean(g) => Clean(h))
          /\ \A x \in Others : /\ Here(h, x) <=> Here(g, x)
                               /\ Value(h, x) = IF x = g.mod[s] THEN v ELSE Value(g, x)
      BY <1>1, <1>6, <1>14, ValueSet
    <2>2. Unique(h)
      BY <1>14, <2>1, SameNames
    <2> QED
      BY <1>11, <2>1, <2>2
  <1>15. r \in EditStates /\ (r = Record(n, l) \/ \E j : Replacing(n, r, j, l))
    BY <1>8, <1>11, RecordParamType, RecordParamIs
  <1> HIDE DEF r
  <1>16. ASSUME ~vague
         PROVE  Unique(g) /\ Clean(g) /\ Tracked(g, hist, cur) /\ (cur > 0 => Shows(g, snap[cur]))
    BY <1>9, <1>16 DEF Apt
  <1>17. ASSUME r = Record(n, l) PROVE Apt(r)
    <2>1. ASSUME ~vague PROVE Unique(h) /\ Clean(h) /\ Tracked(h, Longer(hist, cur, l), cur + 1)
      <3>1. /\ Net(h) = Net(g) /\ SameMods(g, h) /\ Clean(h) /\ Unique(h)
            /\ \A x \in Others : /\ Here(h, x) <=> Here(g, x)
                                 /\ Value(h, x) = IF x = l.mod THEN l.val ELSE Value(g, x)
        BY <1>14, <1>16, <2>1
      <3>2. Net(h) = NetRead(Net(g), l)
        BY <1>11, <3>1, SMTT(20) DEF NetRead
      <3>3. Advanced(g, h, l)
        BY <1>1, <1>11, <3>1, <3>2 DEF Advanced, ValStep
      <3>4. hist \in Seq(Lines) /\ cur \in 0 .. Len(hist)
        BY StateFields
      <3>5. Tracked(h, Longer(hist, cur, l), cur + 1)
        BY <1>11, <1>16, <2>1, <3>3, <3>4, TrackedOn
      <3> QED
        BY <3>1, <3>5
    <2>2. ~n.vague => Unique(n.g) /\ Clean(n.g) /\ Tracked(n.g, Longer(n.hist, n.cur, l), n.cur + 1)
      BY <1>9, <2>1
    <2>3. Apt(Record(n, l))
      BY <1>8, <1>11, <1>13, <2>2, RecordApt
    <2> QED
      BY <1>17, <2>3
  <1>18. ASSUME NEW j, Replacing(n, r, j, l) PROVE Apt(r)
    <2>1. ~vague => Revalued(g, h, l)
      BY <1>14, <1>16 DEF Revalued
    <2>2. ~n.vague => /\ Revalued(g, n.g, l)
                      /\ Unique(n.g) /\ Clean(n.g) /\ Tracked(g, n.hist, n.cur)
                      /\ n.cur > 0 => Shows(g, n.snap[n.cur])
      BY <1>9, <1>14, <1>16, <2>1
    <2> QED
      BY <1>1, <1>8, <1>11, <1>13, <1>15, <1>18, <2>2, ReplacingApt
  <1>19. Apt(r)
    BY <1>15, <1>17, <1>18
  <1> QED
    BY <1>12, <1>15, <1>19, IsState

-----------------------------------------------------------------------------
(* A module is removed *)

\* What is left of an edit does not show the module any more.
LEMMA GoneApt ==
  ASSUME NEW e \in EditStates, Apt(e), NEW t \in Live(e.g), NEW k, k = e.g.mod[t], k # Preview,
         \A p \in Pins : e.g.src[p] # Unset => t \notin {p[1], e.g.src[p][1]}
  PROVE  Apt(Gone(e, k, t))
  <1> DEFINE r == Gone(e, k, t)
             G == Removed(e.g, {t})
  <1>1. /\ Good(e.g) /\ e.g \in Graph /\ e.snap \in Seq(Views) /\ e.hist \in Seq(Lines)
        /\ e.cur \in 0 .. Len(e.hist) /\ Len(e.snap) = Len(e.hist)
    BY EditFields
  <1>2. k \in Others
    BY <1>1 DEF Graph, Live, Used, Others
  <1>3. /\ r.g = G /\ r.hist = e.hist /\ r.cur = e.cur /\ r.vague = e.vague
        /\ r.snap = [q \in DOMAIN e.snap |->
                       IF q = e.cur THEN [e.snap[q] EXCEPT ![k] = <<>>] ELSE e.snap[q]]
    BY DEF Gone, Forget, EditStates
  <1> HIDE DEF r, G
  <1>4. ASSUME NEW q \in 1 .. Len(e.hist), NEW x \in Others
        PROVE  r.snap[q][x] = IF q = e.cur /\ x = k THEN <<>> ELSE e.snap[q][x]
    <2>1. e.snap[q] \in Views /\ q \in DOMAIN e.snap
      BY <1>1
    <2>2. DOMAIN e.snap[q] = Others
      BY <2>1 DEF Views, Others
    <2>3. r.snap[q] = IF q = e.cur THEN [e.snap[q] EXCEPT ![k] = <<>>] ELSE e.snap[q]
      BY <1>3, <2>1
    <2> QED
      BY <1>2, <2>2, <2>3
  <1>5. Items(r)
    <2> SUFFICES ASSUME NEW q \in 1 .. Len(e.hist), NEW x \in Others, r.snap[q][x] # <<>>
                 PROVE  Kin(e.hist, q, x, r.snap[q][x])
      BY <1>3 DEF Items, Backed
    <2>1. r.snap[q][x] = e.snap[q][x]
      BY <1>4
    <2> QED
      BY <2>1 DEF Apt, Items, Backed
  <1>6. ASSUME ~e.vague
        PROVE  /\ Unique(G) /\ Clean(G) /\ Tracked(G, e.hist, e.cur)
               /\ e.cur > 0 => Shows(G, r.snap[e.cur])
    <2>1. /\ Unique(e.g) /\ Clean(e.g) /\ Tracked(e.g, e.hist, e.cur)
          /\ e.cur > 0 => Shows(e.g, e.snap[e.cur])
      BY <1>6 DEF Apt
    <2>2. \A p \in Pins : e.g.src[p] # Unset => p[1] # t /\ e.g.src[p][1] # t
      OBVIOUS
    <2>3. /\ Net(G) = Net(e.g) /\ (PreviewFixed(e.g) => PreviewFixed(G)) /\ Good(G)
          /\ Unique(G) /\ Clean(G)
          /\ \A x \in Keys : Here(G, x) <=> Here(e.g, x) /\ x # e.g.mod[t]
          /\ \A x \in Keys \ {e.g.mod[t]} : Value(G, x) = Value(e.g, x)
      BY <1>1, <2>1, <2>2, RemovedNet DEF G
    <2>4. Tracked(G, e.hist, e.cur)
      BY <2>1, <2>3 DEF Tracked, Others
    <2>5. ASSUME e.cur > 0, NEW x \in Others, r.snap[e.cur][x] # <<>>
          PROVE  View(G)[x] = r.snap[e.cur][x]
      <3>1. e.cur \in 1 .. Len(e.hist) /\ e.snap[e.cur] \in Views
        BY <1>1, <2>5
      <3>2. x # k /\ r.snap[e.cur][x] = e.snap[e.cur][x] /\ x \in Keys
        BY <1>4, <2>5, <3>1 DEF Others
      <3>3. x \in DOMAIN e.snap[e.cur]
        BY <3>1 DEF Views, Others
      <3>4. View(e.g)[x] = e.snap[e.cur][x]
        BY <2>1, <2>5, <3>2, <3>3 DEF Shows
      <3>5. View(e.g)[x] = IF Here(e.g, x) THEN NetView(Net(e.g), Value(e.g, x), x) ELSE <<>>
        BY <1>1, ViewIs
      <3>6. View(G)[x] = IF Here(G, x) THEN NetView(Net(G), Value(G, x), x) ELSE <<>>
        BY <2>3, ViewIs
      <3> QED
        BY <2>3, <3>2, <3>4, <3>5, <3>6
    <2>6. e.cur > 0 => DOMAIN r.snap[e.cur] = Others
      <3> SUFFICES ASSUME e.cur > 0 PROVE DOMAIN r.snap[e.cur] = Others
        OBVIOUS
      <3>1. e.cur \in DOMAIN e.snap /\ e.snap[e.cur] \in Views
        BY <1>1
      <3>2. r.snap[e.cur] = [e.snap[e.cur] EXCEPT ![k] = <<>>]
        BY <1>3, <3>1
      <3> QED
        BY <3>1, <3>2 DEF Views, Others
    <2> QED
      BY <2>3, <2>4, <2>5, <2>6 DEF Shows
  <1> QED
    BY <1>3, <1>5, <1>6 DEF Apt, r

\* Connections are taken away one by one.
LEMMA DisconnectsApt ==
  ASSUME NEW e \in EditStates, Apt(e), NEW qs \in Seq(Inputs(e.g)),
         NEW ps, ps = [n \in DOMAIN qs |-> <<Unset, qs[n]>>]
  PROVE  Apt(ConnectEdits(e, ps))
  <1> DEFINE w == DisconnectRun(e, ps)
             N == Len(qs)
             T == {m \in Nat : m <= N => Apt(w[m])}
  <1>1. /\ w[0] = e
        /\ \A n \in 1 .. N : w[n] = ConnectEdit(w[n - 1], Unset, qs[n])
        /\ \A n \in 0 .. N : w[n] \in EditStates /\ Loosened(e.g, w[n].g)
        /\ Len(ps) = N
    BY DisconnectRuns
  <1>2. N \in Nat
    OBVIOUS
  <1> HIDE DEF w
  <1>3. 0 \in T
    BY <1>1
  <1>4. ASSUME NEW m \in Nat, m \in T PROVE m + 1 \in T
    <2> SUFFICES ASSUME m + 1 <= N PROVE Apt(w[m + 1])
      OBVIOUS
    <2>1. m \in 0 .. N /\ m + 1 \in 1 .. N /\ (m + 1) - 1 = m /\ qs[m + 1] \in Inputs(e.g)
      BY <1>2
    <2>2. w[m + 1] = ConnectEdit(w[m], Unset, qs[m + 1])
      BY <1>1, <2>1
    <2>3. w[m] \in EditStates /\ Loosened(e.g, w[m].g) /\ Apt(w[m])
      BY <1>1, <1>4, <2>1
    <2>4. qs[m + 1] \in Inputs(w[m].g)
      BY <2>1, <2>3, SamePins DEF Loosened
    <2>5. Unset \in Outputs(w[m].g) \cup {Unset}
      OBVIOUS
    <2> QED
      BY <2>2, <2>3, <2>4, <2>5, ConnectEditApt
  <1>5. N \in T
    <2> HIDE DEF T, N
    <2> QED
      BY <1>2, <1>3, <1>4, NatInd
  <1>6. ConnectEdits(e, ps) = w[N]
    BY <1>1, DisconnectUnfold DEF w
  <1> QED
    BY <1>2, <1>5, <1>6

\* So is the gap closed.
LEMMA BridgeApt ==
  ASSUME NEW e \in EditStates, Apt(e), NEW s \in Slots
  PROVE  Apt(Bridge(e, s))
  <1> DEFINE E == {f \in EditStates : SameMods(e.g, f.g) /\ Apt(f)}
             n == [e EXCEPT !.g = NoPreview(e.g)]
  <1>1. n \in E
    <2>1. Good(e.g) /\ Good(NoPreview(e.g)) /\ SameMods(e.g, NoPreview(e.g))
      BY EditFields, NoPreviewGood DEF Loosened
    <2>2. n \in EditStates
      BY <2>1, EditGraph
    <2>3. n.g = NoPreview(e.g) /\ n.hist = e.hist /\ n.snap = e.snap /\ n.cur = e.cur /\ n.vague = e.vague
      BY DEF EditStates
    <2> HIDE DEF n
    <2>4. ASSUME ~e.vague PROVE Alike(e.g, n.g) /\ Unique(n.g) /\ Clean(n.g)
      BY <2>1, <2>3, <2>4, NoPreviewAlike DEF Apt
    <2>5. ~n.vague => ~e.vague /\ Alike(e.g, n.g) /\ Unique(n.g) /\ Clean(n.g)
      BY <2>3, <2>4
    <2>6. Apt(n)
      BY <2>2, <2>3, <2>5, UnrecordedApt
    <2> QED
      BY <2>1, <2>2, <2>3, <2>6
  <1>2. ASSUME NEW q \in E, NEW o \in Outputs(q.g) \cup {Unset}, NEW i \in Inputs(q.g)
        PROVE  ConnectEdit(q, o, i) \in E
    <2> DEFINE f == ConnectEdit(q, o, i)
    <2>1. q \in EditStates /\ SameMods(e.g, q.g) /\ Apt(q)
      OBVIOUS
    <2>2. f \in EditStates /\ SameMods(q.g, f.g)
      BY <1>2, <2>1, ConnectEditType
    <2>3. Apt(f)
      BY <1>2, <2>1, ConnectEditApt
    <2> HIDE DEF f
    <2>4. SameMods(e.g, f.g)
      BY <2>1, <2>2, SameModsOn
    <2> QED
      BY <2>2, <2>3, <2>4 DEF f
  <1> HIDE DEF n
  <1>3. Bridge(e, s) \in E
    <2>1. E \in SUBSET {f \in EditStates : SameMods(e.g, f.g)}
      OBVIOUS
    <2>2. \A q \in E : \A o \in Outputs(q.g) \cup {Unset} : \A i \in Inputs(q.g) :
            ConnectEdit(q, o, i) \in E
      BY <1>2
    <2> HIDE DEF E
    <2> QED
      BY <1>1, <2>1, <2>2, BridgeStays DEF n
  <1> QED
    BY <1>3

LEMMA RemoveEditApt ==
  ASSUME State \in EditStates, Apt(State), NEW s, RemoveEdit(s)
  PROVE  Apt(State')
  <1> DEFINE e == State
             k == g.mod[s]
             b == Bridge(e, s)
             t == Get(b.g, k)
             qs == LoosePins(b.g, t)
             ps == [n \in DOMAIN qs |-> <<Unset, qs[n]>>]
             f == Freed(e, s, k)
  <1>1. State.g = g
    BY DEF State
  <1>2. s \in Live(State.g) /\ k # Preview /\ k = State.g.mod[s] /\ s \in Slots
    BY <1>1 DEF RemoveEdit, Live, Used
  <1>3. Is(Removal(State, s, g.mod[s]))
    BY DEF RemoveEdit, Removal, Freed, Gone, Once
  <1>4. Removal(State, s, k) \in EditStates
    BY <1>2, RemovalType
  <1>5. /\ b \in EditStates /\ qs \in Seq(Inputs(b.g))
        /\ f = ConnectEdits(b, [n \in DOMAIN qs |-> <<Unset, qs[n]>>])
        /\ f \in EditStates /\ t \in Live(f.g) /\ t \in Slots /\ f.g.mod[t] = k
        /\ \A p \in Pins : f.g.src[p] # Unset => t \notin {p[1], f.g.src[p][1]}
    BY <1>2, FreedIs
  <1>6. Apt(b)
    BY <1>2, BridgeApt
  <1>7. Removal(State, s, k) = Gone(f, k, t)
    BY DEF Removal
  <1>8. Apt(ConnectEdits(b, ps))
    <2>1. ps = [n \in DOMAIN qs |-> <<Unset, qs[n]>>]
      BY Zenon
    <2> HIDE DEF b, qs, ps
    <2> QED
      BY <1>5, <1>6, <2>1, DisconnectsApt
  <1>9. Apt(f)
    BY <1>5, <1>8, ZenonT(20)
  <1> HIDE DEF f, t, k
  <1>10. Apt(Gone(f, k, t))
    BY <1>2, <1>5, <1>9, GoneApt
  <1> QED
    BY <1>3, <1>4, <1>7, <1>10, IsState DEF k

-----------------------------------------------------------------------------
(* Going back, and starting over *)

\* Whatever was read into a bare graph looks as the lines say.
LEMMA ReplayShows ==
  ASSUME KnownClasses, Numbers, NEW b, Good(b), Bare(b), NEW ls \in Seq(Lines),
         NEW n \in 0 .. Len(ls), NEW r, r = ReadLines(b, SubSeq(ls, 1, n)), Unique(r),
         \A m \in 1 .. n : ls[m].cmd = "module" => Here(r, ls[m].mod)
  PROVE  Tracked(r, ls, n) /\ \A s \in Views : Backed(ls, n, s) => Shows(r, s)
  <1> DEFINE as == SubSeq(ls, 1, n)
  <1>1. as \in Seq(Lines) /\ Len(as) = n /\ n \in Nat /\ \A q \in 1 .. n : as[q] = ls[q]
    OBVIOUS
  <1>2. r = ReadLines(b, as)
    OBVIOUS
  <1> HIDE DEF as
  <1>3. Good(r)
    BY <1>1, <1>2, ReadLinesGood
  <1>4. /\ Ordered(as, n) <=> Ordered(ls, n)
        /\ Unshown(as, n) <=> Unshown(ls, n)
        /\ \A w : NetRun(as, n, w) <=> NetRun(ls, n, w)
        /\ \A k, v : ValRun(as, n, k, v) <=> ValRun(ls, n, k, v)
    BY <1>1, LinesAlike
  <1>5. ASSUME Ordered(ls, n), Unshown(ls, n)
        PROVE  /\ \E w : NetRun(ls, n, w) /\ w[n] = Net(r)
               /\ \A x \in Others : \E v : ValRun(ls, n, x, v) /\ v[n] = Value(r, x)
    <2>1. Ordered(as, Len(as)) /\ Unshown(as, Len(as))
      BY <1>1, <1>4, <1>5
    <2>2. \A m \in 1 .. Len(as) : as[m].cmd = "module" => Here(ReadLines(b, as), as[m].mod)
      BY <1>1, <1>2
    <2>3. Unique(ReadLines(b, as))
      BY <1>2
    <2>4. /\ PreviewFixed(ReadLines(b, as))
          /\ \E w : NetRun(as, Len(as), w) /\ w[Len(as)] = Net(ReadLines(b, as))
          /\ \A x \in Others : \E v : ValRun(as, Len(as), x, v) /\ v[Len(as)] = Value(ReadLines(b, as), x)
      BY <1>1, <2>1, <2>2, <2>3, Replay
    <2>5. /\ \E w : NetRun(as, n, w) /\ w[n] = Net(r)
          /\ \A x \in Others : \E v : ValRun(as, n, x, v) /\ v[n] = Value(r, x)
      BY <1>1, <1>2, <2>4
    <2> QED
      BY <1>4, <2>5
  <1>6. Tracked(r, ls, n)
    <2> SUFFICES ASSUME Ordered(ls, n), Unshown(ls, n)
                 PROVE  /\ \A w : NetRun(ls, n, w) => Net(r) = w[n]
                        /\ \A k \in Others : \A v : ValRun(ls, n, k, v) => Value(r, k) = v[n]
      BY DEF Tracked
    <2>1. /\ \A w, x : NetRun(ls, n, w) /\ NetRun(ls, n, x) => w[n] = x[n]
          /\ \A k, v, x : ValRun(ls, n, k, v) /\ ValRun(ls, n, k, x) => v[n] = x[n]
      BY <1>1, RunsAgree, ZenonT(20)
    <2> QED
      BY <1>5, <2>1
  <1>7. ASSUME NEW s \in Views, Backed(ls, n, s), NEW x \in Others, s[x] # <<>>
        PROVE  View(r)[x] = s[x]
    <2>1. Kin(ls, n, x, s[x])
      BY <1>7 DEF Backed
    <2>2. /\ Ordered(ls, n) /\ Unshown(ls, n) /\ Brought(ls, x, n)
          /\ \A w, v : NetRun(ls, n, w) /\ ValRun(ls, n, x, v) => s[x] = NetView(w[n], v[n], x)
      BY <2>1 DEF Kin
    <2>3. Here(r, x)
      BY <2>2 DEF Brought
    <2>4. PICK w : NetRun(ls, n, w) /\ w[n] = Net(r)
      BY <1>5, <2>2
    <2>5. PICK v : ValRun(ls, n, x, v) /\ v[n] = Value(r, x)
      BY <1>5, <1>7, <2>2
    <2>6. s[x] = NetView(Net(r), Value(r, x), x)
      BY <2>2, <2>4, <2>5
    <2>7. View(r)[x] = IF Here(r, x) THEN NetView(Net(r), Value(r, x), x) ELSE <<>>
      BY <1>3, <1>7, ViewIs
    <2> QED
      BY <2>3, <2>6, <2>7
  <1>8. \A s \in Views : DOMAIN s = Others
    BY DEF Views, Others
  <1>9. \A s \in Views : Backed(ls, n, s) => Shows(r, s)
    BY <1>7, <1>8 DEF Shows
  <1> QED
    BY <1>6, <1>9

\* Going back or forth brings back what the item promises.
LEMMA SetApt ==
  ASSUME KnownClasses, Numbers, State \in EditStates, Apt(State), NEW item, Set(item)
  PROVE  Apt(State')
  <1> DEFINE n == item + 1
             b == Blank(g)
             f == State'
  <1>1. /\ Good(g) /\ hist \in Seq(Lines) /\ snap \in Seq(Views)
        /\ cur \in 0 .. Len(hist) /\ Len(snap) = Len(hist)
    BY StateFields
  <1>2. /\ item \in 0 .. Len(hist) - 1 /\ cur' = n /\ hist' = hist /\ snap' = snap
        /\ g' = ReadLines(b, SubSeq(hist, 1, n))
        /\ vague' = \/ Unclear(g) \/ Unclear(g')
                    \/ \E m \in 1 .. n : hist[m].cmd = "module" /\ Get(g', hist[m].mod) = -1
    BY DEF Set
  <1>3. n \in 0 .. Len(hist) /\ n \in 1 .. Len(hist)
    BY <1>1, <1>2
  <1>4. /\ f.g = g' /\ f.hist = hist /\ f.cur = n /\ f.snap = snap /\ f.vague = vague'
        /\ State.hist = hist /\ State.snap = snap
    BY <1>2 DEF State
  <1> HIDE DEF f, n
  <1>5. Items(f)
    BY <1>4 DEF Apt, Items
  <1>6. ASSUME ~vague'
        PROVE  Unique(g') /\ Clean(g') /\ Tracked(g', hist, n) /\ Shows(g', snap[n])
    <2>1. /\ ~Unclear(g) /\ ~Unclear(g')
          /\ \A m \in 1 .. n : hist[m].cmd = "module" => Here(g', hist[m].mod)
      BY <1>2, <1>6 DEF Here
    <2>2. Clean(g)
      BY <1>1, <2>1, CleanIs, GoodIs DEF Unclear
    <2>3. Good(b) /\ Bare(b)
      BY <1>1, <2>2, BlankBare
    <2>4. SubSeq(hist, 1, n) \in Seq(Lines)
      BY <1>1, <1>3
    <2> HIDE DEF b
    <2>5. Good(g')
      BY <1>2, <2>3, <2>4, ReadLinesGood
    <2>6. Unique(g') /\ Clean(g')
      BY <2>1, <2>5, CleanIs, GoodIs DEF Unclear
    <2>7. Tracked(g', hist, n) /\ \A s \in Views : Backed(hist, n, s) => Shows(g', s)
      BY <1>1, <1>2, <1>3, <2>1, <2>3, <2>6, ReplayShows
    <2>8. Backed(hist, n, snap[n])
      BY <1>3, <1>4 DEF Apt, Items
    <2>9. snap[n] \in Views
      BY <1>1, <1>3
    <2> QED
      BY <2>6, <2>7, <2>8, <2>9
  <1>7. Apt(f)
    BY <1>4, <1>5, <1>6 DEF Apt
  <1> QED
    BY <1>7 DEF f

\* A graph that is written: its lines bring back what it is.
LEMMA FreshTracked ==
  ASSUME KnownClasses, Numbers, NEW G, Good(G), Unique(G), Clean(G), OrderFree(G)
  PROVE  Tracked(G, HistoryLines(G), Len(HistoryLines(G)))
  <1> DEFINE ls == HistoryLines(G)
             n == Len(ls)
             r == ReadLines(Empty, ls)
  <1>1. ls \in Seq(Lines) /\ n \in 0 .. n /\ n \in Nat /\ G \in Graph
    BY HistoryLinesType, GoodIs
  <1>2. Good(r) /\ Valued(G, r, WithValue(G))
    <2>1. Plugged(G) \subseteq Inputs(G)
      BY DEF Plugged
    <2> QED
      BY <2>1, FlatReads DEF HistoryLines
  <1>3. Copied(G, r, Len(Rows(G))) /\ r \in Graph
    BY <1>2, GoodIs DEF Valued, Tied
  <1>4. Unique(r)
    <2>1. /\ \A s \in Live(G) : At(G, s) \in Live(r) /\ r.mod[At(G, s)] = G.mod[s]
          /\ \A x \in Live(r) : \E s \in Live(G) : x = At(G, s)
      BY <1>1, <1>3, CopiedIs
    <2> QED
      BY <2>1 DEF Unique
  <1>5. \A k \in Keys : Here(G, k) => Here(r, k)
    <2>1. \A s \in Live(G) : Get(r, G.mod[s]) = At(G, s)
      BY <1>1, <1>3, CopiedNames
    <2>2. \A s \in Live(G) : At(G, s) \in Slots
      BY RowsAre
    <2>3. \A s \in Live(G) : Here(r, G.mod[s])
      BY <2>1, <2>2, SlotsType DEF Here
    <2> QED
      BY <1>1, <2>3, HereIs
  <1>6. /\ \A m \in 1 .. n : ls[m].cmd = "module" => Here(G, ls[m].mod)
        /\ \A p \in Inputs(G) : \E m \in 1 .. n : ls[m] = ConnLine(G, p)
    <2> DEFINE ps == PinSeq(Inputs(G))
               vs == SlotSeq(WithValue(G))
               M == Len(Rows(G))
               N == Len(ps)
               L == Len(vs)
    <2>1. /\ n = M + N + L
          /\ \A q \in 1 .. M : ls[q] = ModuleLine(G, Rows(G)[q])
          /\ \A q \in 1 .. N : ls[M + q] = ConnLine(G, ps[q])
          /\ \A q \in 1 .. L : ls[M + N + q] = ParamLine(G, vs[q])
      BY FlatLinesAre DEF HistoryLines
    <2>2. /\ Rows(G) \in Seq(Live(G)) /\ M \in Nat
      BY RowsAre
    <2>3. ps \in Seq(Inputs(G)) /\ \A p \in Inputs(G) : \E q \in 1 .. N : ps[q] = p
      BY PinSeqType DEF Inputs
    <2>4. vs \in Seq(WithValue(G))
      BY SlotSeqOrder, SlotsType DEF WithValue, Live, Used
    <2>5. N \in Nat /\ L \in Nat
      BY <2>3, <2>4
    <2> HIDE DEF ls, n, ps, vs, M, N, L
    <2>6. ASSUME NEW m \in 1 .. n, ls[m].cmd = "module" PROVE Here(G, ls[m].mod)
      <3>1. CASE m \in 1 .. M
        <4>1. ls[m] = ModuleLine(G, Rows(G)[m]) /\ Rows(G)[m] \in Live(G)
          BY <2>1, <2>2, <3>1 DEF M
        <4>2. ls[m].mod = G.mod[Rows(G)[m]]
          BY <4>1 DEF ModuleLine, Line
        <4>3. G.mod[Rows(G)[m]] \in Keys
          BY <1>1, <4>1 DEF Graph, Live, Used
        <4> QED
          BY <1>1, <4>1, <4>2, <4>3, HereLive
      <3>2. CASE m \notin 1 .. M /\ m <= M + N
        <4>1. m - M \in 1 .. N /\ m = M + (m - M)
          BY <2>1, <2>2, <2>5, <3>2
        <4>2. ls[m] = ConnLine(G, ps[m - M])
          BY <2>1, <4>1
        <4>3. ls[m].cmd # "module"
          BY <4>2 DEF ConnLine, Line
        <4> QED
          BY <2>6, <4>3
      <3>3. CASE ~(m <= M + N)
        <4>1. m - (M + N) \in 1 .. L /\ m = M + N + (m - (M + N))
          BY <2>1, <2>2, <2>5, <3>3
        <4>2. ls[m] = ParamLine(G, vs[m - (M + N)])
          BY <2>1, <4>1
        <4>3. ls[m].cmd # "module"
          BY <4>2 DEF ParamLine, Line
        <4> QED
          BY <2>6, <4>3
      <3> QED
        BY <3>1, <3>2, <3>3
    <2>7. ASSUME NEW p \in Inputs(G) PROVE \E m \in 1 .. n : ls[m] = ConnLine(G, p)
      <3>1. PICK q \in 1 .. N : ps[q] = p
        BY <2>3
      <3>2. M + q \in 1 .. n /\ ls[M + q] = ConnLine(G, p)
        BY <2>1, <2>2, <2>5, <3>1
      <3> QED
        BY <3>2
    <2> QED
      BY <2>6, <2>7
  <1> HIDE DEF ls, n
  <1>7. \A m \in 1 .. n : ls[m].mod \in Keys
    BY <1>1 DEF Lines, n
  <1>8. ASSUME Ordered(ls, n), Unshown(ls, n)
        PROVE  /\ \A w : NetRun(ls, n, w) => Net(G) = w[n]
               /\ \A k \in Others : \A v : ValRun(ls, n, k, v) => Value(G, k) = v[n]
    <2>1. ASSUME NEW p \in Pins, G.src[p] # Unset, G.mod[p[1]] = Preview
          PROVE  ~Loose(Named(G, G.src[p]))
      <3>1. p \in Inputs(G) /\ G.src[p] \in Outputs(G)
        BY <2>1, ReadIs, GoodIs
      <3>2. PICK m \in 1 .. n : ls[m] = ConnLine(G, p)
        BY <1>6, <3>1
      <3>3. ls[m].mod = Preview /\ ls[m].from = Named(G, G.src[p])
        BY <2>1, <3>2 DEF ConnLine, Line
      <3>4. Named(G, G.src[p]) # Nowhere
        BY <1>1, <2>1, <3>1, NamedNowhere
      <3> QED
        BY <1>8, <3>3, <3>4 DEF Unshown
    <2>2. PreviewFixed(G)
      BY <2>1 DEF PreviewFixed
    <2>3. \A m \in 1 .. Len(ls) : ls[m].cmd = "module" => Here(ReadLines(Empty, ls), ls[m].mod)
      BY <1>5, <1>6, <1>7 DEF n
    <2>4. Ordered(ls, Len(ls)) /\ Unshown(ls, Len(ls)) /\ Unique(ReadLines(Empty, ls))
          /\ Good(Empty) /\ Bare(Empty)
      BY <1>4, <1>8, EmptyBare DEF n
    <2>5. /\ PreviewFixed(ReadLines(Empty, ls))
          /\ \E w : NetRun(ls, Len(ls), w) /\ w[Len(ls)] = Net(ReadLines(Empty, ls))
          /\ \A x \in Others : \E v : ValRun(ls, Len(ls), x, v) /\ v[Len(ls)] = Value(ReadLines(Empty, ls), x)
      BY <1>1, <2>3, <2>4, Replay
    <2> HIDE DEF r
    <2>6. /\ PreviewFixed(r)
          /\ \E w : NetRun(ls, n, w) /\ w[n] = Net(r)
          /\ \A x \in Others : \E v : ValRun(ls, n, x, v) /\ v[n] = Value(r, x)
      BY <2>5 DEF n, r
    <2>7. /\ Net(r) = Net(G)
          /\ \A x \in Others : Value(r, x) = Value(G, x)
      BY <1>2, <2>2, <2>6, CopyNet
    <2>8. /\ \A w, x : NetRun(ls, n, w) /\ NetRun(ls, n, x) => w[n] = x[n]
          /\ \A k, v, x : ValRun(ls, n, k, v) /\ ValRun(ls, n, k, x) => v[n] = x[n]
      BY <1>1, RunsAgree
    <2> QED
      BY <2>6, <2>7, <2>8
  <1>9. Tracked(G, ls, n)
    BY <1>8 DEF Tracked
  <1> QED
    BY <1>9 DEF ls, n

\* What is promised when the history starts over
LEMMA FreshApt ==
  ASSUME KnownClasses, Numbers, NEW f \in EditStates,
         f.hist = HistoryLines(f.g), f.cur = Len(f.hist),
         f.vague = (Unclear(f.g) \/ ~OrderFree(f.g)),
         NEW e, e.g = f.g, e.hist = f.hist, e.cur = f.cur, e.vague = f.vague,
         \A n \in 1 .. Len(f.hist) : n < f.cur => f.snap[n] = Nothing,
         f.cur > 0 => f.snap[f.cur] \in {Nothing, Claim(e)}
  PROVE  Apt(f)
  <1> DEFINE N == Len(f.hist)
  <1>1. Good(f.g) /\ f.hist \in Seq(Lines) /\ N \in Nat /\ f.cur = N
    BY EditFields
  <1>2. ASSUME ~f.vague PROVE Unique(f.g) /\ Clean(f.g) /\ Tracked(f.g, f.hist, f.cur)
    <2>1. Unique(f.g) /\ Clean(f.g) /\ OrderFree(f.g)
      BY <1>1, <1>2, CleanIs, GoodIs DEF Unclear
    <2>2. Tracked(f.g, HistoryLines(f.g), Len(HistoryLines(f.g)))
      BY <1>1, <2>1, FreshTracked
    <2> QED
      BY <2>1, <2>2
  <1>3. ASSUME NEW n \in 1 .. N
        PROVE  Backed(f.hist, n, f.snap[n]) /\ (n = f.cur => Shows(f.g, f.snap[n]))
    <2>1. CASE f.snap[n] = Nothing
      BY <2>1 DEF Backed, Shows, Nothing, Others
    <2>2. ASSUME n = f.cur, f.snap[n] = Claim(e)
          PROVE  Backed(f.hist, n, f.snap[n]) /\ Shows(f.g, f.snap[n])
      <3>1. Good(e.g) /\ e.cur \in Nat /\ (~e.vague => Tracked(e.g, e.hist, e.cur))
        BY <1>1, <1>2, <2>2
      <3>2. Backed(e.hist, e.cur, Claim(e)) /\ Shows(e.g, Claim(e))
        BY <3>1, ClaimIs
      <3> QED
        BY <2>2, <3>2
    <2>3. n < f.cur \/ (n = f.cur /\ f.cur > 0)
      BY <1>1
    <2>4. f.snap[n] = Nothing \/ (n = f.cur /\ f.snap[n] = Claim(e))
      BY <2>3
    <2> QED
      BY <2>1, <2>2, <2>4
  <1>4. Items(f)
    BY <1>3 DEF Items
  <1>5. f.cur > 0 => Shows(f.g, f.snap[f.cur])
    BY <1>1, <1>3
  <1> QED
    BY <1>2, <1>4, <1>5 DEF Apt

\* Leaving the darkroom and entering it
LEMMA ReenterApt ==
  ASSUME KnownClasses, Numbers, State \in EditStates, Reenter
  PROVE  Apt(State')
  <1> DEFINE f == State'
             e == [g |-> g', hist |-> hist', cur |-> Len(hist'), snap |-> <<>>,
                   vague |-> Unclear(g') \/ ~OrderFree(g')]
  <1>1. f \in EditStates
    BY ReenterType
  <1>2. /\ f.g = g' /\ f.hist = hist' /\ f.cur = cur' /\ f.snap = snap' /\ f.vague = vague'
    BY DEF State
  <1>3. /\ hist' = HistoryLines(g') /\ cur' = Len(hist') /\ vague' = e.vague
        /\ snap' = [n \in DOMAIN hist' |-> IF n < Len(hist') THEN Nothing ELSE Claim(e)]
    BY DEF Reenter, FreshHistory
  <1>4. /\ e.g = f.g /\ e.hist = f.hist /\ e.cur = f.cur /\ e.vague = f.vague
        /\ f.vague = (Unclear(f.g) \/ ~OrderFree(f.g))
    BY <1>2, <1>3
  <1> HIDE DEF e, f
  <1>5. f.hist \in Seq(Lines) /\ f.cur = Len(f.hist) /\ f.hist = HistoryLines(f.g)
    BY <1>1, <1>2, <1>3, EditFields
  <1>6. /\ \A n \in 1 .. Len(f.hist) : n < f.cur => f.snap[n] = Nothing
        /\ f.cur > 0 => f.snap[f.cur] \in {Nothing, Claim(e)}
    BY <1>2, <1>3, <1>5
  <1>7. Apt(f)
    BY <1>1, <1>4, <1>5, <1>6, FreshApt
  <1> QED
    BY <1>7 DEF f

LEMMA HInitApt ==
  ASSUME KnownClasses, Numbers, HInit
  PROVE  Apt(State)
  <1> DEFINE f == State
  <1>1. f \in EditStates
    BY HInitType DEF HSound
  <1>2. /\ f.g = g /\ f.hist = hist /\ f.cur = cur /\ f.snap = snap /\ f.vague = vague
    BY DEF State
  <1>3. /\ hist = HistoryLines(g) /\ cur = Len(hist) /\ vague = (Unclear(g) \/ ~OrderFree(g))
        /\ snap = [n \in DOMAIN hist |-> Nothing]
    BY DEF HInit
  <1> HIDE DEF f
  <1>4. f.hist \in Seq(Lines) /\ f.cur = Len(f.hist) /\ f.hist = HistoryLines(f.g)
        /\ f.vague = (Unclear(f.g) \/ ~OrderFree(f.g))
    BY <1>1, <1>2, <1>3, EditFields
  <1>5. /\ \A n \in 1 .. Len(f.hist) : n < f.cur => f.snap[n] = Nothing
        /\ f.cur > 0 => f.snap[f.cur] \in {Nothing, Claim(f)}
    BY <1>2, <1>3, <1>4
  <1>6. Apt(f)
    BY <1>1, <1>4, <1>5, FreshApt
  <1> QED
    BY <1>6 DEF f

-----------------------------------------------------------------------------
(* What the user saw comes back *)

LEMMA HStepApt ==
  ASSUME KnownClasses, Numbers, HSound, Apt(State), [HNext]_hvars
  PROVE  Apt(State')
  <1>0. State \in EditStates
    BY DEF HSound
  <1>1. CASE Edit
    <2>1. ASSUME NEW k \in Keys \ {Preview}, AddEdit(k) PROVE Apt(State')
      BY <1>0, <2>1, AddEditApt
    <2>2. ASSUME NEW o \in Pins \cup {Unset}, NEW i \in Pins, Connecting(o, i) PROVE Apt(State')
      BY <1>0, <2>2, ConnectingApt
    <2>3. ASSUME NEW o \in Pins, NEW i \in Pins, FeedbackEdit(o, i) PROVE Apt(State')
      BY <1>0, <2>3, FeedbackEditApt
    <2>4. ASSUME NEW s \in Slots, RemoveEdit(s) PROVE Apt(State')
      BY <1>0, <2>4, RemoveEditApt
    <2>5. ASSUME NEW s \in Slots, NEW v \in UserValues, NEW recent \in BOOLEAN,
                 ParamEdit(s, v, recent)
          PROVE  Apt(State')
      BY <1>0, <2>5, ParamEditApt
    <2>6. ASSUME NEW s \in Slots, LineEdit(s) PROVE Apt(State')
      BY <1>0, <2>6, LineEditApt
    <2>7. ASSUME NEW o \in Pins, Activate(o) PROVE Apt(State')
      BY <1>0, <2>7, ActivateType, ActivateApt
    <2> QED
      BY <1>1, <2>1, <2>2, <2>3, <2>4, <2>5, <2>6, <2>7 DEF Edit
  <1>2. CASE Reenter
    BY <1>0, <1>2, ReenterApt
  <1>3. ASSUME NEW n \in Oldest .. ItemMax, Set(n) PROVE Apt(State')
    BY <1>0, <1>3, SetApt
  <1>4. CASE UNCHANGED hvars
    <2>1. State' = State
      BY <1>4 DEF hvars, State
    <2> QED
      BY <2>1
  <1> QED
    BY <1>1, <1>2, <1>3, <1>4 DEF HNext

\* Going back or forth in the history brings back what the user saw when the
\* item was recorded: all its modules, how they were connected, and their
\* values, whatever was added, removed, shown or replaced in between, and in
\* whatever slots the modules are now.
THEOREM HistoryBringsBack ==
  ASSUME KnownClasses, Numbers
  PROVE  HSpec => []BringsBack
  <1>1. HInit => HSound /\ Apt(State)
    BY HInitType, HInitApt
  <1>2. HSound /\ Apt(State) /\ [HNext]_hvars => (HSound /\ Apt(State))'
    BY HStepSound, HStepApt
  <1>3. HSound /\ Apt(State) => BringsBack
    BY DEF Apt, BringsBack, State
  <1> QED
    BY <1>1, <1>2, <1>3, PTL DEF HSpec
=============================================================================
