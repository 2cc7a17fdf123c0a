------------------------- MODULE ModuleGraphProofs -------------------------
(***************************************************************************)
(* The invariants of the module graph, for any set of modules, classes and *)
(* slots.  Every operation is a value of the graph, so each invariant is   *)
(* first shown to be kept by the operators: taking connections away,       *)
(* making one, adding a module and clearing some.  Then the search for     *)
(* cycles.                                                                 *)
(***************************************************************************)
EXTENDS Cycles, FiniteSetTheorems, WellFoundedInduction, TLAPS

\* What holds of 0 and of the next of each number holds of all: induction over
\* a set of numbers.
LEMMA NatMin ==
  ASSUME NEW T \in SUBSET Nat, T # {}
  PROVE  \E x \in T : \A y \in T : x <= y
  <1> DEFINE R == OpToRel(<, Nat)
  <1>1. IsWellFoundedOn(R, Nat)
    BY NatLessThanWellFounded
  <1>2. \A x, y \in Nat : x < y => <<x, y>> \in R
    BY DEF OpToRel
  <1> HIDE DEF R
  <1>3. PICK x \in T : \A y \in T : ~ (<<y, x>> \in R)
    BY <1>1, WFMin
  <1>4. ASSUME NEW y \in T PROVE x <= y
    <2>1. x \in Nat /\ y \in Nat /\ ~ (y < x)
      BY <1>2, <1>3
    <2> QED
      BY <2>1
  <1> QED
    BY <1>4

LEMMA NatInd ==
  ASSUME NEW T, 0 \in T, \A n \in Nat : n \in T => n + 1 \in T
  PROVE  Nat \subseteq T
  <1> SUFFICES ASSUME Nat \ T # {} PROVE FALSE
    OBVIOUS
  <1>1. PICK x \in Nat \ T : \A y \in Nat \ T : x <= y
    BY NatMin
  <1>2. x # 0 /\ x - 1 \in Nat
    BY <1>1
  <1> QED
    BY <1>1, <1>2

LEMMA SizeType == NumSlots \in Nat \ {0} /\ NumConns \in Nat \ {0}
  BY GraphAssumption

LEMMA SlotsType == Slots \subseteq Nat /\ IsFiniteSet(Slots)
  BY SizeType, FS_Interval DEF Slots

LEMMA PinsFinite == IsFiniteSet(Pins)
  <1>1. IsFiniteSet(Conns)
    BY SizeType, FS_Interval DEF Conns
  <1> QED
    BY <1>1, SlotsType, FS_Product DEF Pins

\* The place in the graph of an input without connection is no pin.
LEMMA UnsetIsNoPin == Unset \notin Pins
  BY SlotsType DEF Unset, Pins, Slots

LEMMA ReadersFinite ==
  ASSUME NEW h \in Graph, NEW o
  PROVE  IsFiniteSet(Readers(h, o)) /\ Readers(h, o) \subseteq Pins
  BY PinsFinite, FS_Subset DEF Readers

LEMMA ClassType ==
  ASSUME NEW h \in Graph, NEW p \in Pins
  PROVE  /\ PinClass(h, p).io \in {"in", "out", "none"}
         /\ PinClass(h, p).chan \in Tokens
         /\ PinClass(h, p).fmt \in Tokens
  <1>1. p[1] \in Slots /\ p[2] \in Conns
    BY DEF Pins
  <1>2. h.mod[p[1]] \in Keys \cup {NoKey}
    BY <1>1 DEF Graph
  <1>3. CASE h.mod[p[1]] = NoKey
    BY <1>3, GraphAssumption DEF PinClass, NoConn
  <1>4. CASE h.mod[p[1]] \in Keys
    <2>1. Class[h.mod[p[1]]][p[2]] \in [io : {"in", "out", "none"}, chan : Tokens, fmt : Tokens]
      BY <1>1, <1>4, GraphAssumption
    <2> QED
      BY <2>1, <1>4, GraphAssumption DEF PinClass
  <1> QED
    BY <1>2, <1>3, <1>4

\* What a pin is depends on the slots only.
LEMMA SameModules ==
  ASSUME NEW h, NEW k, k.mod = h.mod, k.num = h.num
  PROVE  /\ \A p \in Pins : PinClass(k, p) = PinClass(h, p)
         /\ Live(k) = Live(h)
         /\ Inputs(k) = Inputs(h) /\ Outputs(k) = Outputs(h)
  BY DEF PinClass, Live, Used, Inputs, Outputs, IsIn, IsOut

-----------------------------------------------------------------------------
(* Taking connections away *)

\* What Unlink does, field by field
Lost(h, P, o) == {p \in P : Linked(h, p) /\ h.src[p] = o}

LEMMA UnlinkFields ==
  ASSUME NEW h \in Graph, NEW P \in SUBSET Pins
  PROVE  LET u == Unlink(h, P)
         IN  /\ u \in Graph
             /\ u.num = h.num /\ u.mod = h.mod /\ u.par = h.par
             /\ u.fb = h.fb /\ u.oob = h.oob
             /\ \A p \in Pins :
                  /\ u.src[p] = IF p \in P /\ Linked(h, p) THEN Unset ELSE h.src[p]
                  /\ u.ref[p] = IF Cardinality(Lost(h, P, p)) <= h.ref[p]
                                THEN h.ref[p] - Cardinality(Lost(h, P, p)) ELSE 0
                  /\ IF (p \in P /\ Linked(h, p)) \/ (h.ref[p] > 0 /\ u.ref[p] = 0)
                     THEN u.chan[p] = PinClass(h, p).chan /\ u.fmt[p] = PinClass(h, p).fmt
                     ELSE u.chan[p] = h.chan[p] /\ u.fmt[p] = h.fmt[p]
  <1> DEFINE u == Unlink(h, P)
             n(o) == Cardinality(Lost(h, P, o))
             left(o) == IF n(o) <= h.ref[o] THEN h.ref[o] - n(o) ELSE 0
             reset(p) == (p \in P /\ Linked(h, p)) \/ (h.ref[p] > 0 /\ left(p) = 0)
  <1>1. \A o \in Pins : n(o) \in Nat
    <2> TAKE o \in Pins
    <2> Lost(h, P, o) \subseteq Pins
      BY DEF Lost
    <2> QED
      BY PinsFinite, FS_Subset, FS_CardinalityType
  <1>2. \A o \in Pins : left(o) \in Nat
    <2> TAKE o \in Pins
    <2> h.ref[o] \in Nat /\ n(o) \in Nat
      BY <1>1 DEF Graph
    <2> QED
      OBVIOUS
  <1>3. u = [h EXCEPT !.src  = [p \in Pins |-> IF p \in P /\ Linked(h, p) THEN Unset ELSE h.src[p]],
                      !.ref  = [p \in Pins |-> left(p)],
                      !.chan = [p \in Pins |-> IF reset(p) THEN PinClass(h, p).chan ELSE h.chan[p]],
                      !.fmt  = [p \in Pins |-> IF reset(p) THEN PinClass(h, p).fmt ELSE h.fmt[p]]]
    BY DEF Unlink, Lost
  <1>4. \A p \in Pins : PinClass(h, p).chan \in Tokens /\ PinClass(h, p).fmt \in Tokens
    BY ClassType
  <1> HIDE DEF left, n
  <1>5. /\ [p \in Pins |-> IF p \in P /\ Linked(h, p) THEN Unset ELSE h.src[p]] \in [Pins -> Pins \cup {Unset}]
        /\ [p \in Pins |-> left(p)] \in [Pins -> Nat]
        /\ [p \in Pins |-> IF reset(p) THEN PinClass(h, p).chan ELSE h.chan[p]] \in [Pins -> Tokens]
        /\ [p \in Pins |-> IF reset(p) THEN PinClass(h, p).fmt ELSE h.fmt[p]] \in [Pins -> Tokens]
    BY <1>2, <1>4 DEF Graph
  <1> HIDE DEF reset
  <1>6. u \in Graph
    BY <1>3, <1>5 DEF Graph
  <1>7. /\ u.num = h.num /\ u.mod = h.mod /\ u.par = h.par
        /\ u.fb = h.fb /\ u.oob = h.oob
    BY <1>3 DEF Graph
  <1>8. \A p \in Pins : /\ u.src[p] = IF p \in P /\ Linked(h, p) THEN Unset ELSE h.src[p]
                        /\ u.ref[p] = left(p)
                        /\ u.chan[p] = IF reset(p) THEN PinClass(h, p).chan ELSE h.chan[p]
                        /\ u.fmt[p] = IF reset(p) THEN PinClass(h, p).fmt ELSE h.fmt[p]
    BY <1>3 DEF Graph
  <1> QED
    BY <1>6, <1>7, <1>8 DEF left, n, reset

\* One input at a time is the same as all at once.
LEMMA UnlinkOne ==
  ASSUME NEW h \in Graph, NEW i \in Pins
  PROVE  Unlink1(h, i) = Unlink(h, {i})
  <1> DEFINE o == h.src[i]
             u == Unlink(h, {i})
             n(p) == Cardinality({q \in {i} : Linked(h, q) /\ h.src[q] = p})
  <1>1. CASE ~Linked(h, i)
    <2>1. \A p \in Pins : {q \in {i} : Linked(h, q) /\ h.src[q] = p} = {}
      BY <1>1
    <2>2. \A p \in Pins : n(p) = 0
      BY <2>1, FS_EmptySet
    <2> HIDE DEF n
    <2>3. u = [h EXCEPT !.src = h.src, !.ref = h.ref, !.chan = h.chan, !.fmt = h.fmt]
      <3>1. \A p \in Pins : h.ref[p] \in Nat
        BY DEF Graph
      <3>2. [p \in Pins |-> IF p \in {i} /\ Linked(h, p) THEN Unset ELSE h.src[p]] = h.src
        BY <1>1 DEF Graph
      <3>3. [p \in Pins |-> IF n(p) <= h.ref[p] THEN h.ref[p] - n(p) ELSE 0] = h.ref
        BY <2>2, <3>1 DEF Graph
      <3> DEFINE reset(p) == (p \in {i} /\ Linked(h, p))
                             \/ (h.ref[p] > 0 /\ (IF n(p) <= h.ref[p] THEN h.ref[p] - n(p) ELSE 0) = 0)
      <3>4. \A p \in Pins : ~reset(p)
        BY <1>1, <2>2, <3>1
      <3> HIDE DEF reset
      <3>5. [p \in Pins |-> IF reset(p) THEN PinClass(h, p).chan ELSE h.chan[p]] = h.chan
        BY <3>4 DEF Graph
      <3>6. [p \in Pins |-> IF reset(p) THEN PinClass(h, p).fmt ELSE h.fmt[p]] = h.fmt
        BY <3>4 DEF Graph
      <3> QED
        BY <3>2, <3>3, <3>5, <3>6 DEF Unlink, n, reset
    <2>4. [h EXCEPT !.src = h.src, !.ref = h.ref, !.chan = h.chan, !.fmt = h.fmt] = h
      BY DEF Graph
    <2> QED
      BY <1>1, <2>3, <2>4 DEF Unlink1
  <1>2. CASE Linked(h, i)
    <2>1. o \in Pins
      BY <1>2 DEF Linked, Graph
    <2>2. \A p \in Pins : {q \in {i} : Linked(h, q) /\ h.src[q] = p} = IF p = o THEN {i} ELSE {}
      BY <1>2
    <2>3. \A p \in Pins : n(p) = IF p = o THEN 1 ELSE 0
      BY <2>2, FS_EmptySet, FS_Singleton
    <2> HIDE DEF n
    <2>4. \A p \in Pins : h.ref[p] \in Nat
      BY DEF Graph
    <2> DEFINE reset(p) == (p \in {i} /\ Linked(h, p))
                           \/ (h.ref[p] > 0 /\ (IF n(p) <= h.ref[p] THEN h.ref[p] - n(p) ELSE 0) = 0)
    <2>5. \A p \in Pins : reset(p) <=> p = i \/ (p = o /\ h.ref[o] = 1)
      BY <1>2, <2>1, <2>3, <2>4
    <2> HIDE DEF reset
    <2>6. [p \in Pins |-> IF p \in {i} /\ Linked(h, p) THEN Unset ELSE h.src[p]] = [h.src EXCEPT ![i] = Unset]
      BY <1>2 DEF Graph
    <2>7. [p \in Pins |-> IF n(p) <= h.ref[p] THEN h.ref[p] - n(p) ELSE 0]
          = [h.ref EXCEPT ![o] = IF @ > 0 THEN @ - 1 ELSE 0]
      BY <2>1, <2>3, <2>4 DEF Graph
    <2>8. [p \in Pins |-> IF reset(p) THEN PinClass(h, p).chan ELSE h.chan[p]]
          = [h.chan EXCEPT ![i] = PinClass(h, i).chan,
                           ![o] = IF h.ref[o] = 1 THEN PinClass(h, o).chan ELSE @]
      BY <2>1, <2>5 DEF Graph
    <2>9. [p \in Pins |-> IF reset(p) THEN PinClass(h, p).fmt ELSE h.fmt[p]]
          = [h.fmt EXCEPT ![i] = PinClass(h, i).fmt,
                          ![o] = IF h.ref[o] = 1 THEN PinClass(h, o).fmt ELSE @]
      BY <2>1, <2>5 DEF Graph
    <2> QED
      BY <1>2, <2>6, <2>7, <2>8, <2>9 DEF Unlink, Unlink1, n, reset
  <1> QED
    BY <1>1, <1>2

\* The source of a connected input is found.
LEMMA AllLinked ==
  ASSUME NEW h \in Graph, NoDangling(h), NEW p \in Pins, h.src[p] # Unset
  PROVE  /\ Linked(h, p) /\ ~Refused(h, p)
         /\ h.src[p] \in Outputs(h) /\ h.src[p] \in Pins /\ p \in Inputs(h)
  <1>1. h.src[p] \in Outputs(h) /\ p \in Inputs(h)
    BY DEF NoDangling
  <1> QED
    BY <1>1, SlotsType DEF Linked, Refused, Outputs, Live, Used, Slots, Graph

LEMMA InNotOut ==
  ASSUME NEW h
  PROVE  Inputs(h) \cap Outputs(h) = {}
  BY DEF Inputs, Outputs, IsIn, IsOut

LEMMA UnlinkDangling ==
  ASSUME NEW h \in Graph, NEW P \in SUBSET Pins, NoDangling(h)
  PROVE  NoDangling(Unlink(h, P))
  <1> DEFINE u == Unlink(h, P)
  <1>1. /\ u.num = h.num /\ u.mod = h.mod
        /\ \A p \in Pins : u.src[p] = Unset \/ u.src[p] = h.src[p]
    BY UnlinkFields
  <1>2. Inputs(u) = Inputs(h) /\ Outputs(u) = Outputs(h)
    BY <1>1, SameModules
  <1> HIDE DEF u
  <1>3. NoDangling(u)
    BY <1>1, <1>2 DEF NoDangling
  <1> QED
    BY <1>3 DEF u

LEMMA UnlinkReferences ==
  ASSUME NEW h \in Graph, NEW P \in SUBSET Pins, NoDangling(h), RefExact(h)
  PROVE  RefExact(Unlink(h, P))
  <1> DEFINE u == Unlink(h, P)
  <1>1. /\ u \in Graph /\ u.num = h.num /\ u.mod = h.mod
        /\ \A p \in Pins :
             /\ u.src[p] = IF p \in P /\ Linked(h, p) THEN Unset ELSE h.src[p]
             /\ u.ref[p] = IF Cardinality(Lost(h, P, p)) <= h.ref[p]
                           THEN h.ref[p] - Cardinality(Lost(h, P, p)) ELSE 0
    BY UnlinkFields
  <1>2. Outputs(u) = Outputs(h)
    BY <1>1, SameModules
  <1> HIDE DEF u
  <1>3. ASSUME NEW o \in Outputs(h)
        PROVE  u.ref[o] = Cardinality(Readers(u, o))
    <2>1. o \in Pins /\ o # Unset
      BY UnsetIsNoPin DEF Outputs
    <2>2. Readers(u, o) = Readers(h, o) \ Lost(h, P, o)
      BY <1>1, <2>1 DEF Readers, Lost
    <2>3. Lost(h, P, o) \subseteq Readers(h, o)
      BY DEF Readers, Lost
    <2>4. IsFiniteSet(Readers(h, o))
      BY ReadersFinite
    <2>5. /\ IsFiniteSet(Lost(h, P, o))
          /\ Cardinality(Lost(h, P, o)) <= Cardinality(Readers(h, o))
      BY <2>3, <2>4, FS_Subset
    <2>6. Readers(h, o) \cap Lost(h, P, o) = Lost(h, P, o)
      BY <2>3
    <2>7. Cardinality(Readers(u, o)) = Cardinality(Readers(h, o)) - Cardinality(Lost(h, P, o))
      BY <2>2, <2>4, <2>5, <2>6, FS_Difference
    <2>8. h.ref[o] = Cardinality(Readers(h, o))
      BY DEF RefExact
    <2> QED
      BY <1>1, <2>1, <2>5, <2>7, <2>8
  <1>4. RefExact(u)
    BY <1>2, <1>3 DEF RefExact
  <1> QED
    BY <1>4 DEF u

LEMMA UnlinkFormats ==
  ASSUME NEW h \in Graph, NEW P \in SUBSET Pins,
         NoDangling(h), RefExact(h), FormatsAgree(h)
  PROVE  FormatsAgree(Unlink(h, P))
  <1> DEFINE u == Unlink(h, P)
  <1>1. /\ u \in Graph /\ u.num = h.num /\ u.mod = h.mod
        /\ \A p \in Pins :
             /\ u.src[p] = IF p \in P /\ Linked(h, p) THEN Unset ELSE h.src[p]
             /\ u.ref[p] = IF Cardinality(Lost(h, P, p)) <= h.ref[p]
                           THEN h.ref[p] - Cardinality(Lost(h, P, p)) ELSE 0
             /\ IF (p \in P /\ Linked(h, p)) \/ (h.ref[p] > 0 /\ u.ref[p] = 0)
                THEN u.chan[p] = PinClass(h, p).chan /\ u.fmt[p] = PinClass(h, p).fmt
                ELSE u.chan[p] = h.chan[p] /\ u.fmt[p] = h.fmt[p]
    BY UnlinkFields
  <1>2. Outputs(u) = Outputs(h)
    BY <1>1, SameModules
  <1>3. RefExact(u)
    BY UnlinkReferences
  <1> HIDE DEF u
  <1>4. ASSUME NEW p \in Pins, u.src[p] # Unset
        PROVE  /\ u.src[p] = h.src[p] /\ h.src[p] # Unset
               /\ u.chan[p] = h.chan[p] /\ u.fmt[p] = h.fmt[p]
               /\ u.chan[h.src[p]] = h.chan[h.src[p]] /\ u.fmt[h.src[p]] = h.fmt[h.src[p]]
    <2> DEFINE o == h.src[p]
    <2>1. u.src[p] = o /\ o # Unset /\ ~(p \in P /\ Linked(h, p))
      BY <1>1, <1>4
    <2>2. o \in Outputs(h) /\ o \in Pins /\ p \in Inputs(h)
      BY <2>1, AllLinked
    <2>3. h.ref[p] > 0 => u.ref[p] # 0
      <3>1. Lost(h, P, p) = {}
        <4> SUFFICES ASSUME NEW q \in P, h.src[q] = p PROVE FALSE
          BY DEF Lost
        <4>1. p # Unset
          BY UnsetIsNoPin
        <4>2. p \in Outputs(h)
          BY <4>1, AllLinked
        <4> QED
          BY <4>2, <2>2, InNotOut
      <3>2. Cardinality(Lost(h, P, p)) = 0
        BY <3>1, FS_EmptySet
      <3>3. h.ref[p] \in Nat
        BY DEF Graph
      <3> QED
        BY <1>1, <3>2, <3>3
    <2>4. u.ref[o] # 0
      <3>1. p \in Readers(u, o)
        BY <2>1 DEF Readers
      <3>2. IsFiniteSet(Readers(u, o))
        BY <1>1, ReadersFinite
      <3>3. Cardinality(Readers(u, o)) # 0
        BY <3>1, <3>2, FS_EmptySet
      <3> QED
        BY <3>3, <1>2, <1>3, <2>2 DEF RefExact
    <2>5. ~(o \in P /\ Linked(h, o))
      <3> SUFFICES ASSUME h.src[o] # Unset PROVE FALSE
        BY DEF Linked
      <3>1. o \in Inputs(h)
        BY <2>2, AllLinked
      <3> QED
        BY <3>1, <2>2, InNotOut
    <2> QED
      BY <1>1, <2>1, <2>2, <2>3, <2>4, <2>5
  <1>5. FormatsAgree(u)
    BY <1>4 DEF FormatsAgree
  <1> QED
    BY <1>5 DEF u

-----------------------------------------------------------------------------
(* Making a connection *)

LEMMA FormatsType ==
  ASSUME NEW o \in Tokens, NEW i \in Tokens
  PROVE  /\ Given(o) \in Tokens
         /\ OutFormat(o, i, "rgba") \in Tokens /\ InFormat(Given(o), i, "rgba") \in Tokens
         /\ OutFormat(o, i, "f16") \in Tokens /\ InFormat(o, i, "f16") \in Tokens
  <1> "*" \in Tokens /\ "rgba" \in Tokens /\ "f16" \in Tokens
    BY GraphAssumption
  <1> QED
    BY DEF Given, OutFormat, InFormat

\* The two outcomes of Join: the connection is made, or only formats change.
JoinResult(h, o, i, k) ==
  /\ k \in Graph
  /\ k.num = h.num /\ k.mod = h.mod
  /\ \A p \in Pins \ {o, i} : k.chan[p] = h.chan[p] /\ k.fmt[p] = h.fmt[p]
  /\ h.chan[o] # "*" => k.chan[o] = h.chan[o]
  /\ h.fmt[o] # "*" => k.fmt[o] = h.fmt[o]
  /\ \/ k.src = h.src /\ k.ref = h.ref /\ k.fb = h.fb
     \/ /\ k.src = [h.src EXCEPT ![i] = o]
        /\ k.ref = [h.ref EXCEPT ![o] = h.ref[o] + 1]
        /\ k.fb = h.fb \ {i}
        /\ k.chan[o] \in {k.chan[i], "&"} /\ k.fmt[o] = k.fmt[i]
        /\ k.chan[i] # "*" /\ k.fmt[i] # "*"

LEMMA JoinFields ==
  ASSUME NEW h \in Graph, NEW o \in Pins, NEW i \in Pins, o # i
  PROVE  JoinResult(h, o, i, Join(h, o, i))
  <1> DEFINE k == Join(h, o, i)
             oc == OutFormat(h.chan[o], h.chan[i], "rgba")
             ic == InFormat(Given(h.chan[o]), h.chan[i], "rgba")
             of == OutFormat(h.fmt[o], h.fmt[i], "f16")
             if == InFormat(h.fmt[o], h.fmt[i], "f16")
             chan == [h.chan EXCEPT ![o] = oc, ![i] = ic]
             fmt  == [h.fmt EXCEPT ![o] = of, ![i] = if]
             a == [h EXCEPT !.chan = chan]
             b == [a EXCEPT !.fmt = fmt]
             d == [b EXCEPT !.src = [h.src EXCEPT ![i] = o],
                            !.ref = [h.ref EXCEPT ![o] = h.ref[o] + 1],
                            !.fb = h.fb \ {i}]
  <1>1. /\ h.chan \in [Pins -> Tokens] /\ h.fmt \in [Pins -> Tokens]
        /\ h.chan[o] \in Tokens /\ h.chan[i] \in Tokens /\ h.fmt[o] \in Tokens /\ h.fmt[i] \in Tokens
        /\ h.src \in [Pins -> Pins \cup {Unset}] /\ h.ref \in [Pins -> Nat] /\ h.fb \in SUBSET Pins
    BY DEF Graph
  <1>2. oc \in Tokens /\ ic \in Tokens /\ of \in Tokens /\ if \in Tokens
    BY <1>1, FormatsType
  <1>3. /\ h.chan[o] # "*" => oc = h.chan[o]
        /\ h.fmt[o] # "*" => of = h.fmt[o]
        /\ ic # "*" /\ if # "*"
    BY DEF OutFormat, InFormat
  <1>4. h.chan[o] = "&" => oc = "&"
    BY DEF OutFormat
  <1>5. /\ a = AgreeChan(h, o, i)
        /\ a.fmt = h.fmt
    BY DEF AgreeChan, Graph
  <1>6. /\ b = AgreeFmt(a, o, i)
    BY <1>5 DEF AgreeFmt
  <1>7. /\ BadChan(h, o, i) <=> h.chan[o] # "&" /\ oc # ic
        /\ BadFmt(h, o, i) <=> of # if
    BY DEF BadChan, BadFmt
  <1>8. k = IF BadChan(h, o, i) THEN a ELSE IF BadFmt(h, o, i) THEN b ELSE d
    <2>1. [h.ref EXCEPT ![o] = @ + 1] = [h.ref EXCEPT ![o] = h.ref[o] + 1]
      BY <1>1
    <2> QED
      BY <2>1, <1>5, <1>6 DEF Join
  <1> HIDE DEF k, oc, ic, of, if
  <1>9. /\ chan \in [Pins -> Tokens] /\ fmt \in [Pins -> Tokens]
        /\ chan[o] = oc /\ chan[i] = ic /\ fmt[o] = of /\ fmt[i] = if
        /\ \A p \in Pins \ {o, i} : chan[p] = h.chan[p] /\ fmt[p] = h.fmt[p]
    BY <1>1, <1>2
  <1> HIDE DEF chan, fmt
  <1>10. /\ a \in Graph /\ b \in Graph
         /\ a.num = h.num /\ a.mod = h.mod /\ b.num = h.num /\ b.mod = h.mod
         /\ a.src = h.src /\ a.ref = h.ref /\ a.fb = h.fb
         /\ b.src = h.src /\ b.ref = h.ref /\ b.fb = h.fb
         /\ a.chan = chan /\ a.fmt = h.fmt /\ b.chan = chan /\ b.fmt = fmt
    BY <1>9 DEF Graph
  <1>11. /\ d.num = h.num /\ d.mod = h.mod /\ d.chan = chan /\ d.fmt = fmt
         /\ d.src = [h.src EXCEPT ![i] = o] /\ d.ref = [h.ref EXCEPT ![o] = h.ref[o] + 1]
         /\ d.fb = h.fb \ {i}
    BY DEF Graph
  <1>12. d \in Graph
    <2>1. /\ [h.src EXCEPT ![i] = o] \in [Pins -> Pins \cup {Unset}]
          /\ [h.ref EXCEPT ![o] = h.ref[o] + 1] \in [Pins -> Nat]
          /\ h.fb \ {i} \in SUBSET Pins
      BY <1>1
    <2> QED
      BY <2>1, <1>9 DEF Graph
  <1>13. ASSUME k = a PROVE JoinResult(h, o, i, k)
    BY <1>13, <1>3, <1>9, <1>10 DEF JoinResult
  <1>14. ASSUME k = b PROVE JoinResult(h, o, i, k)
    BY <1>14, <1>3, <1>9, <1>10 DEF JoinResult
  <1>15. ASSUME k = d /\ (h.chan[o] = "&" \/ oc = ic) /\ of = if
         PROVE  JoinResult(h, o, i, k)
    <2>1. d.chan[o] \in {d.chan[i], "&"} /\ d.fmt[o] = d.fmt[i] /\ d.chan[i] # "*" /\ d.fmt[i] # "*"
      BY <1>15, <1>3, <1>4, <1>9, <1>11
    <2> HIDE DEF d
    <2> QED
      BY <2>1, <1>15, <1>3, <1>9, <1>11, <1>12 DEF JoinResult
  <1>16. k = a \/ k = b \/ (k = d /\ (h.chan[o] = "&" \/ oc = ic) /\ of = if)
    BY <1>7, <1>8
  <1> HIDE DEF a, b, d
  <1> QED
    BY <1>13, <1>14, <1>15, <1>16 DEF k

\* What makes a graph sound but for the order of its modules
Linking(h) == h \in Graph /\ NoDangling(h) /\ RefExact(h) /\ FormatsAgree(h)

LEMMA UnlinkLinking ==
  ASSUME NEW h, Linking(h), NEW P \in SUBSET Pins
  PROVE  Linking(Unlink(h, P))
  BY UnlinkFields, UnlinkDangling, UnlinkReferences, UnlinkFormats DEF Linking

LEMMA JoinReferences ==
  ASSUME NEW h, Linking(h), NEW o \in Outputs(h), NEW i \in Inputs(h), h.src[i] = Unset,
         NEW k \in Graph, k.num = h.num, k.mod = h.mod,
         k.src = [h.src EXCEPT ![i] = o], k.ref = [h.ref EXCEPT ![o] = h.ref[o] + 1]
  PROVE  RefExact(k)
  <1>1. h \in Graph /\ Outputs(k) = Outputs(h) /\ i \in Pins /\ o \in Pins
    BY SameModules DEF Linking, Inputs, Outputs
  <1>2. h.src \in [Pins -> Pins \cup {Unset}] /\ h.ref \in [Pins -> Nat]
    BY <1>1 DEF Graph
  <1>3. SUFFICES ASSUME NEW q \in Outputs(h) PROVE k.ref[q] = Cardinality(Readers(k, q))
    BY <1>1 DEF RefExact
  <1>4. h.ref[q] = Cardinality(Readers(h, q)) /\ q \in Pins /\ q # Unset
    BY UnsetIsNoPin DEF Linking, RefExact, Outputs
  <1>5. CASE q = o
    <2>1. Readers(k, o) = Readers(h, o) \cup {i} /\ i \notin Readers(h, o)
      BY <1>1, <1>2, <1>4, <1>5 DEF Readers
    <2>2. IsFiniteSet(Readers(h, o))
      BY <1>1, ReadersFinite
    <2>3. Cardinality(Readers(k, o)) = Cardinality(Readers(h, o)) + 1
      BY <2>1, <2>2, FS_AddElement
    <2> QED
      BY <2>3, <1>1, <1>2, <1>4, <1>5
  <1>6. CASE q # o
    <2>1. Readers(k, q) = Readers(h, q)
      BY <1>1, <1>2, <1>4, <1>6 DEF Readers
    <2> QED
      BY <2>1, <1>1, <1>2, <1>4, <1>6
  <1> QED
    BY <1>5, <1>6

LEMMA JoinLinking ==
  ASSUME NEW h, Linking(h), NEW o \in Outputs(h), NEW i \in Inputs(h), h.src[i] = Unset
  PROVE  Linking(Join(h, o, i))
  <1> DEFINE k == Join(h, o, i)
  <1>1. h \in Graph /\ o \in Pins /\ i \in Pins /\ o # i
    BY InNotOut DEF Linking, Inputs, Outputs
  <1>2. JoinResult(h, o, i, k)
    BY <1>1, JoinFields
  <1> HIDE DEF k
  <1>3. k \in Graph /\ Inputs(k) = Inputs(h) /\ Outputs(k) = Outputs(h)
    BY <1>2, SameModules DEF JoinResult
  <1>4. h.src \in [Pins -> Pins \cup {Unset}]
    BY <1>1 DEF Graph
  <1>5. NoDangling(k)
    BY <1>1, <1>2, <1>3, <1>4 DEF JoinResult, NoDangling, Linking
  <1>6. RefExact(k)
    <2>1. CASE k.src = h.src /\ k.ref = h.ref
      BY <2>1, <1>3 DEF RefExact, Readers, Linking
    <2> QED
      BY <2>1, <1>2, JoinReferences DEF JoinResult
  <1>7. FormatsAgree(k)
    <2> SUFFICES ASSUME NEW p \in Pins, k.src[p] # Unset
                 PROVE  /\ k.chan[k.src[p]] \in {k.chan[p], "&"}
                        /\ k.fmt[k.src[p]] = k.fmt[p]
                        /\ "*" \notin {k.chan[p], k.fmt[p]}
      BY DEF FormatsAgree
    <2>1. CASE p = i
      BY <2>1, <1>1, <1>2, <1>4 DEF JoinResult
    <2>2. CASE p # i
      <3> DEFINE q == h.src[p]
      <3>1. k.src[p] = q /\ q # Unset
        BY <2>2, <1>1, <1>2, <1>4 DEF JoinResult
      <3>2. p \in Inputs(h) /\ q \in Outputs(h) /\ q \in Pins
        BY <3>1 DEF Linking, NoDangling, Outputs
      <3>3. /\ h.chan[q] \in {h.chan[p], "&"} /\ h.fmt[q] = h.fmt[p]
            /\ h.chan[p] # "*" /\ h.fmt[p] # "*"
        BY <3>1 DEF Linking, FormatsAgree
      <3>4. p # o /\ q # i
        BY <3>2, InNotOut
      <3> HIDE DEF q
      <3>5. k.chan[p] = h.chan[p] /\ k.fmt[p] = h.fmt[p]
        BY <2>2, <3>4, <1>2 DEF JoinResult
      <3>6. k.chan[q] = h.chan[q] /\ k.fmt[q] = h.fmt[q]
        <4>1. CASE q = o
          BY <4>1, <3>3, <1>2 DEF JoinResult
        <4>2. CASE q # o
          BY <4>2, <3>2, <3>4, <1>2 DEF JoinResult
        <4> QED
          BY <4>1, <4>2
      <3> QED
        BY <3>1, <3>3, <3>5, <3>6
    <2> QED
      BY <2>1, <2>2
  <1>8. Linking(k)
    BY <1>3, <1>5, <1>6, <1>7 DEF Linking
  <1> QED
    BY <1>8 DEF k

\* Whatever comes of it, connecting leaves the modules and the other inputs
\* as they are.
Rewired(h, o, i, k) ==
  /\ Linking(k)
  /\ k.num = h.num /\ k.mod = h.mod
  /\ \A p \in Pins \ {i} : k.src[p] = h.src[p] /\ (p \in k.fb <=> p \in h.fb)
  /\ k.src[i] \in {h.src[i], Unset, o}
  /\ k.src[i] = h.src[i] => (i \in k.fb <=> i \in h.fb) \/ k.src[i] = o

LEMMA ConnectInternalLinking ==
  ASSUME NEW h, Linking(h), NEW o \in Outputs(h) \cup {Unset}, NEW i \in Inputs(h)
  PROVE  Rewired(h, o, i, ConnectInternal(h, o, i))
  <1> DEFINE u == Unlink(h, {i})
  <1>1. h \in Graph /\ NoDangling(h) /\ i \in Pins
    BY DEF Linking, Inputs
  <1>2. ~Refused(h, i)
    <2>1. CASE h.src[i] = Unset
      BY <2>1 DEF Refused
    <2>2. CASE h.src[i] # Unset
      BY <2>2, <1>1, AllLinked
    <2> QED
      BY <2>1, <2>2
  <1>3. u = Unlink1(h, i)
    BY <1>1, UnlinkOne
  <1>4. Linking(u)
    BY <1>1, UnlinkLinking
  <1>5. /\ u.num = h.num /\ u.mod = h.mod /\ u.fb = h.fb /\ u \in Graph
        /\ \A p \in Pins : u.src[p] = IF p = i /\ Linked(h, p) THEN Unset ELSE h.src[p]
    BY <1>1, UnlinkFields
  <1>6. u.src[i] = Unset
    BY <1>1, <1>2, <1>5 DEF Linked
  <1>7. Inputs(u) = Inputs(h) /\ Outputs(u) = Outputs(h)
    BY <1>5, SameModules
  <1> HIDE DEF u
  <1>8. Rewired(h, o, i, h)
    BY DEF Rewired
  <1>9. Rewired(h, o, i, u)
    BY <1>1, <1>4, <1>5, <1>6 DEF Rewired
  <1>10. ASSUME o # Unset PROVE Rewired(h, o, i, Join(u, o, i))
    <2> DEFINE k == Join(u, o, i)
    <2>1. o \in Outputs(u) /\ i \in Inputs(u) /\ o \in Pins /\ o # i
      BY <1>7, <1>10, InNotOut DEF Outputs
    <2>2. Linking(k)
      BY <2>1, <1>4, <1>6, JoinLinking
    <2>3. JoinResult(u, o, i, k)
      BY <2>1, <1>1, <1>5, JoinFields
    <2> HIDE DEF k
    <2>4. u.src \in [Pins -> Pins \cup {Unset}]
      BY <1>5 DEF Graph
    <2>5. k.num = h.num /\ k.mod = h.mod
      BY <2>3, <1>5 DEF JoinResult
    <2>6. ASSUME k.src = u.src, k.fb = u.fb PROVE Rewired(h, o, i, k)
      BY <2>2, <2>5, <2>6, <1>1, <1>5, <1>6 DEF Rewired
    <2>7. ASSUME k.src = [u.src EXCEPT ![i] = o], k.fb = u.fb \ {i}
          PROVE  Rewired(h, o, i, k)
      BY <2>2, <2>4, <2>5, <2>7, <1>1, <1>5 DEF Rewired
    <2>8. Rewired(h, o, i, k)
      BY <2>3, <2>6, <2>7 DEF JoinResult
    <2> QED
      BY <2>8 DEF k
  <1> QED
    BY <1>2, <1>3, <1>8, <1>9, <1>10 DEF ConnectInternal

-----------------------------------------------------------------------------
(* The order of the modules *)

Sound(h) == Linking(h) /\ Acyclic(h)

LEMMA FewerEdges ==
  ASSUME NEW h, NEW k, Acyclic(h), Edges(k) \subseteq Edges(h)
  PROVE  Acyclic(k)
  BY DEF Acyclic

\* The search follows exactly the edges.
LEMMA EdgesAreReads ==
  ASSUME NEW h, Linking(h), NEW r, NEW s, <<r, s>> \in Edges(h)
  PROVE  s \in Slots /\ r \in Reads(h, s)
  <1>1. PICK p \in Inputs(h) \ h.fb : h.src[p] # Unset /\ <<r, s>> = <<h.src[p][1], p[1]>>
    BY DEF Edges
  <1>2. p \in Pins /\ IsIn(h, p) /\ s = p[1] /\ r = h.src[p][1]
    BY <1>1 DEF Inputs
  <1>3. s \in Slots /\ p \in PinsOf(s)
    BY <1>2 DEF Pins, PinsOf
  <1> QED
    BY <1>1, <1>2, <1>3 DEF Reads

\* A new edge from a to b does not close a cycle if some set of modules has a
\* and all that it reads, but not b.
LEMMA NewEdge ==
  ASSUME NEW h, Linking(h), Acyclic(h), NEW k, NEW a, NEW b, NEW C \in SUBSET Slots,
         Edges(k) \subseteq Edges(h) \cup {<<a, b>>},
         a \in C, b \notin C, \A s \in C : Reads(h, s) \subseteq C
  PROVE  Acyclic(k)
  <1> SUFFICES ASSUME NEW S \in SUBSET Slots, S # {}
               PROVE  \E s \in S : \A r \in S : <<r, s>> \notin Edges(k)
    BY DEF Acyclic
  <1>1. CASE S \cap C = {}
    <2>1. PICK s \in S : \A r \in S : <<r, s>> \notin Edges(h)
      BY DEF Acyclic
    <2> QED
      BY <2>1, <1>1
  <1>2. CASE S \cap C # {}
    <2>1. PICK s \in S \cap C : \A r \in S \cap C : <<r, s>> \notin Edges(h)
      BY <1>2 DEF Acyclic
    <2>2. ASSUME NEW r \in S, <<r, s>> \in Edges(k) PROVE FALSE
      <3>1. <<r, s>> \in Edges(h)
        BY <2>1, <2>2
      <3>2. r \in C
        BY <3>1, EdgesAreReads
      <3> QED
        BY <2>1, <3>1, <3>2
    <2> QED
      BY <2>1, <2>2
  <1> QED
    BY <1>1, <1>2

LEMMA UnlinkSound ==
  ASSUME NEW h, Sound(h), NEW P \in SUBSET Pins
  PROVE  Sound(Unlink(h, P))
  <1> DEFINE u == Unlink(h, P)
  <1>1. Linking(u)
    BY UnlinkLinking DEF Sound
  <1>2. /\ u.num = h.num /\ u.mod = h.mod /\ u.fb = h.fb
        /\ \A p \in Pins : u.src[p] = Unset \/ u.src[p] = h.src[p]
    BY UnlinkFields DEF Sound, Linking
  <1>3. Inputs(u) = Inputs(h) /\ Inputs(h) \subseteq Pins
    BY <1>2, SameModules DEF Inputs
  <1> HIDE DEF u
  <1>4. Edges(u) \subseteq Edges(h)
    BY <1>2, <1>3 DEF Edges
  <1>5. Sound(u)
    BY <1>1, <1>4, FewerEdges DEF Sound
  <1> QED
    BY <1>5 DEF u

\* A connection adds at most the one edge.
LEMMA RewiredEdges ==
  ASSUME NEW h, Linking(h), NEW o \in Outputs(h) \cup {Unset}, NEW i \in Inputs(h),
         NEW k, Rewired(h, o, i, k)
  PROVE  /\ o # Unset => Edges(k) \subseteq Edges(h) \cup {<<o[1], i[1]>>}
         /\ o = Unset => Edges(k) \subseteq Edges(h)
         /\ \A p \in Inputs(k) \ {i} : p \notin k.fb /\ k.src[p] # Unset
                                     => <<k.src[p][1], p[1]>> \in Edges(h)
  <1>1. Inputs(k) = Inputs(h) /\ Inputs(h) \subseteq Pins /\ i \in Pins
    BY SameModules DEF Rewired, Inputs
  <1>2. ASSUME NEW p \in Inputs(h), p # i, p \notin k.fb, k.src[p] # Unset
        PROVE  <<k.src[p][1], p[1]>> \in Edges(h)
    BY <1>1, <1>2 DEF Rewired, Edges
  <1>3. ASSUME i \notin k.fb, k.src[i] # Unset
        PROVE  <<k.src[i][1], i[1]>> \in Edges(h) \/ (o # Unset /\ k.src[i] = o)
    BY <1>1, <1>3 DEF Rewired, Edges
  <1>4. ASSUME NEW e \in Edges(k)
        PROVE  e \in Edges(h) \/ (o # Unset /\ e = <<o[1], i[1]>>)
    <2>1. PICK p \in Inputs(k) \ k.fb : k.src[p] # Unset /\ e = <<k.src[p][1], p[1]>>
      BY DEF Edges
    <2>2. CASE p = i
      BY <2>1, <2>2, <1>3
    <2>3. CASE p # i
      BY <2>1, <2>3, <1>1, <1>2
    <2> QED
      BY <2>2, <2>3
  <1> QED
    BY <1>1, <1>2, <1>4

LEMMA ConnectSound ==
  ASSUME NEW h, Sound(h), NEW o \in Outputs(h) \cup {Unset}, NEW i \in Inputs(h)
  PROVE  Sound(Connect(h, o, i))
  <1>1. CASE Cyclic(h, o, i)
    BY <1>1 DEF Connect
  <1>2. CASE ~Cyclic(h, o, i)
    <2> DEFINE k == ConnectInternal(h, o, i)
    <2>1. Rewired(h, o, i, k)
      BY ConnectInternalLinking DEF Sound
    <2> HIDE DEF k
    <2>2. Linking(k)
      BY <2>1 DEF Rewired
    <2>3. ASSUME o = Unset PROVE Sound(k)
      BY <2>1, <2>2, <2>3, RewiredEdges, FewerEdges DEF Sound
    <2>4. ASSUME o # Unset PROVE Sound(k)
      <3>1. PICK C \in SUBSET Slots :
              o[1] \in C /\ (\A s \in C : Reads(h, s) \subseteq C) /\ i[1] \notin C
        BY <2>4, <1>2 DEF Cyclic
      <3>2. Edges(k) \subseteq Edges(h) \cup {<<o[1], i[1]>>}
        BY <2>1, <2>4, RewiredEdges DEF Sound
      <3> QED
        BY <2>2, <3>1, <3>2, NewEdge DEF Sound
    <2>5. Sound(k)
      BY <2>3, <2>4
    <2> QED
      BY <2>5, <1>2 DEF Connect, k
  <1> QED
    BY <1>1, <1>2

LEMMA FeedbackSound ==
  ASSUME NEW h, Sound(h), NEW o \in Outputs(h) \cup {Unset}, NEW i \in Inputs(h)
  PROVE  Sound(Feedback(h, o, i))
  <1> DEFINE c == ConnectInternal(h, o, i)
             k == [c EXCEPT !.fb = c.fb \cup {i}, !.oob = c.oob \/ o = Unset]
  <1>1. Rewired(h, o, i, c)
    BY ConnectInternalLinking DEF Sound
  <1>2. k = Feedback(h, o, i)
    BY DEF Feedback
  <1> HIDE DEF c
  <1>3. i \in Pins
    BY DEF Inputs
  <1>4. c \in Graph
    BY <1>1 DEF Rewired, Linking
  <1>5. /\ k \in Graph /\ k.num = c.num /\ k.mod = c.mod /\ k.src = c.src /\ k.ref = c.ref
        /\ k.chan = c.chan /\ k.fmt = c.fmt /\ k.fb = c.fb \cup {i}
    <2>1. c.fb \cup {i} \in SUBSET Pins /\ (c.oob \/ o = Unset) \in BOOLEAN
      BY <1>3, <1>4 DEF Graph
    <2> QED
      BY <1>4, <2>1 DEF Graph
  <1> HIDE DEF k
  <1>6. Inputs(k) = Inputs(c) /\ Outputs(k) = Outputs(c)
    BY <1>5, SameModules
  <1>7. Linking(k)
    BY <1>1, <1>5, <1>6 DEF Rewired, Linking, NoDangling, RefExact, Readers, FormatsAgree
  <1>8. Edges(k) \subseteq Edges(h)
    <2> SUFFICES ASSUME NEW p \in Inputs(c), p \notin c.fb, p # i, c.src[p] # Unset
                 PROVE  <<c.src[p][1], p[1]>> \in Edges(h)
      BY <1>5, <1>6 DEF Edges
    <2> QED
      BY <1>1, RewiredEdges DEF Sound
  <1> QED
    BY <1>2, <1>7, <1>8, FewerEdges DEF Sound

-----------------------------------------------------------------------------
(* Adding and removing modules *)

LEMMA EmptySound == Sound(Empty)
  <1>1. Empty \in Graph
    <2>1. /\ [s \in Slots |-> NoKey] \in [Slots -> Keys \cup {NoKey}]
          /\ [s \in Slots |-> Default] \in [Slots -> Params]
          /\ [p \in Pins |-> Unset] \in [Pins -> Pins \cup {Unset}]
          /\ [p \in Pins |-> 0] \in [Pins -> Nat]
          /\ [p \in Pins |-> ""] \in [Pins -> Tokens]
      BY GraphAssumption
    <2>2. 0 \in 0 .. NumSlots
      BY SizeType
    <2> QED
      BY <2>1, <2>2 DEF Empty, Graph
  <1>2. Inputs(Empty) = {} /\ Outputs(Empty) = {}
    BY SlotsType DEF Empty, Inputs, Outputs, Live, Used, Slots
  <1>3. \A p \in Pins : Empty.src[p] = Unset
    BY DEF Empty
  <1>4. Linking(Empty)
    BY <1>1, <1>2, <1>3 DEF Linking, NoDangling, RefExact, FormatsAgree
  <1>5. Edges(Empty) = {}
    BY <1>2 DEF Edges
  <1> QED
    BY <1>4, <1>5 DEF Sound, Acyclic

LEMMA FreshSound ==
  ASSUME NEW h, Sound(h), NEW s \in Slots, NEW m \in Keys,
         s = h.num \/ (s \in Used(h) /\ h.mod[s] = NoKey)
  PROVE  Sound(Fresh(h, s, m))
  <1> DEFINE k == Fresh(h, s, m)
             num  == IF s = h.num THEN s + 1 ELSE h.num
             mod  == [h.mod EXCEPT ![s] = m]
             src  == [p \in Pins |-> IF p[1] = s THEN Unset ELSE h.src[p]]
             ref  == [p \in Pins |-> IF p[1] = s THEN 0 ELSE h.ref[p]]
             fb   == h.fb \ PinsOf(s)
             chan == [p \in Pins |-> IF p[1] = s THEN Class[m][p[2]].chan ELSE h.chan[p]]
             fmt  == [p \in Pins |-> IF p[1] = s THEN Class[m][p[2]].fmt ELSE h.fmt[p]]
             par  == [h.par EXCEPT ![s] = Default]
  <1>1. h \in Graph /\ NoDangling(h)
    BY DEF Sound, Linking
  <1>2. num \in 0 .. NumSlots
    BY <1>1, SizeType DEF Slots, Graph
  <1>3. mod \in [Slots -> Keys \cup {NoKey}] /\ par \in [Slots -> Params]
    BY <1>1, GraphAssumption DEF Graph
  <1>4. src \in [Pins -> Pins \cup {Unset}] /\ ref \in [Pins -> Nat] /\ fb \in SUBSET Pins
    BY <1>1 DEF Graph
  <1>5. chan \in [Pins -> Tokens] /\ fmt \in [Pins -> Tokens]
    <2>1. \A p \in Pins : Class[m][p[2]].chan \in Tokens /\ Class[m][p[2]].fmt \in Tokens
      <3> TAKE p \in Pins
      <3>1. p[2] \in Conns
        BY DEF Pins
      <3>2. Class[m][p[2]] \in [io : {"in", "out", "none"}, chan : Tokens, fmt : Tokens]
        BY <3>1, GraphAssumption
      <3> QED
        BY <3>2
    <2> QED
      BY <1>1, <2>1 DEF Graph
  <1>6. k = [h EXCEPT !.num = num, !.mod = mod, !.src = src, !.ref = ref, !.fb = fb,
                      !.chan = chan, !.fmt = fmt, !.par = par]
    BY DEF Fresh
  <1>7. /\ s \notin Live(h)
        /\ \A t \in Slots \ {s} : t < num <=> t < h.num
        /\ \A t \in Slots \ {s} : mod[t] = h.mod[t]
    BY <1>1, SlotsType DEF Live, Used, Slots, Graph
  <1>8. \A p \in Pins : /\ src[p] = IF p[1] = s THEN Unset ELSE h.src[p]
                        /\ ref[p] = IF p[1] = s THEN 0 ELSE h.ref[p]
                        /\ p[1] # s => chan[p] = h.chan[p] /\ fmt[p] = h.fmt[p]
                        /\ p[1] # s => (p \in fb <=> p \in h.fb)
    BY DEF PinsOf
  <1> HIDE DEF k, num, mod, src, ref, fb, chan, fmt, par
  <1>9. /\ k \in Graph
        /\ k.num = num /\ k.mod = mod /\ k.src = src /\ k.ref = ref /\ k.fb = fb
        /\ k.chan = chan /\ k.fmt = fmt
    BY <1>1, <1>2, <1>3, <1>4, <1>5, <1>6 DEF Graph
  <1>10. \A p \in Pins : p[1] \in Slots
    BY DEF Pins
  <1>11. ASSUME NEW p \in Pins, p[1] # s
         PROVE  (p \in Inputs(k) <=> p \in Inputs(h)) /\ (p \in Outputs(k) <=> p \in Outputs(h))
    <2>1. p[1] \in Live(k) <=> p[1] \in Live(h)
      BY <1>7, <1>9, <1>10, <1>11 DEF Live, Used
    <2>2. PinClass(k, p) = PinClass(h, p)
      BY <1>7, <1>9, <1>10, <1>11 DEF PinClass
    <2> QED
      BY <2>1, <2>2 DEF Inputs, Outputs, IsIn, IsOut
  \* A connected input and its source are pins of other modules.
  <1>12. ASSUME NEW p \in Pins, k.src[p] # Unset
         PROVE  /\ p[1] # s /\ k.src[p] = h.src[p] /\ h.src[p] \in Pins /\ h.src[p][1] # s
                /\ p \in Inputs(h) /\ h.src[p] \in Outputs(h)
    <2>1. p[1] # s /\ k.src[p] = h.src[p]
      BY <1>8, <1>9, <1>12
    <2>2. p \in Inputs(h) /\ h.src[p] \in Outputs(h)
      BY <1>1, <1>12, <2>1 DEF NoDangling
    <2> QED
      BY <2>1, <2>2, <1>7 DEF Outputs
  <1>13. NoDangling(k)
    <2> SUFFICES ASSUME NEW p \in Pins, k.src[p] # Unset
                 PROVE  p \in Inputs(k) /\ k.src[p] \in Outputs(k)
      BY DEF NoDangling
    <2> QED
      BY <1>11, <1>12
  <1>14. RefExact(k)
    <2> SUFFICES ASSUME NEW o \in Outputs(k) PROVE k.ref[o] = Cardinality(Readers(k, o))
      BY DEF RefExact
    <2>1. o \in Pins /\ o # Unset
      BY UnsetIsNoPin DEF Outputs
    <2>2. CASE o[1] = s
      <3>1. Readers(k, o) = {}
        BY <2>1, <2>2, <1>12 DEF Readers
      <3> QED
        BY <2>1, <2>2, <3>1, <1>8, <1>9, FS_EmptySet
    <2>3. CASE o[1] # s
      <3>1. \A p \in Pins : h.src[p] = o => p[1] # s
        BY <1>1, <1>7, <2>1 DEF NoDangling, Inputs
      <3>2. Readers(k, o) = Readers(h, o)
        BY <2>1, <3>1, <1>8, <1>9 DEF Readers
      <3>3. o \in Outputs(h)
        BY <2>1, <2>3, <1>11
      <3> QED
        BY <2>1, <2>3, <3>2, <3>3, <1>8, <1>9 DEF Sound, Linking, RefExact
    <2> QED
      BY <2>2, <2>3
  <1>15. FormatsAgree(k)
    BY <1>8, <1>9, <1>12 DEF Sound, Linking, FormatsAgree
  <1>16. Edges(k) \subseteq Edges(h)
    <2> SUFFICES ASSUME NEW p \in Inputs(k) \ k.fb, k.src[p] # Unset
                 PROVE  <<k.src[p][1], p[1]>> \in Edges(h)
      BY DEF Edges
    <2>1. p \in Pins
      BY DEF Inputs
    <2> QED
      BY <2>1, <1>8, <1>9, <1>12 DEF Edges
  <1>17. Sound(k)
    BY <1>9, <1>13, <1>14, <1>15, <1>16, FewerEdges DEF Sound, Linking
  <1> QED
    BY <1>17 DEF k

\* The classes of all modules are installed.
KnownClasses == \A m \in Keys : ~Unknown(m)

LEMMA LeastOf ==
  ASSUME NEW S \in SUBSET Slots, S # {}
  PROVE  \E n \in S : \A t \in S : n <= t
  BY SlotsType, NatMin

LEMMA AddedSound ==
  ASSUME KnownClasses, NEW h, Sound(h), NEW m \in Keys
  PROVE  Sound(Added(h, m))
  <1> DEFINE hits == {s \in Used(h) : h.mod[s] \in {m, NoKey}}
  <1>1. ~Unknown(m)
    BY DEF KnownClasses
  <1>2. SUFFICES ASSUME ~Exists(h, m), ~Full(h, m)
                 PROVE  Sound(Fresh(h, AddSlot(h, m), m))
    BY <1>1 DEF Added
  <1>3. h.num \in 0 .. NumSlots
    BY DEF Sound, Linking, Graph
  <1>4. CASE hits = {}
    <2>1. AddSlot(h, m) = h.num
      BY <1>4 DEF AddSlot
    <2>2. h.num \in Slots
      BY <1>2, <1>3, <2>1, SizeType DEF Full, Slots
    <2> QED
      BY <2>1, <2>2, FreshSound
  <1>5. CASE hits # {}
    <2>0. hits \in SUBSET Slots
      BY DEF Used
    <2>1. AddSlot(h, m) = Least(hits)
      BY <1>5 DEF AddSlot
    <2>3. Least(hits) \in hits
      <3>1. PICK n \in hits : \A t \in hits : n <= t
        BY <1>5, <2>0, LeastOf
      <3> QED
        BY <3>1 DEF Least
    <2>4. Least(hits) \in Used(h) /\ h.mod[Least(hits)] \in {m, NoKey} /\ Least(hits) < h.num
      BY <2>3 DEF Used
    <2>5. h.mod[Least(hits)] = NoKey
      BY <2>1, <2>4, <1>2 DEF Exists
    <2> QED
      BY <2>1, <2>4, <2>5, FreshSound DEF Used
  <1> QED
    BY <1>4, <1>5

\* Modules can go once nothing reads them and they read nothing.
LEMMA ClearedSound ==
  ASSUME NEW h, Sound(h), NEW D \in SUBSET Slots,
         \A p \in Pins : h.src[p] # Unset => p[1] \notin D /\ h.src[p][1] \notin D
  PROVE  Sound(Cleared(h, D))
  <1> DEFINE k == Cleared(h, D)
             mod  == [s \in Slots |-> IF s \in D THEN NoKey ELSE h.mod[s]]
             fb   == {p \in h.fb : p[1] \notin D}
             chan == [p \in Pins |-> IF p[1] \in D THEN "" ELSE h.chan[p]]
             fmt  == [p \in Pins |-> IF p[1] \in D THEN "" ELSE h.fmt[p]]
             par  == [s \in Slots |-> IF s \in D THEN Default ELSE h.par[s]]
  <1>1. h \in Graph /\ NoDangling(h)
    BY DEF Sound, Linking
  <1>2. /\ mod \in [Slots -> Keys \cup {NoKey}] /\ par \in [Slots -> Params] /\ fb \in SUBSET Pins
        /\ chan \in [Pins -> Tokens] /\ fmt \in [Pins -> Tokens]
    BY <1>1, GraphAssumption DEF Graph
  <1>3. k = [h EXCEPT !.mod = mod, !.fb = fb, !.chan = chan, !.fmt = fmt, !.par = par]
    BY DEF Cleared
  <1>4. /\ \A t \in Slots \ D : mod[t] = h.mod[t]
        /\ \A t \in D : mod[t] = NoKey
        /\ \A p \in Pins : p[1] \notin D => chan[p] = h.chan[p] /\ fmt[p] = h.fmt[p]
                                         /\ (p \in fb <=> p \in h.fb)
    OBVIOUS
  <1> HIDE DEF k, mod, fb, chan, fmt, par
  <1>5. /\ k \in Graph
        /\ k.num = h.num /\ k.mod = mod /\ k.src = h.src /\ k.ref = h.ref /\ k.fb = fb
        /\ k.chan = chan /\ k.fmt = fmt
    BY <1>1, <1>2, <1>3 DEF Graph
  <1>6. ASSUME NEW p \in Pins, p[1] \notin D
        PROVE  (p \in Inputs(k) <=> p \in Inputs(h)) /\ (p \in Outputs(k) <=> p \in Outputs(h))
    <2>1. p[1] \in Slots \ D
      BY <1>6 DEF Pins
    <2>2. p[1] \in Live(k) <=> p[1] \in Live(h)
      BY <2>1, <1>4, <1>5 DEF Live, Used
    <2>3. PinClass(k, p) = PinClass(h, p)
      BY <2>1, <1>4, <1>5 DEF PinClass
    <2> QED
      BY <2>2, <2>3 DEF Inputs, Outputs, IsIn, IsOut
  <1>7. ASSUME NEW p \in Pins, k.src[p] # Unset
        PROVE  /\ p[1] \notin D /\ h.src[p][1] \notin D /\ k.src[p] = h.src[p]
               /\ p \in Inputs(h) /\ h.src[p] \in Outputs(h) /\ h.src[p] \in Pins
    BY <1>1, <1>5, <1>7 DEF NoDangling, Outputs
  <1>8. NoDangling(k)
    <2> SUFFICES ASSUME NEW p \in Pins, k.src[p] # Unset
                 PROVE  p \in Inputs(k) /\ k.src[p] \in Outputs(k)
      BY DEF NoDangling
    <2> QED
      BY <1>6, <1>7
  <1>9. \A o \in Outputs(k) : o \in Outputs(h)
    <2> SUFFICES ASSUME NEW o \in Outputs(k) PROVE o[1] \notin D /\ o \in Pins
      BY <1>6
    <2>1. o \in Pins /\ k.mod[o[1]] # NoKey
      BY DEF Outputs, Live
    <2> QED
      BY <2>1, <1>4, <1>5
  <1>10. RefExact(k)
    BY <1>5, <1>9 DEF Sound, Linking, RefExact, Readers
  <1>11. FormatsAgree(k)
    BY <1>4, <1>5, <1>7 DEF Sound, Linking, FormatsAgree
  <1>12. Edges(k) \subseteq Edges(h)
    <2> SUFFICES ASSUME NEW p \in Inputs(k) \ k.fb, k.src[p] # Unset
                 PROVE  <<k.src[p][1], p[1]>> \in Edges(h)
      BY DEF Edges
    <2>1. p \in Pins
      BY DEF Inputs
    <2> QED
      BY <2>1, <1>4, <1>5, <1>7 DEF Edges
  <1>13. Sound(k)
    BY <1>5, <1>8, <1>10, <1>11, <1>12, FewerEdges DEF Sound, Linking
  <1> QED
    BY <1>13 DEF k

\* Removed takes the connections of D's inputs away; those to its outputs must
\* be gone before.
LEMMA RemovedSound ==
  ASSUME NEW h, Sound(h), NEW D \in SUBSET Slots,
         \A p \in Pins : h.src[p] # Unset => h.src[p][1] \notin D
  PROVE  Sound(Removed(h, D))
  <1> DEFINE P == D \X Conns
             u == Unlink(h, P)
  <1>1. P \in SUBSET Pins /\ h \in Graph /\ NoDangling(h)
    BY DEF Pins, Sound, Linking
  <1>2. Sound(u)
    BY <1>1, UnlinkSound
  <1>3. \A p \in Pins : u.src[p] = IF p \in P /\ Linked(h, p) THEN Unset ELSE h.src[p]
    BY <1>1, UnlinkFields
  <1>4. ASSUME NEW p \in Pins, u.src[p] # Unset
        PROVE  p[1] \notin D /\ u.src[p][1] \notin D
    <2>1. u.src[p] = h.src[p] /\ ~(p \in P /\ Linked(h, p)) /\ h.src[p] # Unset
      BY <1>3, <1>4
    <2>2. Linked(h, p)
      BY <2>1, <1>1, AllLinked
    <2>3. p \notin P
      BY <2>1, <2>2
    <2>4. p[1] \notin D
      BY <2>3 DEF Pins
    <2> QED
      BY <2>1, <2>4
  <1> HIDE DEF u
  <1>5. Sound(Cleared(u, D))
    BY <1>2, <1>4, ClearedSound
  <1> QED
    BY <1>5 DEF Removed, u

LEMMA RemoveModuleSound ==
  ASSUME NEW h, Sound(h), NEW s \in Slots
  PROVE  Sound(Removed(Unlink(h, ReadersOf(h, s)), {s}))
  <1> DEFINE P == ReadersOf(h, s)
             u == Unlink(h, P)
  <1>1. P \in SUBSET Pins /\ h \in Graph /\ NoDangling(h)
    BY DEF ReadersOf, Sound, Linking
  <1>2. Sound(u)
    BY <1>1, UnlinkSound
  <1>3. \A p \in Pins : u.src[p] = IF p \in P /\ Linked(h, p) THEN Unset ELSE h.src[p]
    BY <1>1, UnlinkFields
  <1>4. ASSUME NEW p \in Pins, u.src[p] # Unset PROVE u.src[p][1] \notin {s}
    <2>1. u.src[p] = h.src[p] /\ ~(p \in P /\ Linked(h, p)) /\ h.src[p] # Unset
      BY <1>3, <1>4
    <2>2. Linked(h, p)
      BY <2>1, <1>1, AllLinked
    <2> QED
      BY <2>1, <2>2 DEF ReadersOf
  <1> HIDE DEF u
  <1>5. Sound(Removed(u, {s}))
    BY <1>2, <1>4, RemovedSound
  <1> QED
    BY <1>5 DEF u

\* Nothing reads a display, so the displays need no such care.
LEMMA RemoveDisplaysSound ==
  ASSUME NEW h, Sound(h)
  PROVE  Sound(Removed(h, {s \in Live(h) : h.mod[s] \in Displays}))
  <1> DEFINE D == {s \in Live(h) : h.mod[s] \in Displays}
  <1>1. D \in SUBSET Slots
    BY DEF Live, Used
  <1>2. ASSUME NEW p \in Pins, h.src[p] # Unset, h.src[p][1] \in D PROVE FALSE
    <2> DEFINE o == h.src[p]
    <2>1. o \in Outputs(h)
      BY <1>2 DEF Sound, Linking, NoDangling
    <2>2. o \in Pins /\ h.mod[o[1]] \in Displays /\ o[2] \in Conns
      BY <1>2, <2>1 DEF Outputs, Pins
    <2>3. h.mod[o[1]] # NoKey
      BY <2>2, GraphAssumption
    <2>4. Class[h.mod[o[1]]][o[2]].io = "out"
      BY <2>1, <2>3 DEF Outputs, IsOut, PinClass
    <2> QED
      BY <2>2, <2>4, GraphAssumption
  <1> HIDE DEF D
  <1>3. Sound(Removed(h, D))
    BY <1>1, <1>2, RemovedSound
  <1> QED
    BY <1>3 DEF D

-----------------------------------------------------------------------------
(* The specification *)

\* Every operation keeps the graph sound.
LEMMA StepSound ==
  ASSUME KnownClasses, Sound(g), [Next]_g
  PROVE  Sound(g')
  <1>1. ASSUME NEW k \in Keys, AddModule(k) PROVE Sound(g')
    BY <1>1, AddedSound DEF AddModule
  <1>2. ASSUME NEW o \in Pins, NEW i \in Pins, ConnectPins(o, i) PROVE Sound(g')
    BY <1>2, ConnectSound DEF ConnectPins
  <1>3. ASSUME NEW o \in Pins, NEW i \in Pins, FeedbackPins(o, i) PROVE Sound(g')
    BY <1>3, FeedbackSound DEF FeedbackPins
  <1>4. ASSUME NEW i \in Pins, DisconnectPin(i) PROVE Sound(g')
    BY <1>4, ConnectSound DEF DisconnectPin
  <1>5. ASSUME NEW s \in Slots, RemoveModule(s) PROVE Sound(g')
    BY <1>5, RemoveModuleSound DEF RemoveModule
  <1>6. ASSUME RemoveDisplays PROVE Sound(g')
    BY <1>6, RemoveDisplaysSound DEF RemoveDisplays
  <1>7. ASSUME Repurpose PROVE Sound(g')
    BY <1>7, EmptySound DEF Repurpose
  <1>8. ASSUME UNCHANGED g PROVE Sound(g')
    BY <1>8
  <1> QED
    BY <1>1, <1>2, <1>3, <1>4, <1>5, <1>6, <1>7, <1>8 DEF Next

\* Provided all classes are installed, whatever is added, connected and
\* removed leaves a sound graph (the operations of module.c).
THEOREM GraphSound ==
  ASSUME KnownClasses
  PROVE  Spec => []Sound(g)
  <1>1. Init => Sound(g)
    BY EmptySound DEF Init
  <1>2. Sound(g) /\ [Next]_g => Sound(g)'
    BY StepSound
  <1> QED
    BY <1>1, <1>2, PTL DEF Spec

\* The graph has its type.
THEOREM GraphTypeOK ==
  ASSUME KnownClasses
  PROVE  Spec => []TypeOK
  <1>1. Sound(g) => TypeOK
    BY DEF Sound, Linking, TypeOK
  <1> QED
    BY <1>1, GraphSound, PTL

\* No input ever reads a module that is gone, nor one that took its slot.
THEOREM GraphDangling ==
  ASSUME KnownClasses
  PROVE  Spec => []Dangling
  <1>1. Sound(g) => Dangling
    BY DEF Sound, Linking, Dangling
  <1> QED
    BY <1>1, GraphSound, PTL

\* Outputs count their readers, so no assert of connector.inc fails.
THEOREM GraphReferences ==
  ASSUME KnownClasses
  PROVE  Spec => []References
  <1>1. Sound(g) => References
    BY DEF Sound, Linking, References
  <1> QED
    BY <1>1, GraphSound, PTL

\* The modules can always be ordered for a run.
THEOREM GraphOrder ==
  ASSUME KnownClasses
  PROVE  Spec => []Order
  <1>1. Sound(g) => Order
    BY DEF Sound, Order
  <1> QED
    BY <1>1, GraphSound, PTL

\* Both ends of a connection agree on what it carries.
THEOREM GraphFormats ==
  ASSUME KnownClasses
  PROVE  Spec => []Formats
  <1>1. Sound(g) => Formats
    BY DEF Sound, Linking, Formats
  <1> QED
    BY <1>1, GraphSound, PTL

\* No call finds a connection "inconsistent", as connector.inc says of an input
\* whose source is not there or counts no reader.
THEOREM GraphConsistent ==
  ASSUME KnownClasses
  PROVE  Spec => [](\A i \in Pins : ~Refused(g, i) /\ ~Uncounted(g, i))
  <1>1. ASSUME Sound(g), NEW i \in Pins PROVE ~Refused(g, i) /\ ~Uncounted(g, i)
    <2> DEFINE o == g.src[i]
    <2>1. CASE o = Unset
      BY <2>1 DEF Refused, Uncounted
    <2>2. CASE o # Unset
      <3>1. g \in Graph /\ NoDangling(g) /\ RefExact(g)
        BY <1>1 DEF Sound, Linking
      <3>2. ~Refused(g, i) /\ o \in Outputs(g)
        BY <2>2, <3>1, AllLinked
      <3>3. i \in Readers(g, o) /\ IsFiniteSet(Readers(g, o))
        BY <3>1, ReadersFinite DEF Readers
      <3>4. g.ref[o] # 0
        BY <3>1, <3>2, <3>3, FS_EmptySet DEF RefExact
      <3> QED
        BY <3>2, <3>4 DEF Uncounted
    <2> QED
      BY <2>1, <2>2
  <1>2. Sound(g) => \A i \in Pins : ~Refused(g, i) /\ ~Uncounted(g, i)
    BY <1>1
  <1> QED
    BY <1>2, GraphSound, PTL

-----------------------------------------------------------------------------
(* The search for cycles *)

\* A search of h for a cycle through o and i, in a sound graph
Asked(h, o, i) == Sound(h) /\ o \in Outputs(h) \cup {Unset} /\ i \in Inputs(h)

SearchState ==
  [visited : SUBSET Slots, stack : SUBSET Slots, hit : BOOLEAN, cur : Slots \cup {-1},
   at : [Slots -> -1 .. NumConns], from : [Slots -> Slots \cup {-1}]]

\* The modules that m reads, the one of the new connection included
Feeds(h, o, i, m) == {Pulled(h, o, i, m, c) : c \in -1 .. NumConns - 1} \ {-1}

LEMMA AskedType ==
  ASSUME NEW h, NEW o, NEW i, Asked(h, o, i)
  PROVE  /\ h \in Graph /\ NoDangling(h) /\ Acyclic(h) /\ Linking(h)
         /\ o \in Pins \cup {Unset} /\ i \in Pins /\ i[1] \in Slots
         /\ o = Unset => o[1] = -1
         /\ o # Unset => o[1] \in Slots
  BY DEF Asked, Sound, Linking, Outputs, Inputs, Pins, Unset

LEMMA PulledType ==
  ASSUME NEW h, NEW o, NEW i, Asked(h, o, i), NEW m \in Slots, NEW c \in -1 .. NumConns - 1
  PROVE  Pulled(h, o, i, m, c) \in Slots \cup {-1}
  <1>1. CASE c = -1
    BY <1>1, AskedType DEF Pulled
  <1>2. CASE c # -1
    <2>1. <<m, c>> \in Pins
      BY <1>2, SizeType DEF Pins, Conns
    <2>2. h.src[<<m, c>>] \in Pins \cup {Unset}
      BY <2>1, AskedType DEF Graph
    <2>3. h.src[<<m, c>>][1] \in Slots \cup {-1}
      BY <2>2 DEF Pins, Unset
    <2> QED
      BY <1>2, <2>3 DEF Pulled
  <1> QED
    BY <1>1, <1>2

\* Beside the new connection, a module is fed by what it reads.
LEMMA FeedsAreReads ==
  ASSUME NEW h, NEW o, NEW i, Asked(h, o, i), NEW m \in Slots
  PROVE  /\ Reads(h, m) \subseteq Feeds(h, o, i, m)
         /\ o # Unset => o[1] \in Feeds(h, o, i, i[1])
         /\ \A r \in Feeds(h, o, i, m) : r \in Reads(h, m) \/ (m = i[1] /\ o # Unset /\ r = o[1])
  <1>1. ASSUME NEW r \in Reads(h, m) PROVE r \in Feeds(h, o, i, m)
    <2>1. PICK p \in PinsOf(m) : IsIn(h, p) /\ p \notin h.fb /\ h.src[p] # Unset /\ r = h.src[p][1]
      BY DEF Reads
    <2>2. PICK c \in Conns : p = <<m, c>>
      BY DEF PinsOf
    <2>3. c \in -1 .. NumConns - 1 /\ c # -1
      BY SizeType DEF Conns
    <2>4. Pulled(h, o, i, m, c) = r
      BY <2>1, <2>2, <2>3 DEF Pulled
    <2>5. p \in Pins
      BY <2>2 DEF Pins
    <2>6. r \in Slots
      BY <2>1, <2>5, AskedType DEF Graph, Pins
    <2>7. r # -1
      BY <2>6, SlotsType
    <2> QED
      BY <2>3, <2>4, <2>7 DEF Feeds
  <1>2. ASSUME o # Unset PROVE o[1] \in Feeds(h, o, i, i[1])
    <2>1. Pulled(h, o, i, i[1], -1) = o[1] /\ -1 \in -1 .. NumConns - 1
      BY SizeType DEF Pulled
    <2>2. o[1] # -1
      BY <1>2, AskedType, SlotsType
    <2> QED
      BY <2>1, <2>2 DEF Feeds
  <1>3. ASSUME NEW r \in Feeds(h, o, i, m), r \notin Reads(h, m)
        PROVE  m = i[1] /\ o # Unset /\ r = o[1]
    <2>1. PICK c \in -1 .. NumConns - 1 : r = Pulled(h, o, i, m, c) /\ r # -1
      BY DEF Feeds
    <2>2. c = -1
      <3> SUFFICES ASSUME c # -1 PROVE FALSE
        OBVIOUS
      <3>1. <<m, c>> \in PinsOf(m) /\ <<m, c>> \in Pins
        BY SizeType DEF PinsOf, Pins, Conns
      <3>2. IsIn(h, <<m, c>>) /\ <<m, c>> \notin h.fb /\ r = h.src[<<m, c>>][1]
        BY <2>1 DEF Pulled
      <3>3. h.src[<<m, c>>] # Unset
        BY <2>1, <3>2 DEF Unset
      <3>4. r \in Reads(h, m)
        BY <3>1, <3>2, <3>3 DEF Reads
      <3> QED
        BY <3>4, <1>3
    <2>3. m = i[1] /\ r = o[1]
      BY <2>1, <2>2 DEF Pulled
    <2> QED
      BY <2>1, <2>3, AskedType
  <1> QED
    BY <1>1, <1>2, <1>3

\* No set of modules is fed from within, unless by the new connection.
LEMMA FedFromOutside ==
  ASSUME NEW h, NEW o, NEW i, Asked(h, o, i), NEW S \in SUBSET Slots,
         \A x \in S : \E y \in S : y \in Reads(h, x)
  PROVE  S = {}
  <1> SUFFICES ASSUME S # {} PROVE FALSE
    OBVIOUS
  <1>1. PICK x \in S : \A r \in S : <<r, x>> \notin Edges(h)
    BY AskedType DEF Acyclic
  <1>2. PICK y \in S : y \in Reads(h, x)
    OBVIOUS
  <1>3. PICK p \in PinsOf(x) : IsIn(h, p) /\ p \notin h.fb /\ h.src[p] # Unset /\ y = h.src[p][1]
    BY <1>2 DEF Reads
  <1>4. p \in Pins /\ p[1] = x
    BY <1>3 DEF PinsOf, Pins
  <1>5. p \in Inputs(h)
    BY <1>3, <1>4, AskedType DEF NoDangling
  <1>6. <<y, x>> \in Edges(h)
    BY <1>3, <1>4, <1>5 DEF Edges
  <1> QED
    BY <1>1, <1>2, <1>6

\* The calls under way: every caller waits for a module that feeds it.
Calling(h, o, i, s) ==
  /\ s.stack \subseteq s.visited
  /\ s.cur \in s.stack /\ i[1] \in s.stack /\ s.from[i[1]] = -1
  /\ \A y \in s.stack : s.from[y] # s.cur
  /\ \A y \in s.stack \ {i[1]} : s.from[y] \in s.stack /\ y \in Feeds(h, o, i, s.from[y])
  /\ \A y, z \in s.stack : s.from[y] = s.from[z] => y = z
  /\ \A x \in s.stack \ {s.cur} : \E y \in s.stack : s.from[y] = x

\* What the search has left behind is fed by nothing else.
Behind(s) == s.visited \ s.stack
Explored(h, o, i, s) ==
  /\ \A m \in Behind(s) : Feeds(h, o, i, m) \subseteq Behind(s)
  /\ \A m \in s.stack : \A c \in -1 .. NumConns - 1 :
       c < s.at[m] => Pulled(h, o, i, m, c) \in Behind(s) \cup {-1}
  /\ \A m \in Slots \ s.visited : s.at[m] = -1

SearchInv(h, o, i, s) ==
  /\ s \in SearchState
  /\ s.hit => Cyclic(h, o, i) /\ s.cur # -1
  /\ s.cur = -1 => ~Cyclic(h, o, i)
  /\ s.cur # -1 => Calling(h, o, i, s) /\ Explored(h, o, i, s)

LEMMA SearchBegins ==
  ASSUME NEW h, NEW o, NEW i, Asked(h, o, i)
  PROVE  SearchInv(h, o, i, Enter(NotBegun, i[1]))
  <1> DEFINE b == i[1]
             t == Enter(NotBegun, b)
  <1>1. b \in Slots /\ b # -1
    BY AskedType, SlotsType
  <1>2. -1 \in -1 .. NumConns
    BY SizeType
  <1>3. t \in SearchState
    BY <1>1, <1>2 DEF Enter, NotBegun, SearchState
  <1>4. /\ t.visited = {b} /\ t.stack = {b} /\ t.hit = FALSE /\ t.cur = b
        /\ \A m \in Slots : t.at[m] = -1 /\ t.from[m] = -1
    BY <1>1 DEF Enter, NotBegun
  <1> HIDE DEF t
  <1>5. Calling(h, o, i, t)
    BY <1>1, <1>4 DEF Calling
  <1>6. Explored(h, o, i, t)
    BY <1>1, <1>4, SizeType DEF Explored, Behind
  <1>7. SearchInv(h, o, i, t)
    BY <1>1, <1>3, <1>4, <1>5, <1>6 DEF SearchInv
  <1> QED
    BY <1>7 DEF t

\* The current call goes on to its next connector.
LEMMA SearchAdvances ==
  ASSUME NEW h, NEW o, NEW i, Asked(h, o, i), NEW s, SearchInv(h, o, i, s),
         s.cur # -1, ~s.hit, s.at[s.cur] # NumConns,
         Pulled(h, o, i, s.cur, s.at[s.cur]) \in Behind(s) \cup {-1}
  PROVE  SearchInv(h, o, i, Advance(s))
  <1> DEFINE m == s.cur
             t == Advance(s)
  <1>1. s \in SearchState /\ Calling(h, o, i, s) /\ Explored(h, o, i, s) /\ m \in Slots
    BY DEF SearchInv, SearchState
  <1>2. s.at[m] \in -1 .. NumConns - 1 /\ s.at[m] + 1 \in -1 .. NumConns
    BY <1>1, SizeType DEF SearchState
  <1>3. t \in SearchState
    BY <1>1, <1>2 DEF Advance, SearchState
  <1>4. /\ t.visited = s.visited /\ t.stack = s.stack /\ t.hit = s.hit /\ t.cur = m
        /\ t.from = s.from /\ t.at = [s.at EXCEPT ![m] = @ + 1]
    BY <1>1 DEF Advance, SearchState
  <1>5. \A x \in Slots : t.at[x] = IF x = m THEN s.at[m] + 1 ELSE s.at[x]
    BY <1>1, <1>4 DEF SearchState
  <1> HIDE DEF t
  <1>6. Calling(h, o, i, t)
    BY <1>1, <1>4 DEF Calling
  <1>7. s.stack \subseteq Slots /\ m \in s.stack /\ s.stack \subseteq s.visited
    BY <1>1 DEF Calling, SearchState
  <1>8. ASSUME NEW x \in t.stack, NEW c \in -1 .. NumConns - 1, c < t.at[x]
        PROVE  Pulled(h, o, i, x, c) \in Behind(s) \cup {-1}
    <2>1. CASE x # m
      BY <1>1, <1>4, <1>5, <1>7, <1>8, <2>1 DEF Explored
    <2>2. CASE x = m
      <3>1. c < s.at[m] \/ c = s.at[m]
        BY <1>2, <1>5, <1>7, <1>8, <2>2
      <3> QED
        BY <1>1, <1>7, <2>2, <3>1 DEF Explored
    <2> QED
      BY <2>1, <2>2
  <1>9. Explored(h, o, i, t)
    BY <1>1, <1>4, <1>5, <1>7, <1>8 DEF Explored, Behind
  <1>10. SearchInv(h, o, i, t)
    BY <1>3, <1>4, <1>6, <1>9 DEF SearchInv
  <1> QED
    BY <1>10 DEF t

\* It calls itself for a module not seen yet.
LEMMA SearchEnters ==
  ASSUME NEW h, NEW o, NEW i, Asked(h, o, i), NEW s, SearchInv(h, o, i, s),
         s.cur # -1, ~s.hit, s.at[s.cur] # NumConns, NEW r \in Slots,
         r = Pulled(h, o, i, s.cur, s.at[s.cur]), r \notin s.visited
  PROVE  SearchInv(h, o, i, Enter(s, r))
  <1> DEFINE m == s.cur
             t == Enter(s, r)
  <1>1. s \in SearchState /\ Calling(h, o, i, s) /\ Explored(h, o, i, s) /\ m \in Slots
    BY DEF SearchInv, SearchState
  <1>2. s.at[m] \in -1 .. NumConns - 1
    BY <1>1, SizeType DEF SearchState
  <1>3. r \in Feeds(h, o, i, m)
    BY <1>2, SlotsType DEF Feeds
  <1>4. t \in SearchState
    BY <1>1 DEF Enter, SearchState
  <1>5. /\ t.visited = s.visited \cup {r} /\ t.stack = s.stack \cup {r} /\ t.hit = s.hit
        /\ t.cur = r /\ t.at = s.at /\ t.from = [s.from EXCEPT ![r] = m]
    BY <1>1 DEF Enter, SearchState
  <1>6. \A x \in Slots : t.from[x] = IF x = r THEN m ELSE s.from[x]
    BY <1>1, <1>5 DEF SearchState
  <1>7. /\ s.stack \subseteq Slots /\ m \in s.stack /\ s.stack \subseteq s.visited /\ r \notin s.stack
        /\ r # -1 /\ i[1] \in s.stack /\ i[1] # r /\ m # r
    BY <1>1, SlotsType DEF Calling, SearchState
  <1> HIDE DEF t
  <1>8. Behind(t) = Behind(s)
    BY <1>5 DEF Behind
  <1>9. Calling(h, o, i, t)
    <2>1. \A y \in s.stack : s.from[y] # r
      BY <1>1, <1>7, SlotsType DEF Calling
    <2>2. \A y \in t.stack : t.from[y] # t.cur
      BY <1>5, <1>6, <1>7, <2>1
    <2>3. \A y \in t.stack \ {i[1]} : t.from[y] \in t.stack /\ y \in Feeds(h, o, i, t.from[y])
      BY <1>1, <1>3, <1>5, <1>6, <1>7 DEF Calling
    <2>4. \A y, z \in t.stack : t.from[y] = t.from[z] => y = z
      BY <1>1, <1>5, <1>6, <1>7 DEF Calling
    <2>5. \A x \in t.stack \ {t.cur} : \E y \in t.stack : t.from[y] = x
      BY <1>1, <1>5, <1>6, <1>7 DEF Calling
    <2> QED
      BY <1>1, <1>5, <1>6, <1>7, <2>2, <2>3, <2>4, <2>5 DEF Calling
  <1>10. Explored(h, o, i, t)
    <2>1. s.at[r] = -1
      BY <1>1 DEF Explored
    <2> QED
      BY <1>1, <1>5, <1>8, <2>1 DEF Explored
  <1>11. SearchInv(h, o, i, t)
    BY <1>4, <1>5, <1>7, <1>9, <1>10 DEF SearchInv
  <1> QED
    BY <1>11 DEF t

\* A module on the stack feeds the current one: a cycle.
LEMMA SearchHits ==
  ASSUME NEW h, NEW o, NEW i, Asked(h, o, i), NEW s, SearchInv(h, o, i, s),
         s.cur # -1, s.at[s.cur] # NumConns,
         Pulled(h, o, i, s.cur, s.at[s.cur]) \in s.stack
  PROVE  SearchInv(h, o, i, [s EXCEPT !.hit = TRUE])
  <1> DEFINE m == s.cur
             b == i[1]
             t == [s EXCEPT !.hit = TRUE]
             r == Pulled(h, o, i, s.cur, s.at[s.cur])
  <1>1. s \in SearchState /\ Calling(h, o, i, s) /\ Explored(h, o, i, s) /\ m \in Slots
    BY DEF SearchInv, SearchState
  <1>2. s.at[m] \in -1 .. NumConns - 1
    BY <1>1, SizeType DEF SearchState
  <1>3. s.stack \subseteq Slots /\ m \in s.stack /\ b \in s.stack
    BY <1>1 DEF Calling, SearchState
  <1>4. r \in Feeds(h, o, i, m)
    BY <1>2, <1>3, SlotsType DEF Feeds
  <1>5. \A x \in s.stack : \E y \in s.stack : y \in Feeds(h, o, i, x)
    <2> TAKE x \in s.stack
    <2>1. CASE x = m
      BY <2>1, <1>4
    <2>2. CASE x # m
      <3>1. PICK y \in s.stack : s.from[y] = x
        BY <2>2, <1>1 DEF Calling
      <3>2. y # b
        BY <3>1, <1>1, <1>3, SlotsType DEF Calling
      <3> QED
        BY <3>1, <3>2, <1>1 DEF Calling
    <2> QED
      BY <2>1, <2>2
  \* A closed set that keeps the cycle out would be fed from within.
  <1>6. ASSUME NEW S \in SUBSET Slots, \A x \in S : Reads(h, x) \subseteq S, b \notin S,
               o # Unset => o[1] \in S
        PROVE  FALSE
    <2> DEFINE T == IF s.stack \cap S = {} THEN s.stack ELSE s.stack \cap S
    <2>1. T \in SUBSET Slots /\ T # {}
      BY <1>3
    <2>2. ASSUME NEW x \in T PROVE \E y \in T : y \in Reads(h, x)
      <3>1. x \in s.stack /\ x \in Slots
        BY <1>3
      <3>2. PICK y \in s.stack : y \in Feeds(h, o, i, x)
        BY <3>1, <1>5
      <3>3. y \in Reads(h, x) \/ (x = b /\ o # Unset /\ y = o[1])
        BY <3>1, <3>2, FeedsAreReads
      <3>4. CASE s.stack \cap S = {}
        BY <3>2, <3>3, <3>4, <1>6
      <3>5. CASE s.stack \cap S # {}
        BY <3>2, <3>3, <3>5, <1>6
      <3> QED
        BY <3>4, <3>5
    <2> HIDE DEF T
    <2> QED
      BY <2>1, <2>2, FedFromOutside
  <1>7. Cyclic(h, o, i)
    <2>1. o # Unset
      <3>1. {} \in SUBSET Slots /\ (\A x \in {} : Reads(h, x) \subseteq {}) /\ b \notin {}
        OBVIOUS
      <3> QED
        BY <3>1, <1>6
    <2>2. \A S \in SUBSET Slots :
            o[1] \in S /\ (\A x \in S : Reads(h, x) \subseteq S) => i[1] \in S
      BY <1>6
    <2> QED
      BY <2>1, <2>2 DEF Cyclic
  <1>8. /\ t \in SearchState
        /\ t.visited = s.visited /\ t.stack = s.stack /\ t.cur = s.cur
        /\ t.at = s.at /\ t.from = s.from
    BY <1>1 DEF SearchState
  <1> HIDE DEF t
  <1>9. Calling(h, o, i, t) /\ Explored(h, o, i, t)
    BY <1>1, <1>8 DEF Calling, Explored, Behind
  <1>10. SearchInv(h, o, i, t)
    BY <1>7, <1>8, <1>9 DEF SearchInv
  <1> QED
    BY <1>10 DEF t

\* It has looked at all connectors and returns.  Without a caller it was the
\* last, and what it leaves behind is closed and does not have it.
LEMMA SearchReturns ==
  ASSUME NEW h, NEW o, NEW i, Asked(h, o, i), NEW s, SearchInv(h, o, i, s),
         s.cur # -1, ~s.hit, s.at[s.cur] = NumConns
  PROVE  SearchInv(h, o, i, Return(s))
  <1> DEFINE m == s.cur
             b == i[1]
             p == s.from[m]
             t == Return(s)
  <1>1. s \in SearchState /\ Calling(h, o, i, s) /\ Explored(h, o, i, s) /\ m \in Slots
    BY DEF SearchInv, SearchState
  <1>2. t \in SearchState
    BY <1>1 DEF Return, SearchState
  <1>3. /\ t.visited = s.visited /\ t.stack = s.stack \ {m} /\ t.hit = s.hit
        /\ t.cur = p /\ t.at = s.at /\ t.from = s.from
    BY <1>1 DEF Return, SearchState
  <1>4. /\ s.stack \subseteq s.visited /\ s.stack \subseteq Slots
        /\ m \in s.stack /\ b \in s.stack /\ b \in Slots /\ b # -1
    BY <1>1, SlotsType DEF Calling, SearchState
  <1> HIDE DEF t
  <1>5. Behind(t) = Behind(s) \cup {m}
    BY <1>3, <1>4 DEF Behind
  <1>6. Feeds(h, o, i, m) \subseteq Behind(s)
    <2> SUFFICES ASSUME NEW c \in -1 .. NumConns - 1, Pulled(h, o, i, m, c) # -1
                 PROVE  Pulled(h, o, i, m, c) \in Behind(s)
      BY DEF Feeds
    <2>1. c < s.at[m]
      BY SizeType
    <2> QED
      BY <1>1, <1>4, <2>1 DEF Explored
  <1>7. Explored(h, o, i, t)
    BY <1>1, <1>3, <1>5, <1>6 DEF Explored
  <1>8. CASE m # b
    <2>1. p \in s.stack /\ p # m /\ p # -1
      BY <1>1, <1>4, <1>8, SlotsType DEF Calling
    <2>2. \A y \in t.stack : t.from[y] # t.cur
      BY <1>1, <1>3, <1>4 DEF Calling
    <2>3. \A y \in t.stack \ {b} : t.from[y] \in t.stack /\ y \in Feeds(h, o, i, t.from[y])
      BY <1>1, <1>3, <1>4 DEF Calling
    <2>4. \A x \in t.stack \ {t.cur} : \E y \in t.stack : t.from[y] = x
      <3> TAKE x \in t.stack \ {t.cur}
      <3>1. PICK y \in s.stack : s.from[y] = x
        BY <1>1, <1>3 DEF Calling
      <3> QED
        BY <3>1, <1>3
    <2>5. Calling(h, o, i, t)
      BY <1>1, <1>3, <1>4, <1>8, <2>1, <2>2, <2>3, <2>4 DEF Calling
    <2> QED
      BY <1>2, <1>3, <1>7, <2>1, <2>5 DEF SearchInv, t
  <1>9. CASE m = b
    <2>1. p = -1
      BY <1>1, <1>9 DEF Calling
    <2> DEFINE R == s.stack \ {b}
    <2>2. R = {}
      <3>1. ASSUME NEW x \in R PROVE \E y \in R : y \in Reads(h, x)
        <4>1. PICK y \in s.stack : s.from[y] = x
          BY <1>1, <1>9 DEF Calling
        <4>2. x \in Slots /\ y # b
          BY <4>1, <1>1, <1>4, SlotsType DEF Calling
        <4>3. y \in Feeds(h, o, i, x)
          BY <4>1, <4>2, <1>1 DEF Calling
        <4> QED
          BY <4>2, <4>3, FeedsAreReads
      <3>2. R \in SUBSET Slots
        BY <1>4
      <3> HIDE DEF R
      <3> QED
        BY <3>1, <3>2, FedFromOutside
    <2>3. Behind(s) \in SUBSET Slots /\ b \notin Behind(s)
      BY <1>1, <1>4 DEF Behind, SearchState
    <2>4. \A x \in Behind(s) : Reads(h, x) \subseteq Behind(s)
      BY <1>1, <2>3, FeedsAreReads DEF Explored
    <2>5. o # Unset => o[1] \in Behind(s)
      BY <1>4, <1>6, <1>9, FeedsAreReads
    <2>6. ~Cyclic(h, o, i)
      BY <2>3, <2>4, <2>5 DEF Cyclic
    <2> QED
      BY <1>2, <1>3, <2>1, <2>6 DEF SearchInv, t
  <1> QED
    BY <1>8, <1>9

\* The steps are the ones of SearchStep.
LEMMA SearchSteps ==
  ASSUME NEW h, NEW o, NEW i, Asked(h, o, i), NEW s, SearchInv(h, o, i, s)
  PROVE  SearchInv(h, o, i, SearchStep(h, o, i, s))
  <1> DEFINE r == Pulled(h, o, i, s.cur, s.at[s.cur])
  <1>1. CASE s.hit \/ s.cur = -1
    BY <1>1 DEF SearchStep
  <1>2. CASE ~s.hit /\ s.cur # -1 /\ s.at[s.cur] = NumConns
    BY <1>2, SearchReturns DEF SearchStep
  <1>3. CASE ~s.hit /\ s.cur # -1 /\ s.at[s.cur] # NumConns
    <2>1. s.cur \in Slots /\ s.at[s.cur] \in -1 .. NumConns - 1
      BY <1>3, SizeType DEF SearchInv, SearchState
    <2>2. r \in Slots \cup {-1}
      BY <2>1, PulledType
    <2>3. CASE r = -1
      BY <1>3, <2>3, SearchAdvances DEF SearchStep
    <2>4. CASE r # -1 /\ r \notin s.visited
      <3>1. SearchInv(h, o, i, Enter(s, r))
        BY <1>3, <2>2, <2>4, SearchEnters
      <3> QED
        BY <1>3, <2>4, <3>1 DEF SearchStep
    <2>5. CASE r # -1 /\ r \in s.visited /\ r \in s.stack
      <3>1. SearchInv(h, o, i, [s EXCEPT !.hit = TRUE])
        BY <1>3, <2>5, SearchHits
      <3> QED
        BY <1>3, <2>5, <3>1 DEF SearchStep
    <2>6. CASE r # -1 /\ r \in s.visited /\ r \notin s.stack
      <3>1. r \in Behind(s) \cup {-1}
        BY <2>6 DEF Behind
      <3>2. SearchInv(h, o, i, Advance(s))
        BY <1>3, <3>1, SearchAdvances
      <3> QED
        BY <1>3, <2>6, <3>2 DEF SearchStep
    <2> QED
      BY <2>3, <2>4, <2>5, <2>6
  <1> QED
    BY <1>1, <1>2, <1>3

\* What has been done: modules entered, connectors passed, modules left
Things == Slots \X (-2 .. NumConns)
Done(s) ==
  (s.visited \X {-2})
  \cup {x \in Slots \X (-1 .. NumConns - 1) : x[2] < s.at[x[1]]}
  \cup (Behind(s) \X {NumConns})

LEMMA ThingsCounted == IsFiniteSet(Things) /\ Cardinality(Things) = SearchLimit
  <1>1. IsFiniteSet(Slots) /\ Cardinality(Slots) = NumSlots
    <2>1. 0 \in Int /\ NumSlots - 1 \in Int
      BY SizeType
    <2> QED
      BY <2>1, SizeType, FS_Interval DEF Slots
  <1>2. IsFiniteSet(-2 .. NumConns) /\ Cardinality(-2 .. NumConns) = NumConns + 3
    <2>1. -2 \in Int /\ NumConns \in Int
      BY SizeType
    <2> QED
      BY <2>1, SizeType, FS_Interval
  <1> QED
    BY <1>1, <1>2, FS_Product DEF Things, SearchLimit

LEMMA DoneCounted ==
  ASSUME NEW s \in SearchState
  PROVE  /\ Done(s) \subseteq Things /\ IsFiniteSet(Done(s))
         /\ Cardinality(Done(s)) \in Nat /\ Cardinality(Done(s)) <= SearchLimit
  <1>1. Done(s) \in SUBSET Things
    <2>1. s.visited \subseteq Slots /\ Behind(s) \subseteq Slots
      BY DEF SearchState, Behind
    <2> QED
      BY <2>1, SizeType DEF Done, Things
  <1> QED
    BY <1>1, ThingsCounted, FS_Subset, FS_CardinalityType

\* Every step does one thing more, or ends the search.
LEMMA SearchGoesOn ==
  ASSUME NEW h, NEW o, NEW i, Asked(h, o, i), NEW s, SearchInv(h, o, i, s), s.cur # -1, ~s.hit
  PROVE  LET t == SearchStep(h, o, i, s)
         IN  t.hit \/ \E x : x \notin Done(s) /\ Done(t) = Done(s) \cup {x}
  <1> DEFINE m == s.cur
             r == Pulled(h, o, i, m, s.at[m])
             t == SearchStep(h, o, i, s)
  <1>1. s \in SearchState /\ Calling(h, o, i, s) /\ Explored(h, o, i, s) /\ m \in Slots
    BY DEF SearchInv, SearchState
  <1>2. s.visited \subseteq Slots /\ m \in s.stack /\ s.stack \subseteq s.visited
    BY <1>1 DEF Calling, SearchState
  <1>3. CASE s.at[m] = NumConns
    <2>1. t = Return(s)
      BY <1>3 DEF SearchStep
    <2>2. t.visited = s.visited /\ t.at = s.at /\ Behind(t) = Behind(s) \cup {m}
      BY <1>1, <1>2, <2>1 DEF Return, SearchState, Behind
    <2>3. Done(t) = Done(s) \cup {<<m, NumConns>>}
      BY <2>2 DEF Done
    <2>4. <<m, NumConns>> \notin Done(s)
      BY <1>2, SizeType DEF Done, Behind
    <2> QED
      BY <2>3, <2>4
  <1>4. CASE s.at[m] # NumConns
    <2>1. s.at[m] \in -1 .. NumConns - 1
      BY <1>1, <1>4, SizeType DEF SearchState
    <2>2. r \in Slots \cup {-1}
      BY <2>1, <1>1, PulledType
    <2>3. CASE r # -1 /\ r \notin s.visited
      <3>1. t = Enter(s, r)
        BY <1>4, <2>3 DEF SearchStep
      <3>2. t.visited = s.visited \cup {r} /\ t.at = s.at /\ Behind(t) = Behind(s)
        BY <1>1, <1>2, <2>3, <3>1 DEF Enter, SearchState, Behind
      <3>3. Done(t) = Done(s) \cup {<<r, -2>>}
        BY <3>2 DEF Done
      <3>4. <<r, -2>> \notin Done(s)
        BY <2>3, SizeType DEF Done
      <3> QED
        BY <3>3, <3>4
    <2>4. CASE r = -1 \/ (r \in s.visited /\ r \notin s.stack)
      <3>1. t = Advance(s)
        BY <1>2, <1>4, <2>2, <2>4, SlotsType DEF SearchStep
      <3>2. /\ t.visited = s.visited /\ Behind(t) = Behind(s)
            /\ \A x \in Slots : t.at[x] = IF x = m THEN s.at[m] + 1 ELSE s.at[x]
        BY <1>1, <3>1 DEF Advance, SearchState, Behind
      <3>3. {x \in Slots \X (-1 .. NumConns - 1) : x[2] < t.at[x[1]]}
            = {x \in Slots \X (-1 .. NumConns - 1) : x[2] < s.at[x[1]]} \cup {<<m, s.at[m]>>}
        <4>1. ASSUME NEW y \in Slots, NEW c \in -1 .. NumConns - 1
              PROVE  c < t.at[y] <=> (c < s.at[y] \/ (y = m /\ c = s.at[m]))
          BY <1>1, <2>1, <3>2, SizeType DEF SearchState
        <4> QED
          BY <1>1, <2>1, <4>1
      <3>4. Done(t) = Done(s) \cup {<<m, s.at[m]>>}
        BY <3>2, <3>3 DEF Done
      <3>5. <<m, s.at[m]>> \notin Done(s)
        BY <2>1, SizeType DEF Done
      <3> QED
        BY <3>4, <3>5
    <2>5. CASE r # -1 /\ r \in s.stack
      <3>1. t = [s EXCEPT !.hit = TRUE]
        BY <1>2, <1>4, <2>5 DEF SearchStep
      <3> QED
        BY <1>1, <3>1 DEF SearchState
    <2> QED
      BY <2>2, <2>3, <2>4, <2>5
  <1> QED
    BY <1>3, <1>4

\* The run of the search: the function that IsCyclic defines exists.
Searching(h, o, i, f) ==
  [n \in 0 .. SearchLimit |->
     IF n = 0 THEN Enter(NotBegun, i[1])
     ELSE CHOOSE t \in {SearchStep(h, o, i, s) : s \in {f[n - 1]}} : TRUE]
SearchRun(h, o, i) == CHOOSE f : f = Searching(h, o, i, f)

LEMMA SearchUnfold ==
  ASSUME NEW h, NEW o, NEW i
  PROVE  IsCyclic(h, o, i) = SearchRun(h, o, i)[SearchLimit].hit
  BY DEF IsCyclic, SearchRun, Searching

LEMMA LimitType == SearchLimit \in Nat \ {0}
  BY SizeType DEF SearchLimit

SearchFrom(h, o, i, f, n) ==
  \A k \in 0 .. n : f[k] = IF k = 0 THEN Enter(NotBegun, i[1]) ELSE SearchStep(h, o, i, f[k - 1])

LEMMA SearchRuns ==
  ASSUME NEW h, NEW o, NEW i
  PROVE  SearchFrom(h, o, i, SearchRun(h, o, i), SearchLimit)
  <1> DEFINE T == {n \in Nat : \E f : SearchFrom(h, o, i, f, n)}
  <1>1. 0 \in T
    <2> DEFINE f == [n \in {0} |-> Enter(NotBegun, i[1])]
    <2>1. SearchFrom(h, o, i, f, 0)
      BY DEF SearchFrom
    <2> QED
      BY <2>1
  <1>2. ASSUME NEW n \in Nat, n \in T PROVE n + 1 \in T
    <2>1. PICK f : SearchFrom(h, o, i, f, n)
      BY <1>2
    <2> DEFINE e == [k \in 0 .. n + 1 |-> IF k <= n THEN f[k] ELSE SearchStep(h, o, i, f[n])]
    <2>2. ASSUME NEW k \in 0 .. n + 1
          PROVE  e[k] = IF k = 0 THEN Enter(NotBegun, i[1]) ELSE SearchStep(h, o, i, e[k - 1])
      <3>1. k # 0 => e[k - 1] = f[k - 1]
        OBVIOUS
      <3>2. CASE k <= n
        BY <2>1, <3>1, <3>2 DEF SearchFrom
      <3>3. CASE k = n + 1
        BY <3>1, <3>3
      <3> QED
        BY <3>2, <3>3
    <2> HIDE DEF e
    <2>3. SearchFrom(h, o, i, e, n + 1)
      BY <2>2 DEF SearchFrom
    <2> QED
      BY <2>3
  <1>3. SearchLimit \in T
    <2> HIDE DEF T
    <2> QED
      BY <1>1, <1>2, NatInd, LimitType
  <1>4. PICK f : SearchFrom(h, o, i, f, SearchLimit)
    BY <1>3
  <1> DEFINE e == [k \in 0 .. SearchLimit |-> f[k]]
  <1>5. \A s : (CHOOSE t \in {SearchStep(h, o, i, x) : x \in {s}} : TRUE) = SearchStep(h, o, i, s)
    OBVIOUS
  <1>6. e = Searching(h, o, i, e)
    <2>1. ASSUME NEW k \in 0 .. SearchLimit
          PROVE  e[k] = Searching(h, o, i, e)[k]
      <3>1. k # 0 => k - 1 \in 0 .. SearchLimit
        BY LimitType
      <3>2. e[k] = IF k = 0 THEN Enter(NotBegun, i[1]) ELSE SearchStep(h, o, i, e[k - 1])
        BY <1>4, <3>1 DEF SearchFrom
      <3> HIDE DEF e
      <3> QED
        BY <1>5, <3>2 DEF Searching
    <2> QED
      BY <2>1 DEF Searching
  <1> HIDE DEF e
  <1>7. SearchRun(h, o, i) = Searching(h, o, i, SearchRun(h, o, i))
    BY <1>6 DEF SearchRun
  <1> DEFINE w == SearchRun(h, o, i)
  <1>8. ASSUME NEW k \in 0 .. SearchLimit
        PROVE  w[k] = IF k = 0 THEN Enter(NotBegun, i[1]) ELSE SearchStep(h, o, i, w[k - 1])
    <2> HIDE DEF w
    <2>1. w = Searching(h, o, i, w)
      BY <1>7 DEF w
    <2>2. w[k] = IF k = 0 THEN Enter(NotBegun, i[1])
                 ELSE CHOOSE t \in {SearchStep(h, o, i, x) : x \in {w[k - 1]}} : TRUE
      BY <2>1 DEF Searching
    <2> QED
      BY <1>5, <2>2
  <1> QED
    BY <1>8 DEF SearchFrom

\* The search ends with the answer.
LEMMA SearchEnds ==
  ASSUME NEW h, NEW o, NEW i, Asked(h, o, i)
  PROVE  IsCyclic(h, o, i) <=> Cyclic(h, o, i)
  <1> DEFINE w == SearchRun(h, o, i)
             Good(s, n) == /\ SearchInv(h, o, i, s)
                           /\ s.hit \/ s.cur = -1 \/ Cardinality(Done(s)) > n
             T == {n \in Nat : n <= SearchLimit => Good(w[n], n)}
  <1>1. SearchFrom(h, o, i, w, SearchLimit)
    BY SearchRuns
  <1>2. 0 \in T
    <2>1. w[0] = Enter(NotBegun, i[1])
      BY <1>1, LimitType DEF SearchFrom
    <2>2. SearchInv(h, o, i, w[0])
      BY <2>1, SearchBegins
    <2>3. w[0] \in SearchState
      BY <2>2 DEF SearchInv
    <2>4. i[1] \in w[0].visited
      BY <2>1 DEF Enter, NotBegun
    <2>5. <<i[1], -2>> \in Done(w[0])
      BY <2>4 DEF Done
    <2>6. Cardinality(Done(w[0])) > 0
      BY <2>3, <2>5, DoneCounted, FS_EmptySet
    <2> QED
      BY <2>2, <2>6
  <1>3. ASSUME NEW n \in Nat, n \in T PROVE n + 1 \in T
    <2> SUFFICES ASSUME n + 1 <= SearchLimit PROVE Good(w[n + 1], n + 1)
      OBVIOUS
    <2> DEFINE s == w[n]
               t == w[n + 1]
    <2>1. Good(s, n)
      BY <1>3, LimitType
    <2>2. t = SearchStep(h, o, i, s)
      BY <1>1, LimitType DEF SearchFrom
    <2>3. SearchInv(h, o, i, t)
      BY <2>1, <2>2, SearchSteps
    <2> SUFFICES Good(t, n + 1)
      OBVIOUS
    <2> HIDE DEF s, t
    <2>4. CASE s.hit \/ s.cur = -1
      BY <2>2, <2>3, <2>4 DEF SearchStep
    <2>5. CASE ~s.hit /\ s.cur # -1
      <3>1. t.hit \/ \E x : x \notin Done(s) /\ Done(t) = Done(s) \cup {x}
        BY <2>1, <2>2, <2>5, SearchGoesOn
      <3>2. ASSUME NEW x, x \notin Done(s), Done(t) = Done(s) \cup {x}
            PROVE  Cardinality(Done(t)) > n + 1
        <4>1. s \in SearchState
          BY <2>1 DEF SearchInv
        <4>2. Cardinality(Done(t)) = Cardinality(Done(s)) + 1
          BY <3>2, <4>1, DoneCounted, FS_AddElement
        <4> QED
          BY <2>1, <2>5, <4>1, <4>2, DoneCounted
      <3> QED
        BY <2>3, <3>1, <3>2
    <2> QED
      BY <2>4, <2>5
  <1>4. SearchLimit \in T
    <2> HIDE DEF T
    <2> QED
      BY <1>2, <1>3, NatInd, LimitType
  <1> DEFINE s == w[SearchLimit]
  <1>5. Good(s, SearchLimit)
    BY <1>4, LimitType
  <1>6. s.hit \/ s.cur = -1
    <2>1. s \in SearchState
      BY <1>5 DEF SearchInv
    <2> HIDE DEF s
    <2> QED
      BY <1>5, <2>1, DoneCounted, LimitType
  <1>7. IsCyclic(h, o, i) = s.hit
    BY SearchUnfold
  <1>8. s.hit \in BOOLEAN
    BY <1>5 DEF SearchInv, SearchState
  <1> HIDE DEF s
  <1> QED
    BY <1>5, <1>6, <1>7, <1>8 DEF SearchInv

\* Before every connection the search answers whether it would close a cycle:
\* it misses none behind a module that it has seen, and takes none for one
\* that goes through the connection about to be replaced (cycles.h).
THEOREM GraphSearchExact ==
  ASSUME KnownClasses
  PROVE  Spec => []SearchExact
  <1>1. ASSUME Sound(g), NEW i \in Inputs(g), NEW o \in Outputs(g) \cup {Unset}
        PROVE  IsCyclic(g, o, i) <=> Cyclic(g, o, i)
    BY <1>1, SearchEnds DEF Asked
  <1>2. Sound(g) => SearchExact
    BY <1>1 DEF SearchExact
  <1> QED
    BY <1>2, GraphSound, PTL
=============================================================================
