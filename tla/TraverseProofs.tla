--------------------------- MODULE TraverseProofs ---------------------------
(***************************************************************************)
(* What the traversal guarantees for graphs and stacks of any size: the    *)
(* order is topological, whatever cycles there are, and complete unless a  *)
(* stack was full; every step comes closer to the end; and no stack fills  *)
(* up that has an entry for every seed and every connection of an acyclic  *)
(* graph.                                                                  *)
(***************************************************************************)
EXTENDS Traverse, FiniteSetTheorems, WellFoundedInduction, TLAPS

Read == [node : Nodes, feedback : BOOLEAN]

\* The inputs of the entry at k that were looked at
Seen(k) == {c \in DOMAIN Inputs(stack[k].node) : k = at => c < next}

\* Done, or still to be looked at
Pending(n) ==
  \/ n \in ran
  \/ \E k \in DOMAIN stack : stack[k].node = n
  \/ \E k \in DOMAIN later : later[k] = n

RanIsOrder == \A n : n \in ran <=> \E i \in DOMAIN order : order[i] = n

Busy ==
  /\ at # 0 => seeded = 3 * NumNodes /\ stack[at].done
  /\ seeded < 3 * NumNodes => Len(stack) <= Cardinality(SeedsUpTo(net, seeded))
  /\ net \in Nets

\* An entry that waits for its inputs has them finished or above it.
Above ==
  \A k \in DOMAIN stack : stack[k].done =>
    \A c \in Seen(k) : ~Inputs(stack[k].node)[c].feedback =>
      \/ Inputs(stack[k].node)[c].node \in ran
      \/ \E j \in DOMAIN stack : j > k /\ stack[j].node = Inputs(stack[k].node)[c].node

SeedsKept ==
  \A k \in 0 .. seeded - 1 : IsSeed(net, k) => Pending(Candidate(k))

RanClosed ==
  \A n \in ran : \A c \in DOMAIN Inputs(n) : Pending(Inputs(n)[c].node)

StackClosed ==
  \A k \in DOMAIN stack : stack[k].done =>
    \A c \in Seen(k) : Pending(Inputs(stack[k].node)[c].node)

Closed == ~full => SeedsKept /\ RanClosed /\ StackClosed

IInv == TypeOK /\ RanIsOrder /\ Ordered /\ Busy /\ Above /\ Closed

-----------------------------------------------------------------------------
LEMMA InputsTyped ==
  ASSUME TypeOK, NEW n \in Nodes
  PROVE  /\ Inputs(n) \in Seq(Read)
         /\ Len(Inputs(n)) \in Nat
         /\ DOMAIN Inputs(n) = 1 .. Len(Inputs(n))
         /\ \A c \in DOMAIN Inputs(n) : Inputs(n)[c] \in Read
<1>1. Inputs(n) \in Seq(Read)
  <2>1. net \in Net
    BY DEF TypeOK
  <2>2. net.reads \in [Nodes -> Seq(Read)]
    BY <2>1 DEF Net, Read
  <2> QED BY <2>2 DEF Inputs
<1> QED BY <1>1

LEMMA StackTyped ==
  ASSUME TypeOK
  PROVE  /\ Len(stack) \in Nat
         /\ DOMAIN stack = 1 .. Len(stack)
         /\ \A k \in DOMAIN stack : stack[k] \in Entry /\ stack[k].node \in Nodes
         /\ Len(later) \in Nat
         /\ DOMAIN later = 1 .. Len(later)
         /\ \A k \in DOMAIN later : later[k] \in Nodes
         /\ Len(order) \in Nat
         /\ DOMAIN order = 1 .. Len(order)
         /\ \A k \in DOMAIN order : order[k] \in Nodes
<1>1. stack \in Seq(Entry) /\ later \in Seq(Nodes) /\ order \in Seq(Nodes)
  BY DEF TypeOK
<1>2. /\ Len(stack) \in Nat
      /\ DOMAIN stack = 1 .. Len(stack)
      /\ \A k \in DOMAIN stack : stack[k] \in Entry
  BY <1>1
<1>3. \A e \in Entry : e.node \in Nodes
  BY DEF Entry
<1>4. /\ Len(later) \in Nat
      /\ DOMAIN later = 1 .. Len(later)
      /\ \A k \in DOMAIN later : later[k] \in Nodes
  BY <1>1
<1>5. /\ Len(order) \in Nat
      /\ DOMAIN order = 1 .. Len(order)
      /\ \A k \in DOMAIN order : order[k] \in Nodes
  BY <1>1
<1> QED BY <1>2, <1>3, <1>4, <1>5

\* The entries below the top
LEMMA Prefix ==
  ASSUME NEW S, NEW s \in Seq(S), NEW n \in Nat, n <= Len(s)
  PROVE  SubSeq(s, 1, n) \in Seq(S) /\ Len(SubSeq(s, 1, n)) = n
OBVIOUS

LEMMA PoppedTyped ==
  ASSUME TypeOK, stack # <<>>
  PROVE  /\ Popped \in Seq(Entry)
         /\ Len(stack) >= 1
         /\ Len(Popped) = Len(stack) - 1
         /\ DOMAIN Popped = 1 .. Len(stack) - 1
         /\ \A k \in DOMAIN Popped : Popped[k] = stack[k]
         /\ Top \in Entry
         /\ Len(stack) \in DOMAIN stack
<1>1. stack \in Seq(Entry)
  BY DEF TypeOK
<1>2. Len(stack) \in Nat /\ Len(stack) >= 1 /\ Len(stack) \in DOMAIN stack
  BY <1>1
<1>3. Popped \in Seq(Entry) /\ Len(Popped) = Len(stack) - 1
  <2>1. Len(stack) - 1 \in Nat /\ Len(stack) - 1 <= Len(stack)
    BY <1>2
  <2> QED BY <1>1, <2>1, Prefix DEF Popped
<1>4. DOMAIN Popped = 1 .. Len(stack) - 1
  BY <1>3
<1>5. \A k \in 1 .. Len(stack) - 1 : Popped[k] = stack[k]
  BY <1>1, <1>2 DEF Popped
<1>6. Top \in Entry
  BY <1>1, <1>2 DEF Top
<1> QED BY <1>2, <1>3, <1>4, <1>5, <1>6

LEMMA CandidateTyped ==
  ASSUME NEW k \in 0 .. 3 * NumNodes - 1
  PROVE  Candidate(k) \in Nodes
BY TraverseAssumption DEF Candidate, Nodes

\* The seeds that fit are as many as can be there while they are collected.
LEMMA SeedsFit ==
  ASSUME NEW m \in Nets, NEW k \in 0 .. 3 * NumNodes
  PROVE  /\ IsFiniteSet(SeedsUpTo(m, k))
         /\ Cardinality(SeedsUpTo(m, k)) \in Nat
         /\ Cardinality(SeedsUpTo(m, k)) <= MaxStack
<1>1. SeedsUpTo(m, k) \subseteq SeedsUpTo(m, 3 * NumNodes)
  BY TraverseAssumption DEF SeedsUpTo
<1>2. SeedsUpTo(m, 3 * NumNodes) \subseteq 0 .. 3 * NumNodes - 1
  BY DEF SeedsUpTo
<1>3. IsFiniteSet(0 .. 3 * NumNodes - 1)
  BY TraverseAssumption, FS_Interval
<1>4. IsFiniteSet(SeedsUpTo(m, 3 * NumNodes))
  BY <1>2, <1>3, FS_Subset
<1>5. /\ IsFiniteSet(SeedsUpTo(m, k))
      /\ Cardinality(SeedsUpTo(m, k)) <= Cardinality(SeedsUpTo(m, 3 * NumNodes))
  BY <1>1, <1>4, FS_Subset
<1>6. /\ Cardinality(SeedsUpTo(m, k)) \in Nat
      /\ Cardinality(SeedsUpTo(m, 3 * NumNodes)) \in Nat
  BY <1>4, <1>5, FS_CardinalityType
<1> QED BY <1>5, <1>6, TraverseAssumption

LEMMA SeedsGrow ==
  ASSUME NEW m \in Nets, NEW k \in 0 .. 3 * NumNodes - 1
  PROVE  Cardinality(SeedsUpTo(m, k + 1)) =
           Cardinality(SeedsUpTo(m, k)) + (IF IsSeed(m, k) THEN 1 ELSE 0)
<1>1. IsFiniteSet(SeedsUpTo(m, k)) /\ Cardinality(SeedsUpTo(m, k)) \in Nat
  <2>1. k \in 0 .. 3 * NumNodes  BY TraverseAssumption
  <2> QED BY <2>1, SeedsFit
<1>2. CASE IsSeed(m, k)
  <2>1. SeedsUpTo(m, k + 1) = SeedsUpTo(m, k) \cup {k}
    BY <1>2 DEF SeedsUpTo
  <2>2. k \notin SeedsUpTo(m, k)
    BY DEF SeedsUpTo
  <2> QED BY <1>1, <1>2, <2>1, <2>2, FS_AddElement
<1>3. CASE ~IsSeed(m, k)
  <2>1. SeedsUpTo(m, k + 1) = SeedsUpTo(m, k)
    BY <1>3 DEF SeedsUpTo
  <2> QED BY <1>1, <1>3, <2>1
<1> QED BY <1>2, <1>3

LEMMA AppendTyped ==
  ASSUME NEW S, NEW s \in Seq(S), NEW e \in S
  PROVE  /\ Append(s, e) \in Seq(S)
         /\ Len(Append(s, e)) = Len(s) + 1
         /\ DOMAIN Append(s, e) = 1 .. Len(s) + 1
         /\ \A k \in 1 .. Len(s) : Append(s, e)[k] = s[k]
         /\ Append(s, e)[Len(s) + 1] = e
OBVIOUS

LEMMA FreshTyped ==
  ASSUME NEW n \in Nodes
  PROVE  Fresh(n) \in Entry /\ Fresh(n).node = n /\ ~Fresh(n).done
BY DEF Fresh, Entry

-----------------------------------------------------------------------------
LEMMA InitHolds == Init => IInv
<1> SUFFICES ASSUME Init PROVE IInv
  OBVIOUS
<1>1. TypeOK
  <2>1. Len(stack) = 0 /\ Len(later) = 0
    BY DEF Init
  <2>2. stack \in Seq(Entry) /\ later \in Seq(Nodes) /\ order \in Seq(Nodes)
    BY DEF Init
  <2>3. net \in Net
    BY TraverseAssumption DEF Init
  <2>4. Len(stack) <= MaxStack /\ Len(later) <= MaxFeedback /\ at \in 0 .. Len(stack)
    BY <2>1, TraverseAssumption DEF Init
  <2>5. seeded \in 0 .. 3 * NumNodes
    BY TraverseAssumption DEF Init
  <2>6. ran \subseteq Nodes /\ next \in Nat \ {0}
    BY DEF Init
  <2>7. full \in BOOLEAN
    BY DEF Init
  <2> QED BY <2>2, <2>3, <2>4, <2>5, <2>6, <2>7 DEF TypeOK
<1>2. Busy
  <2>1. Cardinality(SeedsUpTo(net, 0)) \in Nat
    BY SeedsFit, TraverseAssumption DEF Init
  <2> QED BY <2>1 DEF Init, Busy
<1>3. RanIsOrder /\ Ordered /\ Above /\ Closed
  BY DEF Init, RanIsOrder, Ordered, Above, Closed, SeedsKept, RanClosed, StackClosed
<1> QED BY <1>1, <1>2, <1>3 DEF IInv

-----------------------------------------------------------------------------
LEMMA SeedStep == IInv /\ Seed => IInv'
<1> SUFFICES ASSUME IInv, Seed PROVE IInv'
  OBVIOUS
<1> DEFINE n == Candidate(seeded)
           D == DOMAIN stack
<1>0. TypeOK /\ at = 0 /\ net \in Nets
  BY TraverseAssumption DEF IInv, Seed, Busy, TypeOK
<1>1. seeded \in 0 .. 3 * NumNodes - 1 /\ seeded + 1 \in 0 .. 3 * NumNodes
  BY <1>0, TraverseAssumption DEF TypeOK, Seed
<1>2. n \in Nodes
  BY <1>1, CandidateTyped
<1>3. Fresh(n) \in Entry /\ Fresh(n).node = n /\ ~Fresh(n).done
  BY <1>2, FreshTyped
<1>4. Len(stack) \in Nat /\ D = 1 .. Len(stack) /\ stack \in Seq(Entry)
  BY <1>0, StackTyped DEF TypeOK
<1>5. /\ stack' \in Seq(Entry)
      /\ DOMAIN stack' = 1 .. Len(stack')
      /\ Len(stack') = Len(stack) + (IF IsSeed(net, seeded) THEN 1 ELSE 0)
      /\ \A k \in D : k \in DOMAIN stack' /\ stack'[k] = stack[k]
      /\ \A k \in DOMAIN stack' : k \in D \/ ~stack'[k].done
      /\ IsSeed(net, seeded) => Len(stack') \in DOMAIN stack' /\ stack'[Len(stack')].node = n
  <2>1. CASE IsSeed(net, seeded)
    <3>1. stack' = Append(stack, Fresh(n))
      BY <2>1 DEF Seed
    <3> QED BY <1>3, <1>4, <2>1, <3>1, AppendTyped
  <2>2. CASE ~IsSeed(net, seeded)
    BY <1>4, <2>2 DEF Seed
  <2> QED BY <2>1, <2>2
<1>6. UNCHANGED <<net, later, ran, order, at, next, full>> /\ seeded' = seeded + 1
  BY DEF Seed
<1>7. Len(stack') <= Cardinality(SeedsUpTo(net, seeded + 1)) /\ Len(stack') <= MaxStack
  <2>1. Len(stack) <= Cardinality(SeedsUpTo(net, seeded))
    BY <1>1 DEF IInv, Busy, Seed
  <2>2. Cardinality(SeedsUpTo(net, seeded + 1)) =
          Cardinality(SeedsUpTo(net, seeded)) + (IF IsSeed(net, seeded) THEN 1 ELSE 0)
    BY <1>0, <1>1, SeedsGrow
  <2>3. /\ Cardinality(SeedsUpTo(net, seeded + 1)) \in Nat
        /\ Cardinality(SeedsUpTo(net, seeded + 1)) <= MaxStack
    BY <1>0, <1>1, SeedsFit
  <2>4. Cardinality(SeedsUpTo(net, seeded)) \in Nat
    <3>1. seeded \in 0 .. 3 * NumNodes
      BY <1>1, TraverseAssumption
    <3> QED BY <1>0, <3>1, SeedsFit
  <2> QED BY <1>4, <1>5, <2>1, <2>2, <2>3, <2>4, TraverseAssumption
<1>8. TypeOK'
  BY <1>0, <1>1, <1>4, <1>5, <1>6, <1>7 DEF TypeOK
<1>9. RanIsOrder' /\ Ordered' /\ Busy'
  BY <1>0, <1>6, <1>7 DEF IInv, RanIsOrder, Ordered, Busy, Inputs
<1>10. Above'
  <2> SUFFICES ASSUME NEW k \in DOMAIN stack', stack'[k].done,
                      NEW c \in Seen(k)', ~Inputs(stack'[k].node)[c].feedback
               PROVE  \/ Inputs(stack'[k].node)[c].node \in ran
                      \/ \E j \in DOMAIN stack' :
                            j > k /\ stack'[j].node = Inputs(stack'[k].node)[c].node
    BY <1>6 DEF Above, Inputs
  <2>1. k \in D /\ stack'[k] = stack[k]
    BY <1>5
  <2>2. c \in Seen(k)
    BY <1>6, <2>1 DEF Seen, Inputs
  <2>3. \/ Inputs(stack[k].node)[c].node \in ran
        \/ \E j \in D : j > k /\ stack[j].node = Inputs(stack[k].node)[c].node
    BY <2>1, <2>2 DEF IInv, Above
  <2> QED BY <1>5, <2>1, <2>3
<1>11. \A m : Pending(m) => Pending(m)'
  BY <1>5, <1>6 DEF Pending
<1>12. Closed'
  <2> SUFFICES ASSUME ~full PROVE SeedsKept' /\ RanClosed' /\ StackClosed'
    BY <1>6 DEF Closed
  <2>1. SeedsKept /\ RanClosed /\ StackClosed
    BY DEF IInv, Closed
  <2>2. SeedsKept'
    <3> SUFFICES ASSUME NEW k \in 0 .. seeded, IsSeed(net, k) PROVE Pending(Candidate(k))'
      BY <1>1, <1>6 DEF SeedsKept, IsSeed, Candidate
    <3>1. CASE k = seeded
      BY <1>5, <3>1 DEF Pending, Candidate
    <3>2. CASE k # seeded
      BY <1>1, <1>11, <2>1, <3>2 DEF SeedsKept, Candidate
    <3> QED BY <3>1, <3>2
  <2>3. RanClosed'
    BY <1>6, <1>11, <2>1 DEF RanClosed, Inputs
  <2>4. StackClosed'
    BY <1>5, <1>6, <1>11, <2>1 DEF StackClosed, Seen, Inputs
  <2> QED BY <2>2, <2>3, <2>4
<1> QED BY <1>8, <1>9, <1>10, <1>12 DEF IInv

-----------------------------------------------------------------------------
(* Taking an entry off the stack whose node is done, or done now *)

LEMMA PopFacts ==
  ASSUME IInv, Working, stack' = Popped, UNCHANGED <<net, seeded, later, at, next, full>>,
         ran \subseteq ran', Top.node \in ran', ran' \subseteq ran \cup {Top.node}
  PROVE  /\ Len(stack) \in DOMAIN stack /\ Top = stack[Len(stack)] /\ Top.node \in Nodes
         /\ \A m : Pending(m) => Pending(m)'
         /\ Above'
         /\ Busy'
         /\ Closed \/ full
         /\ ~full => SeedsKept' /\ StackClosed'
         /\ order' \in Seq(Nodes) => TypeOK'
<1>0. TypeOK /\ stack # <<>> /\ at = 0
  BY DEF IInv, Working
<1>1. /\ Len(stack) \in DOMAIN stack /\ Top = stack[Len(stack)] /\ Top.node \in Nodes
      /\ Len(stack) \in Nat /\ DOMAIN stack = 1 .. Len(stack) /\ Len(stack) >= 1
  BY <1>0, PoppedTyped, StackTyped DEF Top
<1>2. /\ stack' \in Seq(Entry)
      /\ Len(stack') = Len(stack) - 1
      /\ DOMAIN stack' = 1 .. Len(stack) - 1
      /\ \A k \in DOMAIN stack' : stack'[k] = stack[k]
  BY <1>0, PoppedTyped
<1>3. \A m : Pending(m) => Pending(m)'
  BY <1>1, <1>2 DEF Pending
<1>4. Above'
  <2> SUFFICES ASSUME NEW k \in DOMAIN stack', stack'[k].done,
                      NEW c \in Seen(k)', ~Inputs(stack'[k].node)[c].feedback
               PROVE  \/ Inputs(stack'[k].node)[c].node \in ran'
                      \/ \E j \in DOMAIN stack' :
                            j > k /\ stack'[j].node = Inputs(stack'[k].node)[c].node
    BY DEF Above, Inputs
  <2>1. k \in DOMAIN stack /\ stack'[k] = stack[k]
    BY <1>1, <1>2
  <2>2. c \in Seen(k)
    BY <2>1 DEF Seen, Inputs
  <2>3. \/ Inputs(stack[k].node)[c].node \in ran
        \/ \E j \in DOMAIN stack : j > k /\ stack[j].node = Inputs(stack[k].node)[c].node
    BY <2>1, <2>2 DEF IInv, Above
  <2> QED BY <1>1, <1>2, <2>1, <2>3
<1>5. Busy'
  <2>1. seeded = 3 * NumNodes /\ net \in Nets
    BY DEF IInv, Busy, Working
  <2>2. ~(seeded < 3 * NumNodes)
    BY <2>1, TraverseAssumption
  <2> QED BY <1>0, <2>1, <2>2 DEF Busy
<1>6. ~full => SeedsKept' /\ StackClosed'
  <2> SUFFICES ASSUME ~full PROVE SeedsKept' /\ StackClosed'
    OBVIOUS
  <2>1. SeedsKept /\ StackClosed
    BY DEF IInv, Closed
  <2>2. SeedsKept'
    BY <1>3, <2>1 DEF SeedsKept, IsSeed, Candidate
  <2>3. StackClosed'
    <3> SUFFICES ASSUME NEW k \in DOMAIN stack', stack'[k].done, NEW c \in Seen(k)',
                        NEW m, m = Inputs(stack'[k].node)[c].node
                 PROVE  Pending(m)'
      BY DEF StackClosed, Inputs, Pending
    <3>1. k \in DOMAIN stack /\ stack'[k] = stack[k]
      BY <1>1, <1>2
    <3>2. c \in Seen(k)
      BY <3>1 DEF Seen, Inputs
    <3>3. Pending(m)
      BY <2>1, <3>1, <3>2 DEF StackClosed
    <3> QED BY <1>3, <3>1, <3>3
  <2> QED BY <2>2, <2>3
<1>7. order' \in Seq(Nodes) => TypeOK'
  <2>1. Len(stack') <= MaxStack /\ at' \in 0 .. Len(stack')
    BY <1>0, <1>1, <1>2, TraverseAssumption DEF TypeOK
  <2>2. ran' \subseteq Nodes
    BY <1>0, <1>1 DEF TypeOK
  <2> QED BY <1>0, <1>2, <2>1, <2>2 DEF TypeOK
<1>8. Closed \/ full
  BY DEF IInv
<1> QED BY <1>1, <1>3, <1>4, <1>5, <1>6, <1>7, <1>8

LEMMA DropStep == IInv /\ Drop => IInv'
<1> SUFFICES ASSUME IInv, Drop PROVE IInv'
  OBVIOUS
<1>1. /\ Working /\ stack' = Popped /\ Top.node \in ran
      /\ UNCHANGED <<net, seeded, later, ran, order, at, next, full>>
  BY DEF Drop
<1>2. /\ \A m : Pending(m) => Pending(m)'
      /\ Above' /\ Busy'
      /\ ~full => SeedsKept' /\ StackClosed'
      /\ order' \in Seq(Nodes) => TypeOK'
  BY <1>1, PopFacts
<1>3. TypeOK' /\ RanIsOrder' /\ Ordered'
  BY <1>1, <1>2 DEF IInv, TypeOK, RanIsOrder, Ordered, Inputs
<1>4. Closed'
  BY <1>1, <1>2 DEF IInv, Closed, RanClosed, Inputs
<1> QED BY <1>2, <1>3, <1>4 DEF IInv

LEMMA PostStep == IInv /\ Post => IInv'
<1> SUFFICES ASSUME IInv, Post PROVE IInv'
  OBVIOUS
<1> DEFINE n == Top.node
<1>1. /\ Working /\ stack' = Popped /\ n \notin ran /\ Top.done
      /\ ran' = ran \cup {n} /\ order' = Append(order, n)
      /\ UNCHANGED <<net, seeded, later, at, next, full>>
  BY DEF Post
<1>2. /\ Len(stack) \in DOMAIN stack /\ Top = stack[Len(stack)] /\ n \in Nodes
      /\ \A m : Pending(m) => Pending(m)'
      /\ Above' /\ Busy'
      /\ ~full => SeedsKept' /\ StackClosed'
      /\ order' \in Seq(Nodes) => TypeOK'
  BY <1>1, PopFacts
<1>3. /\ order \in Seq(Nodes) /\ Len(order) \in Nat /\ DOMAIN order = 1 .. Len(order)
      /\ DOMAIN stack = 1 .. Len(stack) /\ at = 0 /\ Len(stack) \in Nat
  BY StackTyped, <1>1 DEF IInv, TypeOK, Working
<1>4. /\ order' \in Seq(Nodes)
      /\ DOMAIN order' = 1 .. Len(order) + 1
      /\ \A i \in DOMAIN order : order'[i] = order[i]
      /\ order'[Len(order) + 1] = n
  BY <1>1, <1>2, <1>3, AppendTyped
<1>5. Seen(Len(stack)) = DOMAIN Inputs(n)
  <2>1. Len(stack) # at
    BY <1>2, <1>3
  <2> QED BY <1>2, <2>1 DEF Seen
<1>6. RanIsOrder'
  BY <1>1, <1>3, <1>4 DEF IInv, RanIsOrder
<1>7. Ordered'
  <2> SUFFICES ASSUME NEW i \in DOMAIN order'
               PROVE  /\ \A j \in DOMAIN order' : order'[i] = order'[j] => i = j
                      /\ \A c \in DOMAIN Inputs(order'[i]) :
                           ~Inputs(order'[i])[c].feedback
                             => \E j \in 1 .. i - 1 : order'[j] = Inputs(order'[i])[c].node
    <3>1. net' = net
      BY <1>1
    <3> QED BY <3>1 DEF Ordered, Inputs
  <2>1. \A j \in DOMAIN order : order[j] \in ran
    BY DEF IInv, RanIsOrder
  <2>2. \A j \in DOMAIN order' : order'[i] = order'[j] => i = j
    BY <1>1, <1>3, <1>4, <2>1 DEF IInv, Ordered
  <2>3. ASSUME NEW c \in DOMAIN Inputs(order'[i]), ~Inputs(order'[i])[c].feedback
        PROVE  \E j \in 1 .. i - 1 : order'[j] = Inputs(order'[i])[c].node
    <3>1. CASE i \in DOMAIN order
      <4>1. \E j \in 1 .. i - 1 : order[j] = Inputs(order[i])[c].node
        BY <1>4, <2>3, <3>1 DEF IInv, Ordered
      <4> QED BY <1>3, <1>4, <3>1, <4>1
    <3>2. CASE i = Len(order) + 1
      <4>1. Inputs(n)[c].node \in ran
        <5>1. c \in Seen(Len(stack)) /\ ~Inputs(stack[Len(stack)].node)[c].feedback
          BY <1>2, <1>4, <1>5, <2>3, <3>2
        <5>2. \/ Inputs(stack[Len(stack)].node)[c].node \in ran
              \/ \E j \in DOMAIN stack : j > Len(stack)
          BY <1>1, <1>2, <5>1 DEF IInv, Above
        <5> QED BY <1>2, <1>3, <5>2
      <4>2. PICK j \in DOMAIN order : order[j] = Inputs(n)[c].node
        BY <4>1 DEF IInv, RanIsOrder
      <4> QED BY <1>3, <1>4, <3>2, <4>2
    <3> QED BY <1>3, <1>4, <3>1, <3>2
  <2> QED BY <2>2, <2>3
<1>8. Closed'
  <2> SUFFICES ASSUME ~full PROVE RanClosed'
    BY <1>1, <1>2 DEF Closed
  <2> SUFFICES ASSUME NEW m \in ran', NEW c \in DOMAIN Inputs(m),
                      NEW p, p = Inputs(m)[c].node
               PROVE  Pending(p)'
    BY <1>1 DEF RanClosed, Inputs, Pending
  <2>1. RanClosed /\ StackClosed
    BY DEF IInv, Closed
  <2>2. CASE m \in ran
    BY <1>2, <2>1, <2>2 DEF RanClosed
  <2>3. CASE m = n
    BY <1>1, <1>2, <1>5, <2>1, <2>3 DEF StackClosed
  <2> QED BY <1>1, <2>2, <2>3
<1> QED BY <1>2, <1>4, <1>6, <1>7, <1>8 DEF IInv

-----------------------------------------------------------------------------
(* The loop over the inputs *)

LEMMA EnterStep == IInv /\ Enter => IInv'
<1> SUFFICES ASSUME IInv, Enter PROVE IInv'
  OBVIOUS
<1> DEFINE L == Len(stack)
<1>0. TypeOK /\ Working /\ UNCHANGED <<net, seeded, later, ran, order, full>>
      /\ at' = L /\ next' = 1 /\ at = 0
  BY DEF IInv, Enter, Working
<1>1. L \in Nat /\ DOMAIN stack = 1 .. L /\ L \in DOMAIN stack /\ L >= 1
  BY <1>0, StackTyped, PoppedTyped DEF Working
<1>2. stack' = [stack EXCEPT ![L].done = TRUE]
  BY DEF Enter
<1>3. /\ stack' \in Seq(Entry)
      /\ Len(stack') = L
      /\ DOMAIN stack' = DOMAIN stack
      /\ stack'[L].done
      /\ \A k \in DOMAIN stack : stack'[k].node = stack[k].node
      /\ \A k \in DOMAIN stack : k # L => stack'[k] = stack[k]
  <2>1. stack \in Seq(Entry)
    BY <1>0 DEF TypeOK
  <2>2. stack[L] \in Entry
    BY <1>0, <1>1, StackTyped
  <2>3. [stack[L] EXCEPT !.done = TRUE] \in Entry
        /\ [stack[L] EXCEPT !.done = TRUE].node = stack[L].node
        /\ [stack[L] EXCEPT !.done = TRUE].done
    BY <2>2 DEF Entry
  <2>4. stack' = [stack EXCEPT ![L] = [stack[L] EXCEPT !.done = TRUE]]
    BY <1>2
  <2>5. /\ stack'[L] = [stack[L] EXCEPT !.done = TRUE]
        /\ \A k \in DOMAIN stack : k # L => stack'[k] = stack[k]
    BY <1>1, <2>1, <2>4
  <2>6. stack' \in Seq(Entry) /\ Len(stack') = L /\ DOMAIN stack' = DOMAIN stack
    BY <1>1, <2>1, <2>3, <2>4
  <2> QED BY <2>3, <2>5, <2>6
<1>4. TypeOK'
  <2>1. Len(stack') <= MaxStack /\ at' \in 0 .. Len(stack')
    BY <1>0, <1>1, <1>3 DEF TypeOK
  <2> QED BY <1>0, <1>3, <2>1 DEF TypeOK
<1>5. Busy'
  BY <1>0, <1>3, TraverseAssumption DEF IInv, Busy, Working
<1>6. \A m : Pending(m) => Pending(m)'
  BY <1>0, <1>3 DEF Pending
<1>7. RanIsOrder' /\ Ordered'
  BY <1>0 DEF IInv, RanIsOrder, Ordered, Inputs
<1>8. \A k \in DOMAIN stack : Seen(k)' \subseteq IF k = L THEN {} ELSE Seen(k)
  <2> SUFFICES ASSUME NEW k \in DOMAIN stack, NEW c \in Seen(k)'
               PROVE  k # L /\ c \in Seen(k)
    OBVIOUS
  <2>1. c \in DOMAIN Inputs(stack[k].node)
    BY <1>0, <1>3 DEF Seen, Inputs
  <2>2. Inputs(stack[k].node) \in Seq(Read)
    BY <1>0, StackTyped, InputsTyped
  <2>3. c \in Nat /\ c >= 1
    BY <2>1, <2>2
  <2>4. k # L
    BY <1>0, <2>3 DEF Seen
  <2>5. k # at
    BY <1>0, <1>1
  <2> QED BY <2>1, <2>4, <2>5 DEF Seen
<1>9. Above'
  <2> SUFFICES ASSUME NEW k \in DOMAIN stack', stack'[k].done,
                      NEW c \in Seen(k)', ~Inputs(stack'[k].node)[c].feedback
               PROVE  \/ Inputs(stack'[k].node)[c].node \in ran
                      \/ \E j \in DOMAIN stack' :
                            j > k /\ stack'[j].node = Inputs(stack'[k].node)[c].node
    BY <1>0 DEF Above, Inputs
  <2>1. k \in DOMAIN stack /\ stack'[k] = stack[k] /\ c \in Seen(k)
    BY <1>3, <1>8
  <2> QED BY <1>3, <2>1 DEF IInv, Above
<1>10. Closed'
  <2> SUFFICES ASSUME ~full PROVE SeedsKept' /\ RanClosed' /\ StackClosed'
    BY <1>0 DEF Closed
  <2>1. SeedsKept /\ RanClosed /\ StackClosed
    BY DEF IInv, Closed
  <2>2. SeedsKept' /\ RanClosed'
    BY <1>0, <1>6, <2>1 DEF SeedsKept, RanClosed, IsSeed, Candidate, Inputs
  <2>3. StackClosed'
    <3> SUFFICES ASSUME NEW k \in DOMAIN stack', stack'[k].done, NEW c \in Seen(k)',
                        NEW m, m = Inputs(stack'[k].node)[c].node
                 PROVE  Pending(m)'
      BY <1>0 DEF StackClosed, Inputs, Pending
    <3>1. k \in DOMAIN stack /\ stack'[k] = stack[k] /\ c \in Seen(k)
      BY <1>3, <1>8
    <3>2. Pending(m)
      BY <2>1, <3>1 DEF StackClosed
    <3> QED BY <1>6, <3>2
  <2> QED BY <2>2, <2>3
<1> QED BY <1>4, <1>5, <1>7, <1>9, <1>10 DEF IInv

LEMMA OverflowStep == IInv /\ Overflow => IInv'
<1> SUFFICES ASSUME IInv, Overflow PROVE IInv'
  OBVIOUS
<1>0. /\ UNCHANGED <<net, seeded, ran, order, next>>
      /\ stack' = <<>> /\ later' = <<>> /\ at' = 0 /\ full' = TRUE
      /\ at # 0
  BY DEF Overflow, Looking
<1>1. Len(stack') = 0 /\ Len(later') = 0 /\ DOMAIN stack' = {}
      /\ stack' \in Seq(Entry) /\ later' \in Seq(Nodes)
  BY <1>0
<1>2. TypeOK'
  <2>1. Len(stack') <= MaxStack /\ Len(later') <= MaxFeedback /\ at' \in 0 .. Len(stack')
    BY <1>0, <1>1, TraverseAssumption
  <2> QED BY <1>0, <1>1, <2>1 DEF IInv, TypeOK
<1>3. Busy'
  <2>1. seeded = 3 * NumNodes /\ net \in Nets
    BY <1>0 DEF IInv, Busy
  <2>2. ~(seeded < 3 * NumNodes)
    BY <2>1, TraverseAssumption
  <2> QED BY <1>0, <2>1, <2>2 DEF Busy
<1>4. RanIsOrder' /\ Ordered'
  BY <1>0 DEF IInv, RanIsOrder, Ordered, Inputs
<1>5. Above' /\ Closed'
  BY <1>0, <1>1 DEF Above, Closed
<1> QED BY <1>2, <1>3, <1>4, <1>5 DEF IInv

LEMMA LeaveStep == IInv /\ Leave => IInv'
<1> SUFFICES ASSUME IInv, Leave PROVE IInv'
  OBVIOUS
<1>0. /\ UNCHANGED <<net, seeded, stack, later, ran, order, next, full>>
      /\ at' = 0 /\ at # 0 /\ ~Looking /\ TypeOK
  BY DEF IInv, Leave
<1>1. DOMAIN stack = 1 .. Len(stack) /\ Len(stack) \in Nat /\ at \in DOMAIN stack
  BY <1>0, StackTyped DEF TypeOK
<1>2. \A k \in DOMAIN stack : Seen(k)' = Seen(k)
  <2> SUFFICES ASSUME NEW k \in DOMAIN stack PROVE Seen(k)' = Seen(k)
    OBVIOUS
  <2>1. Seen(k)' = DOMAIN Inputs(stack[k].node)
    <3>1. k # at'
      BY <1>0, <1>1
    <3> QED BY <1>0, <3>1 DEF Seen, Inputs
  <2>2. Seen(k) = DOMAIN Inputs(stack[k].node)
    <3>1. CASE k # at
      BY <3>1 DEF Seen
    <3>2. CASE k = at
      <4>1. /\ Len(Inputs(stack[k].node)) \in Nat
            /\ DOMAIN Inputs(stack[k].node) = 1 .. Len(Inputs(stack[k].node))
        BY <1>0, StackTyped, InputsTyped
      <4>2. next > Len(Inputs(stack[k].node)) /\ next \in Nat
        BY <1>0, <3>2, <4>1 DEF Looking, Expanded, TypeOK
      <4> QED BY <4>1, <4>2 DEF Seen
    <3> QED BY <3>1, <3>2
  <2> QED BY <2>1, <2>2
<1>3. TypeOK'
  <2>1. at' \in 0 .. Len(stack')
    BY <1>0, <1>1
  <2> QED BY <1>0, <2>1 DEF TypeOK
<1>4. Busy' /\ RanIsOrder' /\ Ordered'
  BY <1>0 DEF IInv, Busy, RanIsOrder, Ordered, Inputs
<1>5. Above'
  BY <1>0, <1>2 DEF IInv, Above, Inputs
<1>6. Closed'
  <2>1. StackClosed => StackClosed'
    BY <1>0, <1>2 DEF StackClosed, Inputs, Pending
  <2>2. SeedsKept /\ RanClosed => SeedsKept' /\ RanClosed'
    BY <1>0 DEF SeedsKept, RanClosed, Pending, Inputs, IsSeed, Candidate
  <2> QED BY <1>0, <2>1, <2>2 DEF IInv, Closed
<1> QED BY <1>3, <1>4, <1>5, <1>6 DEF IInv

LEMMA PushStep == IInv /\ Push => IInv'
<1> SUFFICES ASSUME IInv, Push PROVE IInv'
  OBVIOUS
<1> DEFINE L  == Len(stack)
           el == Input.node
<1>0. /\ UNCHANGED <<net, seeded, ran, order, at, full>> /\ next' = next + 1
      /\ Looking /\ ~NoRoom /\ TypeOK
  BY DEF IInv, Push
<1>1. L \in Nat /\ DOMAIN stack = 1 .. L /\ at \in DOMAIN stack /\ stack \in Seq(Entry)
  BY <1>0, StackTyped DEF TypeOK, Looking
<1>2. /\ next \in DOMAIN Inputs(stack[at].node)
      /\ Input = Inputs(stack[at].node)[next]
      /\ el \in Nodes /\ Input.feedback \in BOOLEAN
      /\ Inputs(stack[at].node) \in Seq(Read) /\ next \in Nat
  <2>1. /\ Inputs(stack[at].node) \in Seq(Read)
        /\ Len(Inputs(stack[at].node)) \in Nat
        /\ DOMAIN Inputs(stack[at].node) = 1 .. Len(Inputs(stack[at].node))
        /\ \A c \in DOMAIN Inputs(stack[at].node) : Inputs(stack[at].node)[c] \in Read
    BY <1>0, <1>1, StackTyped, InputsTyped
  <2>2. next \in Nat /\ next >= 1 /\ next <= Len(Inputs(stack[at].node))
    BY <1>0, <1>1 DEF IInv, Busy, Looking, Expanded, TypeOK
  <2>3. next \in DOMAIN Inputs(stack[at].node) /\ Input = Inputs(stack[at].node)[next]
    BY <2>1, <2>2 DEF Input, Expanded
  <2>4. Input \in Read
    BY <2>1, <2>3
  <2> QED BY <2>1, <2>2, <2>3, <2>4 DEF Read
<1>3. /\ stack' \in Seq(Entry)
      /\ DOMAIN stack' = 1 .. Len(stack')
      /\ Len(stack') <= MaxStack /\ at \in 0 .. Len(stack')
      /\ \A k \in DOMAIN stack : k \in DOMAIN stack' /\ stack'[k] = stack[k]
      /\ \A k \in DOMAIN stack' : k \in DOMAIN stack \/ ~stack'[k].done
      /\ Pushed => L + 1 \in DOMAIN stack' /\ stack'[L + 1].node = el
  <2>1. CASE Pushed
    <3>1. stack' = Append(stack, Fresh(el))
      BY <2>1 DEF Push
    <3>2. ~(L >= MaxStack)
      BY <1>0, <2>1 DEF NoRoom
    <3>3. L + 1 <= MaxStack
      BY <1>1, <3>2, TraverseAssumption
    <3>4. /\ Append(stack, Fresh(el)) \in Seq(Entry)
          /\ Len(Append(stack, Fresh(el))) = L + 1
          /\ DOMAIN Append(stack, Fresh(el)) = 1 .. L + 1
          /\ \A k \in 1 .. L : Append(stack, Fresh(el))[k] = stack[k]
          /\ Append(stack, Fresh(el))[L + 1] = Fresh(el)
      BY <1>1, <1>2, FreshTyped, AppendTyped
    <3>5. Fresh(el).node = el /\ ~Fresh(el).done
      BY <1>2, FreshTyped
    <3> QED BY <1>1, <3>1, <3>3, <3>4, <3>5
  <2>2. CASE ~Pushed
    BY <1>0, <1>1, <2>2 DEF Push, TypeOK
  <2> QED BY <2>1, <2>2
<1>4. /\ later' \in Seq(Nodes)
      /\ Len(later') <= MaxFeedback
      /\ \A k \in DOMAIN later : k \in DOMAIN later' /\ later'[k] = later[k]
      /\ PutOff => \E k \in DOMAIN later' : later'[k] = el
  <2>0. later \in Seq(Nodes) /\ Len(later) \in Nat /\ DOMAIN later = 1 .. Len(later)
    BY <1>0, StackTyped DEF TypeOK
  <2>1. CASE PutOff
    <3>1. later' = Append(later, el)
      BY <2>1 DEF Push
    <3>2. ~(Len(later) >= MaxFeedback)
      BY <1>0, <2>1 DEF NoRoom
    <3>3. Len(later) + 1 <= MaxFeedback
      BY <2>0, <3>2, TraverseAssumption
    <3> QED BY <1>2, <2>0, <3>1, <3>3, AppendTyped
  <2>2. CASE ~PutOff
    BY <1>0, <2>0, <2>2 DEF Push, TypeOK
  <2> QED BY <2>1, <2>2
<1>5. TypeOK'
  BY <1>0, <1>3, <1>4 DEF TypeOK
<1>6. Busy'
  <2>1. seeded = 3 * NumNodes /\ net \in Nets /\ stack[at].done
    BY <1>0, <1>1 DEF IInv, Busy, Looking
  <2>2. ~(seeded < 3 * NumNodes)
    BY <2>1, TraverseAssumption
  <2> QED BY <1>0, <1>1, <1>3, <2>1, <2>2 DEF Busy
<1>7. RanIsOrder' /\ Ordered'
  BY <1>0 DEF IInv, RanIsOrder, Ordered, Inputs
<1>8. \A m : Pending(m) => Pending(m)'
  BY <1>0, <1>3, <1>4 DEF Pending
<1>9. \A k \in DOMAIN stack : \A c \in Seen(k)' : c \in Seen(k) \/ (k = at /\ c = next)
  <2> SUFFICES ASSUME NEW k \in DOMAIN stack, NEW c \in Seen(k)', c \notin Seen(k)
               PROVE  k = at /\ c = next
    OBVIOUS
  <2>1. c \in DOMAIN Inputs(stack[k].node) /\ (k = at => c < next + 1)
    BY <1>0, <1>3 DEF Seen, Inputs
  <2>2. k = at /\ ~(c < next)
    BY <2>1 DEF Seen
  <2>3. c \in Nat
    BY <1>2, <2>1, <2>2
  <2> QED BY <1>2, <2>1, <2>2, <2>3
<1>10. Above'
  <2> SUFFICES ASSUME NEW k \in DOMAIN stack', stack'[k].done,
                      NEW c \in Seen(k)', ~Inputs(stack'[k].node)[c].feedback
               PROVE  \/ Inputs(stack'[k].node)[c].node \in ran
                      \/ \E j \in DOMAIN stack' :
                            j > k /\ stack'[j].node = Inputs(stack'[k].node)[c].node
    BY <1>0 DEF Above, Inputs
  <2>1. k \in DOMAIN stack /\ stack'[k] = stack[k]
    BY <1>3
  <2>2. CASE c \in Seen(k)
    <3>1. \/ Inputs(stack[k].node)[c].node \in ran
          \/ \E j \in DOMAIN stack : j > k /\ stack[j].node = Inputs(stack[k].node)[c].node
      BY <2>1, <2>2 DEF IInv, Above
    <3> QED BY <1>3, <2>1, <3>1
  <2>3. CASE k = at /\ c = next
    <3>1. el \in ran \/ Pushed
      BY <1>2, <2>1, <2>3 DEF Pushed
    <3>2. L + 1 > k
      BY <1>1, <2>1
    <3> QED BY <1>2, <1>3, <2>1, <2>3, <3>1, <3>2
  <2> QED BY <1>9, <2>1, <2>2, <2>3
<1>11. Closed'
  <2> SUFFICES ASSUME ~full PROVE SeedsKept' /\ RanClosed' /\ StackClosed'
    BY <1>0 DEF Closed
  <2>1. SeedsKept /\ RanClosed /\ StackClosed
    BY DEF IInv, Closed
  <2>2. SeedsKept' /\ RanClosed'
    BY <1>0, <1>8, <2>1 DEF SeedsKept, RanClosed, IsSeed, Candidate, Inputs
  <2>3. StackClosed'
    <3> SUFFICES ASSUME NEW k \in DOMAIN stack', stack'[k].done, NEW c \in Seen(k)',
                        NEW m, m = Inputs(stack'[k].node)[c].node
                 PROVE  Pending(m)'
      BY <1>0 DEF StackClosed, Inputs, Pending
    <3>1. k \in DOMAIN stack /\ stack'[k] = stack[k]
      BY <1>3
    <3>2. CASE c \in Seen(k)
      <4>1. Pending(m)
        BY <2>1, <3>1, <3>2 DEF StackClosed
      <4> QED BY <1>8, <4>1
    <3>3. CASE k = at /\ c = next
      <4>1. m = el
        BY <1>2, <3>1, <3>3
      <4>2. el \in ran \/ (\E j \in DOMAIN stack' : stack'[j].node = el)
              \/ (\E j \in DOMAIN later' : later'[j] = el)
        BY <1>2, <1>3, <1>4 DEF Pushed, PutOff
      <4> QED BY <1>0, <4>1, <4>2 DEF Pending
    <3> QED BY <1>9, <3>1, <3>2, <3>3
  <2> QED BY <2>2, <2>3
<1> QED BY <1>5, <1>6, <1>7, <1>10, <1>11 DEF IInv

LEMMA NextRoundStep == IInv /\ NextRound => IInv'
<1> SUFFICES ASSUME IInv, NextRound PROVE IInv'
  OBVIOUS
<1>0. /\ UNCHANGED <<net, seeded, ran, order, at, next, full>>
      /\ seeded = 3 * NumNodes /\ at = 0 /\ stack = <<>> /\ later' = <<>>
      /\ stack' = [k \in DOMAIN later |-> Fresh(later[k])] /\ TypeOK
  BY DEF IInv, NextRound
<1>1. Len(later) \in Nat /\ DOMAIN later = 1 .. Len(later) /\ later \in Seq(Nodes)
  BY <1>0, StackTyped DEF TypeOK
<1>2. \A k \in DOMAIN later : Fresh(later[k]) \in Entry /\ Fresh(later[k]).node = later[k]
                              /\ ~Fresh(later[k]).done
  BY <1>0, StackTyped, FreshTyped
<1>3. /\ stack' \in Seq(Entry) /\ Len(stack') = Len(later) /\ DOMAIN stack' = DOMAIN later
      /\ \A k \in DOMAIN later : stack'[k].node = later[k] /\ ~stack'[k].done
      /\ later' \in Seq(Nodes) /\ Len(later') = 0
  BY <1>0, <1>1, <1>2
<1>4. TypeOK'
  <2>1. Len(stack') <= MaxStack /\ Len(later') <= MaxFeedback /\ at' \in 0 .. Len(stack')
    BY <1>0, <1>1, <1>3, TraverseAssumption DEF TypeOK
  <2> QED BY <1>0, <1>3, <2>1 DEF TypeOK
<1>5. Busy'
  <2>1. ~(seeded < 3 * NumNodes)
    BY <1>0, TraverseAssumption
  <2> QED BY <1>0, <2>1 DEF IInv, Busy
<1>6. RanIsOrder' /\ Ordered'
  BY <1>0 DEF IInv, RanIsOrder, Ordered, Inputs
<1>7. Above' /\ StackClosed'
  BY <1>3 DEF Above, StackClosed
<1>8. \A m : Pending(m) => Pending(m)'
  BY <1>0, <1>3 DEF Pending
<1>9. Closed'
  <2>1. SeedsKept /\ RanClosed => SeedsKept' /\ RanClosed'
    BY <1>0, <1>8 DEF SeedsKept, RanClosed, IsSeed, Candidate, Inputs
  <2> QED BY <1>0, <1>7, <2>1 DEF IInv, Closed
<1> QED BY <1>4, <1>5, <1>6, <1>7, <1>9 DEF IInv

-----------------------------------------------------------------------------
LEMMA Inductive == Spec => []IInv
<1>1. IInv /\ [Next]_vars => IInv'
  <2> SUFFICES ASSUME IInv, [Next]_vars PROVE IInv'
    OBVIOUS
  <2>1. CASE Next
    BY <2>1, SeedStep, DropStep, PostStep, EnterStep, PushStep, OverflowStep,
       LeaveStep, NextRoundStep DEF Next
  <2>2. CASE UNCHANGED vars
    <3>1. \A k \in DOMAIN stack : Seen(k)' = Seen(k)
      BY <2>2 DEF vars, Seen, Inputs
    <3>2. TypeOK' /\ RanIsOrder' /\ Ordered' /\ Busy'
      BY <2>2 DEF IInv, vars, TypeOK, RanIsOrder, Ordered, Busy, Inputs
    <3>3. Above'
      BY <2>2, <3>1 DEF IInv, vars, Above, Inputs
    <3>4. Closed'
      <4>1. StackClosed => StackClosed'
        BY <2>2, <3>1 DEF vars, StackClosed, Inputs, Pending
      <4>2. SeedsKept /\ RanClosed => SeedsKept' /\ RanClosed'
        BY <2>2 DEF vars, SeedsKept, RanClosed, Pending, Inputs, IsSeed, Candidate
      <4> QED BY <2>2, <4>1, <4>2 DEF IInv, vars, Closed
    <3> QED BY <3>2, <3>3, <3>4 DEF IInv
  <2> QED BY <2>1, <2>2
<1> QED BY <1>1, InitHolds, PTL DEF Spec

\* The stacks are never written behind their ends, whatever graph is traversed,
\* if the seeds fit.
THEOREM TraverseTypeOK == Spec => []TypeOK
<1>1. IInv => TypeOK
  BY DEF IInv
<1> QED BY <1>1, Inductive, PTL

\* Everything is executed once and after its inputs.
THEOREM TraverseOrdered == Spec => []Ordered
<1>1. IInv => Ordered
  BY DEF IInv
<1> QED BY <1>1, Inductive, PTL

\* A traversal that does not run out of stack leaves nothing out.
THEOREM TraverseComplete == Spec => []Complete
<1>1. IInv => Complete
  <2> SUFFICES ASSUME IInv, Finished, ~full
               PROVE  /\ net.sinks \cup net.bvh \subseteq ran
                      /\ \A n \in ran : \A c \in DOMAIN Inputs(n) :
                           Inputs(n)[c].node \in ran
    BY DEF Complete
  <2>1. SeedsKept /\ RanClosed
    BY DEF IInv, Closed
  <2>2. \A n : Pending(n) => n \in ran
    BY DEF Pending, Finished
  <2>3. \A n \in ran : \A c \in DOMAIN Inputs(n) : Inputs(n)[c].node \in ran
    BY <2>1, <2>2 DEF RanClosed
  <2>4. seeded = 3 * NumNodes /\ NumNodes \in Nat
    BY TraverseAssumption DEF Finished
  <2>5. net.main \subseteq net.sinks /\ net.sinks \subseteq Nodes /\ net.bvh \subseteq Nodes
    BY TraverseAssumption DEF IInv, Busy, Net
  <2>6. ASSUME NEW n \in net.main PROVE n \in ran
    <3>1. n \in Nodes
      BY <2>5, <2>6
    <3>2. n \in 0 .. seeded - 1 /\ n < NumNodes
      BY <2>4, <3>1 DEF Nodes
    <3>3. Candidate(n) = n /\ IsSeed(net, n)
      BY <2>6, <3>2 DEF Candidate, IsSeed
    <3> QED BY <2>1, <2>2, <3>2, <3>3 DEF SeedsKept
  <2>7. ASSUME NEW n \in net.sinks \ net.main PROVE n \in ran
    <3> DEFINE k == 2 * NumNodes - 1 - n
    <3>1. n \in Nodes
      BY <2>5, <2>7
    <3>2. k \in 0 .. seeded - 1 /\ ~(k < NumNodes) /\ k < 2 * NumNodes
          /\ 2 * NumNodes - 1 - k = n
      BY <2>4, <3>1 DEF Nodes
    <3>3. Candidate(k) = n
      BY <3>2 DEF Candidate
    <3>4. IsSeed(net, k)
      BY <2>7, <3>2, <3>3 DEF IsSeed
    <3> QED BY <2>1, <2>2, <3>2, <3>3, <3>4 DEF SeedsKept
  <2>8. ASSUME NEW n \in net.bvh PROVE n \in ran
    <3> DEFINE k == 2 * NumNodes + n
    <3>1. n \in Nodes
      BY <2>5, <2>8
    <3>2. k \in 0 .. seeded - 1 /\ ~(k < NumNodes) /\ ~(k < 2 * NumNodes)
          /\ k - 2 * NumNodes = n
      BY <2>4, <3>1 DEF Nodes
    <3>3. Candidate(k) = n
      BY <3>2 DEF Candidate
    <3>4. IsSeed(net, k)
      BY <2>8, <3>2, <3>3 DEF IsSeed
    <3> QED BY <2>1, <2>2, <3>2, <3>3, <3>4 DEF SeedsKept
  <2> QED BY <2>3, <2>6, <2>7, <2>8
<1> QED BY <1>1, Inductive, PTL
-----------------------------------------------------------------------------
(* Every step comes closer to the end: what the loops count down *)

\* The entry whose inputs are pushed is not finished, and nothing above it was
\* begun.
Open ==
  at # 0 => /\ stack[at].node \notin ran
            /\ \A k \in DOMAIN stack : k > at => ~stack[k].done

\* What is left to do for the entry at k
Digit(m, st, a, n, k) ==
  IF k > Len(st) THEN 0
  ELSE IF k = a THEN IF n <= Len(m.reads[st[k].node])
                     THEN 3 + Len(m.reads[st[k].node]) - n ELSE 2
  ELSE IF st[k].done THEN 1 ELSE 3 + Len(m.reads[st[k].node])

Digits(m, st, a, n) == [k \in 1 .. MaxStack |-> Digit(m, st, a, n, k)]

\* All that is on the stack is finished: what was put off comes next.
Turn(st, la, r) ==
  IF la # <<>> /\ \A k \in DOMAIN st : st[k].node \in r THEN 1 ELSE 0

Left(r) == Cardinality(Nodes \ r)

Seeding == 3 * NumNodes - seeded
Waiting == 2 * Left(ran) + Turn(stack, later, ran)
Stacked == Digits(net, stack, at, next)

Rank == <<Seeding, <<Waiting, Stacked>>>>

Less    == {p \in Nat \X Nat : p[1] < p[2]}
Lower   == LexProductOrdering(Less, Nat, MaxStack)
Rows    == [1 .. MaxStack -> Nat]
Nearer  == LexPairOrdering(Less, LexPairOrdering(Less, Lower, Nat, Rows), Nat, Nat \X Rows)
Ranks   == Nat \X (Nat \X Rows)

Closer == <<Rank', Rank>> \in Nearer

LEMMA NearerEnds == IsWellFoundedOn(Nearer, Ranks)
<1>1. IsWellFoundedOn(Less, Nat)
  <2>1. Less = OpToRel(<, Nat)
    BY DEF Less, OpToRel
  <2> QED BY <2>1, NatLessThanWellFounded
<1>2. IsWellFoundedOn(Lower, Rows)
  BY <1>1, WFLexProductOrdering, TraverseAssumption DEF Lower, Rows
<1>3. IsWellFoundedOn(LexPairOrdering(Less, Lower, Nat, Rows), Nat \X Rows)
  BY <1>1, <1>2, WFLexPairOrdering
<1> QED BY <1>1, <1>3, WFLexPairOrdering DEF Nearer, Ranks

\* Ranks are compared by the seeds left, then by the nodes left, then by the
\* lowest entry of the stack that differs.
LEMMA NearerCases ==
  ASSUME NEW s1 \in Nat, NEW w1 \in Nat, NEW d1 \in Rows,
         NEW s2 \in Nat, NEW w2 \in Nat, NEW d2 \in Rows
  PROVE  /\ s1 < s2 => <<<<s1, <<w1, d1>>>>, <<s2, <<w2, d2>>>>>> \in Nearer
         /\ s1 = s2 /\ w1 < w2 => <<<<s1, <<w1, d1>>>>, <<s2, <<w2, d2>>>>>> \in Nearer
         /\ /\ s1 = s2 /\ w1 = w2
            /\ \E j \in 1 .. MaxStack : d1[j] < d2[j] /\ \A i \in 1 .. j - 1 : d1[i] = d2[i]
            => <<<<s1, <<w1, d1>>>>, <<s2, <<w2, d2>>>>>> \in Nearer
<1> DEFINE In == LexPairOrdering(Less, Lower, Nat, Rows)
<1>1. s1 < s2 => <<<<s1, <<w1, d1>>>>, <<s2, <<w2, d2>>>>>> \in Nearer
  BY DEF Nearer, LexPairOrdering, Less
<1>2. <<<<w1, d1>>, <<w2, d2>>>> \in In => (s1 = s2 => <<<<s1, <<w1, d1>>>>, <<s2, <<w2, d2>>>>>> \in Nearer)
  <2> HIDE DEF In
  <2>1. Nearer = LexPairOrdering(Less, In, Nat, Nat \X Rows)
    BY DEF Nearer, In
  <2> QED BY <2>1 DEF LexPairOrdering
<1>3. w1 < w2 => <<<<w1, d1>>, <<w2, d2>>>> \in In
  BY DEF LexPairOrdering, Less
<1>4. (w1 = w2 /\ <<d1, d2>> \in Lower) => <<<<w1, d1>>, <<w2, d2>>>> \in In
  BY DEF LexPairOrdering
<1>5. (\E j \in 1 .. MaxStack : d1[j] < d2[j] /\ \A i \in 1 .. j - 1 : d1[i] = d2[i])
        => <<d1, d2>> \in Lower
  <2> SUFFICES ASSUME NEW j \in 1 .. MaxStack, d1[j] < d2[j], \A i \in 1 .. j - 1 : d1[i] = d2[i]
               PROVE  <<d1, d2>> \in Lower
    OBVIOUS
  <2>1. d1[j] \in Nat /\ d2[j] \in Nat
    BY DEF Rows
  <2>2. <<d1[j], d2[j]>> \in Less
    BY <2>1 DEF Less
  <2> QED BY <2>2 DEF Lower, LexProductOrdering, Rows
<1> QED BY <1>1, <1>2, <1>3, <1>4, <1>5

LEMMA LeftTyped ==
  ASSUME NEW r \in SUBSET Nodes
  PROVE  /\ Left(r) \in Nat
         /\ \A n \in Nodes \ r : Left(r \cup {n}) = Left(r) - 1
<1>1. IsFiniteSet(Nodes)
  BY TraverseAssumption, FS_Interval DEF Nodes
<1>2. IsFiniteSet(Nodes \ r)
  BY <1>1, FS_Difference
<1>3. Left(r) \in Nat
  BY <1>2, FS_CardinalityType DEF Left
<1>4. ASSUME NEW n \in Nodes \ r PROVE Left(r \cup {n}) = Left(r) - 1
  <2>1. Nodes \ (r \cup {n}) = (Nodes \ r) \ {n}
    OBVIOUS
  <2> QED BY <1>2, <2>1, FS_RemoveElement DEF Left
<1> QED BY <1>3, <1>4

LEMMA TurnTyped == \A st, la, r : Turn(st, la, r) \in {0, 1}
BY DEF Turn

\* The digits as numbers
LEMMA DigitTyped ==
  ASSUME NEW m \in Net, NEW st \in Seq(Entry), NEW a \in Nat, NEW n \in Nat
  PROVE  /\ Digits(m, st, a, n) \in Rows
         /\ \A k \in 1 .. MaxStack : Digits(m, st, a, n)[k] = Digit(m, st, a, n, k)
         /\ \A k \in 1 .. Len(st) : Digit(m, st, a, n, k) > 0
<1>1. ASSUME NEW k \in Nat \ {0}
      PROVE  Digit(m, st, a, n, k) \in Nat /\ (k <= Len(st) => Digit(m, st, a, n, k) > 0)
  <2>1. CASE k > Len(st)
    BY <2>1 DEF Digit
  <2>2. CASE k <= Len(st)
    <3> DEFINE left == Len(m.reads[st[k].node])
    <3>1. st[k] \in Entry /\ ~(k > Len(st))
      BY <2>2
    <3>2. st[k].node \in Nodes
      BY <3>1 DEF Entry
    <3>3. m.reads \in [Nodes -> Seq([node : Nodes, feedback : BOOLEAN])]
      BY DEF Net
    <3>4. m.reads[st[k].node] \in Seq([node : Nodes, feedback : BOOLEAN])
      BY <3>2, <3>3
    <3>5. left \in Nat
      BY <3>4
    <3>6. Digit(m, st, a, n, k) = IF k = a THEN IF n <= left THEN 3 + left - n ELSE 2
                                  ELSE IF st[k].done THEN 1 ELSE 3 + left
      BY <3>1 DEF Digit
    <3> HIDE DEF left
    <3> QED BY <3>5, <3>6
  <2>3. k > Len(st) \/ k <= Len(st)
    <3>1. Len(st) \in Nat
      OBVIOUS
    <3> QED BY <3>1
  <2> QED BY <2>1, <2>2, <2>3
<1>2. \A k \in 1 .. MaxStack : k \in Nat \ {0}
  OBVIOUS
<1>3. Digits(m, st, a, n) \in Rows
  BY <1>1, <1>2 DEF Digits, Rows
<1>4. \A k \in 1 .. Len(st) : k \in Nat \ {0} /\ k <= Len(st)
  OBVIOUS
<1> QED BY <1>1, <1>3, <1>4 DEF Digits

LEMMA RankTyped ==
  ASSUME TypeOK
  PROVE  Seeding \in Nat /\ Waiting \in Nat /\ Stacked \in Rows /\ Rank \in Ranks
<1>1. Seeding \in Nat
  BY TraverseAssumption DEF TypeOK, Seeding
<1>2. Waiting \in Nat
  <2>1. Left(ran) \in Nat
    BY LeftTyped DEF TypeOK
  <2> QED BY <2>1, TurnTyped DEF Waiting
<1>3. Stacked \in Rows
  <2>1. at \in Nat /\ next \in Nat /\ net \in Net /\ stack \in Seq(Entry)
    BY StackTyped DEF TypeOK
  <2> QED BY <2>1, DigitTyped DEF Stacked
<1> QED BY <1>1, <1>2, <1>3 DEF Rank, Ranks

LEMMA NextRankTyped ==
  ASSUME TypeOK'
  PROVE  Seeding' \in Nat /\ Waiting' \in Nat /\ Stacked' \in Rows
<1>1. Seeding' \in Nat
  <2>1. seeded' \in 0 .. 3 * NumNodes
    BY DEF TypeOK
  <2>2. Seeding' = 3 * NumNodes - seeded'
    BY DEF Seeding
  <2>3. 3 * NumNodes \in Nat
    BY TraverseAssumption
  <2>4. \A a \in Nat : \A b \in 0 .. a : a - b \in Nat
    OBVIOUS
  <2> QED BY <2>1, <2>2, <2>3, <2>4, Zenon
<1>2. Waiting' \in Nat
  <2>1. Left(ran') \in Nat
    BY LeftTyped DEF TypeOK
  <2> QED BY <2>1, TurnTyped DEF Waiting
<1>3. Stacked' \in Rows
  <2>1. stack' \in Seq(Entry) /\ at' \in 0 .. Len(stack')
    BY DEF TypeOK
  <2>2. at' \in Nat /\ next' \in Nat /\ net' \in Net
    BY <2>1 DEF TypeOK
  <2> QED BY <2>1, <2>2, DigitTyped DEF Stacked
<1> QED BY <1>1, <1>2, <1>3

\* A step that lowers a digit of the stack and changes none below it
LEMMA StackedFalls ==
  ASSUME TypeOK, TypeOK', seeded' = seeded, Waiting' = Waiting,
         NEW j \in 1 .. Len(stack),
         Digit(net', stack', at', next', j) < Digit(net, stack, at, next, j),
         \A i \in 1 .. j - 1 :
           Digit(net', stack', at', next', i) = Digit(net, stack, at, next, i)
  PROVE  <<Rank', Rank>> \in Nearer
<1>1. /\ at \in Nat /\ next \in Nat /\ net \in Net /\ stack \in Seq(Entry)
      /\ at' \in Nat /\ next' \in Nat /\ net' \in Net /\ stack' \in Seq(Entry)
      /\ Len(stack) \in Nat /\ Len(stack) <= MaxStack /\ Len(stack') \in Nat
  BY StackTyped DEF TypeOK
<1>2. j \in 1 .. MaxStack
  BY <1>1, TraverseAssumption
<1>3. \A k \in 1 .. MaxStack : /\ Stacked[k] = Digit(net, stack, at, next, k)
                               /\ Stacked'[k] = Digit(net', stack', at', next', k)
  BY <1>1, DigitTyped DEF Stacked
<1>4. Stacked'[j] < Stacked[j] /\ \A i \in 1 .. j - 1 : Stacked'[i] = Stacked[i]
  <2>1. \A i \in 1 .. j - 1 : i \in 1 .. MaxStack
    BY <1>2, TraverseAssumption
  <2> QED BY <1>2, <1>3, <2>1
<1>5. /\ Seeding \in Nat /\ Waiting \in Nat /\ Stacked \in Rows
      /\ Seeding' \in Nat /\ Waiting' \in Nat /\ Stacked' \in Rows
  BY RankTyped, NextRankTyped
<1>6. Seeding' = Seeding
  BY DEF Seeding
<1> HIDE DEF Seeding, Waiting, Stacked
<1> QED BY <1>2, <1>4, <1>5, <1>6, NearerCases DEF Rank

OInv == IInv /\ Open

LEMMA OpenHolds ==
  /\ Init => Open
  /\ OInv /\ [Next]_vars => Open'
<1>1. Init => Open
  BY DEF Init, Open
<1>2. ASSUME OInv, [Next]_vars PROVE Open'
  <2>0. /\ TypeOK /\ DOMAIN stack = 1 .. Len(stack) /\ Len(stack) \in Nat
        /\ (at # 0 => seeded = 3 * NumNodes) /\ Open
    BY <1>2, StackTyped DEF OInv, IInv, Busy
  <2>1. CASE Seed
    BY <2>0, <2>1, TraverseAssumption DEF Seed, Open
  <2>2. CASE Drop \/ Post
    BY <2>2 DEF Drop, Post, Working, Open
  <2>3. CASE Enter
    <3>1. stack # <<>> /\ at' = Len(stack) /\ ran' = ran /\ Top.node \notin ran
          /\ stack' = [stack EXCEPT ![Len(stack)].done = TRUE]
      BY <2>3 DEF Enter, Working
    <3>2. Len(stack) \in DOMAIN stack
      BY <2>0, <3>1, PoppedTyped
    <3>3. DOMAIN stack' = DOMAIN stack /\ stack'[Len(stack)].node = Top.node
      <4>1. stack[Len(stack)] \in Entry
        BY <2>0, <3>2, StackTyped
      <4>2. [stack[Len(stack)] EXCEPT !.done = TRUE].node = stack[Len(stack)].node
        BY <4>1 DEF Entry
      <4> QED BY <3>1, <3>2, <4>2 DEF Top
    <3> QED BY <2>0, <3>1, <3>3 DEF Open
  <2>4. CASE Push
    <3>1. /\ at # 0 /\ at' = at /\ ran' = ran /\ at \in DOMAIN stack
          /\ stack' = IF Pushed THEN Append(stack, Fresh(Input.node)) ELSE stack
          /\ stack \in Seq(Entry)
      BY <2>0, <2>4 DEF Push, Looking, TypeOK
    <3>2. CASE Pushed
      <4>1. stack' = Append(stack, Fresh(Input.node))
        BY <3>1, <3>2
      <4>2. /\ DOMAIN stack' = 1 .. Len(stack) + 1
            /\ \A k \in 1 .. Len(stack) : stack'[k] = stack[k]
            /\ stack'[Len(stack) + 1] = Fresh(Input.node)
        BY <3>1, <4>1
      <4>3. ~Fresh(Input.node).done
        BY DEF Fresh
      <4> QED BY <2>0, <3>1, <4>2, <4>3 DEF Open
    <3>3. CASE ~Pushed
      BY <2>0, <3>1, <3>3 DEF Open
    <3> QED BY <3>2, <3>3
  <2>5. CASE Overflow \/ Leave
    BY <2>5 DEF Overflow, Leave, Open
  <2>6. CASE NextRound
    BY <2>6 DEF NextRound, Open
  <2>7. CASE UNCHANGED vars
    BY <2>0, <2>7 DEF vars, Open
  <2> QED BY <1>2, <2>1, <2>2, <2>3, <2>4, <2>5, <2>6, <2>7 DEF Next
<1> QED BY <1>1, <1>2

LEMMA OpenInductive == Spec => []OInv
<1>1. Init => Open
  BY OpenHolds
<1>2. IInv /\ Open /\ [Next]_vars => Open'
  BY OpenHolds DEF OInv
<1>3. IInv /\ Open <=> OInv
  BY DEF OInv
<1> QED BY <1>1, <1>2, <1>3, Inductive, PTL DEF Spec

LEMMA EntryDigit ==
  ASSUME TypeOK, NEW k \in 1 .. Len(stack)
  PROVE  /\ Len(Inputs(stack[k].node)) \in Nat
         /\ Digit(net, stack, at, next, k) =
              IF k = at THEN IF next <= Len(Inputs(stack[k].node))
                             THEN 3 + Len(Inputs(stack[k].node)) - next ELSE 2
              ELSE IF stack[k].done THEN 1 ELSE 3 + Len(Inputs(stack[k].node))
<1>1. Len(stack) \in Nat /\ k \in DOMAIN stack /\ ~(k > Len(stack))
  BY StackTyped
<1>2. stack[k].node \in Nodes
  BY <1>1, StackTyped
<1> QED BY <1>1, <1>2, InputsTyped DEF Digit, Inputs

\* While the entry whose inputs are pushed is not finished, it is nobody's turn.
LEMMA NoTurn ==
  ASSUME NEW st, NEW la, NEW r, NEW k \in DOMAIN st, st[k].node \notin r
  PROVE  Turn(st, la, r) = 0
BY DEF Turn

LEMMA RankFalls == OInv /\ TypeOK' /\ Next => <<Rank', Rank>> \in Nearer
<1> SUFFICES ASSUME OInv, TypeOK', Next PROVE <<Rank', Rank>> \in Nearer
  OBVIOUS
<1> DEFINE L == Len(stack)
<1>0. /\ TypeOK /\ L \in Nat /\ DOMAIN stack = 1 .. L /\ stack \in Seq(Entry)
      /\ \A k \in 1 .. L : stack[k] \in Entry
  BY StackTyped DEF OInv, IInv, TypeOK
<1>1. /\ Seeding \in Nat /\ Waiting \in Nat /\ Stacked \in Rows
      /\ Seeding' \in Nat /\ Waiting' \in Nat /\ Stacked' \in Rows
  BY <1>0, RankTyped, NextRankTyped
<1>2. CASE Seed
  <2>1. Seeding' < Seeding
    BY <1>0, <1>2, TraverseAssumption DEF Seed, Seeding, TypeOK
  <2> HIDE DEF Seeding, Waiting, Stacked
  <2> QED BY <1>1, <2>1, NearerCases DEF Rank
<1>3. CASE Drop
  <2>1. /\ seeded' = seeded /\ net' = net /\ at' = at /\ next' = next /\ at = 0
        /\ later' = later /\ ran' = ran
        /\ stack' = Popped /\ stack # <<>> /\ Top.node \in ran
    BY <1>3 DEF Drop, Working
  <2>2. /\ Len(stack') = L - 1 /\ L >= 1 /\ DOMAIN stack' = 1 .. L - 1
        /\ \A k \in 1 .. L - 1 : stack'[k] = stack[k]
    BY <1>0, <2>1, PoppedTyped
  <2>3. Turn(stack', later, ran) = Turn(stack, later, ran)
    BY <1>0, <2>1, <2>2 DEF Turn, Top
  <2>4. Waiting' = Waiting
    BY <2>1, <2>3 DEF Waiting
  <2>5. Digit(net', stack', at', next', L) < Digit(net, stack, at, next, L)
    <3>1. Digit(net', stack', at', next', L) = 0
      BY <1>0, <2>2 DEF Digit
    <3>2. Digit(net, stack, at, next, L) > 0 /\ Digit(net, stack, at, next, L) \in Int
      BY <1>0, <2>2, EntryDigit, <2>1
    <3> QED BY <3>1, <3>2
  <2>6. \A i \in 1 .. L - 1 : Digit(net', stack', at', next', i) = Digit(net, stack, at, next, i)
    BY <1>0, <2>1, <2>2 DEF Digit
  <2> QED BY <1>0, <2>1, <2>2, <2>4, <2>5, <2>6, StackedFalls
<1>4. CASE Post
  <2>1. /\ seeded' = seeded /\ ran' = ran \cup {Top.node} /\ Top.node \notin ran
        /\ stack # <<>>
    BY <1>4 DEF Post, Working
  <2>2. Top.node \in Nodes
    BY <1>0, <2>1, PoppedTyped DEF Entry
  <2>3. Left(ran') = Left(ran) - 1 /\ Left(ran) \in Nat
    BY <1>0, <2>1, <2>2, LeftTyped DEF TypeOK
  <2>4. Waiting' < Waiting
    <3>1. Turn(stack, later, ran) \in {0, 1} /\ Turn(stack', later', ran') \in {0, 1}
      BY TurnTyped
    <3> QED BY <2>3, <3>1 DEF Waiting
  <2>5. Seeding' = Seeding
    BY <2>1 DEF Seeding
  <2> HIDE DEF Seeding, Waiting, Stacked
  <2> QED BY <1>1, <2>4, <2>5, NearerCases DEF Rank
<1>5. CASE Enter
  <2>1. /\ seeded' = seeded /\ net' = net /\ later' = later /\ ran' = ran
        /\ at = 0 /\ at' = L /\ next' = 1 /\ stack # <<>>
        /\ Top.node \notin ran /\ ~Top.done
        /\ stack' = [stack EXCEPT ![L].done = TRUE]
    BY <1>5 DEF Enter, Working
  <2>2. L >= 1 /\ L \in DOMAIN stack
    BY <1>0, <2>1, PoppedTyped
  <2>3. /\ DOMAIN stack' = DOMAIN stack /\ Len(stack') = L
        /\ stack'[L].node = stack[L].node
        /\ \A k \in 1 .. L - 1 : stack'[k] = stack[k]
    <3>1. [stack[L] EXCEPT !.done = TRUE].node = stack[L].node
      BY <1>0, <2>2 DEF Entry
    <3> QED BY <1>0, <2>1, <2>2, <3>1
  <2>4. Waiting' = Waiting
    <3>1. Turn(stack, later, ran) = 0
      BY <2>1, <2>2, NoTurn DEF Top
    <3>2. Turn(stack', later', ran') = 0
      <4>1. L \in DOMAIN stack' /\ stack'[L].node \notin ran'
        BY <2>1, <2>2, <2>3 DEF Top
      <4> QED BY <4>1, NoTurn
    <3> QED BY <2>1, <3>1, <3>2 DEF Waiting
  <2>5. Digit(net', stack', at', next', L) < Digit(net, stack, at, next, L)
    <3> DEFINE left == Len(Inputs(stack[L].node))
    <3>1. left \in Nat
      BY <1>0, <2>2, EntryDigit
    <3>2. Digit(net, stack, at, next, L) = 3 + left
      BY <1>0, <2>1, <2>2, EntryDigit DEF Top
    <3>3. Digit(net', stack', at', next', L) = IF 1 <= left THEN 3 + left - 1 ELSE 2
      BY <1>0, <2>1, <2>2, <2>3 DEF Digit, Inputs
    <3> HIDE DEF left
    <3> QED BY <3>1, <3>2, <3>3
  <2>6. \A i \in 1 .. L - 1 : Digit(net', stack', at', next', i) = Digit(net, stack, at, next, i)
    BY <1>0, <2>1, <2>2, <2>3 DEF Digit
  <2> QED BY <1>0, <2>1, <2>2, <2>4, <2>5, <2>6, StackedFalls
<1>6. CASE Push
  <2>1. /\ seeded' = seeded /\ net' = net /\ ran' = ran /\ at' = at /\ next' = next + 1
        /\ at # 0 /\ at \in 1 .. L /\ next \in Nat /\ next <= Len(Inputs(stack[at].node))
        /\ stack' = IF Pushed THEN Append(stack, Fresh(Input.node)) ELSE stack
    BY <1>0, <1>6 DEF Push, Looking, TypeOK, Expanded
  <2>2. /\ Len(stack') >= L /\ Len(stack') \in Nat /\ DOMAIN stack' = 1 .. Len(stack')
        /\ \A k \in 1 .. L : stack'[k] = stack[k]
    <3>1. CASE Pushed
      <4>1. stack' = Append(stack, Fresh(Input.node))
        BY <2>1, <3>1
      <4> QED BY <1>0, <4>1
    <3>2. CASE ~Pushed
      BY <1>0, <2>1, <3>2
    <3> QED BY <3>1, <3>2
  <2>3. Waiting' = Waiting
    <3>0. stack[at].node \notin ran
      BY <2>1 DEF OInv, Open
    <3>1. Turn(stack, later, ran) = 0
      BY <1>0, <2>1, <3>0, NoTurn
    <3>2. Turn(stack', later', ran) = 0
      <4>1. at \in DOMAIN stack' /\ stack'[at].node \notin ran
        BY <1>0, <2>1, <2>2, <3>0
      <4> QED BY <4>1, NoTurn
    <3> QED BY <2>1, <3>1, <3>2 DEF Waiting
  <2>4. Digit(net', stack', at', next', at) < Digit(net, stack, at, next, at)
    <3> DEFINE left == Len(Inputs(stack[at].node))
    <3>1. left \in Nat
      BY <1>0, <2>1, EntryDigit
    <3>2. Digit(net, stack, at, next, at) = 3 + left - next
      BY <1>0, <2>1, EntryDigit
    <3>3. Digit(net', stack', at', next', at) = IF next + 1 <= left THEN 3 + left - (next + 1) ELSE 2
      <4>1. at \in 1 .. Len(stack') /\ ~(at > Len(stack'))
        BY <1>0, <2>1, <2>2
      <4> QED BY <1>0, <2>1, <2>2, <4>1 DEF Digit, Inputs
    <3>4. next <= left
      BY <2>1
    <3> HIDE DEF left
    <3> QED BY <2>1, <3>1, <3>2, <3>3, <3>4
  <2>5. \A i \in 1 .. at - 1 : Digit(net', stack', at', next', i) = Digit(net, stack, at, next, i)
    <3>1. \A i \in 1 .. at - 1 : i \in 1 .. L /\ i # at /\ ~(i > L) /\ ~(i > Len(stack'))
      BY <1>0, <2>1, <2>2
    <3> QED BY <2>1, <2>2, <3>1 DEF Digit
  <2> QED BY <1>0, <2>1, <2>3, <2>4, <2>5, StackedFalls
<1>7. CASE Overflow
  <2>1. /\ seeded' = seeded /\ ran' = ran /\ at # 0 /\ at \in 1 .. L
        /\ stack' = <<>> /\ later' = <<>>
    BY <1>0, <1>7 DEF Overflow, Looking, TypeOK
  <2>2. 1 \in 1 .. L /\ Len(stack') = 0
    BY <1>0, <2>1
  <2>3. Waiting' = Waiting
    <3>1. Turn(stack, later, ran) = 0
      BY <1>0, <2>1, NoTurn DEF OInv, Open
    <3>2. Turn(stack', later', ran') = 0
      BY <2>1 DEF Turn
    <3> QED BY <2>1, <3>1, <3>2 DEF Waiting
  <2>4. Digit(net', stack', at', next', 1) < Digit(net, stack, at, next, 1)
    <3>1. Digit(net', stack', at', next', 1) = 0
      BY <2>2 DEF Digit
    <3>2. Digit(net, stack, at, next, 1) > 0 /\ Digit(net, stack, at, next, 1) \in Int
      <4>1. next \in Nat
        BY <1>0 DEF TypeOK
      <4> QED BY <1>0, <2>2, <4>1, EntryDigit
    <3> QED BY <3>1, <3>2
  <2>5. \A i \in 1 .. 1 - 1 : Digit(net', stack', at', next', i) = Digit(net, stack, at, next, i)
    OBVIOUS
  <2> QED BY <1>0, <2>1, <2>2, <2>3, <2>4, <2>5, StackedFalls
<1>8. CASE Leave
  <2>1. /\ UNCHANGED <<net, seeded, stack, later, ran, next>>
        /\ at # 0 /\ at \in 1 .. L /\ at' = 0 /\ next \in Nat
        /\ ~(next <= Len(Inputs(stack[at].node)))
    BY <1>0, <1>8 DEF Leave, Looking, TypeOK, Expanded
  <2>2. stack[at].done /\ stack[at].node \notin ran
    BY <2>1 DEF OInv, Open, IInv, Busy
  <2>3. Waiting' = Waiting
    BY <2>1 DEF Waiting
  <2>4. Digit(net, stack, at, next, at) = 2
    BY <1>0, <2>1, EntryDigit
  <2>5. Digit(net', stack', at', next', at) = 1
    <3>1. at # 0 /\ ~(at > Len(stack))
      BY <1>0, <2>1
    <3> QED BY <2>1, <2>2, <3>1 DEF Digit
  <2>6. \A i \in 1 .. at - 1 : Digit(net', stack', at', next', i) = Digit(net, stack, at, next, i)
    <3>1. \A i \in 1 .. at - 1 : i # at /\ i # 0 /\ ~(i > L)
      BY <1>0, <2>1
    <3> QED BY <2>1, <3>1 DEF Digit
  <2>7. PICK j \in 1 .. L : j = at
    BY <2>1
  <2>8. Digit(net', stack', at', next', j) < Digit(net, stack, at, next, j)
    BY <2>4, <2>5, <2>7
  <2>9. \A i \in 1 .. j - 1 : Digit(net', stack', at', next', i) = Digit(net, stack, at, next, i)
    BY <2>6, <2>7
  <2> QED BY <1>0, <2>1, <2>3, <2>8, <2>9, StackedFalls
<1>9. CASE NextRound
  <2>1. /\ seeded' = seeded /\ ran' = ran /\ stack = <<>> /\ later # <<>> /\ later' = <<>>
    BY <1>9 DEF NextRound
  <2>2. Turn(stack, later, ran) = 1 /\ Turn(stack', later', ran') = 0
    BY <1>0, <2>1 DEF Turn
  <2>3. Waiting' < Waiting
    <3>1. Left(ran) \in Nat
      BY <1>0, LeftTyped DEF TypeOK
    <3> QED BY <2>1, <2>2, <3>1 DEF Waiting
  <2>4. Seeding' = Seeding
    BY <2>1 DEF Seeding
  <2> HIDE DEF Seeding, Waiting, Stacked
  <2> QED BY <1>1, <2>3, <2>4, NearerCases DEF Rank
<1> QED BY <1>2, <1>3, <1>4, <1>5, <1>6, <1>7, <1>8, <1>9 DEF Next

\* No traversal goes on for ever, that of a cyclic graph neither: every step
\* lowers what is left to do, in an order without infinite descent.
THEOREM TraverseEnds ==
  /\ IsWellFoundedOn(Nearer, Ranks)
  /\ Spec => [](Rank \in Ranks) /\ [][Closer]_vars
<1>1. IInv => Rank \in Ranks
  BY RankTyped DEF IInv
<1>2. OInv /\ IInv' /\ [Next]_vars => [Closer]_vars
  BY RankFalls DEF IInv, Closer
<1>3. Spec => [](Rank \in Ranks)
  BY <1>1, Inductive, PTL
<1>4. Spec => [][Closer]_vars
  BY <1>2, Inductive, OpenInductive, PTL DEF Spec
<1> QED BY <1>3, <1>4, NearerEnds

-----------------------------------------------------------------------------
(* The stacks suffice: an entry for every seed and every connection *)

Descends(level) ==
  \A n \in Nodes : \A c \in DOMAIN Inputs(n) :
    ~Inputs(n)[c].feedback => level[Inputs(n)[c].node] < level[n]

\* While seeds are collected, nothing is begun.
Collecting == seeded < 3 * NumNodes => \A k \in DOMAIN stack : ~stack[k].done

\* Above an entry that waits for its inputs there is only what lies below it
\* in the graph.
Nested ==
  \A level \in [Nodes -> Nodes] : Descends(level) =>
    \A j, k \in DOMAIN stack :
      j < k /\ stack[j].done /\ stack[j].node \notin ran
        => level[stack[k].node] < level[stack[j].node]

\* The nodes whose inputs were pushed or are being pushed
Begun == ran \cup {stack[k].node : k \in {i \in DOMAIN stack : stack[i].done}}

Was(p) == /\ p[1] \in Begun
          /\ at # 0 /\ p[1] = stack[at].node => p[2] < next

\* The connections that were looked at, by feedback or not
Looked(f) == {p \in Conns : Was(p) /\ Inputs(p[1])[p[2]].feedback = f}

Kind(f) == {p \in Conns : Inputs(p[1])[p[2]].feedback = f}

\* Each entry stands for a seed, or a connection that was put off, or one that
\* was pushed.
Room ==
  Acyclic /\ Fits =>
    /\ ~full
    /\ Len(later) <= Cardinality(Looked(TRUE))
    /\ \/ Len(stack) <= Cardinality(SeedsUpTo(net, seeded)) + Cardinality(Looked(FALSE))
       \/ Len(stack) <= Count(TRUE) + Cardinality(Looked(FALSE))

RInv == OInv /\ Collecting /\ Nested /\ Room

LEMMA ConnsFinite ==
  ASSUME TypeOK
  PROVE  IsFiniteSet(Conns)
<1> DEFINE f == [n \in Nodes |-> {n} \X DOMAIN Inputs(n)]
           S == {{n} \X DOMAIN Inputs(n) : n \in Nodes}
<1>1. IsFiniteSet(Nodes)
  BY TraverseAssumption, FS_Interval DEF Nodes
<1>2. f \in Surjection(Nodes, S)
  BY DEF Surjection
<1>3. IsFiniteSet(S)
  BY <1>1, <1>2, FS_Surjection
<1>4. ASSUME NEW T \in S PROVE IsFiniteSet(T)
  <2>1. PICK n \in Nodes : T = {n} \X DOMAIN Inputs(n)
    OBVIOUS
  <2>2. DOMAIN Inputs(n) = 1 .. Len(Inputs(n)) /\ Len(Inputs(n)) \in Nat
    BY InputsTyped
  <2>3. IsFiniteSet(DOMAIN Inputs(n))
    BY <2>2, FS_Interval
  <2>4. IsFiniteSet({n})
    BY FS_Singleton
  <2> QED BY <2>1, <2>3, <2>4, FS_Product
<1> QED BY <1>3, <1>4, FS_UNION DEF Conns

LEMMA LookedCount ==
  ASSUME TypeOK, NEW f \in BOOLEAN
  PROVE  /\ IsFiniteSet(Looked(f))
         /\ Cardinality(Looked(f)) \in Nat
         /\ Count(f) \in Nat
         /\ Cardinality(Looked(f)) <= Count(f)
         /\ \A p \in Kind(f) \ Looked(f) : Cardinality(Looked(f)) < Count(f)
<1>1. IsFiniteSet(Kind(f)) /\ Cardinality(Kind(f)) \in Nat
  <2>1. Kind(f) \subseteq Conns
    BY DEF Kind
  <2>2. IsFiniteSet(Kind(f))
    BY <2>1, ConnsFinite, FS_Subset
  <2> QED BY <2>2, FS_CardinalityType
<1>2. Count(f) = Cardinality(Kind(f))
  BY DEF Count, Kind
<1>3. Looked(f) \subseteq Kind(f)
  BY DEF Looked, Kind
<1>4. /\ IsFiniteSet(Looked(f))
      /\ Cardinality(Looked(f)) <= Cardinality(Kind(f))
      /\ Cardinality(Kind(f)) = Cardinality(Looked(f)) => Kind(f) = Looked(f)
  BY <1>1, <1>3, FS_Subset
<1>5. Cardinality(Looked(f)) \in Nat
  BY <1>4, FS_CardinalityType
<1>6. \A p \in Kind(f) \ Looked(f) : Cardinality(Looked(f)) < Count(f)
  BY <1>1, <1>2, <1>4, <1>5
<1> QED BY <1>1, <1>2, <1>4, <1>5, <1>6

\* Each sink and each bvh node is a seed once.
LEMMA SeedsCount ==
  ASSUME NEW m \in Nets
  PROVE  /\ Cardinality(m.sinks) \in Nat /\ Cardinality(m.bvh) \in Nat
         /\ Cardinality(SeedsUpTo(m, 3 * NumNodes))
              <= Cardinality(m.sinks) + Cardinality(m.bvh)
<1> DEFINE S == SeedsUpTo(m, 3 * NumNodes)
           A == {k \in S : k < 2 * NumNodes}
           B == {k \in S : ~(k < 2 * NumNodes)}
<1>0. NumNodes \in Nat /\ m.main \subseteq m.sinks /\ m.sinks \subseteq Nodes /\ m.bvh \subseteq Nodes
  BY TraverseAssumption DEF Net
<1>1. /\ IsFiniteSet(m.sinks) /\ IsFiniteSet(m.bvh)
      /\ Cardinality(m.sinks) \in Nat /\ Cardinality(m.bvh) \in Nat
  <2>1. IsFiniteSet(Nodes)
    BY <1>0, FS_Interval DEF Nodes
  <2>2. IsFiniteSet(m.sinks) /\ IsFiniteSet(m.bvh)
    BY <1>0, <2>1, FS_Subset
  <2> QED BY <2>2, FS_CardinalityType
<1>2. \A k \in S : k \in 0 .. 3 * NumNodes - 1 /\ IsSeed(m, k)
  BY DEF SeedsUpTo
<1>3. IsFiniteSet(A) /\ Cardinality(A) <= Cardinality(m.sinks) /\ Cardinality(A) \in Nat
  <2> DEFINE f == [k \in A |-> Candidate(k)]
  <2>1. f \in [A -> m.sinks]
    BY <1>0, <1>2 DEF IsSeed
  <2>2. ASSUME NEW a \in A, NEW b \in A, Candidate(a) = Candidate(b) PROVE a = b
    <3>1. a \in Int /\ b \in Int /\ a < 2 * NumNodes /\ b < 2 * NumNodes
      BY <1>0, <1>2
    <3>2. (a < NumNodes) = (b < NumNodes)
      BY <1>0, <1>2, <2>2, <3>1 DEF IsSeed
    <3>3. CASE a < NumNodes
      BY <2>2, <3>2, <3>3 DEF Candidate
    <3>4. CASE ~(a < NumNodes)
      <4>1. Candidate(a) = 2 * NumNodes - 1 - a /\ Candidate(b) = 2 * NumNodes - 1 - b
        BY <3>1, <3>2, <3>4 DEF Candidate
      <4>2. \A w, x, y \in Int : w - 1 - x = w - 1 - y => x = y
        OBVIOUS
      <4>3. 2 * NumNodes \in Int
        BY <1>0
      <4> QED BY <2>2, <3>1, <4>1, <4>2, <4>3, Zenon
    <3> QED BY <3>3, <3>4
  <2>3. IsInjective(f)
    BY <2>2 DEF IsInjective
  <2>4. f \in Injection(A, m.sinks)
    BY <2>1, <2>3 DEF Injection
  <2> HIDE DEF A, f
  <2> QED BY <1>1, <2>4, FS_Injection, FS_CardinalityType
<1>4. IsFiniteSet(B) /\ Cardinality(B) <= Cardinality(m.bvh) /\ Cardinality(B) \in Nat
  <2> DEFINE f == [k \in B |-> Candidate(k)]
  <2>1. f \in [B -> m.bvh]
    <3> SUFFICES ASSUME NEW k \in B PROVE Candidate(k) \in m.bvh
      OBVIOUS
    <3>1. k \in Int /\ ~(k < 2 * NumNodes) /\ ~(k < NumNodes)
      BY <1>0, <1>2
    <3> QED BY <1>2, <3>1 DEF IsSeed
  <2>2. ASSUME NEW a \in B, NEW b \in B, Candidate(a) = Candidate(b) PROVE a = b
    <3>1. a \in Int /\ b \in Int /\ ~(a < 2 * NumNodes) /\ ~(b < 2 * NumNodes)
          /\ ~(a < NumNodes) /\ ~(b < NumNodes)
      BY <1>0, <1>2
    <3>2. Candidate(a) = a - 2 * NumNodes /\ Candidate(b) = b - 2 * NumNodes
      BY <3>1 DEF Candidate
    <3>3. \A w, x, y \in Int : x - w = y - w => x = y
      OBVIOUS
    <3>4. 2 * NumNodes \in Int
      BY <1>0
    <3> QED BY <2>2, <3>1, <3>2, <3>3, <3>4, Zenon
  <2>3. IsInjective(f)
    BY <2>2 DEF IsInjective
  <2>4. f \in Injection(B, m.bvh)
    BY <2>1, <2>3 DEF Injection
  <2> HIDE DEF B, f
  <2> QED BY <1>1, <2>4, FS_Injection, FS_CardinalityType
<1>5. S = A \cup B /\ A \cap B = {}
  OBVIOUS
<1>6. Cardinality(S) = Cardinality(A) + Cardinality(B)
  <2> HIDE DEF S, A, B
  <2>1. Cardinality(A \cup B) = Cardinality(A) + Cardinality(B) - Cardinality(A \cap B)
    BY <1>3, <1>4, FS_Union
  <2>2. Cardinality(A \cap B) = 0
    BY <1>5, FS_EmptySet
  <2> QED BY <1>3, <1>4, <1>5, <2>1, <2>2
<1> HIDE DEF S, A, B
<1>7. Cardinality(S) <= Cardinality(m.sinks) + Cardinality(m.bvh)
  BY <1>1, <1>3, <1>4, <1>6
<1> QED BY <1>1, <1>7 DEF S

LEMMA SeedsBelow ==
  ASSUME NEW m \in Nets, NEW k \in 0 .. 3 * NumNodes
  PROVE  Cardinality(SeedsUpTo(m, k)) <= Cardinality(SeedsUpTo(m, 3 * NumNodes))
<1>1. SeedsUpTo(m, k) \subseteq SeedsUpTo(m, 3 * NumNodes)
  BY TraverseAssumption DEF SeedsUpTo
<1>2. 3 * NumNodes \in 0 .. 3 * NumNodes
  BY TraverseAssumption
<1>3. IsFiniteSet(SeedsUpTo(m, 3 * NumNodes))
  BY <1>2, SeedsFit
<1> QED BY <1>1, <1>3, FS_Subset

LEMMA NetKept ==
  ASSUME net' = net
  PROVE  /\ Conns' = Conns /\ Acyclic' = Acyclic /\ Fits' = Fits
         /\ \A f : Count(f)' = Count(f)
         /\ \A level : Descends(level)' = Descends(level)
<1>1. \A n : Inputs(n)' = Inputs(n)
  BY DEF Inputs
<1>2. Conns' = Conns
  BY <1>1 DEF Conns
<1>3. Acyclic' = Acyclic
  BY <1>1 DEF Acyclic
<1>4. \A level : Descends(level)' = Descends(level)
  BY <1>1 DEF Descends
<1>5. \A f : Count(f)' = Count(f)
  BY <1>1, <1>2 DEF Count
<1>6. Fits' = Fits
  BY <1>5 DEF Fits
<1> QED BY <1>2, <1>3, <1>4, <1>5, <1>6

LEMMA LookedKept ==
  ASSUME net' = net, \A p \in Conns : Was(p)' <=> Was(p)
  PROVE  \A f : Looked(f)' = Looked(f)
<1>1. \A n : Inputs(n)' = Inputs(n)
  BY DEF Inputs
<1>2. Conns' = Conns
  BY NetKept
<1> QED BY <1>1, <1>2 DEF Looked

\* What the invariant says of the room, with the bounds as numbers
LEMMA RoomFacts ==
  ASSUME RInv, Acyclic, Fits
  PROVE  /\ ~full
         /\ Len(stack) \in Nat /\ Len(later) \in Nat
         /\ Count(TRUE) \in Nat /\ Count(FALSE) \in Nat
         /\ Cardinality(Looked(TRUE)) \in Nat /\ Cardinality(Looked(FALSE)) \in Nat
         /\ Cardinality(SeedsUpTo(net, seeded)) \in Nat
         /\ Len(later) <= Cardinality(Looked(TRUE))
         /\ Cardinality(Looked(TRUE)) <= Count(TRUE)
         /\ Cardinality(Looked(FALSE)) <= Count(FALSE)
         /\ \/ Len(stack) <= Cardinality(SeedsUpTo(net, seeded)) + Cardinality(Looked(FALSE))
            \/ Len(stack) <= Count(TRUE) + Cardinality(Looked(FALSE))
<1>1. TypeOK /\ net \in Nets /\ seeded \in 0 .. 3 * NumNodes
  BY DEF RInv, OInv, IInv, Busy, TypeOK
<1>2. Cardinality(SeedsUpTo(net, seeded)) \in Nat
  BY <1>1, SeedsFit
<1> QED BY <1>1, <1>2, StackTyped, LookedCount DEF RInv, Room

LEMMA SeedRoom == RInv /\ Seed => Collecting' /\ Nested' /\ Room'
<1> SUFFICES ASSUME RInv, Seed PROVE Collecting' /\ Nested' /\ Room'
  OBVIOUS
<1>0. /\ TypeOK /\ net \in Nets /\ stack \in Seq(Entry) /\ Len(stack) \in Nat
      /\ DOMAIN stack = 1 .. Len(stack)
      /\ seeded \in 0 .. 3 * NumNodes - 1 /\ seeded \in 0 .. 3 * NumNodes
      /\ at = 0 /\ (\A k \in DOMAIN stack : ~stack[k].done)
      /\ Len(stack) <= Cardinality(SeedsUpTo(net, seeded))
      /\ UNCHANGED <<net, later, ran, order, at, next, full>>
      /\ seeded' = seeded + 1
  BY StackTyped, TraverseAssumption DEF RInv, OInv, IInv, Busy, TypeOK, Collecting, Seed
<1>1. /\ DOMAIN stack' = 1 .. Len(stack') /\ Len(stack') \in Nat
      /\ \A k \in DOMAIN stack' : ~stack'[k].done
      /\ Len(stack') = Len(stack) + (IF IsSeed(net, seeded) THEN 1 ELSE 0)
  <2>1. CASE IsSeed(net, seeded)
    <3>1. stack' = Append(stack, Fresh(Candidate(seeded)))
      BY <2>1 DEF Seed
    <3>2. Fresh(Candidate(seeded)) \in Entry /\ ~Fresh(Candidate(seeded)).done
      BY <1>0, CandidateTyped, FreshTyped
    <3> QED BY <1>0, <2>1, <3>1, <3>2, AppendTyped
  <2>2. CASE ~IsSeed(net, seeded)
    BY <1>0, <2>2 DEF Seed
  <2> QED BY <2>1, <2>2
<1>2. Collecting' /\ Nested'
  BY <1>1 DEF Collecting, Nested
<1>3. Len(stack') <= Cardinality(SeedsUpTo(net, seeded + 1))
  <2>1. Cardinality(SeedsUpTo(net, seeded)) \in Nat
    BY <1>0, SeedsFit
  <2> QED BY <1>0, <1>1, <2>1, SeedsGrow
<1>4. \A f : Looked(f)' = Looked(f)
  <2>1. Begun' = Begun
    BY <1>0, <1>1 DEF Begun
  <2> QED BY <1>0, <2>1, LookedKept DEF Was
<1>5. Room'
  <2> SUFFICES ASSUME Acyclic, Fits
               PROVE  /\ ~full /\ Len(later) <= Cardinality(Looked(TRUE))
                      /\ Len(stack') <= Cardinality(SeedsUpTo(net, seeded + 1))
                                        + Cardinality(Looked(FALSE))
    BY <1>0, <1>4, NetKept DEF Room
  <2>1. Cardinality(SeedsUpTo(net, seeded + 1)) \in Nat
    <3>1. seeded + 1 \in 0 .. 3 * NumNodes
      BY <1>0, TraverseAssumption
    <3> QED BY <1>0, <3>1, SeedsFit
  <2>2. /\ Cardinality(Looked(FALSE)) \in Nat
        /\ ~full /\ Len(later) <= Cardinality(Looked(TRUE))
    BY RoomFacts
  <2>3. \A a, b, c \in Nat : a <= b => a <= b + c
    OBVIOUS
  <2> QED BY <1>1, <1>3, <2>1, <2>2, <2>3
<1> QED BY <1>2, <1>5

\* A step that leaves the connections looked at and lets the stack not grow
LEMMA RoomKept ==
  ASSUME RInv, UNCHANGED <<net, seeded, later, full>>,
         \A p \in Conns : Was(p)' <=> Was(p),
         Len(stack') \in Nat, Len(stack') <= Len(stack)
  PROVE  Room'
<1>1. \A f : Looked(f)' = Looked(f)
  BY LookedKept
<1> SUFFICES ASSUME Acyclic, Fits
             PROVE  /\ ~full /\ Len(later) <= Cardinality(Looked(TRUE))
                    /\ \/ Len(stack') <= Cardinality(SeedsUpTo(net, seeded)) + Cardinality(Looked(FALSE))
                       \/ Len(stack') <= Count(TRUE) + Cardinality(Looked(FALSE))
  BY <1>1, NetKept DEF Room
<1>2. /\ ~full /\ Len(later) <= Cardinality(Looked(TRUE))
      /\ Cardinality(SeedsUpTo(net, seeded)) \in Nat
      /\ Cardinality(Looked(FALSE)) \in Nat
      /\ Count(TRUE) \in Nat
      /\ \/ Len(stack) <= Cardinality(SeedsUpTo(net, seeded)) + Cardinality(Looked(FALSE))
         \/ Len(stack) <= Count(TRUE) + Cardinality(Looked(FALSE))
      /\ Len(stack) \in Nat
  BY RoomFacts
<1>3. \A a, b, c, d \in Nat : a <= b /\ b <= c + d => a <= c + d
  OBVIOUS
<1> QED BY <1>2, <1>3

\* The top taken off, its node finished
LEMMA PopRoom ==
  ASSUME RInv, Working, stack' = Popped, UNCHANGED <<net, seeded, later, at, next, full>>,
         ran \subseteq ran', ran' \subseteq ran \cup {Top.node}, Top.node \in ran',
         Top.node \in ran \/ Top.done
  PROVE  Collecting' /\ Nested' /\ Room'
<1>0. /\ TypeOK /\ Len(stack) \in Nat /\ DOMAIN stack = 1 .. Len(stack) /\ at = 0
      /\ seeded = 3 * NumNodes /\ ~(seeded < 3 * NumNodes)
  BY StackTyped, TraverseAssumption DEF RInv, OInv, IInv, Working
<1>1. /\ Len(stack) >= 1 /\ Len(stack') = Len(stack) - 1
      /\ DOMAIN stack' = 1 .. Len(stack) - 1
      /\ \A k \in DOMAIN stack' : stack'[k] = stack[k]
  BY <1>0, PoppedTyped DEF Working
<1>2. Collecting'
  BY <1>0 DEF Collecting
<1>3. Nested'
  <2> SUFFICES ASSUME NEW level \in [Nodes -> Nodes], Descends(level),
                      NEW j \in DOMAIN stack', NEW k \in DOMAIN stack',
                      j < k, stack'[j].done, stack'[j].node \notin ran'
               PROVE  level[stack'[k].node] < level[stack'[j].node]
    BY NetKept DEF Nested
  <2>1. j \in DOMAIN stack /\ k \in DOMAIN stack /\ stack'[j] = stack[j] /\ stack'[k] = stack[k]
    BY <1>0, <1>1
  <2> QED BY <2>1 DEF RInv, Nested
<1>4. Begun' = Begun
  <2>1. \A k \in DOMAIN stack : k \in DOMAIN stack' \/ (k = Len(stack) /\ stack[k] = Top)
    BY <1>0, <1>1 DEF Top
  <2>2. \A n : n \in Begun' => n \in Begun
    BY <1>0, <1>1, <2>1 DEF Begun, Top
  <2>3. \A n : n \in Begun => n \in Begun'
    BY <1>0, <1>1, <2>1 DEF Begun, Top
  <2> QED BY <2>2, <2>3
<1>5. Room'
  <2>1. \A p \in Conns : Was(p)' <=> Was(p)
    BY <1>0, <1>4 DEF Was
  <2>2. Len(stack') \in Nat /\ Len(stack') <= Len(stack)
    BY <1>0, <1>1
  <2> QED BY <2>1, <2>2, RoomKept
<1> QED BY <1>2, <1>3, <1>5

LEMMA DropRoom == RInv /\ Drop => Collecting' /\ Nested' /\ Room'
BY PopRoom DEF Drop

LEMMA PostRoom == RInv /\ Post => Collecting' /\ Nested' /\ Room'
BY PopRoom DEF Post

\* An entry is begun once: below it, its node would lie above itself.
LEMMA EnterRoom == RInv /\ Enter => Collecting' /\ Nested' /\ Room'
<1> SUFFICES ASSUME RInv, Enter PROVE Collecting' /\ Nested' /\ Room'
  OBVIOUS
<1> DEFINE L == Len(stack)
<1>0. /\ TypeOK /\ L \in Nat /\ DOMAIN stack = 1 .. L
      /\ at = 0 /\ at' = L /\ next' = 1 /\ stack # <<>>
      /\ seeded = 3 * NumNodes /\ ~(seeded < 3 * NumNodes)
      /\ Top.node \notin ran /\ ~Top.done
      /\ stack' = [stack EXCEPT ![L].done = TRUE]
      /\ UNCHANGED <<net, seeded, later, ran, full>>
  BY StackTyped, TraverseAssumption DEF RInv, OInv, IInv, Enter, Working
<1>1. L >= 1 /\ L \in DOMAIN stack /\ stack[L] \in Entry /\ stack \in Seq(Entry) /\ Top = stack[L]
  BY <1>0, PoppedTyped, StackTyped DEF TypeOK, Top
<1>2. /\ DOMAIN stack' = DOMAIN stack /\ Len(stack') = L
      /\ \A k \in DOMAIN stack : stack'[k].node = stack[k].node
      /\ \A k \in DOMAIN stack : stack'[k].done <=> (k = L \/ stack[k].done)
  <2>1. /\ [stack[L] EXCEPT !.done = TRUE].node = stack[L].node
        /\ [stack[L] EXCEPT !.done = TRUE].done
    BY <1>1 DEF Entry
  <2> QED BY <1>0, <1>1, <2>1
<1>3. Collecting'
  BY <1>0 DEF Collecting
<1>4. Nested'
  <2> SUFFICES ASSUME NEW level \in [Nodes -> Nodes], Descends(level),
                      NEW j \in DOMAIN stack', NEW k \in DOMAIN stack',
                      j < k, stack'[j].done, stack'[j].node \notin ran'
               PROVE  level[stack'[k].node] < level[stack'[j].node]
    BY <1>0, NetKept DEF Nested
  <2>1. j \in DOMAIN stack /\ k \in DOMAIN stack /\ j # L
    BY <1>0, <1>2
  <2> QED BY <1>0, <1>2, <2>1 DEF RInv, Nested
<1>5. ASSUME Acyclic PROVE Top.node \notin Begun
  <2> SUFFICES ASSUME Top.node \in Begun PROVE FALSE
    OBVIOUS
  <2>1. PICK j \in DOMAIN stack : stack[j].done /\ stack[j].node = Top.node
    BY <1>0 DEF Begun
  <2>2. j < L
    BY <1>0, <1>1, <2>1
  <2>3. PICK level \in [Nodes -> Nodes] : Descends(level)
    BY <1>5 DEF Acyclic, Descends
  <2>4. level[stack[L].node] < level[stack[j].node]
    BY <1>0, <1>1, <2>1, <2>2, <2>3 DEF RInv, Nested
  <2>5. level[Top.node] \in Int
    <3>1. Top.node \in Nodes
      BY <1>1 DEF Entry
    <3> QED BY <3>1 DEF Nodes
  <2> QED BY <1>1, <2>1, <2>4, <2>5
<1>6. Begun' = Begun \cup {Top.node}
  <2>1. \A n : n \in Begun' => n \in Begun \cup {Top.node}
    BY <1>0, <1>1, <1>2 DEF Begun
  <2>2. \A n : n \in Begun \cup {Top.node} => n \in Begun'
    BY <1>0, <1>1, <1>2 DEF Begun
  <2> QED BY <2>1, <2>2
<1>7. ASSUME Acyclic, NEW p \in Conns PROVE Was(p)' <=> Was(p)
  <2>1. stack'[at'].node = Top.node /\ at' # 0
    BY <1>0, <1>1, <1>2
  <2>2. p[2] >= 1
    <3>1. PICK n \in Nodes : p \in {n} \X DOMAIN Inputs(n)
      BY DEF Conns
    <3>2. DOMAIN Inputs(n) = 1 .. Len(Inputs(n)) /\ Len(Inputs(n)) \in Nat
      BY <1>0, InputsTyped
    <3> QED BY <3>1, <3>2
  <2>3. ~(p[2] < next')
    <3>1. PICK n \in Nodes : p \in {n} \X DOMAIN Inputs(n)
      BY DEF Conns
    <3>2. DOMAIN Inputs(n) = 1 .. Len(Inputs(n)) /\ Len(Inputs(n)) \in Nat
      BY <1>0, InputsTyped
    <3> QED BY <1>0, <3>1, <3>2
  <2>4. Was(p)' <=> p[1] \in Begun \cup {Top.node} /\ p[1] # Top.node
    BY <1>6, <2>1, <2>3 DEF Was
  <2>5. Was(p) <=> p[1] \in Begun
    BY <1>0 DEF Was
  <2> QED BY <1>5, <1>7, <2>4, <2>5
<1>8. Room'
  <2>1. CASE Acyclic
    BY <1>0, <1>2, <1>7, <2>1, RoomKept
  <2>2. CASE ~Acyclic
    BY <1>0, <2>2, NetKept DEF Room
  <2> QED BY <2>1, <2>2
<1> QED BY <1>3, <1>4, <1>8

LEMMA LeaveRoom == RInv /\ Leave => Collecting' /\ Nested' /\ Room'
<1> SUFFICES ASSUME RInv, Leave PROVE Collecting' /\ Nested' /\ Room'
  OBVIOUS
<1>0. /\ TypeOK /\ Len(stack) \in Nat /\ DOMAIN stack = 1 .. Len(stack)
      /\ UNCHANGED <<net, seeded, stack, later, ran, next, full>>
      /\ at # 0 /\ at' = 0 /\ ~(next <= Len(Inputs(stack[at].node))) /\ next \in Nat
      /\ at \in DOMAIN stack
  BY StackTyped DEF RInv, OInv, IInv, TypeOK, Leave, Looking, Expanded
<1>1. Collecting' /\ Nested'
  BY <1>0, NetKept DEF RInv, Collecting, Nested
<1>2. ASSUME NEW p \in Conns PROVE Was(p)' <=> Was(p)
  <2>1. Begun' = Begun
    BY <1>0 DEF Begun
  <2>2. ASSUME p[1] = stack[at].node PROVE p[2] < next
    <3>1. PICK n \in Nodes : p \in {n} \X DOMAIN Inputs(n)
      BY DEF Conns
    <3>2. DOMAIN Inputs(n) = 1 .. Len(Inputs(n)) /\ Len(Inputs(n)) \in Nat
      BY <1>0, InputsTyped
    <3> QED BY <1>0, <2>2, <3>1, <3>2
  <2> QED BY <1>0, <2>1, <2>2 DEF Was
<1>3. Room'
  BY <1>0, <1>2, RoomKept
<1> QED BY <1>1, <1>3

LEMMA NextRoundRoom == RInv /\ NextRound => Collecting' /\ Nested' /\ Room'
<1> SUFFICES ASSUME RInv, NextRound PROVE Collecting' /\ Nested' /\ Room'
  OBVIOUS
<1>0. /\ TypeOK /\ Len(later) \in Nat /\ DOMAIN later = 1 .. Len(later)
      /\ UNCHANGED <<net, seeded, ran, at, next, full>>
      /\ at = 0 /\ stack = <<>> /\ later' = <<>>
      /\ stack' = [k \in DOMAIN later |-> Fresh(later[k])]
      /\ \A k \in DOMAIN later : later[k] \in Nodes
  BY StackTyped DEF RInv, OInv, IInv, NextRound
<1>1. /\ DOMAIN stack' = DOMAIN later /\ Len(stack') = Len(later)
      /\ \A k \in DOMAIN stack' : ~stack'[k].done
  <2>1. \A k \in DOMAIN later : ~Fresh(later[k]).done
    BY DEF Fresh
  <2>2. Len(stack') = Len(later)
    BY <1>0
  <2> QED BY <1>0, <2>1, <2>2
<1>2. Collecting' /\ Nested'
  BY <1>1 DEF Collecting, Nested
<1>3. \A f : Looked(f)' = Looked(f)
  <2>1. Begun = ran /\ Begun' = ran
    BY <1>0, <1>1 DEF Begun
  <2>2. \A p \in Conns : Was(p)' <=> Was(p)
    BY <1>0, <2>1 DEF Was
  <2> QED BY <1>0, <2>2, LookedKept
<1>4. Room'
  <2> SUFFICES ASSUME Acyclic, Fits
               PROVE  /\ ~full /\ Len(later') <= Cardinality(Looked(TRUE))
                      /\ Len(stack') <= Count(TRUE) + Cardinality(Looked(FALSE))
    BY <1>0, <1>3, NetKept DEF Room
  <2>1. /\ ~full /\ Cardinality(Looked(TRUE)) \in Nat /\ Cardinality(Looked(FALSE)) \in Nat
        /\ Count(TRUE) \in Nat /\ Len(later) <= Cardinality(Looked(TRUE))
        /\ Cardinality(Looked(TRUE)) <= Count(TRUE)
    BY RoomFacts
  <2>2. Len(later') = 0
    BY <1>0
  <2>3. \A a, b, c, d \in Nat : a <= b /\ b <= c => a <= c + d
    OBVIOUS
  <2>4. Len(stack') <= Count(TRUE) + Cardinality(Looked(FALSE))
    <3>1. Len(later) \in Nat /\ Len(stack') = Len(later)
      BY <1>0, <1>1
    <3> QED BY <2>1, <2>3, <3>1
  <2>5. Len(later') <= Cardinality(Looked(TRUE))
    <3>1. \A c \in Nat : 0 <= c
      OBVIOUS
    <3> QED BY <2>1, <2>2, <3>1
  <2> QED BY <2>1, <2>4, <2>5
<1> QED BY <1>2, <1>4

\* The connection that is looked at
LEMMA InputFacts ==
  ASSUME RInv, Looking
  PROVE  /\ at \in DOMAIN stack /\ stack[at].done /\ stack[at].node \notin ran
         /\ stack[at].node \in Nodes
         /\ next \in DOMAIN Inputs(stack[at].node)
         /\ Input = Inputs(stack[at].node)[next]
         /\ Input.node \in Nodes /\ Input.feedback \in BOOLEAN
         /\ <<stack[at].node, next>> \in Kind(Input.feedback)
         /\ <<stack[at].node, next>> \notin Looked(Input.feedback)
<1> DEFINE n == stack[at].node
<1>1. /\ TypeOK /\ at # 0 /\ at \in DOMAIN stack /\ stack[at].done
      /\ n \notin ran /\ n \in Nodes
      /\ next \in Nat /\ next # 0 /\ next <= Len(Inputs(n))
  BY StackTyped DEF RInv, OInv, IInv, Busy, Open, Looking, Expanded, TypeOK
<1>2. /\ DOMAIN Inputs(n) = 1 .. Len(Inputs(n)) /\ Len(Inputs(n)) \in Nat
      /\ \A c \in DOMAIN Inputs(n) : Inputs(n)[c] \in Read
  BY <1>1, InputsTyped
<1>3. next \in DOMAIN Inputs(n)
  BY <1>1, <1>2
<1>4. Input = Inputs(n)[next]
  BY DEF Input, Expanded
<1>5. Input.node \in Nodes /\ Input.feedback \in BOOLEAN
  BY <1>2, <1>3, <1>4 DEF Read
<1>6. <<n, next>> \in Conns
  BY <1>1, <1>3 DEF Conns
<1>7. <<n, next>> \in Kind(Input.feedback)
  BY <1>4, <1>6 DEF Kind
<1>8. <<n, next>> \notin Looked(Input.feedback)
  <2>1. ~Was(<<n, next>>)
    BY <1>1 DEF Was
  <2> QED BY <2>1 DEF Looked
<1> QED BY <1>1, <1>3, <1>4, <1>5, <1>7, <1>8

LEMMA PushRoom == RInv /\ Push => Collecting' /\ Nested' /\ Room'
<1> SUFFICES ASSUME RInv, Push PROVE Collecting' /\ Nested' /\ Room'
  OBVIOUS
<1> DEFINE n  == stack[at].node
           el == Input.node
           fb == Input.feedback
<1>0. /\ TypeOK /\ Len(stack) \in Nat /\ DOMAIN stack = 1 .. Len(stack) /\ stack \in Seq(Entry)
      /\ UNCHANGED <<net, seeded, ran, at, full>> /\ next' = next + 1 /\ next \in Nat
      /\ Looking /\ ~NoRoom /\ at # 0
      /\ stack' = IF Pushed THEN Append(stack, Fresh(el)) ELSE stack
      /\ later' = IF PutOff THEN Append(later, el) ELSE later
      /\ later \in Seq(Nodes) /\ Len(later) \in Nat
      /\ seeded = 3 * NumNodes /\ ~(seeded < 3 * NumNodes)
  <2>1. /\ Looking /\ ~NoRoom /\ at # 0 /\ UNCHANGED <<net, seeded, ran, at, full>>
        /\ next' = next + 1
        /\ stack' = IF Pushed THEN Append(stack, Fresh(el)) ELSE stack
        /\ later' = IF PutOff THEN Append(later, el) ELSE later
    BY DEF Push, Looking
  <2>2. TypeOK /\ seeded = 3 * NumNodes
    BY <2>1 DEF RInv, OInv, IInv, Busy
  <2>3. ~(seeded < 3 * NumNodes)
    BY <2>2, TraverseAssumption
  <2>4. next \in Nat /\ stack \in Seq(Entry) /\ later \in Seq(Nodes)
    BY <2>2 DEF TypeOK
  <2> QED BY <2>1, <2>2, <2>3, <2>4, StackTyped
<1>1. /\ at \in DOMAIN stack /\ stack[at].done /\ n \notin ran /\ n \in Nodes
      /\ next \in DOMAIN Inputs(n) /\ Input = Inputs(n)[next]
      /\ el \in Nodes /\ fb \in BOOLEAN
      /\ <<n, next>> \in Kind(fb) /\ <<n, next>> \notin Looked(fb)
  BY <1>0, InputFacts
<1>2. /\ DOMAIN stack' = 1 .. Len(stack') /\ Len(stack') \in Nat
      /\ \A k \in DOMAIN stack : k \in DOMAIN stack' /\ stack'[k] = stack[k]
      /\ \A k \in DOMAIN stack' : k \in DOMAIN stack \/ (Pushed /\ k = Len(stack) + 1 /\ stack'[k].node = el /\ ~stack'[k].done)
      /\ Len(stack') = IF Pushed THEN Len(stack) + 1 ELSE Len(stack)
  <2>1. CASE Pushed
    <3>1. stack' = Append(stack, Fresh(el))
      BY <1>0, <2>1
    <3>2. Fresh(el) \in Entry /\ Fresh(el).node = el /\ ~Fresh(el).done
      BY <1>1, FreshTyped
    <3>3. /\ DOMAIN stack' = 1 .. Len(stack) + 1
          /\ Len(stack') = Len(stack) + 1
          /\ \A k \in 1 .. Len(stack) : stack'[k] = stack[k]
          /\ stack'[Len(stack) + 1] = Fresh(el)
      BY <1>0, <3>1, <3>2, AppendTyped
    <3> QED BY <1>0, <2>1, <3>2, <3>3
  <2>2. CASE ~Pushed
    BY <1>0, <2>2
  <2> QED BY <2>1, <2>2
<1>3. Collecting'
  BY <1>0 DEF Collecting
<1>4. Nested'
  <2> SUFFICES ASSUME NEW level \in [Nodes -> Nodes], Descends(level),
                      NEW j \in DOMAIN stack', NEW k \in DOMAIN stack',
                      j < k, stack'[j].done, stack'[j].node \notin ran
               PROVE  level[stack'[k].node] < level[stack'[j].node]
    BY <1>0, NetKept DEF Nested
  <2>1. j \in DOMAIN stack /\ stack'[j] = stack[j]
    BY <1>2
  <2>2. CASE k \in DOMAIN stack
    BY <1>2, <2>1, <2>2 DEF RInv, Nested
  <2>3. CASE k \notin DOMAIN stack
    <3>1. Pushed /\ stack'[k].node = el
      BY <1>2, <2>3
    <3>2. level[el] < level[n]
      BY <1>1, <3>1 DEF Pushed, Descends
    <3>3. j <= at
      <4>1. ~(j > at)
        BY <1>0, <2>1 DEF RInv, OInv, Open
      <4> QED BY <1>0, <1>1, <2>1, <4>1
    <3>4. CASE j = at
      BY <2>1, <3>1, <3>2, <3>4
    <3>5. CASE j # at
      <4>1. j < at
        BY <1>0, <1>1, <2>1, <3>3, <3>5
      <4>2. level[n] < level[stack[j].node]
        BY <1>1, <2>1, <4>1 DEF RInv, Nested
      <4>3. level[el] \in Int /\ level[n] \in Int /\ level[stack[j].node] \in Int
        <5>1. \A m \in Nodes : level[m] \in Int
          BY DEF Nodes
        <5>2. stack[j].node \in Nodes
          BY <1>0, <2>1, StackTyped
        <5> QED BY <1>1, <5>1, <5>2
      <4>4. \A x, y, z \in Int : x < y /\ y < z => x < z
        OBVIOUS
      <4>5. level[el] < level[stack[j].node]
        BY <3>2, <4>2, <4>3, <4>4
      <4> QED BY <2>1, <3>1, <4>5
    <3> QED BY <3>4, <3>5
  <2> QED BY <2>2, <2>3
<1>5. Begun' = Begun /\ n \in Begun
  <2>1. \A m : m \in Begun' => m \in Begun
    BY <1>0, <1>2 DEF Begun
  <2>2. \A m : m \in Begun => m \in Begun'
    BY <1>0, <1>2 DEF Begun
  <2> QED BY <1>1, <2>1, <2>2 DEF Begun
<1>6. \A p \in Conns : Was(p)' <=> Was(p) \/ p = <<n, next>>
  <2> SUFFICES ASSUME NEW p \in Conns PROVE Was(p)' <=> Was(p) \/ p = <<n, next>>
    OBVIOUS
  <2>1. PICK m \in Nodes : p \in {m} \X DOMAIN Inputs(m)
    BY DEF Conns
  <2>2. p = <<p[1], p[2]>> /\ p[2] \in Nat
    <3>1. DOMAIN Inputs(m) = 1 .. Len(Inputs(m)) /\ Len(Inputs(m)) \in Nat
      BY <1>0, InputsTyped
    <3> QED BY <2>1, <3>1
  <2>3. stack'[at].node = n
    BY <1>1, <1>2
  <2>4. Was(p)' <=> p[1] \in Begun /\ (p[1] = n => p[2] < next + 1)
    BY <1>0, <1>5, <2>3 DEF Was
  <2>5. Was(p) <=> p[1] \in Begun /\ (p[1] = n => p[2] < next)
    BY <1>0 DEF Was
  <2>6. p[2] < next + 1 <=> p[2] < next \/ p[2] = next
    BY <1>0, <2>2
  <2>7. p = <<n, next>> <=> p[1] = n /\ p[2] = next
    BY <2>2
  <2> QED BY <1>5, <2>4, <2>5, <2>6, <2>7
<1>7. \A f : Looked(f)' = IF f = fb THEN Looked(f) \cup {<<n, next>>} ELSE Looked(f)
  <2> SUFFICES ASSUME NEW f, NEW p
               PROVE  p \in Looked(f)' <=> p \in Looked(f) \/ (f = fb /\ p = <<n, next>>)
    OBVIOUS
  <2>1. p \in Looked(f)' <=> p \in Conns /\ Was(p)' /\ Inputs(p[1])[p[2]].feedback = f
    BY <1>0, NetKept DEF Looked, Inputs
  <2>2. p \in Looked(f) <=> p \in Conns /\ Was(p) /\ Inputs(p[1])[p[2]].feedback = f
    BY DEF Looked
  <2>3. <<n, next>> \in Conns /\ Inputs(<<n, next>>[1])[<<n, next>>[2]].feedback = fb
    BY <1>1 DEF Kind
  <2> QED BY <1>6, <2>1, <2>2, <2>3
<1>8. Room'
  <2> SUFFICES ASSUME Acyclic, Fits
               PROVE  /\ ~full /\ Len(later') <= Cardinality(Looked(TRUE)')
                      /\ \/ Len(stack') <= Cardinality(SeedsUpTo(net, seeded)) + Cardinality(Looked(FALSE)')
                         \/ Len(stack') <= Count(TRUE) + Cardinality(Looked(FALSE)')
    BY <1>0, NetKept DEF Room
  <2>1. /\ ~full /\ Cardinality(Looked(TRUE)) \in Nat /\ Cardinality(Looked(FALSE)) \in Nat
        /\ Count(TRUE) \in Nat /\ Len(later) <= Cardinality(Looked(TRUE))
        /\ Cardinality(SeedsUpTo(net, seeded)) \in Nat
        /\ \/ Len(stack) <= Cardinality(SeedsUpTo(net, seeded)) + Cardinality(Looked(FALSE))
           \/ Len(stack) <= Count(TRUE) + Cardinality(Looked(FALSE))
    BY RoomFacts
  <2>2. IsFiniteSet(Looked(fb))
    BY <1>0, <1>1, LookedCount
  <2>3. Cardinality(Looked(fb) \cup {<<n, next>>}) = Cardinality(Looked(fb)) + 1
    BY <1>1, <2>2, FS_AddElement
  <2>4. CASE fb = TRUE
    <3>1. /\ Cardinality(Looked(TRUE)') = Cardinality(Looked(TRUE)) + 1
          /\ Looked(FALSE)' = Looked(FALSE)
      BY <1>7, <2>3, <2>4
    <3>2. ~Pushed
      BY <2>4 DEF Pushed
    <3>3. Len(stack') = Len(stack)
      BY <1>2, <3>2
    <3>4. Len(later') <= Len(later) + 1 /\ Len(later') \in Nat
      <4>1. CASE PutOff
        <5>1. later' = Append(later, el)
          BY <1>0, <4>1
        <5> QED BY <1>0, <1>1, <5>1, AppendTyped
      <4>2. CASE ~PutOff
        BY <1>0, <4>2
      <4> QED BY <4>1, <4>2
    <3>5. Len(later') <= Cardinality(Looked(TRUE)')
      <4>1. \A a, b, c \in Nat : a <= b + 1 /\ b <= c => a <= c + 1
        OBVIOUS
      <4> QED BY <1>0, <2>1, <3>1, <3>4, <4>1
    <3> QED BY <2>1, <3>1, <3>3, <3>5
  <2>5. CASE fb = FALSE
    <3>1. /\ Cardinality(Looked(FALSE)') = Cardinality(Looked(FALSE)) + 1
          /\ Looked(TRUE)' = Looked(TRUE)
      BY <1>7, <2>3, <2>5
    <3>2. ~PutOff
      BY <2>5 DEF PutOff
    <3>3. later' = later
      BY <1>0, <3>2
    <3>4. Len(stack') <= Len(stack) + 1
      BY <1>0, <1>2
    <3>5. \A a, b, c, d \in Nat : a <= b + 1 /\ b <= c + d => a <= c + (d + 1)
      OBVIOUS
    <3>6. \/ Len(stack') <= Cardinality(SeedsUpTo(net, seeded)) + (Cardinality(Looked(FALSE)) + 1)
          \/ Len(stack') <= Count(TRUE) + (Cardinality(Looked(FALSE)) + 1)
      BY <1>0, <1>2, <2>1, <3>4, <3>5
    <3> QED BY <2>1, <3>1, <3>3, <3>6
  <2> QED BY <1>1, <2>4, <2>5
<1> QED BY <1>3, <1>4, <1>8

\* A stack is never full: the connection looked at is not among those counted.
LEMMA NoOverflow ==
  ASSUME RInv, Acyclic, Fits, Looking
  PROVE  ~NoRoom
<1> DEFINE sd == Cardinality(SeedsUpTo(net, seeded))
           ns == Cardinality(net.sinks)
           nb == Cardinality(net.bvh)
           lf == Cardinality(Looked(FALSE))
           lt == Cardinality(Looked(TRUE))
<1>1. TypeOK /\ net \in Nets /\ seeded \in 0 .. 3 * NumNodes
  BY DEF RInv, OInv, IInv, Busy, TypeOK
<1>2. /\ Len(stack) \in Nat /\ Len(later) \in Nat
      /\ Count(TRUE) \in Nat /\ Count(FALSE) \in Nat /\ lt \in Nat /\ lf \in Nat /\ sd \in Nat
      /\ Len(later) <= lt
      /\ Len(stack) <= sd + lf \/ Len(stack) <= Count(TRUE) + lf
  BY RoomFacts
<1>3. sd <= ns + nb /\ ns \in Nat /\ nb \in Nat
  <2>1. sd <= Cardinality(SeedsUpTo(net, 3 * NumNodes))
    BY <1>1, SeedsBelow
  <2>2. Cardinality(SeedsUpTo(net, 3 * NumNodes)) <= ns + nb /\ ns \in Nat /\ nb \in Nat
    BY <1>1, SeedsCount
  <2>3. Cardinality(SeedsUpTo(net, 3 * NumNodes)) \in Nat
    <3>1. 3 * NumNodes \in 0 .. 3 * NumNodes
      BY TraverseAssumption
    <3> QED BY <1>1, <3>1, SeedsFit
  <2>4. \A a, b, c, d \in Nat : a <= b /\ b <= c + d => a <= c + d
    OBVIOUS
  <2> QED BY <1>2, <2>1, <2>2, <2>3, <2>4
<1>4. /\ ns + nb + Count(FALSE) <= MaxStack
      /\ Count(TRUE) + Count(FALSE) <= MaxStack
      /\ Count(TRUE) <= MaxFeedback /\ MaxStack \in Nat /\ MaxFeedback \in Nat
  <2>1. MaxStack \in Nat /\ MaxFeedback \in Nat
    BY TraverseAssumption
  <2> QED BY <2>1 DEF Fits
<1>5. ASSUME Input.feedback = FALSE PROVE ~(Len(stack) >= MaxStack)
  <2>1. lf < Count(FALSE)
    BY <1>1, <1>5, InputFacts, LookedCount
  <2>2. \A a, b, x, y, m \in Nat : a <= b + x /\ x < y /\ b + y <= m => ~(a >= m)
    OBVIOUS
  <2>3. sd + Count(FALSE) <= MaxStack
    <3>1. \A a, b, c, x, m \in Nat : a <= b + c /\ b + c + x <= m => a + x <= m
      OBVIOUS
    <3> QED BY <1>2, <1>3, <1>4, <3>1
  <2> HIDE DEF sd, ns, nb, lf, lt
  <2> QED BY <1>2, <1>4, <2>1, <2>2, <2>3
<1>6. ASSUME Input.feedback = TRUE PROVE ~(Len(later) >= MaxFeedback)
  <2>1. lt < Count(TRUE)
    BY <1>1, <1>6, InputFacts, LookedCount
  <2>2. \A a, x, y, m \in Nat : a <= x /\ x < y /\ y <= m => ~(a >= m)
    OBVIOUS
  <2> HIDE DEF lt
  <2> QED BY <1>2, <1>4, <2>1, <2>2
<1>7. Input.feedback \in BOOLEAN
  BY InputFacts
<1> QED BY <1>5, <1>6, <1>7 DEF NoRoom, Pushed, PutOff

LEMMA OverflowRoom == RInv /\ Overflow => Collecting' /\ Nested' /\ Room'
<1> SUFFICES ASSUME RInv, Overflow PROVE Collecting' /\ Nested' /\ Room'
  OBVIOUS
<1>1. stack' = <<>> /\ net' = net /\ Looking /\ NoRoom
  BY DEF Overflow
<1>2. DOMAIN stack' = {}
  BY <1>1
<1>3. ~(Acyclic /\ Fits)
  BY <1>1, NoOverflow
<1>4. Collecting' /\ Nested'
  BY <1>2 DEF Collecting, Nested
<1>5. Room'
  <2>1. Acyclic' = Acyclic /\ Fits' = Fits
    BY <1>1, NetKept
  <2> QED BY <1>3, <2>1 DEF Room
<1> QED BY <1>4, <1>5

LEMMA RoomInductive == Spec => []RInv
<1>1. Init => Collecting /\ Nested /\ Room
  <2> SUFFICES ASSUME Init PROVE Collecting /\ Nested /\ Room
    OBVIOUS
  <2>1. DOMAIN stack = {} /\ Len(stack) = 0 /\ Len(later) = 0 /\ ~full
    BY DEF Init
  <2>2. Cardinality(Looked(TRUE)) \in Nat /\ Cardinality(Looked(FALSE)) \in Nat /\ Count(TRUE) \in Nat
    BY InitHolds, LookedCount DEF IInv
  <2>3. Collecting /\ Nested
    BY <2>1 DEF Collecting, Nested
  <2>0. \A c, d \in Nat : 0 <= c /\ 0 <= c + d
    OBVIOUS
  <2>4. Len(later) <= Cardinality(Looked(TRUE))
    BY <2>0, <2>1, <2>2, Zenon
  <2>5. Len(stack) <= Count(TRUE) + Cardinality(Looked(FALSE))
    BY <2>0, <2>1, <2>2, Zenon
  <2> QED BY <2>1, <2>3, <2>4, <2>5 DEF Room
<1>2. OInv /\ Collecting /\ Nested /\ Room /\ [Next]_vars => Collecting' /\ Nested' /\ Room'
  <2> SUFFICES ASSUME RInv, [Next]_vars PROVE Collecting' /\ Nested' /\ Room'
    BY DEF RInv
  <2>1. CASE UNCHANGED vars
    <3>1. UNCHANGED <<net, seeded, stack, later, ran, at, next, full>>
      BY <2>1 DEF vars
    <3>2. Collecting' /\ Nested'
      BY <3>1, NetKept DEF RInv, Collecting, Nested
    <3>3. \A p : Was(p)' <=> Was(p)
      BY <3>1 DEF Was, Begun
    <3>4. Len(stack') \in Nat /\ Len(stack') <= Len(stack)
      BY <3>1, StackTyped DEF RInv, OInv, IInv
    <3>5. Room'
      BY <3>1, <3>3, <3>4, RoomKept
    <3> QED BY <3>2, <3>5
  <2>2. CASE Next
    BY <2>2, SeedRoom, DropRoom, PostRoom, EnterRoom, PushRoom, OverflowRoom, LeaveRoom,
       NextRoundRoom DEF Next
  <2> QED BY <2>1, <2>2
<1>3. RInv <=> OInv /\ Collecting /\ Nested /\ Room
  BY DEF RInv
<1> QED BY <1>1, <1>2, <1>3, OpenInductive, PTL DEF Spec

\* The code gives up in silence when a stack is full.  It does so only for what
\* its disabled message calls it, a cyclic graph, or for one with more seeds and
\* connections than there are entries.
THEOREM TraverseSuffices == Spec => []Suffices
<1>1. RInv => Suffices
  BY DEF RInv, Room, Suffices
<1> QED BY <1>1, RoomInductive, PTL
=============================================================================
