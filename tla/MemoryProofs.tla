---------------------------- MODULE MemoryProofs ----------------------------
(***************************************************************************)
(* Theorems about the memory of the graph: the allocator (VkAlloc), for    *)
(* any heap, pool and requests, and what the graph does with what it gets  *)
(* from it (NodeMemory), for any number of nodes and buffers and for all   *)
(* graphs that Recognised admits.  The two components share no state.      *)
(***************************************************************************)
EXTENDS VkAlloc, NodeMemory, FiniteSetTheorems, SequenceTheorems,
        WellFoundedInduction, TLAPS

-----------------------------------------------------------------------------
(* The allocator *)

LEMMA AlignedFacts ==
  ASSUME NEW x \in Nat, NEW a \in Nat \ {0}
  PROVE  /\ Aligned(x, a) \in Nat /\ Aligned(x, a) % a = 0
         /\ x <= Aligned(x, a) /\ Aligned(x, a) < x + a
         /\ x % a = 0 => Aligned(x, a) = x
<1>1. x % a \in 0 .. a - 1
  OBVIOUS
<1>2. CASE x % a = 0
  <2>1. (a - 0) % a = 0
    OBVIOUS
  <2> QED BY <1>2, <2>1 DEF Aligned
<1>3. CASE x % a # 0
  <2>1. (a - (x % a)) % a = a - (x % a)
    BY <1>1, <1>3
  <2>2. Aligned(x, a) = x - (x % a) + a
    BY <2>1, <1>1 DEF Aligned
  <2>3. (x - (x % a) + a) % a = 0
    OBVIOUS
  <2> QED BY <1>1, <1>3, <2>2, <2>3
<1> QED BY <1>2, <1>3

LEMMA RemoveAtFacts ==
  ASSUME NEW S, NEW s \in Seq(S), NEW i \in DOMAIN s
  PROVE  /\ RemoveAt(s, i) \in Seq(S) /\ Len(RemoveAt(s, i)) = Len(s) - 1
         /\ \A j \in 1 .. Len(s) - 1 : RemoveAt(s, i)[j] = IF j < i THEN s[j] ELSE s[j + 1]
<1> DEFINE a == SubSeq(s, 1, i - 1)
           c == SubSeq(s, i + 1, Len(s))
<1>1. a \in Seq(S) /\ Len(a) = i - 1 /\ \A j \in 1 .. i - 1 : a[j] = s[j]
  OBVIOUS
<1>2. c \in Seq(S) /\ Len(c) = Len(s) - i /\ \A j \in 1 .. Len(s) - i : c[j] = s[i + j]
  OBVIOUS
<1>3. RemoveAt(s, i) = a \o c
  BY DEF RemoveAt
<1>4. i \in 1 .. Len(s) /\ Len(s) \in Nat
  OBVIOUS
<1> HIDE DEF a, c
<1>5. a \o c \in Seq(S) /\ Len(a \o c) = Len(s) - 1
  BY <1>1, <1>2, <1>4
<1>6. ASSUME NEW j \in 1 .. Len(s) - 1
      PROVE  (a \o c)[j] = IF j < i THEN s[j] ELSE s[j + 1]
  <2>1. CASE j < i
    BY <1>1, <1>2, <1>4, <2>1
  <2>2. CASE j >= i
    <3>1. (a \o c)[j] = c[j - (i - 1)] /\ j - (i - 1) \in 1 .. Len(s) - i
      BY <1>1, <1>2, <1>4, <2>2
    <3>2. j \in Int /\ i \in Int /\ i + (j - (i - 1)) = j + 1
      BY <1>4
    <3> QED BY <1>2, <2>2, <3>1, <3>2
  <2>3. j < i \/ j >= i
    BY <1>4
  <2> QED BY <2>1, <2>2, <2>3
<1> QED BY <1>3, <1>5, <1>6

LEMMA ReplaceAtFacts ==
  ASSUME NEW S, NEW s \in Seq(S), NEW i \in DOMAIN s, NEW e \in S
  PROVE  /\ ReplaceAt(s, i, e) \in Seq(S) /\ Len(ReplaceAt(s, i, e)) = Len(s)
         /\ \A j \in 1 .. Len(s) : ReplaceAt(s, i, e)[j] = IF j = i THEN e ELSE s[j]
BY DEF ReplaceAt

LEMMA InsertAtFacts ==
  ASSUME NEW S, NEW s \in Seq(S), NEW i \in DOMAIN s, NEW e \in S
  PROVE  /\ InsertAt(s, i, e) \in Seq(S) /\ Len(InsertAt(s, i, e)) = Len(s) + 1
         /\ \A j \in 1 .. Len(s) + 1 :
              InsertAt(s, i, e)[j] = IF j < i THEN s[j] ELSE IF j = i THEN e ELSE s[j - 1]
<1> DEFINE a == SubSeq(s, 1, i - 1)
           b == a \o <<e>>
           c == SubSeq(s, i, Len(s))
<1>1. a \in Seq(S) /\ Len(a) = i - 1 /\ \A j \in 1 .. i - 1 : a[j] = s[j]
  OBVIOUS
<1>2. c \in Seq(S) /\ Len(c) = Len(s) - i + 1
      /\ \A j \in 1 .. Len(s) - i + 1 : c[j] = s[i + j - 1]
  OBVIOUS
<1>3. InsertAt(s, i, e) = b \o c
  BY DEF InsertAt
<1>4. i \in 1 .. Len(s) /\ Len(s) \in Nat
  OBVIOUS
<1> HIDE DEF a, c
<1>5. b \in Seq(S) /\ Len(b) = i
  BY <1>1, <1>4
<1>8. b[i] = e /\ \A j \in 1 .. i - 1 : b[j] = s[j]
  BY <1>1, <1>4
<1> HIDE DEF b
<1>6. b \o c \in Seq(S) /\ Len(b \o c) = Len(s) + 1
  <2>0. b \in Seq(S) /\ c \in Seq(S)
    BY <1>2, <1>5
  <2>1. Len(b \o c) = Len(b) + Len(c)
    BY <2>0
  <2>2. b \o c \in Seq(S)
    BY <1>2, <1>5
  <2> QED BY <1>2, <1>4, <1>5, <2>1, <2>2
<1>7. ASSUME NEW j \in 1 .. Len(s) + 1
      PROVE  (b \o c)[j] = IF j < i THEN s[j] ELSE IF j = i THEN e ELSE s[j - 1]
  <2>1. CASE j <= i
    BY <1>2, <1>4, <1>5, <1>8, <2>1
  <2>2. CASE j > i
    <3>1. (b \o c)[j] = c[j - i] /\ j - i \in 1 .. Len(s) - i + 1
      BY <1>2, <1>4, <1>5, <2>2
    <3>2. j \in Int /\ i \in Int /\ i + (j - i) - 1 = j - 1
      BY <1>4
    <3>3. (b \o c)[j] = s[i + (j - i) - 1]
      BY <1>2, <3>1
    <3> QED BY <2>2, <3>2, <3>3
  <2>3. j <= i \/ j > i
    BY <1>4
  <2> QED BY <2>1, <2>2, <2>3
<1> QED BY <1>3, <1>6, <1>7
-----------------------------------------------------------------------------
(***************************************************************************)
(* The invariant.  An entry owns its bytes from offset_orig on, those that *)
(* were skipped included, and no two entries own the same.                 *)
(***************************************************************************)
Piece(m) == m \in Mem /\ m.size > 0 /\ m.offset_orig <= m.offset /\ End(m) <= HeapSize

Before(m, l) == End(m) <= l.offset_orig
Clear(m, l) == Before(m, l) \/ Before(l, m)
ClearOf(u, s) == \A i \in DOMAIN s : Clear(u, s[i])

Sorted(s) ==
  /\ \A i \in DOMAIN s : Piece(s[i])
  /\ \A i, j \in DOMAIN s : i < j => Before(s[i], s[j])

HeapShape ==
  /\ Sorted(free)
  /\ \A m \in used : Piece(m) /\ End(m) <= vmsize /\ ClearOf(m, free)
  /\ \A m, l \in used : m = l \/ Clear(m, l)

NoGaps(s) == \A i \in DOMAIN s : Gap(s[i]) = 0
Owns(m, x) == m.offset_orig <= x /\ x < End(m)
Covers(s, x) == \E i \in DOMAIN s : Owns(s[i], x)

\* Only at the places in J may an entry end where the next begins.
Loose(s, J) == \A i \in 1 .. Len(s) - 1 : i \notin J => ~Adjacent(s[i], s[i + 1])

\* As long as nothing was skipped for an alignment, the free entries are as
\* large as they can be, and every byte is in an entry unless one was lost.
Tiled ==
  ~gaps =>
    /\ NoGaps(free) /\ \A m \in used : Gap(m) = 0
    /\ Loose(free, {})
    /\ ~lost => \A x \in 0 .. HeapSize - 1 : Covers(free, x) \/ \E m \in used : Owns(m, x)

\* Every entry of the pool is in one of the lists.
Pool == IsFiniteSet(used) /\ (lost \/ Complete)

\* List t owns what s does.
Keeps(s, t) ==
  /\ t \in Seq(Mem) /\ Len(t) <= Len(s)
  /\ Sorted(t)
  /\ \A u : Piece(u) /\ ClearOf(u, s) => ClearOf(u, t)
  /\ NoGaps(s) => NoGaps(t) /\ \A x \in Nat : Covers(s, x) => Covers(t, x)

LEMMA PieceFacts ==
  ASSUME NEW m, Piece(m)
  PROVE  /\ m \in Mem /\ m.offset \in Nat /\ m.offset_orig \in Nat /\ m.size \in Nat
         /\ m.size > 0 /\ m.offset_orig <= m.offset /\ m.offset < End(m)
         /\ m.offset_orig < End(m) /\ End(m) \in Nat /\ End(m) <= HeapSize
         /\ End(m) = m.offset + m.size /\ Gap(m) = m.offset - m.offset_orig
<1>1. m \in Mem /\ m.size > 0 /\ m.offset_orig <= m.offset /\ End(m) <= HeapSize
  BY DEF Piece
<1>2. m.offset \in Nat /\ m.offset_orig \in Nat /\ m.size \in Nat
  BY <1>1 DEF Mem
<1> QED BY <1>1, <1>2 DEF End, Gap

\* Two adjacent entries become one.
LEMMA JoinFacts ==
  ASSUME NEW s \in Seq(Mem), Sorted(s), NEW k \in 1 .. Len(s) - 1, NEW t \in Seq(Mem),
         NEW e, Piece(e), e.offset_orig = s[k].offset_orig, End(e) <= End(s[k + 1]),
         Adjacent(s[k], s[k + 1]),
         NoGaps(s) => Gap(e) = 0 /\ End(e) = End(s[k + 1]),
         Len(t) = Len(s) - 1,
         \A j \in 1 .. Len(s) - 1 : t[j] = IF j < k THEN s[j] ELSE IF j = k THEN e ELSE s[j + 1]
  PROVE  /\ Keeps(s, t)
         /\ NoGaps(s) /\ Loose(s, {k, k + 1}) => Loose(t, {k})
         /\ NoGaps(s) /\ Loose(s, {k}) => Loose(t, {})
<1>1. /\ Len(s) \in Nat /\ DOMAIN s = 1 .. Len(s) /\ DOMAIN t = 1 .. Len(s) - 1
      /\ k \in DOMAIN s /\ k + 1 \in DOMAIN s /\ k \in DOMAIN t
  OBVIOUS
<1>2. \A i \in DOMAIN s : Piece(s[i]) /\ s[i] \in Mem
  BY DEF Sorted, Piece
<1>3. \A i, j \in DOMAIN s : i < j => End(s[i]) <= s[j].offset_orig
  BY DEF Sorted, Before
<1>4. e \in Mem /\ e.size > 0 /\ e.offset_orig <= e.offset /\ e.offset_orig < End(e)
  BY PieceFacts
<1>5. \A i \in DOMAIN s : /\ s[i].offset_orig < End(s[i])
                          /\ s[i].offset_orig \in Nat /\ End(s[i]) \in Nat
  <2>1. SUFFICES ASSUME NEW i \in DOMAIN s
                 PROVE  /\ s[i].offset_orig < End(s[i])
                        /\ s[i].offset_orig \in Nat /\ End(s[i]) \in Nat
    OBVIOUS
  <2>2. Piece(s[i]) /\ s[i] \in Mem
    BY <1>2
  <2> QED BY <2>2, PieceFacts
<1>6. e.offset_orig \in Nat /\ End(e) \in Nat
  BY PieceFacts
<1>8. ASSUME NEW j \in DOMAIN t, j # k
      PROVE  \E i \in DOMAIN s : t[j] = s[i]
  <2>1. CASE j < k
    BY <1>1, <2>1
  <2>2. CASE j > k
    <3>1. t[j] = s[j + 1] /\ j + 1 \in DOMAIN s
      BY <1>1, <2>2
    <3> QED BY <3>1
  <2> QED BY <1>1, <1>8, <2>1, <2>2
<1>7. Sorted(t)
  <2>1. ASSUME NEW i \in DOMAIN t PROVE Piece(t[i])
    <3>1. CASE i = k
      BY <1>1, <3>1
    <3>2. CASE i # k
      BY <1>2, <1>8, <3>2
    <3> QED BY <3>1, <3>2
  <2>2. ASSUME NEW i \in DOMAIN t, NEW j \in DOMAIN t, i < j
        PROVE  End(t[i]) <= t[j].offset_orig
    <3>1. CASE i = k
      <4>1. t[i] = e /\ t[j] = s[j + 1] /\ j + 1 \in DOMAIN s /\ k + 1 < j + 1
        BY <1>1, <2>2, <3>1
      <4>2. End(s[k + 1]) <= s[j + 1].offset_orig
        BY <1>1, <1>3, <4>1
      <4> QED BY <1>1, <1>5, <1>6, <4>1, <4>2
    <3>2. CASE j = k
      <4>1. t[j] = e /\ t[i] = s[i] /\ i \in DOMAIN s
        BY <1>1, <2>2, <3>2
      <4> QED BY <1>1, <1>3, <2>2, <3>2, <4>1
    <3>3. CASE i # k /\ j # k
      <4>1. PICK a \in DOMAIN s, b \in DOMAIN s : t[i] = s[a] /\ t[j] = s[b] /\ a < b
        <5>1. CASE i < k /\ j < k
          BY <1>1, <2>2, <5>1
        <5>2. CASE i < k /\ j > k
          <6>1. t[i] = s[i] /\ t[j] = s[j + 1] /\ i \in DOMAIN s /\ j + 1 \in DOMAIN s /\ i < j + 1
            BY <1>1, <5>2
          <6> QED BY <6>1
        <5>3. CASE i > k /\ j > k
          <6>1. /\ t[i] = s[i + 1] /\ t[j] = s[j + 1]
                /\ i + 1 \in DOMAIN s /\ j + 1 \in DOMAIN s /\ i + 1 < j + 1
            BY <1>1, <2>2, <5>3
          <6> QED BY <6>1
        <5> QED BY <1>1, <2>2, <3>3, <5>1, <5>2, <5>3
      <4> QED BY <1>3, <4>1
    <3> QED BY <3>1, <3>2, <3>3
  <2> QED BY <2>1, <2>2 DEF Sorted, Before
<1>9. ASSUME NEW u, Piece(u), ClearOf(u, s)
      PROVE  ClearOf(u, t)
  <2>1. Clear(u, s[k]) /\ Clear(u, s[k + 1])
    BY <1>1, <1>9 DEF ClearOf
  <2>2. u.offset_orig < End(u) /\ u.offset_orig \in Nat /\ End(u) \in Nat
    BY <1>9, PieceFacts
  <2>3. Clear(u, e)
    BY <1>1, <1>5, <1>6, <2>1, <2>2 DEF Clear, Before, Adjacent
  <2>4. t[k] = e
    BY <1>1
  <2> QED BY <1>8, <1>9, <2>3, <2>4 DEF ClearOf
<1>10. ASSUME NoGaps(s)
       PROVE  NoGaps(t) /\ \A x \in Nat : Covers(s, x) => Covers(t, x)
  <2>1. t[k] = e
    BY <1>1
  <2>2. NoGaps(t)
    BY <1>8, <1>10, <2>1 DEF NoGaps
  <2>3. ASSUME NEW x \in Nat, NEW i \in DOMAIN s, Owns(s[i], x)
        PROVE  Covers(t, x)
    <3>1. CASE i \in {k, k + 1}
      <4>1. Owns(e, x)
        BY <1>1, <1>5, <1>6, <1>10, <2>3, <3>1 DEF Owns, Adjacent
      <4> QED BY <1>1, <2>1, <4>1 DEF Covers
    <3>2. CASE i < k
      <4>1. t[i] = s[i] /\ i \in DOMAIN t
        BY <1>1, <3>2
      <4> QED BY <2>3, <4>1 DEF Covers
    <3>3. CASE i > k + 1
      <4>1. t[i - 1] = s[i - 1 + 1] /\ i - 1 \in DOMAIN t /\ i - 1 + 1 = i
        BY <1>1, <3>3
      <4> QED BY <2>3, <4>1 DEF Covers
    <3> QED BY <1>1, <3>1, <3>2, <3>3
  <2> QED BY <2>2, <2>3 DEF Covers
<1>11. Keeps(s, t)
  BY <1>1, <1>7, <1>9, <1>10 DEF Keeps
<1>12. ASSUME NoGaps(s), NEW i \in 1 .. Len(t) - 1, i # k
       PROVE  \E j \in 1 .. Len(s) - 1 :
                 /\ j \notin {k, k + 1}
                 /\ Adjacent(t[i], t[i + 1]) <=> Adjacent(s[j], s[j + 1])
  <2>1. CASE i < k
    <3>1. t[i] = s[i] /\ i \in 1 .. Len(s) - 1 /\ t[i + 1].offset_orig = s[i + 1].offset_orig
      BY <1>1, <2>1
    <3>2. i \notin {k, k + 1}
      BY <2>1
    <3> QED BY <3>1, <3>2 DEF Adjacent
  <2>2. CASE i > k
    <3>1. /\ t[i] = s[i + 1] /\ t[i + 1] = s[i + 1 + 1]
          /\ i + 1 \in 1 .. Len(s) - 1 /\ i + 1 \notin {k, k + 1}
      BY <1>1, <2>2
    <3> QED BY <3>1 DEF Adjacent
  <2> QED BY <1>1, <1>12, <2>1, <2>2
<1>13. ASSUME NoGaps(s), k <= Len(t) - 1
       PROVE  /\ Adjacent(t[k], t[k + 1]) <=> Adjacent(s[k + 1], s[k + 1 + 1])
              /\ k + 1 \in 1 .. Len(s) - 1
  <2>1. t[k] = e /\ t[k + 1] = s[k + 1 + 1] /\ k + 1 \in 1 .. Len(s) - 1
    BY <1>1, <1>13
  <2> QED BY <1>13, <2>1 DEF Adjacent
<1>14. NoGaps(s) /\ Loose(s, {k, k + 1}) => Loose(t, {k})
  BY <1>12 DEF Loose
<1>15. NoGaps(s) /\ Loose(s, {k}) => Loose(t, {})
  <2>1. SUFFICES ASSUME NoGaps(s), Loose(s, {k}), NEW i \in 1 .. Len(t) - 1
                 PROVE  ~Adjacent(t[i], t[i + 1])
    BY DEF Loose
  <2>2. CASE i = k
    <3>1. k + 1 \notin {k} /\ k <= Len(t) - 1
      BY <2>2
    <3>2. ~Adjacent(s[k + 1], s[k + 1 + 1])
      BY <1>13, <2>1, <3>1 DEF Loose
    <3> QED BY <1>13, <2>1, <2>2, <3>1, <3>2
  <2>3. CASE i # k
    <3>1. PICK j \in 1 .. Len(s) - 1 : /\ j \notin {k, k + 1}
                                       /\ Adjacent(t[i], t[i + 1]) <=> Adjacent(s[j], s[j + 1])
      BY <1>12, <2>1, <2>3
    <3> QED BY <2>1, <3>1 DEF Loose
  <2> QED BY <2>2, <2>3
<1> QED BY <1>11, <1>14, <1>15

LEMMA KeepsTrans ==
  ASSUME NEW s, NEW t, NEW v, Keeps(s, t), Keeps(t, v), Len(s) \in Nat, Len(t) \in Nat
  PROVE  Keeps(s, v)
<1>1. v \in Seq(Mem) /\ Len(v) <= Len(t) /\ Len(t) <= Len(s) /\ Len(v) \in Nat
  BY DEF Keeps
<1> QED BY <1>1 DEF Keeps

LEMMA KeepsSame ==
  ASSUME NEW s \in Seq(Mem), Sorted(s)
  PROVE  Keeps(s, s)
BY DEF Keeps

LEMMA WithBeforeFacts ==
  ASSUME NEW p, NEW m, Piece(p), Piece(m), Adjacent(p, m)
  PROVE  /\ Piece(WithBefore(p, m)) /\ WithBefore(p, m).offset_orig = p.offset_orig
         /\ End(WithBefore(p, m)) = End(m) /\ Gap(WithBefore(p, m)) = Gap(p)
<1>1. /\ p \in Mem /\ p.offset \in Nat /\ p.offset_orig \in Nat /\ p.size \in Nat
      /\ p.size > 0 /\ p.offset_orig <= p.offset /\ End(p) = p.offset + p.size
  BY PieceFacts
<1>2. /\ m.offset \in Nat /\ m.offset_orig \in Nat /\ m.size \in Nat
      /\ m.offset_orig <= m.offset /\ End(m) = m.offset + m.size /\ End(m) <= HeapSize
      /\ Gap(m) = m.offset - m.offset_orig
  BY PieceFacts
<1>3. End(p) = m.offset_orig
  BY DEF Adjacent
<1> DEFINE n == p.size + m.size + Gap(m)
           e == [p EXCEPT !.size = n]
<1>4. WithBefore(p, m) = e
  BY DEF WithBefore
<1>5. n \in Nat /\ n > 0 /\ p.offset + n = End(m)
  BY <1>1, <1>2, <1>3
<1> HIDE DEF n
<1>6. e \in Mem /\ e.offset = p.offset /\ e.offset_orig = p.offset_orig /\ e.size = n
  BY <1>1, <1>5 DEF Mem
<1> HIDE DEF e
<1>7. End(e) = End(m) /\ Gap(e) = Gap(p)
  BY <1>5, <1>6 DEF End, Gap
<1> QED BY <1>1, <1>2, <1>4, <1>5, <1>6, <1>7 DEF Piece

LEMMA WithAfterFacts ==
  ASSUME NEW m, NEW l, Piece(m), Piece(l), Adjacent(m, l)
  PROVE  /\ Piece(WithAfter(m, l)) /\ WithAfter(m, l).offset_orig = m.offset_orig
         /\ Gap(WithAfter(m, l)) = 0 /\ End(WithAfter(m, l)) <= End(l)
         /\ Gap(l) = 0 => End(WithAfter(m, l)) = End(l)
<1>1. /\ m.offset \in Nat /\ m.offset_orig \in Nat /\ m.size \in Nat /\ m.size > 0
      /\ m.offset_orig <= m.offset /\ End(m) = m.offset + m.size
      /\ Gap(m) = m.offset - m.offset_orig
  BY PieceFacts
<1>2. /\ l.offset \in Nat /\ l.offset_orig \in Nat /\ l.size \in Nat
      /\ l.offset_orig <= l.offset /\ End(l) = l.offset + l.size /\ End(l) <= HeapSize
      /\ Gap(l) = l.offset - l.offset_orig
  BY PieceFacts
<1>3. End(m) = l.offset_orig
  BY DEF Adjacent
<1> DEFINE n == l.size + m.size + Gap(m)
           e == [offset |-> m.offset_orig, offset_orig |-> m.offset_orig, size |-> n]
<1>4. WithAfter(m, l) = e
  BY DEF WithAfter
<1>5. n \in Nat /\ n > 0 /\ m.offset_orig + n = l.offset_orig + l.size
  BY <1>1, <1>2, <1>3
<1> HIDE DEF n
<1>6. /\ e \in Mem /\ e.offset = m.offset_orig /\ e.offset_orig = m.offset_orig
      /\ e.size = n
  BY <1>1, <1>5 DEF Mem
<1> HIDE DEF e
<1>7. End(e) = l.offset_orig + l.size /\ Gap(e) = 0
  BY <1>1, <1>5, <1>6 DEF End, Gap
<1>8. End(e) <= End(l) /\ End(e) <= HeapSize /\ (Gap(l) = 0 => End(e) = End(l))
  BY <1>2, <1>7, VkAllocAssumption
<1> QED BY <1>1, <1>4, <1>5, <1>6, <1>7, <1>8 DEF Piece

LEMMA MergeBeforeFacts ==
  ASSUME NEW s \in Seq(Mem), Sorted(s), NEW i \in 1 .. Len(s), NEW k,
         k = IF MergesBefore(s, i) THEN i - 1 ELSE i
  PROVE  /\ Keeps(s, MergeBefore(s, i)) /\ k \in 1 .. Len(MergeBefore(s, i))
         /\ NoGaps(s) /\ Loose(s, {i - 1, i}) => Loose(MergeBefore(s, i), {k})
<1>1. CASE ~MergesBefore(s, i)
  <2>1. MergeBefore(s, i) = s /\ k = i
    BY <1>1 DEF MergeBefore
  <2>2. Loose(s, {i - 1, i}) => Loose(s, {i})
    <3>1. SUFFICES ASSUME Loose(s, {i - 1, i}), NEW j \in 1 .. Len(s) - 1, j # i
                   PROVE  ~Adjacent(s[j], s[j + 1])
      BY DEF Loose
    <3>2. CASE j = i - 1
      <4>1. i > 1 /\ j + 1 = i
        BY <3>2
      <4> QED BY <1>1, <3>2, <4>1 DEF MergesBefore
    <3>3. CASE j # i - 1
      BY <3>1, <3>3 DEF Loose
    <3> QED BY <3>2, <3>3
  <2> QED BY <2>1, <2>2, KeepsSame
<1>2. CASE MergesBefore(s, i)
  <2>0. PICK n \in 1 .. Len(s) - 1 : n = i - 1
    BY <1>2 DEF MergesBefore
  <2> DEFINE e == WithBefore(s[n], s[i])
             r == ReplaceAt(s, n, e)
             t == RemoveAt(r, i)
  <2>1. /\ MergeBefore(s, i) = t /\ k = n /\ n + 1 = i
        /\ Adjacent(s[n], s[n + 1])
    BY <1>2, <2>0 DEF MergeBefore, MergesBefore
  <2>2. Piece(s[n]) /\ Piece(s[i]) /\ s[n + 1] = s[i] /\ n \in DOMAIN s /\ i \in DOMAIN s
    BY <2>1 DEF Sorted
  <2>3. Adjacent(s[n], s[i])
    BY <2>1, <2>2
  <2>6. /\ Piece(e) /\ e.offset_orig = s[n].offset_orig
        /\ End(e) = End(s[i]) /\ Gap(e) = Gap(s[n])
    BY <2>2, <2>3, WithBeforeFacts
  <2> HIDE DEF e
  <2>7. e \in Mem /\ Len(s) \in Nat
    BY <2>6 DEF Piece
  <2>8. r \in Seq(Mem) /\ Len(r) = Len(s)
        /\ \A j \in 1 .. Len(s) : r[j] = IF j = n THEN e ELSE s[j]
    BY <2>2, <2>7 DEF ReplaceAt
  <2> HIDE DEF r
  <2>9. t \in Seq(Mem) /\ Len(t) = Len(s) - 1
        /\ \A j \in 1 .. Len(s) - 1 : t[j] = IF j < i THEN r[j] ELSE r[j + 1]
    <3>1. i \in DOMAIN r
      BY <2>2, <2>8
    <3> QED BY <2>8, <3>1, RemoveAtFacts
  <2> HIDE DEF t
  <2>10. \A j \in 1 .. Len(s) - 1 : t[j] = IF j < n THEN s[j] ELSE IF j = n THEN e ELSE s[j + 1]
    BY <2>1, <2>8, <2>9
  <2>11. NoGaps(s) => Gap(e) = 0 /\ End(e) = End(s[n + 1])
    BY <2>2, <2>6 DEF NoGaps
  <2>12. Keeps(s, t) /\ (NoGaps(s) /\ Loose(s, {n, n + 1}) => Loose(t, {n}))
    <3>1. End(e) <= End(s[n + 1])
      BY <2>2, <2>6, PieceFacts
    <3> QED BY <2>1, <2>6, <2>7, <2>9, <2>10, <2>11, <3>1, JoinFacts
  <2>13. n \in 1 .. Len(t) /\ i - 1 = n
    BY <2>0, <2>9
  <2>14. NoGaps(s) /\ Loose(s, {i - 1, i}) => Loose(t, {n})
    BY <2>1, <2>12, <2>13
  <2> QED BY <2>1, <2>12, <2>13, <2>14
<1> QED BY <1>1, <1>2

LEMMA MergeAfterFacts ==
  ASSUME NEW s \in Seq(Mem), Sorted(s), NEW k \in 1 .. Len(s)
  PROVE  /\ Keeps(s, MergeAfter(s, k))
         /\ NoGaps(s) /\ Loose(s, {k}) => Loose(MergeAfter(s, k), {})
<1>1. CASE ~(k < Len(s) /\ Adjacent(s[k], s[k + 1]))
  <2>1. MergeAfter(s, k) = s
    BY <1>1 DEF MergeAfter
  <2>2. Loose(s, {k}) => Loose(s, {})
    BY <1>1 DEF Loose
  <2> QED BY <2>1, <2>2, KeepsSame
<1>2. CASE k < Len(s) /\ Adjacent(s[k], s[k + 1])
  <2> DEFINE e == WithAfter(s[k], s[k + 1])
             r == ReplaceAt(s, k + 1, e)
             t == RemoveAt(r, k)
  <2>1. /\ MergeAfter(s, k) = t /\ k \in 1 .. Len(s) - 1 /\ k + 1 \in 1 .. Len(s)
    BY <1>2 DEF MergeAfter
  <2>2. Piece(s[k]) /\ Piece(s[k + 1]) /\ k \in DOMAIN s /\ k + 1 \in DOMAIN s
    BY <2>1 DEF Sorted
  <2>3. Adjacent(s[k], s[k + 1])
    BY <1>2
  <2>6. /\ Piece(e) /\ e.offset_orig = s[k].offset_orig
        /\ Gap(e) = 0 /\ End(e) <= End(s[k + 1])
        /\ Gap(s[k + 1]) = 0 => End(e) = End(s[k + 1])
    BY <2>2, <2>3, WithAfterFacts
  <2> HIDE DEF e
  <2>7. e \in Mem /\ Len(s) \in Nat
    BY <2>6 DEF Piece
  <2>8. NoGaps(s) => Gap(e) = 0 /\ End(e) = End(s[k + 1])
    BY <2>2, <2>6 DEF NoGaps
  <2>9. r \in Seq(Mem) /\ Len(r) = Len(s)
        /\ \A j \in 1 .. Len(s) : r[j] = IF j = k + 1 THEN e ELSE s[j]
    BY <2>2, <2>7, ReplaceAtFacts
  <2> HIDE DEF r
  <2>10. t \in Seq(Mem) /\ Len(t) = Len(s) - 1
         /\ \A j \in 1 .. Len(s) - 1 : t[j] = IF j < k THEN r[j] ELSE r[j + 1]
    <3>1. k \in DOMAIN r
      BY <2>2, <2>9
    <3> QED BY <2>9, <3>1, RemoveAtFacts
  <2> HIDE DEF t
  <2>11. \A j \in 1 .. Len(s) - 1 : t[j] = IF j < k THEN s[j] ELSE IF j = k THEN e ELSE s[j + 1]
    <3>1. SUFFICES ASSUME NEW j \in 1 .. Len(s) - 1
                   PROVE  t[j] = IF j < k THEN s[j] ELSE IF j = k THEN e ELSE s[j + 1]
      OBVIOUS
    <3>2. CASE j < k
      BY <2>9, <2>10, <3>2
    <3>3. CASE j >= k
      <4>1. t[j] = r[j + 1] /\ j + 1 \in 1 .. Len(s)
        BY <2>10, <3>3
      <4> QED BY <2>9, <3>3, <4>1
    <3> QED BY <3>2, <3>3
  <2>13. Keeps(s, t) /\ (NoGaps(s) /\ Loose(s, {k}) => Loose(t, {}))
    BY <2>1, <2>3, <2>6, <2>7, <2>8, <2>10, <2>11, JoinFacts
  <2> QED BY <2>1, <2>13
<1> QED BY <1>1, <1>2

\* An entry goes between those that end before it and those behind it.
LEMMA PlaceFacts ==
  ASSUME NEW s \in Seq(Mem), Sorted(s), NEW i \in DOMAIN s, NEW m, Piece(m), ClearOf(m, s),
         Behind(s[i], m), \A j \in DOMAIN s : j < i => ~Behind(s[j], m)
  PROVE  /\ InsertAt(s, i, m) \in Seq(Mem) /\ Len(InsertAt(s, i, m)) = Len(s) + 1
         /\ Sorted(InsertAt(s, i, m))
         /\ \A u : ClearOf(u, s) /\ Clear(u, m) => ClearOf(u, InsertAt(s, i, m))
         /\ NoGaps(s) /\ Gap(m) = 0 => NoGaps(InsertAt(s, i, m))
         /\ \A x \in Nat : Covers(s, x) \/ Owns(m, x) => Covers(InsertAt(s, i, m), x)
         /\ Loose(s, {}) => Loose(InsertAt(s, i, m), {i - 1, i})
<1>0. m \in Mem
  BY PieceFacts
<1> DEFINE t == InsertAt(s, i, m)
<1>1. t \in Seq(Mem) /\ Len(t) = Len(s) + 1
      /\ \A j \in 1 .. Len(s) + 1 : t[j] = IF j < i THEN s[j] ELSE IF j = i THEN m ELSE s[j - 1]
  <2> QED BY <1>0, InsertAtFacts
<1> HIDE DEF t
<1>2. /\ Len(s) \in Nat /\ DOMAIN s = 1 .. Len(s) /\ DOMAIN t = 1 .. Len(s) + 1
      /\ i \in 1 .. Len(s) /\ t[i] = m
  BY <1>1
<1>3. \A j \in DOMAIN s : Piece(s[j])
  BY DEF Sorted
<1>4. \A j, k \in DOMAIN s : j < k => End(s[j]) <= s[k].offset_orig
  BY DEF Sorted, Before
<1>5. /\ m.offset \in Nat /\ m.offset_orig \in Nat /\ End(m) \in Nat
      /\ m.offset_orig <= m.offset /\ m.offset < End(m)
  BY PieceFacts
<1>6. ASSUME NEW j \in DOMAIN s
      PROVE  IF j < i THEN End(s[j]) <= m.offset_orig ELSE End(m) <= s[j].offset_orig
  <2>1. /\ s[j].offset \in Nat /\ s[j].offset_orig \in Nat /\ End(s[j]) \in Nat
        /\ s[j].offset_orig <= s[j].offset /\ s[j].offset < End(s[j])
    BY <1>3, PieceFacts
  <2>2. End(m) <= s[j].offset_orig \/ End(s[j]) <= m.offset_orig
    BY DEF ClearOf, Clear, Before
  <2>3. CASE j < i
    <3>1. ~(s[j].offset >= End(m))
      BY <2>3 DEF Behind
    <3> QED BY <1>5, <2>1, <2>2, <2>3, <3>1
  <2>4. CASE j = i
    <3>1. s[j].offset >= End(m)
      BY <2>4 DEF Behind
    <3> QED BY <1>5, <2>1, <2>2, <2>4, <3>1
  <2>5. CASE j > i
    <3>1. /\ s[i].offset \in Nat /\ s[i].offset < End(s[i]) /\ End(s[i]) \in Nat
      BY <1>3, PieceFacts
    <3>2. s[i].offset >= End(m) /\ End(s[i]) <= s[j].offset_orig
      BY <1>4, <2>5 DEF Behind
    <3> QED BY <1>2, <1>5, <2>1, <2>5, <3>1, <3>2
  <2> QED BY <1>2, <2>3, <2>4, <2>5
<1>7. ASSUME NEW j \in DOMAIN t, j # i
      PROVE  \E k \in DOMAIN s : t[j] = s[k] /\ (k < i <=> j < i)
                                 /\ k = IF j < i THEN j ELSE j - 1
  <2>1. CASE j < i
    BY <1>1, <1>2, <2>1
  <2>2. CASE j > i
    <3>1. t[j] = s[j - 1] /\ j - 1 \in DOMAIN s /\ ~(j - 1 < i)
      BY <1>1, <1>2, <2>2
    <3> QED BY <2>2, <3>1
  <2> QED BY <1>2, <1>7, <2>1, <2>2
<1>8. Sorted(t)
  <2>1. ASSUME NEW j \in DOMAIN t PROVE Piece(t[j])
    BY <1>2, <1>3, <1>7
  <2>2. ASSUME NEW j \in DOMAIN t, NEW k \in DOMAIN t, j < k
        PROVE  End(t[j]) <= t[k].offset_orig
    <3>1. CASE j = i
      <4>1. PICK n \in DOMAIN s : t[k] = s[n] /\ ~(n < i)
        BY <1>2, <1>7, <2>2, <3>1
      <4> QED BY <1>2, <1>6, <3>1, <4>1
    <3>2. CASE k = i
      <4>1. PICK n \in DOMAIN s : t[j] = s[n] /\ n < i
        BY <1>2, <1>7, <2>2, <3>2
      <4> QED BY <1>2, <1>6, <3>2, <4>1
    <3>3. CASE j # i /\ k # i
      <4>1. PICK a \in DOMAIN s : t[j] = s[a] /\ a = IF j < i THEN j ELSE j - 1
        BY <1>7, <3>3
      <4>2. PICK b \in DOMAIN s : t[k] = s[b] /\ b = IF k < i THEN k ELSE k - 1
        BY <1>7, <3>3
      <4>3. a < b
        BY <1>2, <2>2, <3>3, <4>1, <4>2
      <4> QED BY <1>4, <4>1, <4>2, <4>3
    <3> QED BY <3>1, <3>2, <3>3
  <2> QED BY <2>1, <2>2 DEF Sorted, Before
<1>9. \A u : ClearOf(u, s) /\ Clear(u, m) => ClearOf(u, t)
  BY <1>2, <1>7 DEF ClearOf
<1>10. NoGaps(s) /\ Gap(m) = 0 => NoGaps(t)
  BY <1>2, <1>7 DEF NoGaps
<1>11. ASSUME NEW x \in Nat, Covers(s, x) \/ Owns(m, x)
       PROVE  Covers(t, x)
  <2>1. CASE Owns(m, x)
    BY <1>2, <2>1 DEF Covers
  <2>2. ASSUME NEW j \in DOMAIN s, Owns(s[j], x)
        PROVE  Covers(t, x)
    <3>1. CASE j < i
      <4>1. t[j] = s[j] /\ j \in DOMAIN t
        BY <1>1, <1>2, <3>1
      <4> QED BY <2>2, <4>1 DEF Covers
    <3>2. CASE j >= i
      <4>1. t[j + 1] = s[j + 1 - 1] /\ j + 1 \in DOMAIN t /\ j + 1 - 1 = j
        BY <1>1, <1>2, <3>2
      <4> QED BY <2>2, <4>1 DEF Covers
    <3> QED BY <1>2, <3>1, <3>2
  <2> QED BY <1>11, <2>1, <2>2 DEF Covers
<1>12. ASSUME Loose(s, {}), NEW j \in 1 .. Len(t) - 1, j \notin {i - 1, i}
       PROVE  ~Adjacent(t[j], t[j + 1])
  <2>1. CASE j < i - 1
    <3>1. t[j] = s[j] /\ t[j + 1] = s[j + 1] /\ j \in 1 .. Len(s) - 1
      BY <1>1, <1>2, <2>1
    <3> QED BY <1>12, <3>1 DEF Loose
  <2>2. CASE j > i
    <3>1. /\ t[j] = s[j - 1] /\ t[j + 1] = s[j + 1 - 1] /\ j + 1 - 1 = j - 1 + 1
          /\ j - 1 \in 1 .. Len(s) - 1
      BY <1>1, <1>2, <2>2
    <3> QED BY <1>12, <3>1 DEF Loose
  <2>3. j # i - 1 /\ j # i /\ j \in Int /\ i \in Int
    BY <1>1, <1>2, <1>12
  <2> QED BY <2>1, <2>2, <2>3
<1>13. Loose(s, {}) => Loose(t, {i - 1, i})
  BY <1>12 DEF Loose
<1> QED BY <1>1, <1>8, <1>9, <1>10, <1>11, <1>13 DEF t

LEMMA InsertedFacts ==
  ASSUME free \in Seq(Mem), Sorted(free), NEW i \in DOMAIN free,
         NEW m, Piece(m), ClearOf(m, free),
         Behind(free[i], m), \A j \in DOMAIN free : j < i => ~Behind(free[j], m)
  PROVE  /\ Inserted(i, m) \in Seq(Mem) /\ Len(Inserted(i, m)) <= Len(free) + 1
         /\ Sorted(Inserted(i, m))
         /\ \A u : Piece(u) /\ ClearOf(u, free) /\ Clear(u, m) => ClearOf(u, Inserted(i, m))
         /\ NoGaps(free) /\ Gap(m) = 0 =>
              /\ NoGaps(Inserted(i, m))
              /\ \A x \in Nat : Covers(free, x) \/ Owns(m, x) => Covers(Inserted(i, m), x)
              /\ Loose(free, {}) => Loose(Inserted(i, m), {})
<1> DEFINE s == InsertAt(free, i, m)
           k == IF MergesBefore(s, i) THEN i - 1 ELSE i
           t == MergeBefore(s, i)
           v == MergeAfter(t, k)
<1>1. Inserted(i, m) = v
  BY DEF Inserted
<1>2. /\ s \in Seq(Mem) /\ Len(s) = Len(free) + 1 /\ Sorted(s)
      /\ \A u : ClearOf(u, free) /\ Clear(u, m) => ClearOf(u, s)
      /\ NoGaps(free) /\ Gap(m) = 0 => NoGaps(s)
      /\ \A x \in Nat : Covers(free, x) \/ Owns(m, x) => Covers(s, x)
      /\ Loose(free, {}) => Loose(s, {i - 1, i})
  BY PlaceFacts
<1>3. i \in 1 .. Len(s) /\ Len(free) \in Nat
  BY <1>2
<1> HIDE DEF s
<1>4. /\ Keeps(s, t) /\ k \in 1 .. Len(t)
      /\ NoGaps(s) /\ Loose(s, {i - 1, i}) => Loose(t, {k})
  BY <1>2, <1>3, MergeBeforeFacts
<1> HIDE DEF k, t
<1>5. t \in Seq(Mem) /\ Sorted(t) /\ Len(t) \in Nat
  BY <1>4 DEF Keeps
<1>6. Keeps(t, v) /\ (NoGaps(t) /\ Loose(t, {k}) => Loose(v, {}))
  BY <1>4, <1>5, MergeAfterFacts
<1> HIDE DEF v
<1>7. Keeps(s, v)
  BY <1>2, <1>4, <1>5, <1>6, KeepsTrans
<1>8. v \in Seq(Mem) /\ Len(v) <= Len(free) + 1 /\ Sorted(v)
  BY <1>2, <1>7 DEF Keeps
<1>9. \A u : Piece(u) /\ ClearOf(u, free) /\ Clear(u, m) => ClearOf(u, v)
  BY <1>2, <1>7 DEF Keeps
<1>10. ASSUME NoGaps(free), Gap(m) = 0
       PROVE  /\ NoGaps(v) /\ (Loose(free, {}) => Loose(v, {}))
              /\ \A x \in Nat : Covers(free, x) \/ Owns(m, x) => Covers(v, x)
  <2>1. NoGaps(s) /\ NoGaps(t)
    BY <1>2, <1>4, <1>10 DEF Keeps
  <2>2. NoGaps(v) /\ \A x \in Nat : Covers(s, x) => Covers(v, x)
    BY <1>7, <2>1 DEF Keeps
  <2>3. Loose(free, {}) => Loose(v, {})
    BY <1>2, <1>4, <1>6, <2>1
  <2> QED BY <1>2, <2>2, <2>3
<1> QED BY <1>1, <1>8, <1>9, <1>10
-----------------------------------------------------------------------------
(***************************************************************************)
(* Every call keeps the invariant.                                         *)
(***************************************************************************)
Inv == HeapTypeOK /\ HeapShape /\ Tiled /\ Pool

LEMMA HeapInitInv == HeapInit => Inv
<1> SUFFICES ASSUME HeapInit PROVE Inv
  OBVIOUS
<1> USE DEF HeapInit
<1>0. HeapSize \in Nat \ {0} /\ PoolSize \in Nat \ {0}
  BY VkAllocAssumption
<1>1. /\ Whole \in Mem /\ Whole.offset = 0 /\ Whole.offset_orig = 0 /\ Whole.size = HeapSize
  BY <1>0 DEF Whole, Mem
<1>2. End(Whole) = HeapSize /\ Gap(Whole) = 0
  BY <1>0, <1>1 DEF End, Gap
<1>3. Piece(Whole)
  BY <1>0, <1>1, <1>2 DEF Piece
<1> HIDE DEF Whole
<1> DEFINE s == <<Whole>>
<1>4. s \in Seq(Mem) /\ Len(s) = 1 /\ DOMAIN s = {1} /\ s[1] = Whole
  BY <1>1
<1>5. free = s
  OBVIOUS
<1> HIDE DEF s
<1>6. Sorted(s) /\ NoGaps(s) /\ Loose(s, {})
  BY <1>2, <1>3, <1>4 DEF Sorted, NoGaps, Loose
<1>7. \A x \in 0 .. HeapSize - 1 : Covers(s, x)
  <2>1. \A x \in 0 .. HeapSize - 1 : Owns(Whole, x)
    BY <1>0, <1>1, <1>2 DEF Owns
  <2> QED BY <1>4, <2>1 DEF Covers
<1>8. HeapTypeOK
  <2>1. unused \in Nat /\ rss \in Int /\ vmsize \in 0 .. HeapSize
    BY <1>0
  <2>2. free \in Seq(Mem)
    BY <1>4, <1>5
  <2> QED BY <2>1, <2>2 DEF HeapTypeOK
<1>9. HeapShape /\ Tiled
  BY <1>5, <1>6, <1>7 DEF HeapShape, Tiled
<1>10. Pool
  <2>1. IsFiniteSet({}) /\ Cardinality({}) = 0
    BY FS_EmptySet
  <2> QED BY <1>0, <1>4, <1>5, <2>1 DEF Pool, Complete
<1> QED BY <1>8, <1>9, <1>10 DEF Inv

LEMMA NukeInv == Nuke => Inv'
<1>1. (HeapInit => Inv)'
  BY HeapInitInv, PTL
<1>2. Nuke => HeapInit'
  BY DEF Nuke, HeapInit
<1> QED BY <1>1, <1>2

LEMMA InvTypes ==
  ASSUME Inv
  PROVE  /\ free \in Seq(Mem) /\ Len(free) \in Nat /\ DOMAIN free = 1 .. Len(free)
         /\ Sorted(free) /\ \A i \in DOMAIN free : Piece(free[i])
         /\ \A m \in used : Piece(m) /\ ClearOf(m, free)
         /\ IsFiniteSet(used) /\ Cardinality(used) \in Nat
<1>1. free \in Seq(Mem)
  BY DEF Inv, HeapTypeOK
<1>2. IsFiniteSet(used) /\ Cardinality(used) \in Nat
  BY FS_CardinalityType DEF Inv, Pool
<1> QED BY <1>1, <1>2 DEF Inv, HeapShape, Sorted

\* An entry that is clear of the others can be handed out ...
LEMMA HandOutFacts ==
  ASSUME Inv, NEW m, Piece(m), HandOut(m),
         free' \in Seq(Mem), Sorted(free'), ClearOf(m, free'),
         \A u \in used : Clear(u, m) /\ ClearOf(u, free')
  PROVE  /\ rss' \in Int /\ vmsize' \in 0 .. HeapSize /\ used' \subseteq Mem
         /\ HeapShape'
         /\ IsFiniteSet(used') /\ Cardinality(used') = Cardinality(used) + 1
<1>1. /\ used' = used \cup {m} /\ rss' = rss + m.size
      /\ vmsize' = IF End(m) > vmsize THEN End(m) ELSE vmsize
  BY DEF HandOut
<1>2. /\ m \in Mem /\ m.size \in Nat /\ End(m) \in Nat /\ End(m) <= HeapSize
      /\ m.offset_orig < End(m) /\ m.offset_orig \in Nat
  BY PieceFacts
<1>3. vmsize \in 0 .. HeapSize /\ rss \in Int /\ used \subseteq Mem /\ HeapSize \in Nat
  BY VkAllocAssumption DEF Inv, HeapTypeOK
<1>4. rss' \in Int /\ vmsize' \in 0 .. HeapSize /\ used' \subseteq Mem
      /\ vmsize <= vmsize' /\ End(m) <= vmsize'
  BY <1>1, <1>2, <1>3
<1>5. m \notin used
  <2>1. ~Clear(m, m)
    BY <1>2 DEF Clear, Before
  <2> QED BY <2>1
<1>6. IsFiniteSet(used') /\ Cardinality(used') = Cardinality(used) + 1
  BY <1>1, <1>5, InvTypes, FS_AddElement
<1>7. \A u \in used' : Piece(u) /\ ClearOf(u, free')
  BY <1>1, InvTypes
<1>8. \A u, w \in used' : u = w \/ Clear(u, w)
  BY <1>1 DEF Inv, HeapShape, Clear
<1>9. \A u \in used' : End(u) <= vmsize'
  <2>1. SUFFICES ASSUME NEW u \in used, End(u) \in Nat
                 PROVE  End(u) <= vmsize'
    BY <1>1, <1>4, InvTypes, PieceFacts
  <2>2. End(u) <= vmsize
    BY DEF Inv, HeapShape
  <2> QED BY <1>3, <1>4, <2>1, <2>2
<1>10. HeapShape'
  BY <1>7, <1>8, <1>9 DEF HeapShape
<1> QED BY <1>4, <1>6, <1>10

\* ... and one that was handed out be taken back.
LEMMA TakeBackFacts ==
  ASSUME Inv, NEW m, TakeBack(m)
  PROVE  /\ Piece(m) /\ ClearOf(m, free) /\ m \in used
         /\ rss' \in Int /\ vmsize' \in 0 .. HeapSize /\ used' \subseteq Mem
         /\ \A u \in used' : u \in used /\ Piece(u) /\ End(u) <= vmsize' /\ ClearOf(u, free)
                                /\ Clear(u, m)
         /\ \A u, w \in used' : u = w \/ Clear(u, w)
         /\ IsFiniteSet(used') /\ Cardinality(used') = Cardinality(used) - 1
<1>1. m \in used /\ used' = used \ {m} /\ rss' = rss - m.size /\ vmsize' = vmsize
  BY DEF TakeBack
<1>2. Piece(m) /\ ClearOf(m, free)
  BY <1>1, InvTypes
<1>3. rss' \in Int /\ vmsize' \in 0 .. HeapSize /\ used' \subseteq Mem
  <2>1. m.size \in Nat
    BY <1>2, PieceFacts
  <2> QED BY <1>1, <2>1 DEF Inv, HeapTypeOK
<1>4. IsFiniteSet(used') /\ Cardinality(used') = Cardinality(used) - 1
  BY <1>1, InvTypes, FS_RemoveElement
<1>5. \A u \in used' : u \in used /\ Piece(u) /\ End(u) <= vmsize' /\ ClearOf(u, free)
                          /\ Clear(u, m)
  BY <1>1 DEF Inv, HeapShape
<1>6. \A u, w \in used' : u = w \/ Clear(u, w)
  BY <1>1 DEF Inv, HeapShape
<1> QED BY <1>1, <1>2, <1>3, <1>4, <1>5, <1>6

LEMMA InsertInv ==
  ASSUME Inv, NEW m \in used, Insert(m)
  PROVE  Inv'
<1>1. /\ Piece(m) /\ ClearOf(m, free) /\ m \in used
      /\ rss' \in Int /\ vmsize' \in 0 .. HeapSize /\ used' \subseteq Mem
      /\ \A u \in used' : u \in used /\ Piece(u) /\ End(u) <= vmsize' /\ ClearOf(u, free)
                             /\ Clear(u, m)
      /\ \A u, w \in used' : u = w \/ Clear(u, w)
      /\ IsFiniteSet(used') /\ Cardinality(used') = Cardinality(used) - 1
  BY TakeBackFacts DEF Insert
<1>2. PICK i \in DOMAIN free : /\ Behind(free[i], m)
                               /\ \A j \in DOMAIN free : j < i => ~Behind(free[j], m)
                               /\ free' = Inserted(i, m)
                               /\ unused' = unused + Len(free) + 1 - Len(free')
  BY DEF Insert
<1>3. /\ free' \in Seq(Mem) /\ Len(free') <= Len(free) + 1 /\ Sorted(free')
      /\ \A u : Piece(u) /\ ClearOf(u, free) /\ Clear(u, m) => ClearOf(u, free')
      /\ NoGaps(free) /\ Gap(m) = 0 =>
           /\ NoGaps(free')
           /\ \A x \in Nat : Covers(free, x) \/ Owns(m, x) => Covers(free', x)
           /\ Loose(free, {}) => Loose(free', {})
  <2>1. free \in Seq(Mem) /\ Sorted(free)
    BY InvTypes
  <2> QED BY <1>1, <1>2, <2>1, InsertedFacts
<1>4. UNCHANGED <<gaps, lost>> /\ used' = used \ {m}
  BY DEF Insert, TakeBack
<1>5. Len(free) \in Nat /\ Len(free') \in Nat /\ unused \in Nat
  BY <1>3, InvTypes DEF Inv, HeapTypeOK
<1>6. HeapTypeOK'
  BY <1>1, <1>2, <1>3, <1>4, <1>5 DEF Inv, HeapTypeOK
<1>7. HeapShape'
  BY <1>1, <1>3 DEF HeapShape
<1>8. Tiled'
  <2>1. SUFFICES ASSUME ~gaps
                 PROVE  /\ NoGaps(free') /\ \A u \in used' : Gap(u) = 0
                        /\ Loose(free', {})
                        /\ ~lost => \A x \in 0 .. HeapSize - 1 :
                                      Covers(free', x) \/ \E u \in used' : Owns(u, x)
    BY <1>4 DEF Tiled
  <2>2. /\ NoGaps(free) /\ \A u \in used : Gap(u) = 0
        /\ Loose(free, {})
        /\ ~lost => \A x \in 0 .. HeapSize - 1 : Covers(free, x) \/ \E u \in used : Owns(u, x)
    BY <2>1 DEF Inv, Tiled
  <2>3. /\ NoGaps(free') /\ Loose(free', {})
        /\ \A x \in Nat : Covers(free, x) \/ Owns(m, x) => Covers(free', x)
    BY <1>3, <2>2
  <2>4. ASSUME ~lost, NEW x \in 0 .. HeapSize - 1
        PROVE  Covers(free', x) \/ \E u \in used' : Owns(u, x)
    <3>1. x \in Nat
      BY VkAllocAssumption
    <3>2. Covers(free, x) \/ \E u \in used : Owns(u, x)
      BY <2>2, <2>4
    <3> QED BY <1>4, <2>3, <3>1, <3>2
  <2> QED BY <1>1, <2>2, <2>3, <2>4
<1>9. Pool'
  <2>1. Cardinality(used) \in Nat
    BY InvTypes
  <2>2. lost \/ Len(free) + Cardinality(used) + unused = PoolSize
    BY DEF Inv, Pool, Complete
  <2> QED BY <1>1, <1>2, <1>4, <1>5, <2>1, <2>2 DEF Pool, Complete
<1> QED BY <1>6, <1>7, <1>8, <1>9 DEF Inv

LEMMA InsertOnlyInv ==
  ASSUME Inv, NEW m \in used, InsertOnly(m)
  PROVE  Inv'
<1>1. /\ Piece(m) /\ ClearOf(m, free) /\ m \in used
      /\ rss' \in Int /\ vmsize' \in 0 .. HeapSize /\ used' \subseteq Mem
      /\ \A u \in used' : u \in used /\ Piece(u) /\ End(u) <= vmsize' /\ ClearOf(u, free)
                             /\ Clear(u, m)
      /\ \A u, w \in used' : u = w \/ Clear(u, w)
      /\ IsFiniteSet(used') /\ Cardinality(used') = Cardinality(used) - 1
  BY TakeBackFacts DEF InsertOnly
<1>2. /\ free = << >> /\ free' = <<m>> /\ UNCHANGED <<unused, gaps, lost>>
      /\ used' = used \ {m}
  BY DEF InsertOnly, TakeBack
<1> DEFINE s == <<m>>
<1>3. s \in Seq(Mem) /\ Len(s) = 1 /\ DOMAIN s = {1} /\ s[1] = m
  BY <1>1, PieceFacts
<1>4. free' = s
  BY <1>2
<1> HIDE DEF s
<1>5. Sorted(s) /\ Loose(s, {})
  BY <1>1, <1>3 DEF Sorted, Loose
<1>6. HeapTypeOK'
  BY <1>1, <1>2, <1>3, <1>4 DEF Inv, HeapTypeOK
<1>7. HeapShape'
  <2>1. \A u \in used' : ClearOf(u, s)
    BY <1>1, <1>3 DEF ClearOf
  <2> QED BY <1>1, <1>4, <1>5, <2>1 DEF HeapShape
<1>8. Tiled'
  <2>1. SUFFICES ASSUME ~gaps
                 PROVE  /\ NoGaps(s) /\ \A u \in used' : Gap(u) = 0
                        /\ Loose(s, {})
                        /\ ~lost => \A x \in 0 .. HeapSize - 1 :
                                      Covers(s, x) \/ \E u \in used' : Owns(u, x)
    BY <1>2, <1>4 DEF Tiled
  <2>2. /\ \A u \in used : Gap(u) = 0
        /\ ~lost => \A x \in 0 .. HeapSize - 1 : Covers(free, x) \/ \E u \in used : Owns(u, x)
    BY <2>1 DEF Inv, Tiled
  <2>3. \A x : ~Covers(free, x) /\ (Owns(m, x) => Covers(s, x))
    BY <1>2, <1>3 DEF Covers
  <2>4. NoGaps(s)
    BY <1>1, <1>3, <2>2 DEF NoGaps
  <2> QED BY <1>1, <1>2, <1>5, <2>2, <2>3, <2>4
<1>9. Pool'
  <2>1. Cardinality(used) \in Nat /\ Len(free) = 0 /\ unused \in Nat /\ PoolSize \in Nat
    BY <1>2, InvTypes, VkAllocAssumption DEF Inv, HeapTypeOK
  <2>2. lost \/ Len(free) + Cardinality(used) + unused = PoolSize
    BY DEF Inv, Pool, Complete
  <2> QED BY <1>1, <1>2, <1>3, <1>4, <2>1, <2>2 DEF Pool, Complete
<1> QED BY <1>6, <1>7, <1>8, <1>9 DEF Inv

LEMMA LoseInv ==
  ASSUME Inv, NEW m \in used, Lose(m)
  PROVE  Inv'
<1>1. /\ rss' \in Int /\ vmsize' \in 0 .. HeapSize /\ used' \subseteq Mem
      /\ \A u \in used' : u \in used /\ Piece(u) /\ End(u) <= vmsize' /\ ClearOf(u, free)
                             /\ Clear(u, m)
      /\ \A u, w \in used' : u = w \/ Clear(u, w)
      /\ IsFiniteSet(used')
  BY TakeBackFacts DEF Lose
<1>2. UNCHANGED <<free, unused, gaps>> /\ lost' = TRUE
  BY DEF Lose, TakeBack
<1>3. HeapTypeOK'
  BY <1>1, <1>2 DEF Inv, HeapTypeOK
<1>4. HeapShape' /\ Tiled' /\ Pool'
  BY <1>1, <1>2 DEF Inv, HeapShape, Tiled, Pool
<1> QED BY <1>3, <1>4 DEF Inv

\* An entry of the free list is handed out as it is ...
LEMMA ReplaceInv ==
  ASSUME Inv, NEW r \in Requests, Replace(r)
  PROVE  Inv'
<1>1. PICK i \in DOMAIN free : free' = RemoveAt(free, i) /\ HandOut(free[i])
  BY DEF Replace
<1>2. UNCHANGED <<unused, gaps, lost>>
  BY DEF Replace
<1>3. PICK m : m = free[i]
  OBVIOUS
<1>4. Piece(m) /\ HandOut(m)
  BY <1>1, <1>3, InvTypes
<1>5. PICK t : t = free'
  OBVIOUS
<1>6. t \in Seq(Mem) /\ Len(t) = Len(free) - 1
      /\ \A j \in 1 .. Len(free) - 1 : t[j] = IF j < i THEN free[j] ELSE free[j + 1]
  BY <1>1, <1>5, InvTypes, RemoveAtFacts
<1>7. /\ Len(free) \in Nat /\ i \in 1 .. Len(free) /\ DOMAIN free = 1 .. Len(free)
      /\ DOMAIN t = 1 .. Len(free) - 1
  BY <1>6, InvTypes
<1>8. \A j, k \in DOMAIN free : j < k => End(free[j]) <= free[k].offset_orig
  BY InvTypes DEF Sorted, Before
<1>9. ASSUME NEW j \in DOMAIN t
      PROVE  \E k \in DOMAIN free : k # i /\ k = (IF j < i THEN j ELSE j + 1) /\ t[j] = free[k]
  <2>1. CASE j < i
    BY <1>6, <1>7, <2>1
  <2>2. CASE j >= i
    BY <1>6, <1>7, <2>2
  <2> QED BY <1>7, <2>1, <2>2
<1>10. Sorted(t)
  <2>1. \A j \in DOMAIN t : Piece(t[j])
    BY <1>9, InvTypes
  <2>2. ASSUME NEW j \in DOMAIN t, NEW k \in DOMAIN t, j < k
        PROVE  End(t[j]) <= t[k].offset_orig
    <3>1. PICK a \in DOMAIN free : a = (IF j < i THEN j ELSE j + 1) /\ t[j] = free[a]
      BY <1>9
    <3>2. PICK b \in DOMAIN free : b = (IF k < i THEN k ELSE k + 1) /\ t[k] = free[b]
      BY <1>9
    <3>3. a < b
      BY <1>7, <2>2, <3>1, <3>2
    <3> QED BY <1>8, <3>1, <3>2, <3>3
  <2> QED BY <2>1, <2>2 DEF Sorted, Before
<1>11. ClearOf(m, t)
  <2>1. ASSUME NEW j \in DOMAIN t PROVE Clear(m, t[j])
    <3>1. PICK k \in DOMAIN free : k # i /\ t[j] = free[k]
      BY <1>9
    <3>2. k < i \/ i < k
      BY <1>7, <3>1
    <3> QED BY <1>3, <1>7, <1>8, <3>1, <3>2 DEF Clear, Before
  <2> QED BY <2>1 DEF ClearOf
<1>12. \A u \in used : Clear(u, m) /\ ClearOf(u, t)
  BY <1>3, <1>9, InvTypes DEF ClearOf
<1>13. /\ rss' \in Int /\ vmsize' \in 0 .. HeapSize /\ used' \subseteq Mem
       /\ HeapShape'
       /\ IsFiniteSet(used') /\ Cardinality(used') = Cardinality(used) + 1
  BY <1>4, <1>5, <1>6, <1>10, <1>11, <1>12, HandOutFacts
<1>14. HeapTypeOK'
  BY <1>2, <1>5, <1>6, <1>13 DEF Inv, HeapTypeOK
<1>15. Tiled'
  <2>1. SUFFICES ASSUME ~gaps
                 PROVE  /\ NoGaps(t) /\ \A u \in used' : Gap(u) = 0
                        /\ Loose(t, {})
                        /\ ~lost => \A x \in 0 .. HeapSize - 1 :
                                      Covers(t, x) \/ \E u \in used' : Owns(u, x)
    BY <1>2, <1>5 DEF Tiled
  <2>2. /\ NoGaps(free) /\ \A u \in used : Gap(u) = 0
        /\ Loose(free, {})
        /\ ~lost => \A x \in 0 .. HeapSize - 1 : Covers(free, x) \/ \E u \in used : Owns(u, x)
    BY <2>1 DEF Inv, Tiled
  <2>3. used' = used \cup {m}
    BY <1>4 DEF HandOut
  <2>4. NoGaps(t) /\ \A u \in used' : Gap(u) = 0
    BY <1>3, <1>9, <2>2, <2>3 DEF NoGaps
  <2>5. ASSUME NEW j \in 1 .. Len(t) - 1
        PROVE  ~Adjacent(t[j], t[j + 1])
    <3>1. CASE j + 1 < i
      <4>1. t[j] = free[j] /\ t[j + 1] = free[j + 1] /\ j \in 1 .. Len(free) - 1
        BY <1>6, <1>7, <3>1
      <4> QED BY <2>2, <4>1 DEF Loose
    <3>2. CASE j + 1 = i
      <4>1. t[j] = free[j] /\ t[j + 1] = free[j + 1 + 1] /\ j \in DOMAIN free
            /\ j + 1 + 1 \in DOMAIN free /\ j < i /\ i < j + 1 + 1
        BY <1>6, <1>7, <3>2
      <4>2. End(free[j]) <= free[i].offset_orig /\ End(free[i]) <= free[j + 1 + 1].offset_orig
        BY <1>8, <4>1
      <4>3. m.offset_orig < End(m) /\ m.offset_orig \in Nat /\ End(m) \in Nat
        BY <1>4, PieceFacts
      <4>4. End(free[j]) \in Nat /\ free[j + 1 + 1].offset_orig \in Nat
        BY <4>1, InvTypes, PieceFacts
      <4> QED BY <1>3, <4>1, <4>2, <4>3, <4>4 DEF Adjacent
    <3>3. CASE j >= i
      <4>1. t[j] = free[j + 1] /\ t[j + 1] = free[j + 1 + 1] /\ j + 1 \in 1 .. Len(free) - 1
        BY <1>6, <1>7, <3>3
      <4> QED BY <2>2, <4>1 DEF Loose
    <3>4. j \in Int /\ i \in Int
      BY <1>7
    <3> QED BY <3>1, <3>2, <3>3, <3>4
  <2>6. ASSUME NEW x, NEW k \in DOMAIN free, k # i, Owns(free[k], x)
        PROVE  Covers(t, x)
    <3>1. CASE k < i
      <4>1. t[k] = free[k] /\ k \in DOMAIN t
        BY <1>6, <1>7, <3>1
      <4> QED BY <2>6, <4>1 DEF Covers
    <3>2. CASE k > i
      <4>1. t[k - 1] = free[k - 1 + 1] /\ k - 1 \in DOMAIN t /\ k - 1 + 1 = k
        BY <1>6, <1>7, <3>2
      <4> QED BY <2>6, <4>1 DEF Covers
    <3> QED BY <1>7, <2>6, <3>1, <3>2
  <2>7. \A x : Covers(free, x) => Covers(t, x) \/ Owns(m, x)
    BY <1>3, <2>6 DEF Covers
  <2>8. Loose(t, {})
    BY <2>5 DEF Loose
  <2> QED BY <2>2, <2>3, <2>4, <2>7, <2>8
<1>16. Pool'
  <2>1. Cardinality(used) \in Nat /\ unused \in Nat
    BY InvTypes DEF Inv, HeapTypeOK
  <2>2. lost \/ Len(free) + Cardinality(used) + unused = PoolSize
    BY DEF Inv, Pool, Complete
  <2> QED BY <1>2, <1>5, <1>6, <1>7, <1>13, <2>1, <2>2 DEF Pool, Complete
<1> QED BY <1>13, <1>14, <1>15, <1>16 DEF Inv

LEMMA RequestFacts ==
  ASSUME NEW r \in Requests
  PROVE  r.size \in Nat /\ r.size > 0 /\ r.alignment \in Nat \ {0}
<1>1. r \in [size : Nat \ {0}, alignment : Nat \ {0}]
  BY VkAllocAssumption
<1> QED BY <1>1

\* What is carved from the front of an entry and what is left share its bytes.
LEMMA CarvedFacts ==
  ASSUME NEW r \in Requests, NEW l, Piece(l), Larger(l, r)
  PROVE  /\ Piece(Carved(l, r)) /\ Carved(l, r).offset_orig = l.offset_orig
         /\ Carved(l, r).size = r.size /\ Carved(l, r).offset % r.alignment = 0
         /\ Piece(Rest(l, Carved(l, r))) /\ Gap(Rest(l, Carved(l, r))) = 0
         /\ Rest(l, Carved(l, r)).offset_orig = End(Carved(l, r))
         /\ End(Rest(l, Carved(l, r))) <= End(l)
         /\ Gap(l) = 0 => End(Rest(l, Carved(l, r))) = End(l)
<1> DEFINE x == Aligned(l.offset_orig, r.alignment)
           m == Carved(l, r)
           e == Rest(l, m)
<1>1. r.size \in Nat /\ r.size > 0 /\ r.alignment \in Nat \ {0}
  BY RequestFacts
<1>2. /\ l.offset \in Nat /\ l.offset_orig \in Nat /\ l.size \in Nat
      /\ l.offset_orig <= l.offset /\ End(l) = l.offset + l.size /\ End(l) <= HeapSize
      /\ Gap(l) = l.offset - l.offset_orig
  BY PieceFacts
<1>3. /\ x \in Nat /\ x % r.alignment = 0 /\ l.offset_orig <= x /\ x < l.offset_orig + r.alignment
      /\ l.offset_orig % r.alignment = 0 => x = l.offset_orig
  BY <1>1, <1>2, AlignedFacts
<1>4. m = [offset |-> x, offset_orig |-> l.offset_orig, size |-> r.size]
  BY DEF Carved
<1>5. e = [offset |-> End(m), offset_orig |-> End(m), size |-> l.offset_orig + l.size - End(m)]
  BY DEF Rest
<1> HIDE DEF x, m, e
<1>6. /\ m \in Mem /\ m.offset = x /\ m.offset_orig = l.offset_orig /\ m.size = r.size
      /\ End(m) = x + r.size
  BY <1>1, <1>2, <1>3, <1>4 DEF Mem, End
<1>7. x + r.size < l.offset_orig + l.size
  <2>1. CASE l.size > r.size /\ l.offset_orig % r.alignment = 0
    BY <1>1, <1>2, <1>3, <2>1
  <2>2. CASE l.size > r.size + r.alignment
    BY <1>1, <1>2, <1>3, <2>2
  <2> QED BY <2>1, <2>2 DEF Larger
<1>8. l.offset_orig + l.size <= End(l) /\ HeapSize \in Nat
  BY <1>2, VkAllocAssumption
<1>9. End(m) \in Nat /\ End(m) <= HeapSize
  BY <1>1, <1>2, <1>3, <1>6, <1>7, <1>8
<1>10. Piece(m)
  BY <1>1, <1>3, <1>6, <1>9 DEF Piece
<1>11. l.offset_orig + l.size - End(m) \in Nat /\ l.offset_orig + l.size - End(m) > 0
  BY <1>1, <1>2, <1>3, <1>6, <1>7
<1>12. /\ e \in Mem /\ e.offset = End(m) /\ e.offset_orig = End(m)
       /\ e.size = l.offset_orig + l.size - End(m) /\ e.size > 0
  BY <1>5, <1>9, <1>11 DEF Mem
<1>13. End(e) = l.offset_orig + l.size /\ Gap(e) = 0
  BY <1>2, <1>9, <1>12 DEF End, Gap
<1>14. End(e) <= End(l) /\ End(e) <= HeapSize /\ (Gap(l) = 0 => End(e) = End(l))
  BY <1>2, <1>8, <1>13
<1>15. Piece(e)
  BY <1>9, <1>12, <1>14 DEF Piece
<1> QED BY <1>3, <1>6, <1>10, <1>12, <1>13, <1>14, <1>15 DEF m, e

\* ... or its front is.
LEMMA SplitInv ==
  ASSUME Inv, NEW r \in Requests, Split(r)
  PROVE  Inv'
<1>1. PICK i \in DOMAIN free :
        /\ Larger(free[i], r)
        /\ free' = ReplaceAt(free, i, Rest(free[i], Carved(free[i], r)))
        /\ HandOut(Carved(free[i], r))
        /\ gaps' = (gaps \/ Gap(Carved(free[i], r)) > 0)
  BY DEF Split, Chosen
<1>2. unused > 0 /\ unused' = unused - 1 /\ lost' = lost
  BY DEF Split, Spare
<1>3. PICK l : l = free[i]
  OBVIOUS
<1>4. Piece(l)
  BY <1>3, InvTypes
<1>5. PICK m : m = Carved(l, r)
  OBVIOUS
<1>6. PICK e : e = Rest(l, m)
  OBVIOUS
<1>7. /\ Piece(m) /\ m.offset_orig = l.offset_orig
      /\ Piece(e) /\ Gap(e) = 0 /\ e.offset_orig = End(m) /\ End(e) <= End(l)
      /\ Gap(l) = 0 => End(e) = End(l)
  BY <1>1, <1>3, <1>4, <1>5, <1>6, CarvedFacts
<1>8. HandOut(m) /\ gaps' = (gaps \/ Gap(m) > 0) /\ free' = ReplaceAt(free, i, e)
  BY <1>1, <1>3, <1>5, <1>6
<1>9. PICK t : t = free'
  OBVIOUS
<1>10. /\ t \in Seq(Mem) /\ Len(t) = Len(free)
       /\ \A j \in 1 .. Len(free) : t[j] = IF j = i THEN e ELSE free[j]
  <2>1. e \in Mem
    BY <1>7, PieceFacts
  <2>2. free \in Seq(Mem) /\ t = ReplaceAt(free, i, e)
    BY <1>8, <1>9, InvTypes
  <2> QED BY <2>1, <2>2 DEF ReplaceAt
<1>11. /\ Len(free) \in Nat /\ i \in 1 .. Len(free) /\ DOMAIN free = 1 .. Len(free)
       /\ DOMAIN t = 1 .. Len(free) /\ t[i] = e /\ i \in DOMAIN t
  BY <1>10, InvTypes
<1>12. \A j, k \in DOMAIN free : j < k => End(free[j]) <= free[k].offset_orig
  BY InvTypes DEF Sorted, Before
<1>13. /\ l.offset_orig \in Nat /\ End(l) \in Nat /\ l.offset_orig < End(l)
       /\ m.offset_orig \in Nat /\ End(m) \in Nat /\ m.offset_orig < End(m) /\ Gap(m) \in Nat
       /\ e.offset_orig \in Nat /\ End(e) \in Nat /\ e.offset_orig < End(e)
  <2>1. Gap(m) \in Nat
    BY <1>7, PieceFacts
  <2> QED BY <1>4, <1>7, <2>1, PieceFacts
<1>14. \A j \in DOMAIN t : j # i => t[j] = free[j]
  BY <1>10, <1>11
<1>15. \A j \in DOMAIN free : End(free[j]) \in Nat /\ free[j].offset_orig \in Nat
  BY InvTypes, PieceFacts
<1>16. ASSUME NEW j \in DOMAIN t, j # i
       PROVE  IF j < i THEN End(t[j]) <= m.offset_orig /\ End(t[j]) <= e.offset_orig
                       ELSE End(m) <= t[j].offset_orig /\ End(e) <= t[j].offset_orig
  <2>1. t[j] = free[j] /\ j \in DOMAIN free /\ End(free[j]) \in Nat
        /\ free[j].offset_orig \in Nat
    BY <1>11, <1>14, <1>15, <1>16
  <2>2. IF j < i THEN End(free[j]) <= l.offset_orig ELSE End(l) <= free[j].offset_orig
    BY <1>3, <1>11, <1>12, <1>16, <2>1
  <2> QED BY <1>7, <1>13, <2>1, <2>2
<1>17. Sorted(t)
  <2>1. \A j \in DOMAIN t : Piece(t[j])
    BY <1>7, <1>10, <1>11, InvTypes
  <2>2. ASSUME NEW j \in DOMAIN t, NEW k \in DOMAIN t, j < k
        PROVE  End(t[j]) <= t[k].offset_orig
    <3>1. CASE j = i
      BY <1>11, <1>16, <2>2, <3>1
    <3>2. CASE k = i
      BY <1>11, <1>16, <2>2, <3>2
    <3>3. CASE j # i /\ k # i
      BY <1>11, <1>12, <1>14, <2>2, <3>3
    <3> QED BY <3>1, <3>2, <3>3
  <2> QED BY <2>1, <2>2 DEF Sorted, Before
<1>18. ClearOf(m, t)
  <2>1. ASSUME NEW j \in DOMAIN t PROVE Clear(m, t[j])
    <3>1. CASE j = i
      BY <1>7, <1>11, <1>13, <3>1 DEF Clear, Before
    <3>2. CASE j # i
      BY <1>16, <3>2 DEF Clear, Before
    <3> QED BY <3>1, <3>2
  <2> QED BY <2>1 DEF ClearOf
<1>19. ASSUME NEW u \in used
       PROVE  Clear(u, m) /\ ClearOf(u, t)
  <2>1. Piece(u) /\ ClearOf(u, free)
    BY InvTypes
  <2>2. u.offset_orig \in Nat /\ End(u) \in Nat
    BY <2>1, PieceFacts
  <2>3. Clear(u, l)
    BY <1>3, <2>1 DEF ClearOf
  <2>4. Clear(u, m) /\ Clear(u, e)
    BY <1>7, <1>13, <2>2, <2>3 DEF Clear, Before
  <2>5. ClearOf(u, t)
    BY <1>11, <1>14, <2>1, <2>4 DEF ClearOf
  <2> QED BY <2>4, <2>5
<1>20. /\ rss' \in Int /\ vmsize' \in 0 .. HeapSize /\ used' \subseteq Mem
       /\ HeapShape'
       /\ IsFiniteSet(used') /\ Cardinality(used') = Cardinality(used) + 1
  BY <1>7, <1>8, <1>9, <1>10, <1>17, <1>18, <1>19, HandOutFacts
<1>21. HeapTypeOK'
  <2>1. unused' \in Nat
    BY <1>2 DEF Inv, HeapTypeOK
  <2>2. gaps' \in BOOLEAN
    BY <1>8
  <2>3. free' \in Seq(Mem)
    BY <1>9, <1>10
  <2> QED BY <1>2, <1>20, <2>1, <2>2, <2>3 DEF Inv, HeapTypeOK
<1>22. Tiled'
  <2>1. SUFFICES ASSUME ~gaps, Gap(m) = 0
                 PROVE  /\ NoGaps(t) /\ \A u \in used' : Gap(u) = 0
                        /\ Loose(t, {})
                        /\ ~lost => \A x \in 0 .. HeapSize - 1 :
                                      Covers(t, x) \/ \E u \in used' : Owns(u, x)
    <3>1. ~gaps' => ~gaps /\ Gap(m) = 0
      <4>1. Gap(m) > 0 \/ Gap(m) = 0
        BY <1>13
      <4> QED BY <1>8, <4>1
    <3> QED BY <1>2, <1>9, <3>1 DEF Tiled
  <2>2. /\ NoGaps(free) /\ \A u \in used : Gap(u) = 0
        /\ Loose(free, {})
        /\ ~lost => \A x \in 0 .. HeapSize - 1 : Covers(free, x) \/ \E u \in used : Owns(u, x)
    BY <2>1 DEF Inv, Tiled
  <2>3. used' = used \cup {m}
    BY <1>8 DEF HandOut
  <2>4. NoGaps(t) /\ \A u \in used' : Gap(u) = 0
    BY <1>7, <1>11, <1>14, <2>1, <2>2, <2>3 DEF NoGaps
  <2>5. Gap(l) = 0 /\ End(e) = End(l)
    BY <1>3, <1>7, <2>2 DEF NoGaps
  <2>6. ASSUME NEW j \in 1 .. Len(t) - 1
        PROVE  ~Adjacent(t[j], t[j + 1])
    <3>0. j \in DOMAIN t /\ j + 1 \in DOMAIN t /\ j + 1 # j /\ j \in Int
          /\ j \in 1 .. Len(free) - 1
      BY <1>10, <1>11
    <3>1. CASE j + 1 = i
      <4>1. t[j] = free[j] /\ t[j + 1] = e /\ End(free[j]) <= l.offset_orig
            /\ End(free[j]) \in Nat
        BY <1>3, <1>11, <1>12, <1>14, <1>15, <3>0, <3>1
      <4> QED BY <1>7, <1>13, <4>1 DEF Adjacent
    <3>2. CASE j = i
      <4>1. t[j] = e /\ t[j + 1] = free[j + 1] /\ l = free[j]
        BY <1>3, <1>11, <1>14, <3>0, <3>2
      <4>2. ~Adjacent(l, free[j + 1])
        BY <2>2, <3>0, <4>1 DEF Loose
      <4> QED BY <2>5, <4>1, <4>2 DEF Adjacent
    <3>3. CASE j # i /\ j + 1 # i
      <4>1. t[j] = free[j] /\ t[j + 1] = free[j + 1]
        BY <1>14, <3>0, <3>3
      <4> QED BY <2>2, <3>0, <4>1 DEF Loose
    <3> QED BY <3>1, <3>2, <3>3
  <2>7. ASSUME NEW x \in Nat, NEW k \in DOMAIN free, Owns(free[k], x)
        PROVE  Covers(t, x) \/ Owns(m, x)
    <3>1. CASE k = i
      <4>1. Owns(e, x) \/ Owns(m, x)
        BY <1>3, <1>7, <1>13, <2>5, <2>7, <3>1 DEF Owns
      <4> QED BY <1>11, <4>1 DEF Covers
    <3>2. CASE k # i
      BY <1>11, <1>14, <2>7, <3>2 DEF Covers
    <3> QED BY <3>1, <3>2
  <2>8. ASSUME ~lost, NEW x \in 0 .. HeapSize - 1
        PROVE  Covers(t, x) \/ \E u \in used' : Owns(u, x)
    <3>1. x \in Nat
      BY VkAllocAssumption
    <3>2. Covers(free, x) \/ \E u \in used : Owns(u, x)
      BY <2>2, <2>8
    <3>3. Covers(free, x) => Covers(t, x) \/ Owns(m, x)
      BY <2>7, <3>1 DEF Covers
    <3> QED BY <2>3, <3>2, <3>3
  <2>9. Loose(t, {})
    BY <2>6 DEF Loose
  <2> QED BY <2>4, <2>8, <2>9
<1>23. Pool'
  <2>1. Cardinality(used) \in Nat /\ unused \in Nat
    BY InvTypes DEF Inv, HeapTypeOK
  <2>2. lost \/ Len(free) + Cardinality(used) + unused = PoolSize
    BY DEF Inv, Pool, Complete
  <2> QED BY <1>2, <1>9, <1>10, <1>11, <1>20, <2>1, <2>2 DEF Pool, Complete
<1> QED BY <1>20, <1>21, <1>22, <1>23 DEF Inv

LEMMA StepInv ==
  ASSUME Inv, [HeapNext]_heapVars
  PROVE  Inv'
<1>1. CASE Nuke
  BY <1>1, NukeInv
<1>2. CASE \E r \in Requests : Replace(r) \/ Split(r)
  BY <1>2, ReplaceInv, SplitInv
<1>3. CASE \E m \in used : Insert(m) \/ InsertOnly(m) \/ Lose(m)
  BY <1>3, InsertInv, InsertOnlyInv, LoseInv
<1>4. CASE UNCHANGED heapVars
  BY <1>4 DEF heapVars, Inv, HeapTypeOK, HeapShape, Tiled, Pool, Complete
<1> QED BY <1>1, <1>2, <1>3, <1>4 DEF HeapNext

LEMMA AlwaysInv == HeapSpec => []Inv
<1>1. Inv /\ [HeapNext]_heapVars => Inv'
  BY StepInv
<1> QED BY <1>1, HeapInitInv, PTL DEF HeapSpec

\* Every variable keeps its type; in particular no entry has a negative size
\* or begins or ends outside the heap, whatever was split or merged.
THEOREM AllocTypeOK == HeapSpec => []HeapTypeOK
<1>1. Inv => HeapTypeOK
  BY DEF Inv
<1> QED BY <1>1, AlwaysInv, PTL

\* dt_vkalloc_check finds no entry missing, out of order, overlapping or
\* beyond vmsize, after any calls with any sizes and alignments.
THEOREM AllocCheckEntries == HeapSpec => []CheckEntries
<1>1. ASSUME Inv PROVE CheckEntries
  <2>1. lost \/ Complete
    BY <1>1 DEF Inv, Pool
  <2>2. \A i, j \in DOMAIN free : i < j => End(free[i]) <= free[j].offset_orig
    BY <1>1 DEF Inv, HeapShape, Sorted, Before
  <2>3. ASSUME NEW m, NEW l, Piece(m), Piece(l), Before(m, l)
        PROVE  /\ NoOverlap(m, l) /\ NoOverlap(l, m)
               /\ l.offset_orig >= m.offset /\ l.offset_orig + l.size >= End(m)
    <3>1. /\ m.offset \in Nat /\ m.offset < End(m) /\ End(m) \in Nat
          /\ l.offset_orig \in Nat /\ l.offset \in Nat /\ l.size \in Nat
          /\ l.offset_orig <= l.offset
      BY <2>3, PieceFacts
    <3>2. End(m) <= l.offset_orig
      BY <2>3 DEF Before
    <3> QED BY <3>1, <3>2 DEF NoOverlap
  <2>4. ASSUME NEW i \in DOMAIN free, i > 1
        PROVE  /\ free[i].offset_orig >= free[i - 1].offset
               /\ free[i].offset_orig + free[i].size >= End(free[i - 1])
    <3>1. i - 1 \in DOMAIN free /\ i - 1 < i
      BY <1>1, <2>4, InvTypes
    <3>2. Before(free[i - 1], free[i])
      BY <2>2, <3>1 DEF Before
    <3> QED BY <1>1, <2>3, <3>1, <3>2, InvTypes
  <2>5. ASSUME NEW i \in DOMAIN free, NEW j \in DOMAIN free, i # j
        PROVE  NoOverlap(free[i], free[j])
    <3>1. i < j \/ j < i
      BY <1>1, <2>5, InvTypes
    <3>2. Before(free[i], free[j]) \/ Before(free[j], free[i])
      BY <2>2, <3>1 DEF Before
    <3> QED BY <1>1, <2>3, <3>2, InvTypes
  <2>6. \A m \in used, i \in DOMAIN free : NoOverlap(m, free[i])
    BY <1>1, <2>3, InvTypes DEF ClearOf, Clear
  <2>7. \A m, l \in used : m = l \/ NoOverlap(m, l)
    BY <1>1, <2>3 DEF Inv, HeapShape, Clear
  <2>8. \A m \in used : End(m) <= vmsize
    BY <1>1 DEF Inv, HeapShape
  <2> QED BY <2>1, <2>4, <2>5, <2>6, <2>7, <2>8 DEF CheckEntries
<1> QED BY <1>1, AlwaysInv, PTL

\* When everything is freed and no alignment skipped bytes, the heap is in one
\* piece again, in whatever order the blocks were allocated and freed.
THEOREM AllocRegained == HeapSpec => []Regained
<1>1. ASSUME Inv, used = {}, ~gaps, ~lost
      PROVE  free = <<Whole>>
  <2>1. /\ free \in Seq(Mem) /\ Len(free) \in Nat /\ DOMAIN free = 1 .. Len(free)
        /\ HeapSize \in Nat \ {0}
    BY <1>1, InvTypes, VkAllocAssumption
  <2>2. \A i, j \in DOMAIN free : i < j => End(free[i]) <= free[j].offset_orig
    BY <1>1 DEF Inv, HeapShape, Sorted, Before
  <2>3. /\ \A i \in DOMAIN free : Gap(free[i]) = 0
        /\ \A i \in 1 .. Len(free) - 1 : End(free[i]) # free[i + 1].offset_orig
    BY <1>1 DEF Inv, Tiled, NoGaps, Loose, Adjacent
  <2>4. ASSUME NEW x \in 0 .. HeapSize - 1
        PROVE  \E i \in DOMAIN free : free[i].offset_orig <= x /\ x < End(free[i])
    BY <1>1 DEF Inv, Tiled, Covers, Owns
  <2>5. PICK i \in DOMAIN free : free[i].offset_orig <= 0 /\ 0 < End(free[i])
    BY <2>1, <2>4
  <2>6. \A j \in DOMAIN free : /\ free[j].offset_orig \in Nat /\ End(free[j]) \in Nat
                               /\ free[j].offset_orig < End(free[j]) /\ End(free[j]) <= HeapSize
    BY <1>1, InvTypes, PieceFacts
  <2>7. Len(free) = 1
    <3>1. SUFFICES ASSUME Len(free) > 1 PROVE FALSE
      BY <2>1
    <3>2. 1 \in DOMAIN free /\ 2 \in DOMAIN free /\ 1 \in 1 .. Len(free) - 1 /\ 1 + 1 = 2
      BY <2>1, <3>1
    <3>3. End(free[1]) < free[2].offset_orig
      BY <2>2, <2>3, <2>6, <3>2
    <3>4. End(free[1]) \in 0 .. HeapSize - 1
      BY <2>1, <2>6, <3>2, <3>3
    <3>5. PICK k \in DOMAIN free : free[k].offset_orig <= End(free[1]) /\ End(free[1]) < End(free[k])
      BY <2>4, <3>4
    <3>6. CASE k = 1
      BY <2>6, <3>2, <3>5, <3>6
    <3>7. CASE k = 2
      BY <2>6, <3>2, <3>3, <3>5, <3>7
    <3>8. CASE k > 2
      <4>1. End(free[2]) <= free[k].offset_orig
        BY <2>2, <3>2, <3>8
      <4> QED BY <2>6, <3>2, <3>3, <3>5, <4>1
    <3> QED BY <2>1, <3>6, <3>7, <3>8
  <2>8. PICK m : m = free[1]
    OBVIOUS
  <2>9. i = 1 /\ 1 \in DOMAIN free
    BY <2>1, <2>7
  <2>10. m.offset_orig = 0 /\ Piece(m) /\ Gap(m) = 0
    BY <1>1, <2>3, <2>5, <2>6, <2>8, <2>9, InvTypes
  <2>11. End(m) = HeapSize
    <3>1. HeapSize - 1 \in 0 .. HeapSize - 1
      BY <2>1
    <3>2. PICK k \in DOMAIN free : HeapSize - 1 < End(free[k])
      BY <2>4, <3>1
    <3>3. k = 1
      BY <2>1, <2>7
    <3> QED BY <2>1, <2>6, <2>8, <2>9, <3>2, <3>3
  <2>12. m \in Mem /\ m.offset = 0 /\ m.size = HeapSize
    <3>1. /\ m \in Mem /\ m.offset \in Nat /\ m.size \in Nat
          /\ End(m) = m.offset + m.size /\ Gap(m) = m.offset - m.offset_orig
      BY <2>10, PieceFacts
    <3> QED BY <2>1, <2>10, <2>11, <3>1
  <2>13. m = Whole
    BY <2>1, <2>10, <2>12 DEF Mem, Whole
  <2> HIDE DEF Whole
  <2> DEFINE s == <<Whole>>
  <2>14. s \in Seq(Mem) /\ Len(s) = 1 /\ s[1] = Whole
    BY <2>12, <2>13
  <2> HIDE DEF s
  <2>15. \A k \in 1 .. Len(free) : free[k] = s[k]
    <3>1. free[1] = s[1]
      BY <2>8, <2>13, <2>14
    <3> QED BY <2>7, <3>1
  <2>16. free = s
    BY <2>1, <2>7, <2>14, <2>15, SeqEqual
  <2> QED BY <2>16 DEF s
<1>2. Inv => Regained
  BY <1>1 DEF Regained
<1> QED BY <1>2, AlwaysInv, PTL
-----------------------------------------------------------------------------
(***************************************************************************)
(* VkAlloc implements Allocator.                                           *)
(***************************************************************************)
RangeOf(m) == [offset |-> m.offset, size |-> m.size]

LEMMA HandOutLive ==
  ASSUME Inv, NEW r \in Requests, NEW m, Piece(m), HandOut(m),
         m.size = r.size, m.offset % r.alignment = 0, \A u \in used : Clear(u, m)
  PROVE  Ranges!Allocate
<1>1. /\ m.offset \in Nat /\ m.size \in Nat /\ m.offset_orig \in Nat /\ m.offset_orig <= m.offset
      /\ End(m) = m.offset + m.size /\ End(m) <= HeapSize /\ HeapSize \in Nat
  BY PieceFacts, VkAllocAssumption
<1> DEFINE b == [offset |-> m.offset, size |-> r.size]
<1>2. Live' = Live \cup {b}
  BY DEF Live, HandOut
<1>3. ASSUME NEW c \in Live PROVE ~Ranges!Overlap(b, c)
  <2>1. PICK u \in used : c = [offset |-> u.offset, size |-> u.size]
    BY DEF Live
  <2>2. /\ u.offset \in Nat /\ u.size \in Nat /\ u.offset_orig \in Nat
        /\ u.offset_orig <= u.offset /\ End(u) = u.offset + u.size
    BY InvTypes, PieceFacts
  <2>3. End(u) <= m.offset_orig \/ End(m) <= u.offset_orig
    BY DEF Clear, Before
  <2>4. u.offset + u.size <= m.offset \/ m.offset + r.size <= u.offset
    BY <1>1, <2>2, <2>3
  <2>5. /\ b.offset = m.offset /\ b.size = r.size /\ c.offset = u.offset /\ c.size = u.size
        /\ r.size \in Nat
    BY <1>1, <2>1
  <2> QED BY <1>1, <2>2, <2>4, <2>5 DEF Ranges!Overlap
<1>4. m.offset \in 0 .. HeapSize /\ m.offset + r.size <= HeapSize
  BY <1>1
<1> QED BY <1>2, <1>3, <1>4 DEF Ranges!Allocate

LEMMA TakeBackLive ==
  ASSUME Inv, NEW m \in used, TakeBack(m)
  PROVE  Ranges!Release
<1>1. used' = used \ {m}
  BY DEF TakeBack
<1>2. RangeOf(m) \in Live
  BY DEF Live, RangeOf
<1>3. ASSUME NEW u \in used, u # m
      PROVE  RangeOf(u) # RangeOf(m)
  <2>1. /\ u.offset \in Nat /\ u.offset_orig \in Nat /\ u.offset < End(u)
        /\ u.offset_orig <= u.offset /\ End(u) \in Nat
        /\ m.offset \in Nat /\ m.offset_orig \in Nat /\ m.offset < End(m)
        /\ m.offset_orig <= m.offset /\ End(m) \in Nat
    BY InvTypes, PieceFacts
  <2>2. End(u) <= m.offset_orig \/ End(m) <= u.offset_orig
    BY <1>3 DEF Inv, HeapShape, Clear, Before
  <2>3. u.offset # m.offset
    BY <2>1, <2>2
  <2>4. RangeOf(u).offset = u.offset /\ RangeOf(m).offset = m.offset
    BY DEF RangeOf
  <2> QED BY <2>3, <2>4
<1>4. Live = {RangeOf(u) : u \in used} /\ Live' = {RangeOf(u) : u \in used'}
  BY DEF Live, RangeOf
<1>5. Live' = Live \ {RangeOf(m)}
  BY <1>1, <1>3, <1>4
<1> QED BY <1>2, <1>5 DEF Ranges!Release

\* What a request is given was in the free list.
LEMMA RequestGiven ==
  ASSUME Inv, NEW r \in Requests, Replace(r) \/ Split(r)
  PROVE  \E m : /\ Piece(m) /\ HandOut(m) /\ \A u \in used : Clear(u, m)
                /\ m.size = r.size /\ m.offset % r.alignment = 0
<1>1. CASE Replace(r)
  <2>1. PICK i \in DOMAIN free : Exact(free[i], r) /\ HandOut(free[i])
    BY <1>1 DEF Replace
  <2>2. Piece(free[i]) /\ \A u \in used : Clear(u, free[i])
    BY InvTypes DEF ClearOf
  <2>3. free[i].size = r.size /\ free[i].offset % r.alignment = 0
    BY <2>1 DEF Exact
  <2> QED BY <2>1, <2>2, <2>3
<1>2. CASE Split(r)
  <2>1. PICK i \in DOMAIN free : Larger(free[i], r) /\ HandOut(Carved(free[i], r))
    BY <1>2 DEF Split, Chosen
  <2>2. PICK l, m, e : l = free[i] /\ m = Carved(l, r) /\ e = Rest(l, m)
    OBVIOUS
  <2>3. Piece(l) /\ \A u \in used : Piece(u) /\ Clear(u, l)
    BY <2>2, InvTypes DEF ClearOf
  <2>4. /\ Piece(m) /\ m.offset_orig = l.offset_orig /\ m.size = r.size
        /\ m.offset % r.alignment = 0
        /\ Piece(e) /\ e.offset_orig = End(m) /\ End(e) <= End(l)
    BY <2>1, <2>2, <2>3, CarvedFacts
  <2>5. End(m) <= End(l)
    BY <2>3, <2>4, PieceFacts
  <2>6. ASSUME NEW u \in used PROVE Clear(u, m)
    <3>1. /\ End(m) \in Nat /\ End(l) \in Nat /\ u.offset_orig \in Nat
      BY <2>3, <2>4, PieceFacts
    <3>2. End(u) <= l.offset_orig \/ End(l) <= u.offset_orig
      BY <2>3 DEF Clear, Before
    <3> QED BY <2>4, <2>5, <3>1, <3>2 DEF Clear, Before
  <2> QED BY <2>1, <2>2, <2>4, <2>6
<1> QED BY <1>1, <1>2

LEMMA StepLive ==
  ASSUME Inv, [HeapNext]_heapVars
  PROVE  [Ranges!Next]_Live
<1>1. CASE Nuke
  <2>1. Live' = {}
    BY <1>1 DEF Nuke, Live
  <2> QED BY <2>1 DEF Ranges!Next, Ranges!Nuke
<1>2. ASSUME NEW r \in Requests, Replace(r) \/ Split(r)
      PROVE  Ranges!Allocate
  BY <1>2, RequestGiven, HandOutLive
<1>3. ASSUME NEW m \in used, Insert(m) \/ InsertOnly(m) \/ Lose(m)
      PROVE  Ranges!Release
  BY <1>3, TakeBackLive DEF Insert, InsertOnly, Lose
<1>4. CASE UNCHANGED heapVars
  BY <1>4 DEF heapVars, Live
<1> QED BY <1>1, <1>2, <1>3, <1>4 DEF HeapNext, Ranges!Next

\* A caller never gets bytes that are outside the heap, somebody else's or
\* not aligned as asked for: every step of the lists is one of the abstract
\* allocator, or none.
THEOREM AllocImplements == HeapSpec => ImplementsAllocator
<1>1. HeapInit => Ranges!Init
  BY DEF HeapInit, Live, Ranges!Init
<1>2. Inv /\ [HeapNext]_heapVars => [Ranges!Next]_Live
  BY StepLive
<1> QED BY <1>1, <1>2, AlwaysInv, PTL DEF HeapSpec, ImplementsAllocator, Ranges!Spec
-----------------------------------------------------------------------------
(***************************************************************************)
(* The sum of what is handed out                                           *)
(***************************************************************************)
\* A set of natural numbers has a least element; what holds for 0 and for the
\* successor holds for all; what a finite set inherits from the sets with one
\* element less holds for all its subsets.
LEMMA NatMin ==
  ASSUME NEW T \in SUBSET Nat, T # {}
  PROVE  \E x \in T : \A y \in T : x <= y
<1> DEFINE R == OpToRel(<, Nat)
<1>1. IsWellFoundedOn(R, Nat)
  BY NatLessThanWellFounded
<1>2. \A x, y \in Nat : x < y => <<x, y>> \in R
  BY DEF OpToRel
<1> HIDE DEF R
<1>3. PICK x \in T : \A y \in T : ~ (<<y, x>> \in R)
  BY <1>1, WFMin
<1>4. ASSUME NEW y \in T PROVE x <= y
  <2>1. x \in Nat /\ y \in Nat
    OBVIOUS
  <2>2. ~ (<<y, x>> \in R)
    BY <1>3
  <2>3. ~ (y < x)
    BY <1>2, <2>1, <2>2
  <2> QED BY <2>1, <2>3
<1> QED
  BY <1>4

LEMMA NatInd ==
  ASSUME NEW T, 0 \in T, \A n \in Nat : n \in T => n + 1 \in T
  PROVE  Nat \subseteq T
<1> SUFFICES ASSUME Nat \ T # {} PROVE FALSE
  OBVIOUS
<1>1. PICK x \in Nat \ T : \A y \in Nat \ T : x <= y
  BY NatMin
<1>2. x # 0 /\ x - 1 \in Nat
  BY <1>1
<1>3. x - 1 \in T
  BY <1>1, <1>2
<1> QED
  BY <1>1, <1>2, <1>3

LEMMA SubsetInd ==
  ASSUME NEW S, IsFiniteSet(S), NEW T,
         \A s \in SUBSET S : (\A x \in s : s \ {x} \in T) => s \in T
  PROVE  SUBSET S \subseteq T
<1> DEFINE Bad == {n \in Nat : \E s \in SUBSET S : s \notin T /\ Cardinality(s) = n}
<1>1. \A s \in SUBSET S : IsFiniteSet(s) /\ Cardinality(s) \in Nat
  BY FS_Subset, FS_CardinalityType
<1> SUFFICES ASSUME NEW u \in SUBSET S, u \notin T PROVE FALSE
  OBVIOUS
<1>2. Bad # {} /\ Bad \in SUBSET Nat
  BY <1>1
<1>3. PICK n \in Bad : \A k \in Bad : n <= k
  <2> HIDE DEF Bad
  <2> QED BY <1>2, NatMin
<1>4. PICK s \in SUBSET S : s \notin T /\ Cardinality(s) = n
  OBVIOUS
<1>5. ASSUME NEW x \in s PROVE s \ {x} \in T
  <2>1. Cardinality(s \ {x}) = n - 1
    BY <1>1, <1>4, FS_RemoveElement
  <2>2. s \ {x} \in SUBSET S /\ n \in Nat
    BY <1>4
  <2>3. ~ (n <= n - 1)
    BY <2>2
  <2>4. Cardinality(s \ {x}) \notin Bad
    <3> HIDE DEF Bad
    <3> QED BY <1>3, <2>1, <2>3
  <2> QED BY <1>1, <2>2, <2>4
<1> QED
  BY <1>4, <1>5

\* MapThenSumSet adds up a set in the order of the choices it makes: as a
\* function on the subsets,
Some(s) == CHOOSE x \in s : TRUE
Summed(g, s) == IF s = {} THEN 0 ELSE Some(s).size + g[s \ {Some(s)}]
Sums(S) == CHOOSE g : g = [s \in SUBSET S |-> Summed(g, s)]

LEMMA SumUnfold ==
  ASSUME NEW S
  PROVE  MapThenSumSet(LAMBDA m : m.size, S) = Sums(S)[S]
  BY DEF MapThenSumSet, MapThenFoldSet, Sums, Summed, Some

\* which exists for finite sets of entries,
Sized(S) == IsFiniteSet(S) /\ \A m \in S : m.size \in Nat

LEMMA SomeIn == ASSUME NEW s, s # {} PROVE Some(s) \in s
  BY DEF Some

LEMMA SumsExist ==
  ASSUME NEW S, Sized(S)
  PROVE  Sums(S) = [s \in SUBSET S |-> Summed(Sums(S), s)]
<1> DEFINE Good(g, n) == \A s \in SUBSET S : Cardinality(s) <= n => g[s] = Summed(g, s)
           T == {n \in Nat : \E g \in [SUBSET S -> Nat] : Good(g, n)}
<1>1. \A s \in SUBSET S : IsFiniteSet(s) /\ Cardinality(s) \in Nat
  BY FS_Subset, FS_CardinalityType DEF Sized
<1>2. ASSUME NEW s \in SUBSET S, s # {}
      PROVE  /\ Some(s) \in s /\ s \ {Some(s)} \in SUBSET S /\ Some(s).size \in Nat
             /\ Cardinality(s \ {Some(s)}) = Cardinality(s) - 1 
  <2>1. Some(s) \in s
    BY <1>2, SomeIn
  <2> QED BY <1>1, <2>1, FS_RemoveElement DEF Sized
<1>3. 0 \in T
  <2> DEFINE g == [s \in SUBSET S |-> 0]
  <2>1. ASSUME NEW s \in SUBSET S, Cardinality(s) <= 0 PROVE g[s] = Summed(g, s)
    <3>1. s = {}
      BY <1>1, <2>1, FS_EmptySet
    <3> QED BY <3>1 DEF Summed
  <2>2. g \in [SUBSET S -> Nat]
    OBVIOUS
  <2> HIDE DEF g
  <2> QED BY <2>1, <2>2
<1>4. ASSUME NEW n \in Nat, n \in T PROVE n + 1 \in T
  <2>1. PICK g \in [SUBSET S -> Nat] : Good(g, n)
    BY <1>4
  <2> DEFINE h == [s \in SUBSET S |-> IF Cardinality(s) <= n THEN g[s] ELSE Summed(g, s)]
  <2>2. ASSUME NEW s \in SUBSET S PROVE Summed(g, s) \in Nat
    <3>1. CASE s = {}
      BY <3>1 DEF Summed
    <3>2. CASE s # {}
      <4>1. Some(s).size \in Nat /\ g[s \ {Some(s)}] \in Nat
        BY <1>2, <3>2
      <4> QED BY <3>2, <4>1 DEF Summed
    <3> QED BY <3>1, <3>2
  <2>3. h \in [SUBSET S -> Nat]
    BY <2>2
  <2>4. ASSUME NEW s \in SUBSET S, Cardinality(s) <= n + 1 PROVE h[s] = Summed(h, s)
    <3>1. h[s] = Summed(g, s)
      BY <2>1
    <3>2. s # {} => h[s \ {Some(s)}] = g[s \ {Some(s)}]
      BY <1>1, <1>2, <2>4
    <3> HIDE DEF h
    <3> QED BY <3>1, <3>2 DEF Summed
  <2> HIDE DEF h
  <2> QED BY <2>3, <2>4
<1>5. Cardinality(S) \in T
  <2> HIDE DEF T
  <2>1. Nat \subseteq T
    BY <1>3, <1>4, NatInd
  <2> QED BY <1>1, <2>1
<1>6. PICK g \in [SUBSET S -> Nat] : Good(g, Cardinality(S))
  BY <1>5
<1>7. \A s \in SUBSET S : Cardinality(s) <= Cardinality(S)
  BY FS_Subset DEF Sized
<1>8. g = [s \in SUBSET S |-> Summed(g, s)]
  BY <1>6, <1>7
<1> QED
  BY <1>8 DEF Sums

\* has natural numbers as values,
LEMMA SumsNat ==
  ASSUME NEW S, Sized(S)
  PROVE  \A s \in SUBSET S : Sums(S)[s] \in Nat
<1> DEFINE T == {s \in SUBSET S : Sums(S)[s] \in Nat}
<1>1. ASSUME NEW s \in SUBSET S, \A x \in s : s \ {x} \in T PROVE s \in T
  <2>1. Sums(S)[s] = Summed(Sums(S), s)
    BY SumsExist
  <2>2. CASE s = {}
    BY <2>1, <2>2 DEF Summed
  <2>3. CASE s # {}
    <3>1. Some(s) \in s /\ Some(s).size \in Nat
      BY <2>3, SomeIn DEF Sized
    <3>2. Sums(S)[s \ {Some(s)}] \in Nat
      BY <1>1, <3>1
    <3> QED BY <2>1, <2>3, <3>1, <3>2 DEF Summed
  <2> QED BY <2>2, <2>3
<1>2. SUBSET S \subseteq T
  <2> HIDE DEF T
  <2> QED BY <1>1, SubsetInd DEF Sized
<1> QED
  BY <1>2

\* does not depend on the order,
LEMMA SumsTake ==
  ASSUME NEW S, Sized(S)
  PROVE  \A s \in SUBSET S : \A x \in s : Sums(S)[s] = x.size + Sums(S)[s \ {x}]
<1> DEFINE G == Sums(S)
           T == {s \in SUBSET S : \A x \in s : G[s] = x.size + G[s \ {x}]}
<1>1. ASSUME NEW s \in SUBSET S, \A x \in s : s \ {x} \in T, NEW x \in s
      PROVE  G[s] = x.size + G[s \ {x}]
  <2> DEFINE c == Some(s)
  <2>1. c \in s /\ G[s] = c.size + G[s \ {c}]
    <3>1. G[s] = Summed(G, s)
      BY SumsExist
    <3>2. s # {} /\ Some(s) \in s
      BY SomeIn
    <3> QED BY <3>1, <3>2 DEF Summed
  <2>2. CASE x # c
    <3>1. G[s \ {c}] = x.size + G[(s \ {c}) \ {x}]
      BY <1>1, <2>1, <2>2
    <3>2. G[s \ {x}] = c.size + G[(s \ {x}) \ {c}]
      BY <1>1, <2>1, <2>2
    <3>3. (s \ {c}) \ {x} = (s \ {x}) \ {c}
      OBVIOUS
    <3>4. x.size \in Nat /\ c.size \in Nat /\ G[(s \ {x}) \ {c}] \in Nat
      BY <2>1, SumsNat DEF Sized
    <3>5. \A a, b, v \in Nat : a + (b + v) = b + (a + v)
      OBVIOUS
    <3> HIDE DEF G, c
    <3>6. G[s] = c.size + (x.size + G[(s \ {x}) \ {c}])
      BY <2>1, <3>1, <3>3
    <3> QED BY <3>2, <3>4, <3>5, <3>6
  <2> QED BY <2>1, <2>2
<1>2. SUBSET S \subseteq T
  <2>1. \A s \in SUBSET S : (\A x \in s : s \ {x} \in T) => s \in T
    BY <1>1
  <2> HIDE DEF T
  <2> QED BY <2>1, SubsetInd DEF Sized
<1> QED
  BY <1>2

\* and gives a set the same sum as part of a larger one.
LEMMA SumsLocal ==
  ASSUME NEW S, Sized(S), NEW A \in SUBSET S
  PROVE  Sized(A) /\ Sums(A)[A] = Sums(S)[A]
<1>1. Sized(A)
  BY FS_Subset DEF Sized
<1> DEFINE T == {s \in SUBSET A : Sums(A)[s] = Sums(S)[s]}
<1>2. ASSUME NEW s \in SUBSET A, \A x \in s : s \ {x} \in T PROVE s \in T
  <2>1. Sums(A)[s] = Summed(Sums(A), s) /\ Sums(S)[s] = Summed(Sums(S), s)
    <3>1. s \in SUBSET S
      OBVIOUS
    <3> QED BY <1>1, <3>1, SumsExist
  <2> QED BY <1>2, <2>1, SomeIn DEF Summed
<1>3. SUBSET A \subseteq T
  <2> HIDE DEF T
  <2> QED BY <1>1, <1>2, SubsetInd DEF Sized
<1> QED
  BY <1>1, <1>3

\* So one entry more or less changes the sum by its size.
Sum(S) == MapThenSumSet(LAMBDA m : m.size, S)

LEMMA SumEmpty == Sum({}) = 0
<1>1. Sized({})
  BY FS_EmptySet DEF Sized
<1>2. Sums({})[{}] = Summed(Sums({}), {})
  BY <1>1, SumsExist
<1> QED
  BY <1>2, SumUnfold DEF Sum, Summed

LEMMA SumTake ==
  ASSUME NEW S, Sized(S), NEW x \in S
  PROVE  Sum(S) = x.size + Sum(S \ {x}) /\ Sum(S) \in Nat /\ Sum(S \ {x}) \in Nat
<1>1. Sums(S)[S] = x.size + Sums(S)[S \ {x}]
  BY SumsTake
<1>2. Sums(S \ {x})[S \ {x}] = Sums(S)[S \ {x}]
  BY SumsLocal
<1>3. Sums(S)[S] \in Nat /\ Sums(S)[S \ {x}] \in Nat
  BY SumsNat
<1> QED
  BY <1>1, <1>2, <1>3, SumUnfold DEF Sum

SumInv == Inv /\ rss = Sum(used)

LEMMA SizedUsed ==
  ASSUME Inv
  PROVE  Sized(used)
  BY InvTypes, PieceFacts DEF Sized

\* rss follows what is handed out and taken back.
LEMMA SumStep ==
  ASSUME SumInv, [HeapNext]_heapVars
  PROVE  SumInv'
<1>1. Inv /\ Inv'
  BY StepInv DEF SumInv
<1>2. CASE Nuke
  BY <1>1, <1>2, SumEmpty DEF Nuke, SumInv
<1>3. ASSUME NEW r \in Requests, Replace(r) \/ Split(r)
      PROVE  rss' = Sum(used')
  <2>1. PICK m : Piece(m) /\ HandOut(m) /\ \A u \in used : Clear(u, m)
    BY <1>1, <1>3, RequestGiven
  <2>2. m \notin used
    <3>1. ~Clear(m, m)
      BY <2>1, PieceFacts DEF Clear, Before
    <3> QED BY <2>1, <3>1
  <2>3. used' = used \cup {m} /\ rss' = rss + m.size
    BY <2>1 DEF HandOut
  <2>4. Sized(used')
    BY <1>1, <2>1, <2>3, SizedUsed, FS_AddElement, PieceFacts DEF Sized
  <2>5. Sum(used') = m.size + Sum(used' \ {m}) /\ Sum(used' \ {m}) \in Nat
    BY <2>3, <2>4, SumTake
  <2>6. used' \ {m} = used /\ m.size \in Nat
    BY <2>1, <2>2, <2>3, PieceFacts
  <2>7. Sum(used' \ {m}) = Sum(used)
    BY <2>6
  <2> QED BY <2>3, <2>5, <2>6, <2>7 DEF SumInv
<1>4. ASSUME NEW m \in used, Insert(m) \/ InsertOnly(m) \/ Lose(m)
      PROVE  rss' = Sum(used')
  <2>1. used' = used \ {m} /\ rss' = rss - m.size
    BY <1>4 DEF Insert, InsertOnly, Lose, TakeBack
  <2>2. Sum(used) = m.size + Sum(used \ {m}) /\ Sum(used \ {m}) \in Nat /\ m.size \in Nat
    BY <1>1, SizedUsed, SumTake DEF Sized
  <2> QED BY <2>1, <2>2 DEF SumInv
<1>5. CASE UNCHANGED heapVars
  BY <1>1, <1>5 DEF heapVars, SumInv
<1> QED BY <1>1, <1>2, <1>3, <1>4, <1>5 DEF HeapNext, SumInv

\* dt_vkalloc_check finds no fault at all, after any sequence of calls: nor is
\* rss ever anything but the sum of the sizes handed out.
THEOREM AllocCheckPasses == HeapSpec => []CheckPasses
<1>1. HeapInit => SumInv
  <2>1. HeapInit => used = {} /\ rss = 0
    BY DEF HeapInit
  <2> QED BY <2>1, HeapInitInv, SumEmpty DEF SumInv
<1>2. SumInv /\ [HeapNext]_heapVars => SumInv'
  BY SumStep
<1>3. CheckEntries /\ SumInv => CheckPasses
  BY DEF CheckPasses, SumInv, Sum
<1> QED
  BY <1>1, <1>2, <1>3, AllocCheckEntries, PTL DEF HeapSpec

-----------------------------------------------------------------------------
(***************************************************************************)
(* What is in the memory of a graph: it has types, and a node finds in its *)
(* inputs what was written for it.  The argument: a buffer that is not     *)
(* protected is in use from its owner to its last reader, and two blocks   *)
(* share memory only if neither is protected and one is used for the last  *)
(* time before the other's owner runs (Apart).  So between owner and last  *)
(* reader nobody else writes to the memory, and what is protected is never *)
(* overwritten by another buffer at all.                                   *)
(***************************************************************************)

\* The operators of NodeMemory as functions of the graph
D(m, b) == \E n \in Nodes : b \in m.feeds[n]
Bl(m, b, r) == <<b, IF D(m, b) THEN r % 2 ELSE 0>>
All(m) == {k \in Blocks : k[2] = 0 \/ D(m, k[1])}
Own(m, b) == m.owner[b]
Sh(m, n) == m.feeds[n] \cup {b \in Bufs : Own(m, b) = n /\ D(m, b)}
              \cup (IF n \in m.guards THEN {b \in Bufs : Own(m, b) = n} \cup m.reads[n] ELSE {})
Us(m, n) == IF n \in m.guards THEN {}
            ELSE m.reads[n] \cup {b \in Bufs : Own(m, b) = n /\ ~D(m, b)}

\* Nodes that were marked, nodes whose outputs were placed
Seen == IF phase = "mark" THEN pos - 1 ELSE NumNodes
Laid == IF phase = "mark" THEN 0 ELSE IF phase = "place" THEN pos - 1 ELSE NumNodes

Shape ==
  /\ net \in Nets
  /\ phase \in {"mark", "place", "run", "idle"}
  /\ pos \in 1 .. NumNodes + 1
  /\ phase = "idle" => pos = NumNodes + 1
  /\ prot \subseteq Bufs
  /\ last \in [Bufs -> 0 .. NumNodes]
  /\ mem \in [Blocks -> Units \cup {NoUnit}]
  /\ freed \subseteq Blocks
  /\ content \in [Units -> (Bufs \X Nat) \cup {<<>>}]
  /\ made \in [Bufs -> Nat]
  /\ runs \in Nat \ {0} /\ since \in Nat /\ since <= runs
  /\ upload \subseteq net.cached
  /\ phase \in {"mark", "place"} \/ runs = since => upload = net.cached
  /\ phase \in {"mark", "place"} => runs = since

\* What is protected and who uses a buffer last
Marks ==
  /\ \A b \in Bufs : b \in prot <=> \E n \in 1 .. Seen : b \in Sh(net, n)
  /\ \A n \in 1 .. Seen : \A b \in Us(net, n) : n <= last[b]

Layout ==
  /\ \A k \in All(net) : Own(net, k[1]) <= Laid => mem[k] \in Arena(k[1])
  /\ \A k \in freed : k \in All(net) /\ k[1] \notin prot /\ last[k[1]] <= Laid
                        /\ Own(net, k[1]) <= Laid

\* Blocks share memory one after the other.
Apart ==
  \A k, l \in All(net) :
    /\ Own(net, k[1]) <= Laid /\ Own(net, l[1]) <= Laid
    /\ k # l /\ mem[k] = mem[l]
    => /\ k[1] \notin prot /\ l[1] \notin prot
       /\ last[k[1]] < Own(net, l[1]) \/ last[l[1]] < Own(net, k[1])

\* The memory of b for this run, and for the other frame
Now(b) == mem[Bl(net, b, runs)]
Then(b) == mem[Bl(net, b, runs + 1)]

\* What the GPU has written, of aliased buffers, of protected ones, of sources
\* and for feedback
Aliased ==
  phase = "run" => \A b \in Bufs \ prot :
    Own(net, b) < pos /\ pos <= last[b] => content[Now(b)] = <<b, runs>>

Written ==
  phase \in {"run", "idle"} => \A b \in prot :
    Own(net, b) \notin net.cached /\ Own(net, b) < pos => content[Now(b)] = <<b, runs>>

Cached ==
  phase \in {"run", "idle"} => \A b \in prot :
    Own(net, b) \in net.cached /\ (Own(net, b) < pos \/ runs > since)
      => content[Now(b)] = <<b, made[b]>>

FedBack ==
  phase = "run" /\ runs > since => \A b \in Bufs :
    D(net, b) => content[Then(b)] = <<b, runs - 1>>

\* What all graphs have to be
AllRecognised == \A m \in Nets : Recognised(m)

IInv == Shape /\ Marks /\ Layout /\ Apart /\ Aliased /\ Written /\ Cached /\ FedBack

-----------------------------------------------------------------------------
(* The graph *)

LEMMA Same ==
  ASSUME NEW b, NEW n, NEW r
  PROVE  /\ Double(b) <=> D(net, b)
         /\ Block(b, r) = Bl(net, b, r)
         /\ BlocksOf(Bufs) = All(net)
         /\ Owned(n) = {x \in Bufs : Own(net, x) = n}
         /\ Shielded(n) = Sh(net, n)
         /\ Used(n) = Us(net, n)
BY DEF Double, D, Block, Bl, BlocksOf, All, Blocks, Owned, Own, Shielded, Sh, Used, Us

\* What a graph is, with the hidden operators
LEMMA Graphs ==
  ASSUME NEW m \in Nets
  PROVE  /\ \A b \in Bufs : Own(m, b) \in Nodes
         /\ \A n \in Nodes : m.reads[n] \subseteq Bufs /\ m.feeds[n] \subseteq Bufs
         /\ \A n \in Nodes : Sh(m, n) \subseteq Bufs /\ Us(m, n) \subseteq Bufs
         /\ m.guards \subseteq Nodes /\ m.sinks \subseteq m.guards /\ m.cached \subseteq m.guards
         /\ \A n \in Nodes : \A b \in m.reads[n] : Own(m, b) < n
         /\ \A b \in Bufs : Own(m, b) \in m.cached => ~D(m, b)
BY MemoryAssumption DEF Net, Own, D, Sh, Us, Nodes

LEMMA Blks ==
  ASSUME NEW m \in Nets, NEW b \in Bufs, NEW r \in Nat
  PROVE  /\ Bl(m, b, r) \in All(m)
         /\ Bl(m, b, r) \in Blocks
         /\ Bl(m, b, r)[1] = b
         /\ D(m, b) => Bl(m, b, r) # Bl(m, b, r + 1)
         /\ ~D(m, b) => Bl(m, b, r) = Bl(m, b, r + 1)
         /\ Bl(m, b, r + 2) = Bl(m, b, r)
         /\ \A k \in All(m) : k[1] \in Bufs /\ k \in Blocks
         /\ \A c \in Bufs \ {b} : \A q \in Nat : Bl(m, b, r) # Bl(m, c, q)
<1>1. r % 2 \in {0, 1} /\ (r + 1) % 2 # r % 2 /\ (r + 2) % 2 = r % 2
  OBVIOUS
<1>. QED
  BY <1>1 DEF Bl, All, Blocks

\* Protected buffers and the last use of the others
LEMMA Uses ==
  ASSUME IInv, phase # "mark", NEW b \in Bufs
  PROVE  /\ b \in prot <=> Protected(net, b)
         /\ D(net, b) => b \in prot
         /\ Own(net, b) \in net.guards => b \in prot
         /\ \A n \in net.guards : b \in net.reads[n] => b \in prot
         /\ b \notin prot => Own(net, b) <= last[b]
         /\ b \notin prot => \A n \in Nodes : b \in net.reads[n] => n <= last[b]
<1>1. Seen = NumNodes /\ 1 .. Seen = Nodes
  BY DEF Seen, Nodes
<1>2. Own(net, b) \in Nodes /\ net.guards \subseteq Nodes
  BY Graphs DEF IInv, Shape
<1>3. b \in prot <=> \E n \in Nodes : b \in Sh(net, n)
  BY <1>1 DEF IInv, Marks
<1>4. (\E n \in Nodes : b \in Sh(net, n)) <=> Protected(net, b)
  BY <1>2 DEF Sh, Protected, D, Own
<1>5. D(net, b) => b \in prot
  BY <1>2, <1>3 DEF Sh
<1>6. Own(net, b) \in net.guards => b \in prot
  BY <1>2, <1>3 DEF Sh
<1>7. \A n \in net.guards : b \in net.reads[n] => b \in prot
  BY <1>2, <1>3 DEF Sh
<1>8. b \notin prot => Own(net, b) <= last[b]
  <2>1. b \notin prot => b \in Us(net, Own(net, b))
    BY <1>5, <1>6 DEF Us
  <2>. QED
    BY <2>1, <1>1, <1>2 DEF IInv, Marks
<1>9. b \notin prot => \A n \in Nodes : b \in net.reads[n] => n <= last[b]
  BY <1>1, <1>7 DEF IInv, Marks, Us
<1>. QED
  BY <1>3, <1>4, <1>5, <1>6, <1>7, <1>8, <1>9

-----------------------------------------------------------------------------
(* Laying out the memory *)

\* Nothing is marked, nothing is placed.
LEMMA Start ==
  ASSUME Shape, phase = "mark", pos = 1, prot = {}, freed = {}
  PROVE  IInv
<1>1. Seen = 0 /\ Laid = 0 /\ 1 .. Seen = {}
  BY DEF Seen, Laid
<1>2. \A k \in All(net) : ~ Own(net, k[1]) <= Laid
  BY <1>1, Graphs, MemoryAssumption DEF Shape, All, Blocks, Nodes
<1>. QED
  BY <1>1, <1>2 DEF IInv, Marks, Layout, Apart, Aliased, Written, Cached, FedBack

LEMMA InitInv == Init => IInv
<1>. SUFFICES ASSUME Init PROVE IInv
  OBVIOUS
<1>1. Shape
  BY MemoryAssumption DEF Init, Shape
<1>. QED
  BY <1>1, Start DEF Init

LEMMA AllocateInv == IInv /\ Allocate => IInv'
<1>. SUFFICES ASSUME IInv, Allocate PROVE IInv'
  OBVIOUS
<1>1. Shape'
  BY MemoryAssumption DEF Allocate, Shape, IInv
<1>2. /\ (phase = "mark")' /\ (pos = 1)' /\ (prot = {})' /\ (freed = {})'
  BY DEF Allocate
<1>3. Seen' = 0 /\ Laid' = 0 /\ 1 .. Seen' = {}
  BY <1>2 DEF Seen, Laid
<1>4. \A k \in All(net)' : ~ Own(net, k[1])' <= Laid'
  BY <1>1, <1>3, Graphs, MemoryAssumption DEF Shape, All, Blocks, Nodes
<1>. QED
  BY <1>1, <1>2, <1>3, <1>4 DEF IInv, Marks, Layout, Apart, Aliased, Written, Cached, FedBack

LEMMA MarkInv == IInv /\ Mark => IInv'
<1>. SUFFICES ASSUME IInv, Mark PROVE IInv'
  OBVIOUS
<1>. USE DEF Mark
<1>1. pos \in Nodes /\ Seen = pos - 1 /\ Seen' = pos /\ Laid = 0 /\ Laid' = 0
  BY DEF IInv, Shape, Seen, Laid, Nodes
<1>2. prot' = prot \cup Sh(net, pos) /\ Sh(net, pos) \subseteq Bufs
  BY <1>1, Same, Graphs DEF IInv, Shape
<1>3. last' = [b \in Bufs |-> IF b \in Us(net, pos) THEN pos ELSE last[b]]
  BY Same
<1>4. Shape'
  BY <1>1, <1>2, <1>3, MemoryAssumption DEF IInv, Shape, Nodes
<1>5. Marks'
  <2>1. \A n : n \in 1 .. Seen' <=> n \in 1 .. Seen \/ n = pos
    BY <1>1 DEF Nodes
  <2>2. \A b \in Bufs : b \in prot' <=> \E n \in 1 .. Seen' : b \in Sh(net, n)
    BY <1>2, <2>1 DEF IInv, Marks
  <2>3. ASSUME NEW n \in 1 .. Seen', NEW b \in Us(net, n) PROVE n <= last'[b]
    <3>1. n \in Nodes /\ b \in Bufs /\ n <= pos
      BY <1>1, Graphs, MemoryAssumption DEF IInv, Shape, Nodes
    <3>2. CASE b \in Us(net, pos)
      BY <1>3, <3>1, <3>2, <1>1 DEF Nodes
    <3>3. CASE b \notin Us(net, pos)
      BY <1>3, <3>1, <3>3, <2>1 DEF IInv, Marks
    <3>. QED
      BY <3>2, <3>3
  <2>. QED
    BY <2>2, <2>3 DEF Marks
<1>6. \A k \in All(net) : ~ Own(net, k[1]) <= 0
  BY Graphs, MemoryAssumption DEF IInv, Shape, All, Blocks, Nodes
<1>7. freed = {}
  BY <1>1, <1>6 DEF IInv, Layout
<1>. QED
  BY <1>1, <1>4, <1>5, <1>6, <1>7
  DEF IInv, Layout, Apart, Aliased, Written, Cached, FedBack

LEMMA MarkedInv == IInv /\ Marked => IInv'
<1>. SUFFICES ASSUME IInv, Marked PROVE IInv'
  OBVIOUS
<1>. USE DEF Marked
<1>1. Seen' = Seen /\ Laid' = Laid
  BY MemoryAssumption DEF IInv, Shape, Seen, Laid
<1>2. Shape'
  BY MemoryAssumption DEF IInv, Shape
<1>. QED
  BY <1>1, <1>2
  DEF IInv, Marks, Layout, Apart, Arena, Aliased, Written, Cached, FedBack

LEMMA PlacedInv == IInv /\ Placed => IInv'
<1>. SUFFICES ASSUME IInv, Placed PROVE IInv'
  OBVIOUS
<1>. USE DEF Placed
<1>1. Seen' = Seen /\ Laid' = Laid
  BY MemoryAssumption DEF IInv, Shape, Seen, Laid
<1>2. Shape'
  BY MemoryAssumption DEF IInv, Shape
<1>3. \A b \in Bufs : ~ Own(net, b) < 1
  BY Graphs DEF IInv, Shape, Nodes
<1>. QED
  BY <1>1, <1>2, <1>3
  DEF IInv, Shape, Marks, Layout, Apart, Arena, Aliased, Written, Cached, FedBack, Now, Then

\* What an output is taken for is an output.
LEMMA Looked ==
  ASSUME NEW m \in Nets, NEW b \in Bufs
  PROVE  LookedUp(m, b) \in Bufs \cup {NoBuf}
<1>1. \A S \in SUBSET Nodes : Cardinality(S) \in Nat
  <2>1. IsFiniteSet(Nodes)
    BY FS_Interval, MemoryAssumption DEF Nodes
  <2>. QED
    BY <2>1, FS_Subset, FS_CardinalityType
<1>2. Count(m, b) \in Nat
  BY <1>1 DEF Count
<1>3. m.first \in [0 .. NumNodes - 1 -> Bufs \cup {NoBuf}]
  BY MemoryAssumption DEF Net
<1>. QED
  BY <1>2, <1>3, MemoryAssumption DEF LookedUp

\* What is given back was used for the last time.
LEMMA GivenBack ==
  ASSUME AllRecognised, IInv, Place,
         NEW stale \in SUBSET {b \in Owned(pos) : last[b] = 0}, NEW k \in Done(stale)
  PROVE  /\ k \in All(net) /\ k[1] \in Bufs /\ k[1] \notin prot
         /\ last[k[1]] = pos /\ Own(net, k[1]) <= pos
<1>. USE DEF Place
<1>1. PICK b \in Owned(pos) \cup Inputs(pos) :
        k = Bl(net, b, runs) /\ ~Spared(pos, b) /\ (last[b] = pos \/ b \in stale)
  BY Same DEF Done
<1>2. pos \in Nodes /\ b \in Bufs
  BY Graphs, MemoryAssumption DEF IInv, Shape, Nodes, Owned, Inputs
<1>3. k \in All(net) /\ k[1] = b
  <2>1. runs \in Nat /\ net \in Nets
    BY DEF IInv, Shape
  <2>2. Bl(net, b, runs) \in All(net) /\ Bl(net, b, runs)[1] = b
    BY <1>2, <2>1, Blks
  <2>. QED
    BY <1>1, <2>2
<1>4. b \notin prot
  <2>1. CASE b \in Owned(pos)
    <3>1. LookedUp(net, b) # NoBuf /\ LookedUp(net, b) \notin prot
      BY <1>1, <2>1 DEF Spared
    <3>2. LookedUp(net, b) \in Bufs \cup {NoBuf}
      BY <1>2, Looked DEF IInv, Shape
    <3>3. ~Protected(net, LookedUp(net, b))
      BY <3>1, <3>2, Uses
    <3>4. ~Protected(net, b)
      BY <1>2, <3>1, <3>3 DEF AllRecognised, Recognised, IInv, Shape
    <3>. QED
      BY <1>2, <3>4, Uses
  <2>2. CASE b \notin Owned(pos)
    BY <1>1, <2>2 DEF Spared
  <2>. QED
    BY <2>1, <2>2
<1>5. Own(net, b) <= last[b] /\ Own(net, b) \in Nodes
  BY <1>2, <1>4, Uses, Graphs DEF IInv, Shape
<1>6. last[b] = pos
  BY <1>1, <1>5 DEF Nodes
<1>. QED
  BY <1>2, <1>3, <1>4, <1>5, <1>6

LEMMA PlaceInv == AllRecognised /\ IInv /\ Place => IInv'
<1>. SUFFICES ASSUME AllRecognised, IInv, Place PROVE IInv'
  OBVIOUS
<1>1. pos \in Nodes /\ Laid = pos - 1 /\ Laid' = pos /\ Seen' = Seen
  BY DEF Place, IInv, Shape, Laid, Seen, Nodes
<1>2. PICK place \in [Given -> Free], stale \in SUBSET {b \in Owned(pos) : last[b] = 0} :
        /\ \A k, l \in Given : place[k] = place[l] => k = l
        /\ \A k \in Given : place[k] \in Arena(k[1])
        /\ mem' = [k \in Blocks |-> IF k \in Given THEN place[k] ELSE mem[k]]
        /\ freed' = freed \cup Done(stale)
  BY DEF Place
<1>3. UNCHANGED <<net, phase, prot, last, content, made, runs, since, upload>> /\ pos' = pos + 1
  BY DEF Place
<1>4. /\ phase = "place"
      /\ \A k : k \in Given <=> k \in All(net) /\ Own(net, k[1]) = pos
  BY <1>1 DEF Place, Given, BlocksOf, Owned, All, D, Double, Own, Blocks
<1>5. \A k \in All(net) : k \in Blocks /\ Own(net, k[1]) \in Nodes
  BY Graphs DEF All, Blocks, IInv, Shape
<1>6. \A k \in Done(stale) : /\ k \in All(net) /\ k[1] \in Bufs /\ k[1] \notin prot
                             /\ last[k[1]] = pos /\ Own(net, k[1]) <= pos
  BY GivenBack
<1>7. Shape'
  <2>1. mem' \in [Blocks -> Units \cup {NoUnit}]
    BY <1>2 DEF IInv, Shape, Free
  <2>2. freed' \subseteq Blocks
    BY <1>2, <1>5, <1>6 DEF IInv, Shape
  <2>. QED
    BY <1>1, <1>3, <1>4, <2>1, <2>2, MemoryAssumption DEF IInv, Shape, Nodes
<1>8. Marks'
  BY <1>1, <1>3 DEF IInv, Marks
<1>9. Layout'
  <2>1. ASSUME NEW k \in All(net), Own(net, k[1]) <= pos PROVE mem'[k] \in Arena(k[1])
    <3>1. CASE k \in Given
      BY <1>2, <1>5, <3>1
    <3>2. CASE k \notin Given
      <4>1. Own(net, k[1]) <= Laid
        BY <1>1, <1>4, <1>5, <2>1, <3>2 DEF Nodes
      <4>. QED
        BY <1>2, <1>5, <3>2, <4>1 DEF IInv, Layout
    <3>. QED
      BY <3>1, <3>2
  <2>2. ASSUME NEW k \in freed'
        PROVE  k \in All(net) /\ k[1] \notin prot /\ last[k[1]] <= pos /\ Own(net, k[1]) <= pos
    <3>1. CASE k \in Done(stale)
      BY <1>1, <1>6, <3>1 DEF Nodes
    <3>2. CASE k \in freed
      <4>1. /\ k \in All(net) /\ k[1] \notin prot /\ last[k[1]] <= Laid
            /\ Own(net, k[1]) <= Laid /\ k[1] \in Bufs
        BY <3>2 DEF IInv, Layout, All, Blocks
      <4>. QED
        BY <1>1, <1>5, <4>1 DEF IInv, Shape, Nodes
    <3>. QED
      BY <1>2, <3>1, <3>2
  <2>. QED
    BY <1>1, <1>3, <2>1, <2>2 DEF Layout, Arena
<1>10. Apart'
  <2>. SUFFICES ASSUME NEW k \in All(net), NEW l \in All(net),
                       Own(net, k[1]) <= Own(net, l[1]), Own(net, l[1]) <= pos,
                       k # l, mem'[k] = mem'[l]
                PROVE  /\ k[1] \notin prot /\ l[1] \notin prot
                       /\ last[k[1]] < Own(net, l[1]) \/ last[l[1]] < Own(net, k[1])
    BY <1>1, <1>3, <1>5 DEF Apart, Nodes
  <2>1. CASE l \notin Given
    <3>1. Own(net, k[1]) <= Laid /\ Own(net, l[1]) <= Laid /\ k \notin Given
      BY <1>1, <1>4, <1>5, <2>1 DEF Nodes
    <3>. QED
      BY <1>2, <1>5, <2>1, <3>1 DEF IInv, Apart
  <2>2. CASE l \in Given /\ k \in Given
    BY <1>2, <1>5, <2>2
  <2>3. CASE l \in Given /\ k \notin Given
    <3>1. Own(net, k[1]) < pos /\ Own(net, k[1]) <= Laid
      BY <1>1, <1>4, <1>5, <2>3 DEF Nodes
    <3>2. mem[k] \in Free
      BY <1>2, <1>5, <2>3
    <3>3. k \in freed
      BY <3>1, <3>2 DEF Free, InUse, BlocksOf, All, Own, D, Double, Blocks
    <3>4. k[1] \notin prot /\ last[k[1]] <= Laid /\ k[1] \in Bufs
      BY <3>3 DEF IInv, Layout, All, Blocks
    <3>5. last[k[1]] < Own(net, l[1])
      BY <1>1, <1>4, <2>3, <3>4 DEF IInv, Shape, Nodes
    <3>6. l[1] \notin prot
      <4>1. place[l] \in Arena(l[1]) /\ mem[k] \in Arena(k[1]) /\ place[l] = mem[k]
        BY <1>2, <1>5, <2>3, <3>1 DEF IInv, Layout
      <4>. QED
        BY <3>4, <4>1, MemoryAssumption DEF Arena
    <3>. QED
      BY <3>4, <3>5, <3>6
  <2>. QED
    BY <2>1, <2>2, <2>3
<1>. QED
  BY <1>3, <1>4, <1>7, <1>8, <1>9, <1>10
  DEF IInv, Aliased, Written, Cached, FedBack

-----------------------------------------------------------------------------
(* Running *)

\* Who else could write to the memory of block k while its node runs
LEMMA Sharing ==
  ASSUME IInv, phase = "run", NEW b \in Bufs, Own(net, b) = pos,
         NEW k \in All(net), k # Bl(net, b, runs), mem[k] = mem[Bl(net, b, runs)]
  PROVE  /\ b \notin prot /\ k[1] \notin prot
         /\ last[k[1]] < pos \/ last[b] < Own(net, k[1])
<1>1. /\ net \in Nets /\ runs \in Nat /\ Laid = NumNodes
      /\ Bl(net, b, runs) \in All(net) /\ Bl(net, b, runs)[1] = b
  BY Blks DEF IInv, Shape, Laid
<1>2. Own(net, k[1]) <= Laid /\ Own(net, b) <= Laid
  BY <1>1, Graphs, Blks DEF All, Blocks, Nodes
<1>. QED
  BY <1>1, <1>2 DEF IInv, Apart

LEMMA Writing ==
  ASSUME IInv, Execute, NEW k \in All(net)
  PROVE  /\ mem[k] \in Units
         /\ (\A w \in Writes(pos) : mem[Bl(net, w, runs)] # mem[k])
              => content'[mem[k]] = content[mem[k]]
         /\ \A b \in Writes(pos) :
              /\ k = Bl(net, b, runs)
              /\ \A w \in Writes(pos) \ {b} : mem[Bl(net, w, runs)] # mem[k]
              => content'[mem[k]] = <<b, runs>>
<1>1. mem[k] \in Units
  <2>1. Own(net, k[1]) <= Laid
    BY Graphs DEF Execute, IInv, Shape, Laid, All, Blocks, Nodes
  <2>. QED
    BY <2>1 DEF IInv, Layout, Arena, Units
<1>2. content' = [u \in Units |->
         IF \E b \in Writes(pos) : mem[Bl(net, b, runs)] = u
           THEN <<CHOOSE b \in Writes(pos) : mem[Bl(net, b, runs)] = u, runs>>
           ELSE content[u]]
  BY Same DEF Execute
<1>3. ASSUME NEW b \in Writes(pos), k = Bl(net, b, runs),
             \A w \in Writes(pos) \ {b} : mem[Bl(net, w, runs)] # mem[k]
      PROVE  content'[mem[k]] = <<b, runs>>
  <2>1. \A w \in Writes(pos) : mem[Bl(net, w, runs)] = mem[k] => w = b
    BY <1>3
  <2>2. (CHOOSE w \in Writes(pos) : mem[Bl(net, w, runs)] = mem[k]) = b
    BY <1>3, <2>1
  <2>. QED
    BY <1>1, <1>2, <1>3, <2>2
<1>. QED
  BY <1>1, <1>2, <1>3

LEMMA ExecuteInv == IInv /\ Execute => IInv'
<1>. SUFFICES ASSUME IInv, Execute PROVE IInv'
  OBVIOUS
<1>1. /\ pos \in Nodes /\ pos' = pos + 1 /\ phase = "run" /\ phase' = "run"
      /\ Laid = NumNodes /\ Laid' = Laid /\ Seen' = Seen
      /\ net \in Nets /\ runs \in Nat
      /\ UNCHANGED <<net, phase, prot, last, mem, freed, runs, since, upload>>
  BY DEF Execute, IInv, Shape, Laid, Seen, Nodes
<1>2. made' = [b \in Bufs |-> IF b \in Writes(pos) THEN runs ELSE made[b]]
  BY DEF Execute
<1>3. \A w \in Writes(pos) : w \in Bufs /\ Own(net, w) = pos
  BY DEF Writes, Owned, Own
<1>4. \A b \in Bufs : Own(net, b) \in Nodes /\ last[b] \in 0 .. NumNodes
  BY Graphs DEF IInv, Shape
<1>5. Shape'
  <2>1. content' \in [Units -> (Bufs \X Nat) \cup {<<>>}]
    <3>1. \A u \in Units : (\E b \in Writes(pos) : mem[Block(b, runs)] = u) =>
            (CHOOSE b \in Writes(pos) : mem[Block(b, runs)] = u) \in Bufs
      BY <1>3
    <3>. QED
      BY <1>1, <3>1 DEF Execute, IInv, Shape
  <2>2. made' \in [Bufs -> Nat]
    BY <1>1, <1>2 DEF IInv, Shape
  <2>. QED
    BY <1>1, <2>1, <2>2, MemoryAssumption DEF IInv, Shape, Nodes
\* Nobody writes to protected memory of another block.
<1>6. ASSUME NEW k \in All(net), k[1] \in prot, NEW w \in Writes(pos), k # Bl(net, w, runs)
      PROVE  mem[Bl(net, w, runs)] # mem[k]
  BY <1>1, <1>3, <1>6, Sharing
<1>7. Aliased'
  <2>. SUFFICES ASSUME NEW b \in Bufs \ prot, Own(net, b) <= pos, pos + 1 <= last[b]
                PROVE  content'[Now(b)] = <<b, runs>>
    BY <1>1, <1>4 DEF Aliased, Now, Nodes
  <2>1. Bl(net, b, runs) \in All(net) /\ Bl(net, b, runs)[1] = b
    BY <1>1, Blks
  <2>2. ASSUME NEW w \in Writes(pos), w # b PROVE mem[Bl(net, w, runs)] # mem[Bl(net, b, runs)]
    <3>1. Bl(net, b, runs) # Bl(net, w, runs)
      BY <1>1, <1>3, <2>2, Blks
    <3>2. SUFFICES ASSUME mem[Bl(net, b, runs)] = mem[Bl(net, w, runs)] PROVE FALSE
      OBVIOUS
    <3>3. w \notin prot /\ (last[b] < pos \/ last[w] < Own(net, b))
      BY <1>1, <1>3, <2>1, <3>1, <3>2, Sharing
    <3>4. Own(net, w) <= last[w]
      BY <1>1, <1>3, <3>3, Uses
    <3>. QED
      BY <1>1, <1>3, <1>4, <3>3, <3>4 DEF Nodes
  <2>3. CASE Own(net, b) = pos
    <3>1. b \in Writes(pos)
      <4>1. pos \notin net.cached
        BY <1>1, <2>3, Uses, Graphs
      <4>. QED
        BY <2>3, <4>1 DEF Writes, Owned, Own
    <3>. QED
      BY <2>1, <2>2, <3>1, Writing DEF Now
  <2>4. CASE Own(net, b) # pos
    <3>1. b \notin Writes(pos) /\ Own(net, b) < pos /\ pos <= last[b]
      BY <1>1, <1>3, <1>4, <2>4 DEF Nodes
    <3>2. content[Now(b)] = <<b, runs>>
      BY <1>1, <3>1 DEF IInv, Aliased
    <3>. QED
      BY <2>1, <2>2, <3>1, <3>2, Writing DEF Now
  <2>. QED
    BY <2>3, <2>4
<1>8. ASSUME NEW b \in prot
      PROVE  /\ Bl(net, b, runs) \in All(net) /\ b \in Bufs
             /\ b \in Writes(pos) => content'[Now(b)] = <<b, runs>>
             /\ b \notin Writes(pos) => content'[Now(b)] = content[Now(b)]
             /\ D(net, b) => content'[Then(b)] = content[Then(b)]
  <2>1. /\ b \in Bufs /\ Bl(net, b, runs) \in All(net) /\ Bl(net, b, runs)[1] = b
        /\ Bl(net, b, runs + 1) \in All(net) /\ Bl(net, b, runs + 1)[1] = b
    <3>1. b \in Bufs /\ runs + 1 \in Nat
      BY <1>1 DEF IInv, Shape
    <3>. QED
      BY <1>1, <3>1, Blks
  <2>2. \A w \in Writes(pos) \ {b} : mem[Bl(net, w, runs)] # mem[Bl(net, b, runs)]
    <3>1. \A w \in Writes(pos) \ {b} : Bl(net, b, runs) # Bl(net, w, runs)
      BY <1>1, <1>3, <2>1, Blks
    <3>. QED
      BY <1>6, <2>1, <3>1
  <2>3. D(net, b) => \A w \in Writes(pos) : mem[Bl(net, w, runs)] # mem[Bl(net, b, runs + 1)]
    <3>1. D(net, b) => \A w \in Writes(pos) : Bl(net, b, runs + 1) # Bl(net, w, runs)
      <4>1. D(net, b) => Bl(net, b, runs + 1) # Bl(net, b, runs)
        BY <1>1, <2>1, Blks
      <4>2. \A w \in Writes(pos) \ {b} : Bl(net, b, runs + 1) # Bl(net, w, runs)
        BY <1>1, <1>3, <2>1, Blks
      <4>. QED
        BY <4>1, <4>2
    <3>. QED
      BY <1>6, <2>1, <3>1
  <2>. QED
    BY <2>1, <2>2, <2>3, Writing DEF Now, Then
<1>9. Written'
  <2>. SUFFICES ASSUME NEW b \in prot, Own(net, b) \notin net.cached, Own(net, b) <= pos
                PROVE  content'[Now(b)] = <<b, runs>>
    <3>1. \A b \in prot : Own(net, b) \in Nodes
      BY <1>4 DEF IInv, Shape
    <3>. QED
      BY <1>1, <3>1 DEF Written, Now, Nodes
  <2>1. CASE Own(net, b) = pos
    <3>1. b \in Writes(pos)
      BY <1>8, <2>1 DEF Writes, Owned, Own
    <3>. QED
      BY <1>8, <3>1
  <2>2. CASE Own(net, b) # pos
    <3>1. b \notin Writes(pos) /\ Own(net, b) < pos
      BY <1>1, <1>3, <1>4, <1>8, <2>2 DEF Nodes
    <3>. QED
      BY <1>1, <1>8, <3>1 DEF IInv, Written
  <2>. QED
    BY <2>1, <2>2
<1>10. Cached'
  <2>. SUFFICES ASSUME NEW b \in prot, Own(net, b) \in net.cached,
                       Own(net, b) <= pos \/ runs > since
                PROVE  content'[Now(b)] = <<b, made'[b]>>
    <3>1. \A b \in prot : Own(net, b) \in Nodes
      BY <1>4 DEF IInv, Shape
    <3>. QED
      BY <1>1, <3>1 DEF Cached, Now, Nodes
  <2>1. CASE b \in Writes(pos)
    BY <1>2, <1>8, <2>1
  <2>2. CASE b \notin Writes(pos)
    <3>1. Own(net, b) < pos \/ runs > since
      <4>1. Own(net, b) = pos => upload # net.cached
        BY <1>8, <2>2 DEF Writes, Owned, Own
      <4>2. upload # net.cached => runs > since
        BY <1>1 DEF IInv, Shape
      <4>. QED
        BY <1>1, <1>4, <1>8, <4>1, <4>2 DEF Nodes
    <3>2. made'[b] = made[b]
      BY <1>2, <1>8, <2>2
    <3>. QED
      BY <1>1, <1>8, <2>2, <3>1, <3>2 DEF IInv, Cached
  <2>. QED
    BY <2>1, <2>2
<1>11. FedBack'
  <2>. SUFFICES ASSUME runs > since, NEW b \in Bufs, D(net, b)
                PROVE  content'[Then(b)] = <<b, runs - 1>>
    BY <1>1 DEF FedBack, Then
  <2>1. b \in prot
    BY <1>1, Uses
  <2>. QED
    BY <1>1, <1>8, <2>1 DEF IInv, FedBack
<1>. QED
  BY <1>1, <1>5, <1>7, <1>9, <1>10, <1>11
  DEF IInv, Marks, Layout, Apart, Arena

LEMMA ExecutedInv == IInv /\ Executed => IInv'
<1>. SUFFICES ASSUME IInv, Executed PROVE IInv'
  OBVIOUS
<1>. USE DEF Executed
<1>1. Seen' = Seen /\ Laid' = Laid
  BY DEF Seen, Laid
<1>2. Shape'
  BY DEF IInv, Shape
<1>. QED
  BY <1>1, <1>2
  DEF IInv, Marks, Layout, Apart, Arena, Aliased, Written, Cached, FedBack, Now, Then

LEMMA RecordInv == IInv /\ Record => IInv'
<1>. SUFFICES ASSUME IInv, Record PROVE IInv'
  OBVIOUS
<1>. USE DEF Record
<1>1. /\ Seen' = Seen /\ Laid' = Laid /\ net \in Nets /\ runs \in Nat /\ since <= runs
      /\ pos = NumNodes + 1 /\ prot \subseteq Bufs
  BY DEF Seen, Laid, IInv, Shape
<1>2. Shape'
  BY MemoryAssumption DEF IInv, Shape
<1>3. \A b \in Bufs : Own(net, b) < pos /\ ~ Own(net, b) < 1
  BY <1>1, Graphs, MemoryAssumption DEF Nodes
<1>4. Written'
  BY <1>1, <1>3 DEF Written
<1>5. Cached'
  <2>. SUFFICES ASSUME NEW b \in prot, Own(net, b) \in net.cached
                PROVE  content[mem[Bl(net, b, runs + 1)]] = <<b, made[b]>>
    BY DEF Cached, Now
  <2>1. ~D(net, b)
    BY <1>1, Graphs
  <2>2. Bl(net, b, runs + 1) = Bl(net, b, runs)
    BY <1>1, <2>1, Blks
  <2>. QED
    BY <1>1, <1>3, <2>2 DEF IInv, Cached, Now
<1>6. FedBack'
  <2>. SUFFICES ASSUME NEW b \in Bufs, D(net, b)
                PROVE  content[mem[Bl(net, b, runs + 2)]] = <<b, runs>>
    BY <1>1 DEF FedBack, Then
  <2>1. b \in prot /\ Own(net, b) \notin net.cached
    BY <1>1, Uses, Graphs
  <2>2. Bl(net, b, runs + 2) = Bl(net, b, runs)
    BY <1>1, Blks
  <2>. QED
    BY <1>1, <1>3, <2>1, <2>2 DEF IInv, Written, Now
<1>. QED
  BY <1>1, <1>2, <1>3, <1>4, <1>5, <1>6
  DEF IInv, Marks, Layout, Apart, Arena, Aliased

LEMMA IInvHolds == ASSUME AllRecognised PROVE Spec => []IInv
<1>1. IInv /\ [Next]_vars => IInv'
  <2>. SUFFICES ASSUME IInv, [Next]_vars PROVE IInv'
    OBVIOUS
  <2>1. CASE UNCHANGED vars
    BY <2>1 DEF vars, IInv, Shape, Marks, Layout, Apart, Arena, Aliased, Written, Cached,
                FedBack, Now, Then, Seen, Laid
  <2>2. CASE Mark
    BY <2>2, MarkInv
  <2>3. CASE Marked
    BY <2>3, MarkedInv
  <2>4. CASE Place
    BY <2>4, PlaceInv, AllRecognised
  <2>5. CASE Placed
    BY <2>5, PlacedInv
  <2>6. CASE Execute
    BY <2>6, ExecuteInv
  <2>7. CASE Executed
    BY <2>7, ExecutedInv
  <2>8. CASE Allocate
    BY <2>8, AllocateInv
  <2>9. CASE Record
    BY <2>9, RecordInv
  <2>. QED
    BY <2>1, <2>2, <2>3, <2>4, <2>5, <2>6, <2>7, <2>8, <2>9 DEF Next
<1>. QED
  BY <1>1, InitInv, PTL DEF Spec

-----------------------------------------------------------------------------
(* What a node finds in its inputs *)

LEMMA Found ==
  ASSUME IInv, NEW b \in Bufs, Own(net, b) < pos,
         \/ phase = "run" /\ pos \in Nodes /\ b \in net.reads[pos]
         \/ phase = "idle" /\ \E n \in net.sinks : b \in net.reads[n]
  PROVE  Holds(b)
<1>1. /\ phase \in {"run", "idle"} /\ net \in Nets /\ Own(net, b) \in Nodes
      /\ net.cached \subseteq net.guards /\ net.sinks \subseteq net.guards
  BY Graphs DEF IInv, Shape
<1>2. Holds(b) <=> content[Now(b)] = <<b, IF Own(net, b) \in net.cached THEN made[b] ELSE runs>>
  BY Same DEF Holds, Now, Own
<1>3. CASE b \in prot
  BY <1>1, <1>2, <1>3 DEF IInv, Written, Cached
<1>4. CASE b \notin prot
  <2>1. Own(net, b) \notin net.cached
    BY <1>1, <1>4, Uses
  <2>2. phase = "run" /\ pos <= last[b]
    BY <1>1, <1>4, Uses
  <2>. QED
    BY <1>2, <1>4, <2>1, <2>2 DEF IInv, Aliased
<1>. QED
  BY <1>3, <1>4

LEMMA NotOverwritten ==
  ASSUME IInv, phase = "run", pos \in Nodes, NEW w \in Writes(pos)
  PROVE  mem[Block(w, runs)] \notin Read(pos)
<1>1. /\ w \in Bufs /\ Own(net, w) = pos /\ net \in Nets /\ runs \in Nat /\ runs + 1 \in Nat
      /\ \A b \in Bufs : last[b] \in 0 .. NumNodes /\ Own(net, b) \in Nodes
  BY Graphs DEF Writes, Owned, Own, IInv, Shape
<1>2. ASSUME NEW b \in net.reads[pos] PROVE mem[Bl(net, w, runs)] # mem[Bl(net, b, runs)]
  <2>1. b \in Bufs /\ Own(net, b) < pos
    BY <1>1, Graphs
  <2>2. Bl(net, b, runs) \in All(net) /\ Bl(net, b, runs)[1] = b /\ Bl(net, b, runs) # Bl(net, w, runs)
    BY <1>1, <2>1, Blks DEF Nodes
  <2>. SUFFICES ASSUME mem[Bl(net, b, runs)] = mem[Bl(net, w, runs)] PROVE FALSE
    OBVIOUS
  <2>3. /\ w \notin prot /\ b \notin prot
        /\ last[b] < pos \/ last[w] < Own(net, b)
    BY <1>1, <2>2, Sharing
  <2>4. Own(net, w) <= last[w] /\ pos <= last[b]
    BY <1>1, <2>1, <2>3, Uses
  <2>. QED
    BY <1>1, <2>1, <2>3, <2>4 DEF Nodes
<1>3. ASSUME NEW b \in net.feeds[pos] PROVE mem[Bl(net, w, runs)] # mem[Bl(net, b, runs + 1)]
  <2>1. b \in Bufs /\ D(net, b)
    BY <1>1, Graphs DEF D
  <2>2. b \in prot
    BY <2>1, Uses
  <2>3. Bl(net, b, runs + 1) \in All(net) /\ Bl(net, b, runs + 1)[1] = b
    BY <1>1, <2>1, Blks
  <2>4. Bl(net, b, runs + 1) # Bl(net, w, runs)
    <3>1. CASE b = w
      BY <1>1, <2>1, <3>1, Blks
    <3>2. CASE b # w
      BY <1>1, <2>1, <3>2, Blks
    <3>. QED
      BY <3>1, <3>2
  <2>. QED
    BY <1>1, <2>2, <2>3, <2>4, Sharing
<1>. QED
  BY <1>2, <1>3, Same DEF Read

\* What is executed has memory in the right arena, only memory that was handed
\* out is given back (alloc_alias_memory), and the other types.
THEOREM MemoryTypeOK == ASSUME AllRecognised PROVE Spec => []TypeOK
<1>1. IInv => TypeOK
  <2>. SUFFICES ASSUME IInv PROVE TypeOK
    OBVIOUS
  <2>1. phase \in {"run", "idle"} => \A k \in BlocksOf(Bufs) : mem[k] \in Arena(k[1])
    <3>1. phase \in {"run", "idle"} => Laid = NumNodes
      BY DEF Laid
    <3>2. \A k \in All(net) : Own(net, k[1]) <= NumNodes
      BY Graphs DEF IInv, Shape, All, Blocks, Nodes
    <3>. QED
      BY <3>1, <3>2, Same DEF IInv, Layout
  <2>2. freed \subseteq {k \in Blocks : mem[k] # NoUnit}
    <3>1. \A k \in freed : k \in Blocks /\ mem[k] \in Units
      BY DEF IInv, Shape, Layout, Arena, Units
    <3>. QED
      BY <3>1, MemoryAssumption
  <2>. QED
    BY <2>1, <2>2 DEF IInv, Shape, TypeOK
<1>. QED
  BY <1>1, IInvHolds, PTL

\* However buffers share memory, nodes find in their inputs what was written
\* for them and do not overwrite it, and sinks keep what they read
\* (alloc_outputs, alloc_alias_memory): for all graphs without an output that
\* is taken for one that need not survive.
THEOREM MemoryReadsHold == ASSUME AllRecognised PROVE Spec => []ReadsHold
<1>1. IInv => ReadsHold
  <2>. SUFFICES ASSUME IInv PROVE ReadsHold
    OBVIOUS
  <2>1. net \in Nets /\ runs \in Nat
    BY DEF IInv, Shape
  <2>2. ASSUME phase = "run", pos <= NumNodes
        PROVE  /\ \A b \in net.reads[pos] : Holds(b)
               /\ \A b \in net.feeds[pos] : runs > since =>
                    content[mem[Block(b, runs + 1)]] = <<b, runs - 1>>
               /\ \A b \in Writes(pos) : mem[Block(b, runs)] \notin Read(pos)
    <3>1. pos \in Nodes
      BY <2>2 DEF IInv, Shape, Nodes
    <3>2. \A b \in net.reads[pos] : b \in Bufs /\ Own(net, b) < pos
      BY <2>1, <3>1, Graphs
    <3>3. \A b \in net.feeds[pos] : b \in Bufs /\ D(net, b)
      BY <2>1, <3>1, Graphs DEF D
    <3>. QED
      BY <2>2, <3>1, <3>2, <3>3, Found, NotOverwritten, Same DEF IInv, FedBack, Then
  <2>3. ASSUME phase = "idle", NEW n \in net.sinks, NEW b \in net.reads[n]
        PROVE  Holds(b)
    <3>1. n \in Nodes /\ b \in Bufs
      BY <2>1, Graphs
    <3>2. Own(net, b) < pos
      BY <2>1, <2>3, <3>1, Graphs, MemoryAssumption DEF IInv, Shape, Nodes
    <3>. QED
      BY <2>3, <3>1, <3>2, Found
  <2>. QED
    BY <2>2, <2>3 DEF ReadsHold
<1>. QED
  BY <1>1, IInvHolds, PTL
=============================================================================
