-------------------------- MODULE ThumbCacheProofs --------------------------
(***************************************************************************)
(* What TLAPS proves of the thumbnail cache, for every collection, size of *)
(* the cache, number of frames in flight and length of a list.             *)
(***************************************************************************)
EXTENDS ThumbCache, TLAPS

(***************************************************************************)
(* The list.  Links(l, h, m, r, n): the links l of n entries lead from h   *)
(* to m in the order of the ranks r.                                       *)
(***************************************************************************)
LinkType(n) == [prev : [Entries(n) -> Entries(n)], next : [Entries(n) -> Entries(n)]]

Before(l, r, t) ==
  IF r[t] = 1 THEN l.prev[t] = Null ELSE l.prev[t] # Null /\ r[l.prev[t]] = r[t] - 1

Behind(l, r, t, n) ==
  IF r[t] = n - 1 THEN l.next[t] = Null ELSE l.next[t] # Null /\ r[l.next[t]] = r[t] + 1

Links(l, h, m, r, n) ==
  /\ l \in LinkType(n) /\ h \in Listed(n) /\ m \in Listed(n)
  /\ r \in [Listed(n) -> Listed(n)]
  /\ r[h] = 1 /\ r[m] = n - 1
  /\ \A t \in Listed(n) : Before(l, r, t) /\ Behind(l, r, t, n)
  /\ \A s, t \in Listed(n) : r[s] = r[t] => s = t

\* The ranks when th was used
Used1(r, th, n) ==
  [t \in Listed(n) |-> IF t = th THEN n - 1 ELSE IF r[t] > r[th] THEN r[t] - 1 ELSE r[t]]

\* The links when th was put at the end of the list with tail m
Turned(l, th, m) ==
  DLIST_APPEND(DLIST_RM_ELEMENT(l, th), IF m = th THEN l.prev[th] ELSE m, th)

\* What the five assignments of the two macros come to, for the tail ...
LEMMA TurnTail ==
  ASSUME NEW n \in Nat, n >= 3, NEW l, NEW h, NEW m, NEW r, Links(l, h, m, r, n)
  PROVE  Turned(l, m, m) = l
PROOF
  <1> DEFINE p == l.prev[m]
  <1>1. l \in LinkType(n) /\ m \in Listed(n) /\ r[m] = n - 1
    BY DEF Links
  <1>2. l.prev \in [Entries(n) -> Entries(n)] /\ l.next \in [Entries(n) -> Entries(n)]
        /\ l = [prev |-> l.prev, next |-> l.next]
    BY <1>1 DEF LinkType
  <1>3. Before(l, r, m) /\ Behind(l, r, m, n)
    BY <1>1 DEF Links
  <1>4. p # Null /\ r[p] = n - 2
    BY <1>1, <1>3 DEF Before
  <1>5. p \in Listed(n) /\ p # m
    BY <1>1, <1>2, <1>4 DEF Entries, Listed, Null
  <1>6. l.next[m] = Null
    BY <1>1, <1>3 DEF Behind
  <1>7. l.next[p] = m
    <2>1. Behind(l, r, p, n)
      BY <1>5 DEF Links
    <2>2. l.next[p] # Null /\ r[l.next[p]] = r[m]
      BY <2>1, <1>1, <1>4 DEF Behind
    <2>3. l.next[p] \in Listed(n)
      BY <2>2, <1>2, <1>5 DEF Entries, Listed, Null
    <2> QED
      BY <2>2, <2>3, <1>1 DEF Links
  <1>8. DLIST_RM_ELEMENT(l, m) = [prev |-> [l.prev EXCEPT ![m] = Null],
                                  next |-> [[l.next EXCEPT ![p] = Null] EXCEPT ![m] = Null]]
    BY <1>4, <1>6 DEF DLIST_RM_ELEMENT, Assign
  <1> DEFINE d == DLIST_RM_ELEMENT(l, m)
  <1>9. d.prev = [l.prev EXCEPT ![m] = Null]
        /\ d.next = [[l.next EXCEPT ![p] = Null] EXCEPT ![m] = Null]
    BY <1>8
  <1>10. p \in Entries(n) /\ m \in Entries(n)
    BY <1>1, <1>5 DEF Entries, Listed
  <1>11. d.next[p] = Null
    BY <1>2, <1>5, <1>9, <1>10
  <1>12. DLIST_APPEND(d, p, m) = [prev |-> [d.prev EXCEPT ![m] = p],
                                  next |-> [[d.next EXCEPT ![m] = Null] EXCEPT ![p] = m]]
    BY <1>4, <1>11 DEF DLIST_APPEND, Assign
  <1>13. [d.prev EXCEPT ![m] = p] = l.prev
    BY <1>2, <1>9, <1>10
  <1>14. [[d.next EXCEPT ![m] = Null] EXCEPT ![p] = m] = l.next
    BY <1>2, <1>5, <1>6, <1>7, <1>9, <1>10
  <1> QED
    BY <1>2, <1>12, <1>13, <1>14 DEF Turned

\* ... and for another entry
LEMMA TurnOther ==
  ASSUME NEW n \in Nat, n >= 3, NEW l, NEW h, NEW m, NEW r, Links(l, h, m, r, n),
         NEW th \in Listed(n), th # m
  PROVE  LET p == l.prev[th]  q == l.next[th]  u == Turned(l, th, m)
         IN /\ u \in LinkType(n)
            /\ q # Null /\ q # th /\ p # m /\ p # th
            /\ u.prev = [[l.prev EXCEPT ![q] = p] EXCEPT ![th] = m]
            /\ u.next = [[Assign(l.next, p, q) EXCEPT ![th] = Null] EXCEPT ![m] = th]
PROOF
  <1> DEFINE p == l.prev[th]  q == l.next[th]  u == Turned(l, th, m)
  <1>1. l \in LinkType(n) /\ m \in Listed(n) /\ r[m] = n - 1 /\ r \in [Listed(n) -> Listed(n)]
    BY DEF Links
  <1>2. l.prev \in [Entries(n) -> Entries(n)] /\ l.next \in [Entries(n) -> Entries(n)]
        /\ th \in Entries(n) /\ m \in Entries(n)
    <2>1. th \in Entries(n) /\ m \in Entries(n)
      BY <1>1 DEF Entries, Listed
    <2> QED
      BY <1>1, <2>1 DEF LinkType
  <1>3. Before(l, r, th) /\ Behind(l, r, th, n) /\ Behind(l, r, m, n)
    BY <1>1 DEF Links
  <1>4. r[th] # n - 1 /\ r[th] \in Nat /\ r[th] < n - 1
    BY <1>1 DEF Links, Listed
  <1>5. q # Null /\ r[q] = r[th] + 1
    BY <1>3, <1>4 DEF Behind
  <1>6. q # th
    BY <1>4, <1>5
  <1>7. p # m /\ p # th
    <2>1. CASE r[th] = 1
      BY <2>1, <1>1, <1>3 DEF Before, Listed, Null
    <2>2. CASE r[th] # 1
      BY <2>2, <1>1, <1>3, <1>4 DEF Before
    <2> QED
      BY <2>1, <2>2
  <1>8. l.next[m] = Null
    BY <1>1, <1>3 DEF Behind
  <1> DEFINE d == DLIST_RM_ELEMENT(l, th)
  <1>9. d.prev = [[l.prev EXCEPT ![q] = p] EXCEPT ![th] = Null]
        /\ d.next = [Assign(l.next, p, q) EXCEPT ![th] = Null]
    BY <1>5 DEF DLIST_RM_ELEMENT, Assign
  <1>10. p \in Entries(n) /\ q \in Entries(n)
    BY <1>2
  <1>11. Assign(l.next, p, q) \in [Entries(n) -> Entries(n)]
         /\ Assign(l.next, p, q)[m] = Null
    BY <1>2, <1>7, <1>8, <1>10 DEF Assign
  <1>12. d.prev \in [Entries(n) -> Entries(n)] /\ d.next \in [Entries(n) -> Entries(n)]
         /\ d.next[m] = Null
    BY <1>2, <1>9, <1>10, <1>11 DEF Entries, Null
  <1>13. m # Null
    BY <1>1 DEF Listed, Null
  <1>14. DLIST_APPEND(d, m, th) = [prev |-> [d.prev EXCEPT ![th] = m],
                                   next |-> [[d.next EXCEPT ![th] = Null] EXCEPT ![m] = th]]
    BY <1>12, <1>13 DEF DLIST_APPEND, Assign
  <1>15. u = DLIST_APPEND(d, m, th)
    BY DEF Turned
  <1>16. u.prev = [[l.prev EXCEPT ![q] = p] EXCEPT ![th] = m]
    BY <1>2, <1>9, <1>10, <1>14, <1>15
  <1>17. u.next = [[Assign(l.next, p, q) EXCEPT ![th] = Null] EXCEPT ![m] = th]
    BY <1>2, <1>9, <1>11, <1>14, <1>15
  <1>18. u.prev \in [Entries(n) -> Entries(n)] /\ u.next \in [Entries(n) -> Entries(n)]
    <2>1. Null \in Entries(n)
      BY DEF Entries, Null
    <2>2. [l.prev EXCEPT ![q] = p] \in [Entries(n) -> Entries(n)]
      BY <1>2, <1>10
    <2>3. [Assign(l.next, p, q) EXCEPT ![th] = Null] \in [Entries(n) -> Entries(n)]
      BY <2>1, <1>11
    <2> QED
      BY <2>2, <2>3, <1>2, <1>16, <1>17
  <1>19. u \in LinkType(n)
    BY <1>14, <1>15, <1>18 DEF LinkType
  <1> QED
    BY <1>5, <1>6, <1>7, <1>16, <1>17, <1>19

\* The head of the list when th is taken out
Head1(l, h, th) == IF th = h THEN l.next[h] ELSE h

Distinct(r, n) == \A s, t \in Listed(n) : r[s] = r[t] => s = t

\* R has th at the end, and the others as in r.
Reordered(r, R, th, n) ==
  /\ R[th] = n - 1
  /\ \A t \in Listed(n) \ {th} :
       /\ r[t] > r[th] => R[t] = r[t] - 1
       /\ r[t] < r[th] => R[t] = r[t]
       /\ r[t] < r[th] \/ r[t] > r[th]

\* The entries are in the new order of use.
LEMMA TurnRanks ==
  ASSUME NEW n \in Nat, n >= 3, NEW r \in [Listed(n) -> Listed(n)],
         Distinct(r, n), NEW th \in Listed(n), NEW R, R = Used1(r, th, n)
  PROVE  R \in [Listed(n) -> Listed(n)] /\ Reordered(r, R, th, n) /\ Distinct(R, n)
PROOF
  <1>1. \A t \in Listed(n) : r[t] \in Nat /\ r[t] >= 1 /\ r[t] <= n - 1
    BY DEF Listed
  <1>2. \A t \in Listed(n) :
          R[t] = IF t = th THEN n - 1 ELSE IF r[t] > r[th] THEN r[t] - 1 ELSE r[t]
    BY DEF Used1
  <1>3. \A t \in Listed(n) \ {th} : r[t] < r[th] \/ r[t] > r[th]
    BY <1>1 DEF Distinct
  <1>4. \A t \in Listed(n) \ {th} : /\ r[t] > r[th] => R[t] = r[t] - 1
                                    /\ r[t] < r[th] => R[t] = r[t]
    BY <1>1, <1>2
  <1>5. ASSUME NEW t \in Listed(n)
        PROVE  R[t] \in Listed(n) /\ (t # th => R[t] < n - 1)
    <2>1. CASE t = th
      BY <2>1, <1>2 DEF Listed
    <2>2. CASE t # th /\ r[t] > r[th]
      BY <2>2, <1>1, <1>4 DEF Listed
    <2>3. CASE t # th /\ r[t] < r[th]
      BY <2>3, <1>1, <1>4 DEF Listed
    <2> QED
      BY <2>1, <2>2, <2>3, <1>3
  <1>6. R \in [Listed(n) -> Listed(n)]
    BY <1>5 DEF Used1
  <1>7. ASSUME NEW s \in Listed(n), NEW t \in Listed(n), R[s] = R[t]
        PROVE  s = t
    <2>1. CASE s = th \/ t = th
      BY <2>1, <1>2, <1>5, <1>7
    <2>2. CASE s # th /\ t # th
      <3>1. r[s] = r[t]
        BY <2>2, <1>1, <1>3, <1>4, <1>7
      <3> QED
        BY <3>1 DEF Distinct
    <2> QED
      BY <2>1, <2>2
  <1> QED
    BY <1>2, <1>3, <1>4, <1>6, <1>7 DEF Reordered, Distinct

\* Putting an entry to the end of the list keeps the list in the order of use.
LEMMA TurnLinks ==
  ASSUME NEW n \in Nat, n >= 3, NEW l, NEW h, NEW m, NEW r, Links(l, h, m, r, n),
         NEW th \in Listed(n)
  PROVE  Links(Turned(l, th, m), Head1(l, h, th), th, Used1(r, th, n), n)
PROOF
  <1> DEFINE p == l.prev[th]  q == l.next[th]  u == Turned(l, th, m)
             R == Used1(r, th, n)  g == Head1(l, h, th)
  <1>0. /\ l.prev \in [Entries(n) -> Entries(n)] /\ l.next \in [Entries(n) -> Entries(n)]
        /\ r \in [Listed(n) -> Listed(n)]
    BY DEF Links, LinkType
  <1>1. /\ l.prev \in [Entries(n) -> Entries(n)] /\ l.next \in [Entries(n) -> Entries(n)]
        /\ h \in Listed(n) /\ m \in Listed(n) /\ r \in [Listed(n) -> Listed(n)]
        /\ r[h] = 1 /\ r[m] = n - 1
        /\ \A t \in Listed(n) : Before(l, r, t) /\ Behind(l, r, t, n)
    BY DEF Links, LinkType
  <1>2. \A s, t \in Listed(n) : r[s] = r[t] => s = t
    BY DEF Links
  <1>a. R \in [Listed(n) -> Listed(n)] /\ Reordered(r, R, th, n) /\ Distinct(R, n)
    <2>1. Distinct(r, n)
      BY <1>2 DEF Distinct
    <2> QED
      BY <2>1, <1>0, TurnRanks
  <1>3. /\ R \in [Listed(n) -> Listed(n)]
        /\ R[th] = n - 1
        /\ \A t \in Listed(n) \ {th} :
             /\ r[t] > r[th] => R[t] = r[t] - 1
             /\ r[t] < r[th] => R[t] = r[t]
             /\ r[t] < r[th] \/ r[t] > r[th]
        /\ \A s, t \in Listed(n) : R[s] = R[t] => s = t
    BY <1>a DEF Reordered, Distinct
  <1>4. \A t \in Listed(n) : r[t] \in Nat /\ r[t] >= 1 /\ r[t] <= n - 1
    <2>1. \A t \in Listed(n) : r[t] \in Listed(n)
      BY <1>0
    <2> QED
      BY <2>1 DEF Listed
  <1>5. CASE th = m
    <2>1. u = l
      BY <1>5, TurnTail
    <2>2. h # th
      BY <1>1, <1>5
    <2>3. R = r
      <3>1. ASSUME NEW t \in Listed(n) PROVE R[t] = r[t]
        BY <1>1, <1>3, <1>4, <1>5
      <3> QED
        BY <3>1, <1>1, <1>3
    <2> QED
      BY <2>1, <2>2, <2>3, <1>5 DEF Head1
  <1>6. CASE th # m
    <2>1. /\ u \in LinkType(n)
          /\ q # Null /\ q # th /\ p # m /\ p # th
          /\ u.prev = [[l.prev EXCEPT ![q] = p] EXCEPT ![th] = m]
          /\ u.next = [[Assign(l.next, p, q) EXCEPT ![th] = Null] EXCEPT ![m] = th]
      BY <1>6, TurnOther
    <2>2. /\ \A t \in Listed(n) : t \in Entries(n) /\ t # Null
          /\ \A t \in Entries(n) : t # Null => t \in Listed(n)
      BY DEF Entries, Listed, Null
    <2>3. p \in Entries(n) /\ q \in Listed(n)
      BY <2>1, <2>2, <1>1
    <2>4. r[th] < n - 1 /\ r[q] = r[th] + 1
      BY <2>1, <1>1, <1>2, <1>4, <1>6 DEF Behind
    <2>5. \/ r[th] = 1 /\ p = Null
          \/ r[th] > 1 /\ p \in Listed(n) /\ r[p] = r[th] - 1
      <3>1. Before(l, r, th) /\ r[th] \in Nat /\ r[th] >= 1
        BY <1>1, <1>4
      <3>2. CASE r[th] = 1
        BY <3>1, <3>2 DEF Before
      <3>3. CASE r[th] # 1
        <4>1. p # Null /\ r[p] = r[th] - 1
          BY <3>1, <3>3 DEF Before
        <4> QED
          BY <4>1, <3>1, <3>3, <2>2, <2>3
      <3> QED
        BY <3>2, <3>3
    <2>6. \A t \in Listed(n) : u.prev[t] = IF t = th THEN m ELSE IF t = q THEN p ELSE l.prev[t]
      <3>1. [l.prev EXCEPT ![q] = p] \in [Entries(n) -> Entries(n)]
        BY <2>2, <2>3, <1>0
      <3>2. \A t \in Entries(n) : [l.prev EXCEPT ![q] = p][t] = IF t = q THEN p ELSE l.prev[t]
        BY <2>2, <2>3, <1>0
      <3> QED
        BY <3>1, <3>2, <2>1, <2>2
    <2>7. \A t \in Listed(n) : u.next[t] = IF t = m THEN th ELSE IF t = th THEN Null
                                           ELSE IF t = p THEN q ELSE l.next[t]
      <3>1. ASSUME NEW t \in Listed(n)
            PROVE  Assign(l.next, p, q)[t] = IF t = p THEN q ELSE l.next[t]
        BY <2>2, <2>3, <1>1 DEF Assign
      <3>2. Assign(l.next, p, q) \in [Entries(n) -> Entries(n)]
        BY <2>2, <2>3, <1>1 DEF Assign
      <3> QED
        BY <3>1, <3>2, <2>1, <2>2, <1>1
    <2>8. g \in Listed(n) /\ R[g] = 1
      <3>1. CASE th = h
        BY <3>1, <2>1, <2>3, <2>4, <1>1, <1>3, <1>4 DEF Head1
      <3>2. CASE th # h
        <4>1. r[h] < r[th]
          BY <3>2, <1>1, <1>2, <1>4
        <4> QED
          BY <3>2, <4>1, <1>1, <1>3 DEF Head1
      <3> QED
        BY <3>1, <3>2
    <2>9. R[m] = n - 2 /\ R[q] = r[th]
      <3>1. m # th /\ r[m] > r[th] /\ r[m] = n - 1 /\ m \in Listed(n)
        BY <2>4, <1>1, <1>6
      <3>2. q # th /\ r[q] > r[th] /\ q \in Listed(n)
        BY <2>1, <2>3, <2>4, <1>4
      <3>3. R[m] = r[m] - 1 /\ R[q] = r[q] - 1
        BY <3>1, <3>2, <1>3
      <3> QED
        BY <3>1, <3>3, <2>4, <1>4
    <2>10. ASSUME NEW t \in Listed(n)
           PROVE  Before(u, R, t)
      <3>1. CASE t = th
        BY <3>1, <2>2, <2>6, <2>9, <1>1, <1>3 DEF Before
      <3>2. CASE t = q
        BY <3>2, <2>1, <2>2, <2>5, <2>6, <2>9, <1>3, <1>4 DEF Before
      <3>3. CASE t # th /\ t # q
        <4> DEFINE s == l.prev[t]
        <4>1. u.prev[t] = s /\ Before(l, r, t) /\ s \in Entries(n)
          BY <3>3, <2>2, <2>6, <1>1
        <4>2. r[t] # r[th] + 1
          BY <3>3, <2>3, <2>4, <1>2
        <4>3. CASE r[t] = 1
          BY <4>1, <4>3, <3>3, <1>3, <1>4 DEF Before
        <4>4. CASE r[t] # 1
          <5>1. s # Null /\ s \in Listed(n) /\ r[s] = r[t] - 1
            BY <4>1, <4>4, <2>2 DEF Before
          <5>2. s # th
            BY <5>1, <4>2, <1>4
          <5>3. CASE r[t] > r[th]
            BY <5>1, <5>2, <5>3, <4>1, <4>2, <3>3, <1>3, <1>4 DEF Before
          <5>4. CASE r[t] < r[th]
            BY <5>1, <5>2, <5>4, <4>1, <4>4, <3>3, <1>3, <1>4 DEF Before
          <5> QED
            BY <5>3, <5>4, <3>3, <1>3
        <4> QED
          BY <4>3, <4>4
      <3> QED
        BY <3>1, <3>2, <3>3
    <2>11. ASSUME NEW t \in Listed(n)
           PROVE  Behind(u, R, t, n)
      <3>1. CASE t = m
        BY <3>1, <2>2, <2>7, <2>9, <1>3 DEF Behind
      <3>2. CASE t = th
        BY <3>2, <2>7, <1>3, <1>6 DEF Behind
      <3>3. CASE t = p
        <4>1. r[th] > 1 /\ r[p] = r[th] - 1
          BY <3>3, <2>2, <2>5
        <4>2. R[p] = r[th] - 1
          BY <4>1, <3>3, <2>1, <1>3, <1>4
        <4>3. u.next[p] = q
          BY <3>3, <2>1, <2>7
        <4> QED
          BY <4>1, <4>2, <4>3, <3>3, <2>1, <2>4, <2>9, <1>4 DEF Behind
      <3>4. CASE t # m /\ t # th /\ t # p
        <4> DEFINE s == l.next[t]
        <4>1. u.next[t] = s /\ Behind(l, r, t, n) /\ s \in Entries(n)
          BY <3>4, <2>2, <2>7, <1>1
        <4>2. r[t] # n - 1
          BY <3>4, <1>1, <1>2
        <4>3. s # Null /\ s \in Listed(n) /\ r[s] = r[t] + 1
          BY <4>1, <4>2, <2>2 DEF Behind
        <4>4. r[t] # r[th] - 1
          BY <3>4, <2>5, <1>2, <1>4
        <4>5. s # th
          BY <4>3, <4>4, <1>4
        <4>6. CASE r[t] > r[th]
          BY <4>1, <4>2, <4>3, <4>5, <4>6, <3>4, <1>3, <1>4 DEF Behind
        <4>7. CASE r[t] < r[th]
          BY <4>1, <4>2, <4>3, <4>4, <4>5, <4>7, <3>4, <2>4, <1>3, <1>4 DEF Behind
        <4> QED
          BY <4>6, <4>7, <3>4, <1>3
      <3> QED
        BY <3>1, <3>2, <3>3, <3>4
    <2> QED
      BY <2>1, <2>8, <2>10, <2>11, <1>3 DEF Links
  <1> QED
    BY <1>5, <1>6

\* dt_thumbnails_init makes such a list.
LEMMA ChainLinks ==
  ASSUME NEW n \in Nat, n >= 3
  PROVE  Links(Chain(n), 1, n - 1, [t \in Listed(n) |-> t], n)
PROOF
  <1> DEFINE l == Chain(n)  r == [t \in Listed(n) |-> t]
  <1>1. \A t \in Listed(n) : t \in Entries(n) /\ t # 0 /\ t - 1 \in Entries(n)
                             /\ (t # n - 1 => t + 1 \in Listed(n) /\ t + 1 \in Entries(n))
                             /\ (t # 1 => t - 1 \in Listed(n))
    BY DEF Listed, Entries
  <1>2. \A t \in Entries(n) : t # 0 => t \in Listed(n)
    BY DEF Listed, Entries
  <1>3. 0 \in Entries(n) /\ 1 \in Listed(n) /\ n - 1 \in Listed(n)
    BY DEF Listed, Entries
  <1>4. l.prev = [t \in Entries(n) |-> IF t = 0 THEN 0 ELSE t - 1]
        /\ l.next = [t \in Entries(n) |-> IF t \in {0, n - 1} THEN 0 ELSE t + 1]
    BY DEF Chain, Null
  <1>5. l \in LinkType(n)
    <2>1. \A t \in Entries(n) : (IF t = 0 THEN 0 ELSE t - 1) \in Entries(n)
      BY <1>1, <1>2, <1>3
    <2>2. \A t \in Entries(n) : (IF t \in {0, n - 1} THEN 0 ELSE t + 1) \in Entries(n)
      BY <1>1, <1>2, <1>3
    <2>3. l = [prev |-> l.prev, next |-> l.next]
      BY DEF Chain
    <2>4. l.prev \in [Entries(n) -> Entries(n)]
      BY <2>1, <1>4
    <2>5. l.next \in [Entries(n) -> Entries(n)]
      BY <2>2, <1>4
    <2> QED
      BY <2>3, <2>4, <2>5 DEF LinkType
  <1>6. r \in [Listed(n) -> Listed(n)] /\ \A t \in Listed(n) : r[t] = t
    OBVIOUS
  <1>7. ASSUME NEW t \in Listed(n)
        PROVE  Before(l, r, t) /\ Behind(l, r, t, n)
    <2>1. l.prev[t] = t - 1 /\ l.next[t] = IF t = n - 1 THEN 0 ELSE t + 1
      BY <1>1, <1>4
    <2>2. t \in Nat /\ t >= 1
      BY DEF Listed
    <2>3. Before(l, r, t)
      BY <2>1, <2>2, <1>1, <1>6 DEF Before, Null
    <2>4. Behind(l, r, t, n)
      BY <2>1, <2>2, <1>1, <1>6 DEF Behind, Null
    <2> QED
      BY <2>3, <2>4
  <1> QED
    BY <1>3, <1>5, <1>6, <1>7 DEF Links

\* The new head, prev of which dt_thumbnails_load_list resets first, had
\* none, or is going to have none.
LEMMA HeadReset ==
  ASSUME NEW n \in Nat, n >= 3, NEW l, NEW h, NEW m, NEW r, Links(l, h, m, r, n),
         NEW th \in Listed(n)
  PROVE  Turned([l EXCEPT !.prev[Head1(l, h, th)] = Null], th, m) = Turned(l, th, m)
PROOF
  <1> DEFINE g == Head1(l, h, th)  c == [l EXCEPT !.prev[g] = Null]
  <1>1. l \in LinkType(n) /\ h \in Listed(n) /\ m \in Listed(n) /\ r[h] = 1 /\ r[m] = n - 1
        /\ Before(l, r, h) /\ Behind(l, r, h, n)
    BY DEF Links
  <1>2. l.prev \in [Entries(n) -> Entries(n)] /\ l.next \in [Entries(n) -> Entries(n)]
        /\ l = [prev |-> l.prev, next |-> l.next]
    BY <1>1 DEF LinkType
  <1>3. c = [prev |-> [l.prev EXCEPT ![g] = Null], next |-> l.next]
    BY <1>1, <1>2 DEF LinkType
  <1>4. l.prev[h] = Null
    BY <1>1 DEF Before
  <1>5. h \in Entries(n) /\ th \in Entries(n)
    BY <1>1 DEF Listed, Entries
  <1>6. CASE th # h
    <2>1. g = h
      BY <1>6 DEF Head1
    <2>2. [l.prev EXCEPT ![h] = Null] = l.prev
      BY <1>2, <1>4, <1>5
    <2>3. c = l
      BY <2>1, <2>2, <1>2, <1>3
    <2> QED
      BY <2>3
  <1>7. CASE th = h
    <2> DEFINE q == l.next[h]
    <2>1. g = q
      BY <1>7 DEF Head1
    <2>2. q # Null /\ r[q] = 2 /\ h # m
      BY <1>1 DEF Behind
    <2>3. q # h /\ q \in Entries(n)
      BY <2>2, <1>1, <1>2, <1>5
    <2>4. c.prev = [l.prev EXCEPT ![q] = Null] /\ c.next = l.next
      BY <2>1, <1>3
    <2>5. c.prev[h] = Null
      BY <2>3, <2>4, <1>2, <1>4, <1>5
    <2>6. DLIST_RM_ELEMENT(c, h) = DLIST_RM_ELEMENT(l, h)
      <3>1. [c.prev EXCEPT ![q] = Null] = [l.prev EXCEPT ![q] = Null]
        BY <2>3, <2>4, <1>2
      <3> QED
        BY <3>1, <2>2, <2>4, <2>5, <1>4 DEF DLIST_RM_ELEMENT, Assign
    <2> QED
      BY <2>2, <2>6, <1>7 DEF Turned
  <1> QED
    BY <1>6, <1>7
-----------------------------------------------------------------------------
(***************************************************************************)
(* The cache.  Indices lead to the entries taken last.  Those never taken  *)
(* are in front of them in the list: using one again does not change that, *)
(* and the next load takes the first.                                      *)
(***************************************************************************)
Owned ==
  takes < thumb_max /\ ~leftover =>
    \A i \in Images : tid[i] # 0 =>
      /\ tid[i] \in Listed(thumb_max)
      /\ image[tid[i]] = i
      /\ rank[tid[i]] > thumb_max - 1 - takes

CacheInv ==
  /\ thumb_max \in Nat /\ thumb_max >= 3
  /\ tid \in [Images -> Nat] /\ takes \in Nat
  /\ image \in [Entries(thumb_max) -> Images \cup {None}]
  /\ Links(link, lru, mru, rank, thumb_max)
  /\ Owned

LEMMA CacheInit == Init => CacheInv
PROOF
  <1> SUFFICES ASSUME Init PROVE CacheInv
    OBVIOUS
  <1>1. ThumbMax \in Nat /\ ThumbMax >= 3
    BY ThumbCacheAssumption
  <1>2. Links(link, lru, mru, rank, thumb_max)
    BY <1>1, ChainLinks DEF Init
  <1>3. image \in [Entries(thumb_max) -> Images \cup {None}]
    BY DEF Init, Nothing
  <1>4. tid \in [Images -> Nat] /\ takes \in Nat /\ Owned
    BY DEF Init, Owned
  <1> QED
    BY <1>1, <1>2, <1>3, <1>4 DEF CacheInv, Init

\* The list after an entry was put to its end
LEMMA EndLinks ==
  ASSUME CacheInv, NEW th \in Listed(thumb_max), ToEnd(link, th)
  PROVE  /\ link' = Turned(link, th, mru) /\ rank' = Used1(rank, th, thumb_max)
         /\ Links(link', Head1(link, lru, th), mru', rank', thumb_max)
PROOF
  <1>1. link' = Turned(link, th, mru) /\ mru' = th /\ rank' = Used1(rank, th, thumb_max)
    BY DEF ToEnd, Turned, Used1
  <1> QED
    BY <1>1, TurnLinks DEF CacheInv

LEMMA TakeStep ==
  ASSUME CacheInv, NEW what \in Images \cup {None}, NEW units, Take(what, units)
  PROVE  /\ thumb_max' = thumb_max /\ leftover' = leftover
         /\ takes' \in Nat /\ image' \in [Entries(thumb_max) -> Images \cup {None}]
         /\ Links(link', lru', mru', rank', thumb_max)
         /\ lru \in Listed(thumb_max) /\ image'[lru] = what /\ rank'[lru] = thumb_max - 1
         /\ takes' < thumb_max =>
              /\ takes' = takes + 1
              /\ ~leftover => \A i \in Images : tid[i] # 0 =>
                   /\ tid[i] \in Listed(thumb_max)
                   /\ image'[tid[i]] = i
                   /\ rank'[tid[i]] > thumb_max - 1 - takes'
PROOF
  <1> DEFINE n == thumb_max
  <1>1. n \in Nat /\ n >= 3 /\ takes \in Nat /\ tid \in [Images -> Nat]
        /\ image \in [Entries(n) -> Images \cup {None}]
        /\ Links(link, lru, mru, rank, n)
    BY DEF CacheInv
  <1>2. lru \in Listed(n) /\ rank \in [Listed(n) -> Listed(n)] /\ rank[lru] = 1
        /\ Distinct(rank, n)
    BY <1>1 DEF Links, Distinct
  <1>3. /\ ToEnd(link, lru) /\ lru' = link.next[lru]
        /\ image' = [image EXCEPT ![lru] = what]
        /\ takes' = IF takes < n THEN takes + 1 ELSE takes
        /\ n' = n /\ leftover' = leftover
    BY DEF Take
  <1>4. rank' = Used1(rank, lru, n) /\ Links(link', lru', mru', rank', n)
    BY <1>2, <1>3, EndLinks DEF Head1
  <1>5. Reordered(rank, rank', lru, n)
    BY <1>1, <1>2, <1>4, TurnRanks
  <1>6. lru \in Entries(n) /\ \A t \in Listed(n) : t \in Entries(n)
    BY <1>2 DEF Listed, Entries
  <1>7. image' \in [Entries(n) -> Images \cup {None}] /\ image'[lru] = what
    BY <1>1, <1>3, <1>6
  <1>8. takes' \in Nat
    BY <1>1, <1>3
  <1>9. ASSUME takes' < n
        PROVE  takes' = takes + 1 /\ takes < n /\ takes <= n - 2
    BY <1>1, <1>3, <1>9
  <1>10. ASSUME takes' < n, ~leftover, NEW i \in Images, tid[i] # 0
         PROVE  /\ tid[i] \in Listed(n) /\ image'[tid[i]] = i
                /\ rank'[tid[i]] > n - 1 - takes'
    <2> DEFINE x == tid[i]
    <2>1. takes' = takes + 1 /\ takes < n /\ takes <= n - 2
      BY <1>9, <1>10
    <2>2. x \in Listed(n) /\ image[x] = i /\ rank[x] > n - 1 - takes
      BY <2>1, <1>10 DEF CacheInv, Owned
    <2>3. rank[x] \in Nat /\ rank[x] > 1
      BY <2>1, <2>2, <1>1, <1>2 DEF Listed
    <2>4. x # lru /\ rank'[x] = rank[x] - 1
      BY <2>2, <2>3, <1>2, <1>5 DEF Reordered
    <2>5. image'[x] = i
      BY <2>2, <2>4, <1>1, <1>3, <1>6
    <2>6. rank'[x] > n - 1 - takes'
      BY <2>1, <2>2, <2>3, <2>4, <1>1
    <2> QED
      BY <2>2, <2>5, <2>6
  <1>11. rank'[lru] = n - 1
    BY <1>5 DEF Reordered
  <1> QED
    BY <1>2, <1>3, <1>4, <1>7, <1>8, <1>9, <1>10, <1>11

LEMMA CacheNext == CacheInv /\ [Next]_vars => CacheInv'
PROOF
  <1> SUFFICES ASSUME CacheInv, [Next]_vars
               PROVE  CacheInv'
    OBVIOUS
  <1>1. /\ thumb_max \in Nat /\ thumb_max >= 3
        /\ tid \in [Images -> Nat] /\ takes \in Nat
        /\ image \in [Entries(thumb_max) -> Images \cup {None}]
        /\ Links(link, lru, mru, rank, thumb_max)
        /\ Owned
    BY DEF CacheInv
  <1>2. CASE Check
    <2>1. CASE Rebuild
      <3>1. thumb_max' \in Nat /\ thumb_max' >= 3
        BY <2>1, <1>1 DEF Rebuild
      <3>2. Links(link', lru', mru', rank', thumb_max')
        BY <2>1, <3>1, ChainLinks DEF Rebuild
      <3>3. image' \in [Entries(thumb_max') -> Images \cup {None}]
        BY <2>1 DEF Rebuild, Nothing
      <3>4. takes' \in Nat /\ tid' = tid
        BY <2>1, <1>2 DEF Rebuild, Check, diskVars
      <3>5. Owned'
        BY <2>1, <3>4 DEF Rebuild, Owned
      <3> QED
        BY <3>1, <3>2, <3>3, <3>4, <3>5, <1>1 DEF CacheInv
    <2>2. CASE UNCHANGED <<cacheVars, lruVars, triggered_rebuild, ghostVars>>
      BY <2>2, <1>1, <1>2 DEF Check, cacheVars, lruVars, ghostVars, diskVars, CacheInv, Owned
    <2> QED
      BY <2>1, <2>2, <1>2 DEF Check
  <1>3. ASSUME NEW i \in Images, Touch(i)
        PROVE  CacheInv'
    <2> DEFINE n == thumb_max  th == tid[i]
    <2>1. UNCHANGED <<tid, thumb_max, image, takes, leftover>>
      BY <1>3 DEF Touch, diskVars, cacheVars, ghostVars
    <2>2. th \in Listed(n)
      BY <1>1, <1>3 DEF Touch, Listed
    <2>3. lru' = Head1(link, lru, th)
      BY <1>3 DEF Touch, Head1
    <2>4. ToEnd([link EXCEPT !.prev[Head1(link, lru, th)] = Null], th)
      BY <1>3 DEF Touch, Head1
    <2>5. link' = Turned(link, th, mru) /\ mru' = th /\ rank' = Used1(rank, th, n)
      <3> DEFINE c == [link EXCEPT !.prev[Head1(link, lru, th)] = Null]
      <3>1. link' = Turned(c, th, mru) /\ mru' = th /\ rank' = Used1(rank, th, n)
        BY <2>4 DEF ToEnd, Turned, Used1
      <3>2. Turned(c, th, mru) = Turned(link, th, mru)
        BY <2>2, <1>1, HeadReset
      <3> QED
        BY <3>1, <3>2
    <2>6. Links(link', lru', mru', rank', n)
      BY <2>2, <2>3, <2>5, <1>1, TurnLinks
    <2>7. Owned'
      <3> SUFFICES ASSUME takes < n, ~leftover, NEW j \in Images, tid[j] # 0
                   PROVE  /\ tid[j] \in Listed(n) /\ image[tid[j]] = j
                          /\ rank'[tid[j]] > n - 1 - takes
        BY <2>1 DEF Owned
      <3> DEFINE x == tid[j]
      <3>1. x \in Listed(n) /\ image[x] = j /\ rank[x] > n - 1 - takes
        BY <1>1 DEF Owned
      <3>2. rank[th] > n - 1 - takes
        BY <1>1, <1>3 DEF Owned, Touch
      <3>3. rank \in [Listed(n) -> Listed(n)] /\ Distinct(rank, n)
        BY <1>1 DEF Links, Distinct
      <3>4. Reordered(rank, rank', th, n)
        BY <3>3, <2>2, <2>5, <1>1, TurnRanks
      <3>5. rank[x] \in Nat /\ rank[th] \in Nat /\ rank[x] <= n - 1
        BY <3>1, <3>3, <2>2 DEF Listed
      <3>6. rank'[x] > n - 1 - takes
        <4>1. CASE x = th
          BY <4>1, <3>1, <3>4, <3>5, <1>1 DEF Reordered
        <4>2. CASE x # th
          <5>1. x \in Listed(n) \ {th}
            BY <4>2, <3>1
          <5>2. \/ rank[x] > rank[th] /\ rank'[x] = rank[x] - 1
                \/ rank'[x] = rank[x]
            BY <5>1, <3>4 DEF Reordered
          <5> QED
            BY <5>2, <3>1, <3>2, <3>5, <1>1
        <4> QED
          BY <4>1, <4>2
      <3> QED
        BY <3>1, <3>6
    <2> QED
      BY <2>1, <2>6, <2>7, <1>1 DEF CacheInv
  <1>4. ASSUME NEW i \in Images, Load(i)
        PROVE  CacheInv'
    <2>1. Take(i, Size[i]) /\ tid' = [tid EXCEPT ![i] = lru]
      BY <1>4 DEF Load
    <2>2. /\ thumb_max' = thumb_max /\ leftover' = leftover
          /\ takes' \in Nat /\ image' \in [Entries(thumb_max) -> Images \cup {None}]
          /\ Links(link', lru', mru', rank', thumb_max)
          /\ lru \in Listed(thumb_max) /\ image'[lru] = i /\ rank'[lru] = thumb_max - 1
          /\ takes' < thumb_max =>
               /\ takes' = takes + 1
               /\ ~leftover => \A j \in Images : tid[j] # 0 =>
                    /\ tid[j] \in Listed(thumb_max)
                    /\ image'[tid[j]] = j
                    /\ rank'[tid[j]] > thumb_max - 1 - takes'
      BY <2>1, TakeStep
    <2>3. lru \in Nat
      BY <2>2 DEF Listed
    <2>4. tid' \in [Images -> Nat]
      BY <2>1, <2>3, <1>1
    <2>5. Owned'
      <3> SUFFICES ASSUME takes' < thumb_max, ~leftover, NEW j \in Images, tid'[j] # 0
                   PROVE  /\ tid'[j] \in Listed(thumb_max) /\ image'[tid'[j]] = j
                          /\ rank'[tid'[j]] > thumb_max - 1 - takes'
        BY <2>2 DEF Owned
      <3>1. takes' = takes + 1
        BY <2>2
      <3>2. CASE j = i
        <4>1. tid'[j] = lru
          BY <3>2, <2>1, <1>1
        <4> QED
          BY <4>1, <3>1, <3>2, <2>2, <1>1
      <3>3. CASE j # i
        <4>1. tid'[j] = tid[j]
          BY <3>3, <2>1, <1>1
        <4> QED
          BY <4>1, <2>2
      <3> QED
        BY <3>2, <3>3
    <2> QED
      BY <2>2, <2>4, <2>5, <1>1 DEF CacheInv
  <1>5. ASSUME NEW units, Take(None, units),
               tid' = tid \/ tid' = [j \in Images |-> 0]
        PROVE  CacheInv'
    <2>1. /\ thumb_max' = thumb_max /\ leftover' = leftover
          /\ takes' \in Nat /\ image' \in [Entries(thumb_max) -> Images \cup {None}]
          /\ Links(link', lru', mru', rank', thumb_max)
          /\ takes' < thumb_max /\ ~leftover =>
               \A j \in Images : tid[j] # 0 =>
                    /\ tid[j] \in Listed(thumb_max)
                    /\ image'[tid[j]] = j
                    /\ rank'[tid[j]] > thumb_max - 1 - takes'
      BY <1>5, TakeStep
    <2>2. tid' \in [Images -> Nat]
      BY <1>1, <1>5
    <2>3. Owned'
      BY <2>1, <1>5 DEF Owned
    <2> QED
      BY <2>1, <2>2, <2>3, <1>1 DEF CacheInv
  <1>6. ASSUME NEW i \in Images, LoadFails(i)
        PROVE  CacheInv'
    BY <1>5, <1>6 DEF LoadFails, diskVars
  <1>7. ASSUME NEW i \in Images, OutOfMemory(i)
        PROVE  CacheInv'
    BY <1>5, <1>7 DEF OutOfMemory
  <1>8. ASSUME NEW i \in Images, Render(i)
        PROVE  CacheInv'
    <2>1. tid' = [tid EXCEPT ![i] = 0]
          /\ UNCHANGED <<thumb_max, image, link, lru, mru, rank, takes, leftover>>
      BY <1>8 DEF Render, cacheVars, lruVars, ghostVars
    <2>2. tid' \in [Images -> Nat] /\ \A j \in Images : tid'[j] # 0 => tid'[j] = tid[j]
      BY <2>1, <1>1
    <2>3. Owned'
      BY <2>1, <2>2, <1>1 DEF Owned
    <2> QED
      BY <2>1, <2>2, <2>3, <1>1 DEF CacheInv
  <1>9. CASE UNCHANGED <<tid, thumb_max, image, link, lru, mru, rank, takes, leftover>>
    BY <1>1, <1>9 DEF CacheInv, Owned
  <1>10. CASE ListDone \/ \E i \in Images : Missing(i)
    BY <1>9, <1>10 DEF ListDone, Missing, diskVars, cacheVars, lruVars, ghostVars
  <1>11. CASE Draw \/ Wake \/ FrameDone \/ Resize \/ Scroll
    BY <1>9, <1>11 DEF Draw, Wake, FrameDone, Resize, Scroll, diskVars, cacheVars, lruVars, ghostVars
  <1>12. CASE UNCHANGED vars
    BY <1>9, <1>12 DEF vars, diskVars, cacheVars, lruVars, ghostVars
  <1> QED
    BY <1>2, <1>3, <1>4, <1>6, <1>7, <1>8, <1>10, <1>11, <1>12 DEF Next, LoadList

(* The pointers of the list lead through all its entries in the order of   *)
(* use and back, for every length of it (thumbnails.c:470-481, 522-531).   *)
THEOREM ListInOrder == Spec => []LruChain
PROOF
  <1>1. CacheInv => LruChain
    BY DEF CacheInv, Links, LruChain, Before, Behind
  <1> QED
    BY <1>1, CacheInit, CacheNext, PTL DEF Spec

(* No index leads to another image as long as entries need not be reused   *)
(* (thumbnails.c:449-468).                                                 *)
THEOREM IndexIsOwn == Spec => []ShowsOwn
PROOF
  <1>1. CacheInv => ShowsOwn
    BY DEF CacheInv, Owned, ShowsOwn
  <1> QED
    BY <1>1, CacheInit, CacheNext, PTL DEF Spec
-----------------------------------------------------------------------------
(***************************************************************************)
(* The frames.  Slot s from the one used next was used Frames - s frames   *)
(* ago.  If that frame is in flight, what its semaphore says is another    *)
(* round older: so the last slot tells of frames no older than the oldest  *)
(* in flight, and the test of render_lighttable.c:292-298 waits for those. *)
(***************************************************************************)
SlotAges ==
  \A s \in 1 .. Frames : sem_frame[s] # None =>
     /\ sem_frame[s] >= Frames - s
     /\ s > Frames - inflight => sem_frame[s] >= Frames - s + Frames

FrameInv ==
  /\ inflight \in 0 .. Frames
  /\ sem_frame \in [1 .. Frames -> Nat \cup {None}]
  /\ triggered_rebuild \in Nat \cup {None}
  /\ SlotAges

LEMMA FrameInit == Init => FrameInv
PROOF
  <1> QED
    BY ThumbCacheAssumption DEF Init, FrameInv, SlotAges

LEMMA FrameNext == FrameInv /\ [Next]_vars => FrameInv'
PROOF
  <1> SUFFICES ASSUME FrameInv, [Next]_vars
               PROVE  FrameInv'
    OBVIOUS
  <1>1. Frames \in Nat \ {0} /\ None \notin Int
    BY ThumbCacheAssumption
  <1>2. /\ inflight \in 0 .. Frames
        /\ sem_frame \in [1 .. Frames -> Nat \cup {None}]
        /\ triggered_rebuild \in Nat \cup {None}
        /\ SlotAges
    BY DEF FrameInv
  <1>3. CASE Draw
    <2> DEFINE from(s) == IF s = Frames THEN 1 ELSE s + 1
    <2>1. /\ inflight < Frames /\ inflight' = inflight + 1
          /\ sem_frame' = [s \in 1 .. Frames |-> Older(sem_frame[from(s)])]
          /\ triggered_rebuild' = Older(triggered_rebuild)
      BY <1>3 DEF Draw
    <2>2. \A a \in Nat \cup {None} : Older(a) \in Nat \cup {None}
      BY <1>1 DEF Older
    <2>3. \A s \in 1 .. Frames : from(s) \in 1 .. Frames
      BY <1>1
    <2>4. sem_frame' \in [1 .. Frames -> Nat \cup {None}] /\ triggered_rebuild' \in Nat \cup {None}
      BY <2>1, <2>2, <2>3, <1>2
    <2>5. ASSUME NEW s \in 1 .. Frames, sem_frame'[s] # None
          PROVE  /\ sem_frame'[s] >= Frames - s
                 /\ s > Frames - inflight' => sem_frame'[s] >= Frames - s + Frames
      <3> DEFINE b == sem_frame[from(s)]
      <3>1. b \in Nat /\ sem_frame'[s] = b + 1
        BY <2>1, <2>3, <2>5, <1>2 DEF Older
      <3>2. /\ b >= Frames - from(s)
            /\ from(s) > Frames - inflight => b >= Frames - from(s) + Frames
        BY <3>1, <2>3, <1>1, <1>2 DEF SlotAges
      <3>3. CASE s = Frames
        BY <3>1, <3>2, <3>3, <1>1
      <3>4. CASE s # Frames
        BY <3>1, <3>2, <3>4, <2>1, <1>1, <1>2
      <3> QED
        BY <3>3, <3>4
    <2>6. inflight' \in 0 .. Frames
      BY <2>1, <1>1, <1>2
    <2> QED
      BY <2>4, <2>5, <2>6 DEF FrameInv, SlotAges
  <1>4. CASE FrameDone
    <2> DEFINE o == Frames - inflight + 1
    <2>1. /\ inflight > 0 /\ inflight' = inflight - 1
          /\ sem_frame' = [sem_frame EXCEPT ![o] = inflight - 1]
          /\ triggered_rebuild' = triggered_rebuild
      BY <1>4 DEF FrameDone
    <2>2. o \in 1 .. Frames /\ inflight - 1 \in Nat /\ inflight' \in 0 .. Frames
      BY <2>1, <1>1, <1>2
    <2>3. sem_frame' \in [1 .. Frames -> Nat \cup {None}]
      BY <2>1, <2>2, <1>2
    <2>4. ASSUME NEW s \in 1 .. Frames, sem_frame'[s] # None
          PROVE  /\ sem_frame'[s] >= Frames - s
                 /\ s > Frames - inflight' => sem_frame'[s] >= Frames - s + Frames
      <3>1. CASE s = o
        <4>1. sem_frame'[s] = inflight - 1
          BY <3>1, <2>1, <2>2, <1>2
        <4> QED
          BY <4>1, <3>1, <2>1, <1>1, <1>2
      <3>2. CASE s # o
        <4>1. sem_frame'[s] = sem_frame[s]
          BY <3>2, <2>1, <1>2
        <4>2. /\ sem_frame[s] >= Frames - s
              /\ s > Frames - inflight => sem_frame[s] >= Frames - s + Frames
          BY <4>1, <2>4, <1>2 DEF SlotAges
        <4>3. s > Frames - inflight' => s > Frames - inflight
          BY <2>1, <1>1, <1>2
        <4> QED
          BY <4>1, <4>2, <4>3
      <3> QED
        BY <3>1, <3>2
    <2> QED
      BY <2>1, <2>2, <2>3, <2>4, <1>2 DEF FrameInv, SlotAges
  <1>5. CASE Resize
    <2>1. /\ inflight' = 0 /\ sem_frame' = [s \in 1 .. Frames |-> None]
          /\ triggered_rebuild' = triggered_rebuild
      BY <1>5 DEF Resize
    <2> QED
      BY <2>1, <1>1, <1>2 DEF FrameInv, SlotAges
  <1>6. CASE UNCHANGED frameVars /\ triggered_rebuild' \in Nat \cup {None}
    BY <1>2, <1>6 DEF FrameInv, SlotAges, frameVars
  <1>7. CASE Check
    BY <1>2, <1>6, <1>7 DEF Check, Rebuild
  <1>8. CASE LoadList
    <2>1. UNCHANGED frameVars
      BY <1>8 DEF LoadList, ListDone, Missing, Touch, Load, OutOfMemory
    <2>2. triggered_rebuild' \in {triggered_rebuild, 0}
      <3>1. CASE \E i \in Images : OutOfMemory(i)
        BY <3>1 DEF OutOfMemory
      <3>2. CASE ListDone \/ \E i \in Images : Missing(i) \/ Touch(i) \/ Load(i)
        BY <3>2 DEF ListDone, Missing, Touch, Load
      <3> QED
        BY <3>1, <3>2, <1>8 DEF LoadList
    <2> QED
      BY <2>1, <2>2, <1>2, <1>6
  <1>9. CASE Wake \/ Scroll \/ \E i \in Images : LoadFails(i) \/ Render(i)
    BY <1>2, <1>6, <1>9 DEF Wake, Scroll, LoadFails, Render
  <1>10. CASE UNCHANGED vars
    BY <1>2, <1>6, <1>10 DEF vars
  <1> QED
    BY <1>3, <1>4, <1>5, <1>7, <1>8, <1>9, <1>10 DEF Next

(* What is destroyed is not in use by a frame submitted before the cache   *)
(* was found too small, for every number of frames in flight, and however  *)
(* often the semaphores are replaced (render_lighttable.c:290-307).        *)
THEOREM OldFramesThrough == Spec => RebuildWaits
PROOF
  <1>1. ASSUME FrameInv, [Next]_vars, thumb_max' # thumb_max
        PROVE  inflight <= triggered_rebuild
    <2>1. Frames \in Nat \ {0} /\ None \notin Int
      BY ThumbCacheAssumption
    <2>2. /\ inflight \in 0 .. Frames
          /\ sem_frame \in [1 .. Frames -> Nat \cup {None}]
          /\ triggered_rebuild \in Nat \cup {None}
          /\ SlotAges
      BY <1>1 DEF FrameInv
    <2>3. CASE Check
      <3>1. triggered_rebuild # None /\ FramesThrough
        BY <2>3, <1>1 DEF Check, cacheVars
      <3>2. CASE inflight = 0
        BY <3>1, <3>2, <2>2
      <3>3. CASE inflight # 0
        <4>1. Frames \in 1 .. Frames /\ Frames > Frames - inflight
          BY <3>3, <2>1, <2>2
        <4>2. sem_frame[Frames] # None /\ sem_frame[Frames] <= triggered_rebuild
          BY <4>1, <3>1 DEF FramesThrough
        <4>3. sem_frame[Frames] >= Frames - Frames + Frames
          BY <4>1, <4>2, <2>2 DEF SlotAges
        <4>4. sem_frame[Frames] \in Nat /\ triggered_rebuild \in Nat
          BY <4>1, <4>2, <3>1, <2>2
        <4> QED
          BY <4>2, <4>3, <4>4, <2>1, <2>2
      <3> QED
        BY <3>2, <3>3
    <2>4. CASE ~Check
      BY <2>4, <1>1 DEF Next, LoadList, ListDone, Missing, Touch, Load, OutOfMemory, LoadFails,
         Take, Draw, Wake, FrameDone, Resize, Scroll, Render, vars, cacheVars
    <2> QED
      BY <2>3, <2>4
  <1> QED
    BY <1>1, FrameInit, FrameNext, PTL DEF Spec, RebuildWaits
=============================================================================
