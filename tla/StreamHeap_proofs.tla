-------------------------- MODULE StreamHeap_proofs --------------------------
(* For any streams, priorities and time stamps the binary heap is the timer *)
(* queue: its order holds after every insertion and extraction, the root is *)
(* the first to serve, and sifting moves nodes without losing one.          *)
EXTENDS StreamHeap, WellFoundedInduction, TLAPS

LEMMA Smallest ==
  ASSUME NEW S \in SUBSET Nat, S # {}
  PROVE  \E n \in S : \A m \in S : n <= m
<1> DEFINE R == OpToRel(<, Nat)
<1>1. IsWellFoundedOn(R, Nat) BY NatLessThanWellFounded
<1>2. PICK x \in S : \A y \in S : ~(<<y, x>> \in R)
  <2> HIDE DEF R
  <2> QED BY <1>1, WFMin
<1>3. \A y \in S : ~(y < x) BY <1>2 DEF OpToRel
<1> QED BY <1>3

-----------------------------------------------------------------------------
(* Routes.  rank tells how far the end is: it decreases along the route.    *)

Ranked(P, next, rank) ==
  /\ DOMAIN next \subseteq P
  /\ rank \in [P -> Nat]
  /\ \A p, q \in P : rank[p] = rank[q] => p = q
  /\ \A p \in DOMAIN next : next[p] \in P /\ rank[next[p]] < rank[p]

\* A route is made of its start and of the places that follow each other.
LEMMA RouteSteps ==
  ASSUME NEW P, NEW start \in P, NEW next, NEW rank, Ranked(P, next, rank)
  PROVE  LET R == Route(P, start, next) IN
         /\ R \subseteq P /\ start \in R
         /\ \A c \in R \cap DOMAIN next : next[c] \in R
         /\ \A c \in R : c = start \/ \E u \in R \cap DOMAIN next : next[u] = c
<1> DEFINE R == Route(P, start, next)
<1>1. R \subseteq P /\ start \in R BY DEF Route
<1>2. \A c \in R \cap DOMAIN next : next[c] \in R BY DEF Route, Ranked
<1>3. ASSUME NEW c \in R, c # start, ~\E u \in R \cap DOMAIN next : next[u] = c
      PROVE  FALSE
  <2> DEFINE S == R \ {c}
  <2>1. S \in SUBSET P /\ start \in S BY <1>1, <1>3
  <2>2. \A p \in S \cap DOMAIN next : next[p] \in S BY <1>2, <1>3
  <2>3. c \in S
    <3> HIDE DEF S
    <3> QED BY <2>1, <2>2 DEF Route
  <2> QED BY <2>3
<1> QED BY <1>1, <1>2, <1>3

\* A route is a line: after a place come those from its next one on.
LEMMA RouteLine ==
  ASSUME NEW P, NEW start \in P, NEW next, NEW rank, Ranked(P, next, rank)
  PROVE  LET R == Route(P, start, next) IN
         \A v, w \in R : rank[w] < rank[v] => v \in DOMAIN next /\ rank[w] <= rank[next[v]]
<1> DEFINE R == Route(P, start, next)
           After(v) == {w \in R : rank[w] < rank[v] => v \in DOMAIN next /\ rank[w] <= rank[next[v]]}
           Bad == {v \in R : ~(R \subseteq After(v))}
<1>0. /\ R \subseteq P /\ start \in R
      /\ \A c \in R \cap DOMAIN next : next[c] \in R
  BY RouteSteps
<1>1. \A p \in P : rank[p] \in Nat BY DEF Ranked
<1>2. \A c \in R : rank[c] <= rank[start]
  <2> DEFINE S == {p \in P : rank[p] <= rank[start]}
  <2>1. S \in SUBSET P /\ start \in S BY <1>1
  <2>2. ASSUME NEW p \in S \cap DOMAIN next PROVE next[p] \in S
    <3>1. p \in P /\ rank[p] <= rank[start] /\ next[p] \in P /\ rank[next[p]] < rank[p]
      BY <2>2 DEF Ranked
    <3>2. rank[p] \in Nat /\ rank[start] \in Nat /\ rank[next[p]] \in Nat BY <1>1, <3>1
    <3> QED BY <3>1, <3>2
  <2>3. \A c \in R : c \in S
    <3> HIDE DEF S
    <3> QED BY <2>1, <2>2 DEF Route
  <2> QED BY <2>3
<1>3. SUFFICES ASSUME Bad # {} PROVE FALSE OBVIOUS
<1> DEFINE T == {rank[start] - rank[v] : v \in Bad}
<1>4. PICK v \in Bad : \A u \in Bad : rank[u] <= rank[v]
  <2>1. T \in SUBSET Nat /\ T # {}
    <3>1. \A x \in Bad : x \in P /\ rank[x] \in Nat /\ rank[start] \in Nat /\ rank[x] <= rank[start]
      BY <1>0, <1>1, <1>2
    <3>2. \A x \in Bad : rank[start] - rank[x] \in Nat BY <3>1
    <3> HIDE DEF Bad
    <3> QED BY <1>3, <3>2
  <2>2. PICK t \in T : \A s \in T : t <= s
    <3> HIDE DEF T
    <3> QED BY <2>1, Smallest
  <2> HIDE DEF Bad
  <2>3. PICK x \in Bad : t = rank[start] - rank[x] BY <2>2
  <2>4. \A u \in Bad : rank[start] - rank[x] <= rank[start] - rank[u] BY <2>2, <2>3
  <2>5. \A u \in Bad : rank[u] \in Nat /\ rank[start] \in Nat BY <1>0, <1>1 DEF Bad
  <2> QED BY <2>4, <2>5
<1> DEFINE S == After(v)
<1>5. v \in R /\ v \in P /\ rank[v] \in Nat BY <1>0, <1>1
<1>6. S \in SUBSET P BY <1>0
<1>7. start \in S
  <2>1. rank[v] <= rank[start] BY <1>2, <1>5
  <2> QED BY <1>0, <1>1, <1>5, <2>1
<1>8. ASSUME NEW u \in S \cap DOMAIN next PROVE next[u] \in S
  <2>1. u \in R /\ u \in P /\ u \in DOMAIN next BY <1>0
  <2>2. next[u] \in R /\ next[u] \in P /\ rank[next[u]] < rank[u] BY <1>0, <2>1 DEF Ranked
  <2>3. rank[u] \in Nat /\ rank[next[u]] \in Nat BY <1>1, <2>1, <2>2
  <2>4. SUFFICES ASSUME rank[next[u]] < rank[v]
                 PROVE  v \in DOMAIN next /\ rank[next[u]] <= rank[next[v]]
    BY <2>2
  <2>5. CASE rank[u] = rank[v]
    <3>1. u = v BY <1>5, <2>1, <2>5 DEF Ranked
    <3> QED BY <2>1, <2>3, <3>1
  <2>6. CASE rank[u] < rank[v]
    <3>1. v \in DOMAIN next /\ rank[u] <= rank[next[v]] BY <1>8, <2>6
    <3>2. rank[next[v]] \in Nat BY <1>1, <3>1 DEF Ranked
    <3> QED BY <2>2, <2>3, <3>1, <3>2
  <2>7. CASE rank[v] < rank[u]
    <3>1. u \notin Bad BY <1>4, <1>5, <2>3, <2>7
    <3>2. v \in After(u) BY <1>5, <2>1, <3>1
    <3>3. rank[v] <= rank[next[u]] BY <2>7, <3>2
    <3> QED BY <1>5, <2>3, <2>4, <3>3
  <2> QED BY <1>5, <2>3, <2>5, <2>6, <2>7
<1>9. R \subseteq S
  <2> HIDE DEF S
  <2> QED BY <1>6, <1>7, <1>8 DEF Route
<1> QED BY <1>9, <1>4

\* It has one end, and no two places have the same next one.
LEMMA RouteEnd ==
  ASSUME NEW P, NEW start \in P, NEW next, NEW rank, Ranked(P, next, rank)
  PROVE  LET R == Route(P, start, next) IN
         /\ \E e \in R : e \notin DOMAIN next
         /\ \A d, e \in R \ DOMAIN next : d = e
         /\ \A u, v \in R \cap DOMAIN next : next[u] = next[v] => u = v
         /\ \A u \in R \cap DOMAIN next : next[u] # start
<1> DEFINE R == Route(P, start, next)
<1>0. /\ R \subseteq P /\ start \in R
      /\ \A c \in R \cap DOMAIN next : next[c] \in R
  BY RouteSteps
<1>1. \A p \in P : rank[p] \in Nat BY DEF Ranked
<1>2. \A v, w \in R : rank[w] < rank[v] => v \in DOMAIN next /\ rank[w] <= rank[next[v]]
  BY RouteLine
<1>3. \A c \in R \cap DOMAIN next : next[c] \in R /\ rank[next[c]] < rank[c]
  BY <1>0 DEF Ranked
<1>4. \A p, q \in R : rank[p] # rank[q] => rank[p] < rank[q] \/ rank[q] < rank[p]
  BY <1>0, <1>1
<1>5. \A p, q \in R : rank[p] = rank[q] => p = q BY <1>0 DEF Ranked
<1> HIDE DEF R
<1>6. \E e \in R : e \notin DOMAIN next
  <2> DEFINE T == {rank[c] : c \in R}
  <2>1. T \in SUBSET Nat /\ T # {} BY <1>0, <1>1
  <2>2. PICK t \in T : \A s \in T : t <= s
    <3> HIDE DEF T
    <3> QED BY <2>1, Smallest
  <2>3. PICK e \in R : t = rank[e] BY <2>2
  <2>4. ~\E c \in R : rank[c] < rank[e]
    <3> SUFFICES ASSUME NEW c \in R, rank[c] < rank[e] PROVE FALSE OBVIOUS
    <3>1. rank[e] <= rank[c] BY <2>2, <2>3
    <3> QED BY <1>0, <1>1, <3>1
  <2> QED BY <1>3, <2>4
<1>7. \A d, e \in R \ DOMAIN next : d = e BY <1>2, <1>4, <1>5
<1>8. ASSUME NEW u \in R \cap DOMAIN next, NEW v \in R \cap DOMAIN next,
             next[u] = next[v], rank[u] < rank[v]
      PROVE  FALSE
  <2>1. rank[u] <= rank[next[v]] BY <1>2, <1>8
  <2>2. rank[next[u]] < rank[u] BY <1>3
  <2>3. rank[u] \in Nat /\ rank[next[u]] \in Nat BY <1>0, <1>1, <1>3
  <2> QED BY <1>8, <2>1, <2>2, <2>3
<1>9. \A u, v \in R \cap DOMAIN next : next[u] = next[v] => u = v
  BY <1>4, <1>5, <1>8
<1>10. ASSUME NEW u \in R \cap DOMAIN next, next[u] = start PROVE FALSE
  <2>1. rank[start] < rank[u] BY <1>3, <1>10
  <2>2. CASE u = start
    <3>1. rank[u] \in Nat BY <1>0, <1>1
    <3> QED BY <2>1, <2>2, <3>1
  <2>3. CASE u # start
    <3>1. PICK w \in R \cap DOMAIN next : next[w] = u BY <2>3, RouteSteps DEF R
    <3> DEFINE S == {p \in P : rank[p] <= rank[start]}
    <3>2. S \in SUBSET P /\ start \in S BY <1>1
    <3>3. ASSUME NEW p \in S \cap DOMAIN next PROVE next[p] \in S
      <4>1. p \in P /\ rank[p] <= rank[start] /\ next[p] \in P /\ rank[next[p]] < rank[p]
        BY <3>3 DEF Ranked
      <4>2. rank[p] \in Nat /\ rank[start] \in Nat /\ rank[next[p]] \in Nat BY <1>1, <4>1
      <4> QED BY <4>1, <4>2
    <3>4. u \in S
      <4> HIDE DEF S
      <4> QED BY <3>2, <3>3 DEF Route, R
    <3> QED BY <1>0, <1>1, <2>1, <3>4
  <2> QED BY <2>2, <2>3
<1> QED BY <1>6, <1>7, <1>9, <1>10 DEF R

\* The place that the node of place k comes from.
From(P, start, next) ==
  [k \in P |-> CASE k \notin Route(P, start, next) -> k
                 [] k \in Route(P, start, next) \cap DOMAIN next -> next[k]
                 [] OTHER -> start]

\* Sifting is a rearrangement: each node goes from one place to one place.
LEMMA ShiftedMoves ==
  ASSUME NEW P, NEW start \in P, NEW next, NEW rank, Ranked(P, next, rank),
         NEW h, DOMAIN h = P
  PROVE  LET from == From(P, start, next) IN
         /\ from \in [P -> P]
         /\ \A k \in P : Shifted(h, start, next)[k] = h[from[k]]
         /\ \A j, k \in P : from[j] = from[k] => j = k
         /\ \A j \in P : \E k \in P : from[k] = j
<1> DEFINE R == Route(P, start, next)
           from == From(P, start, next)
<1>1. /\ R \subseteq P /\ start \in R
      /\ \A c \in R \cap DOMAIN next : next[c] \in R
      /\ \A c \in R : c = start \/ \E u \in R \cap DOMAIN next : next[u] = c
  BY RouteSteps
<1>2. /\ \E e \in R : e \notin DOMAIN next
      /\ \A d, e \in R \ DOMAIN next : d = e
      /\ \A u, v \in R \cap DOMAIN next : next[u] = next[v] => u = v
      /\ \A u \in R \cap DOMAIN next : next[u] # start
  BY RouteEnd
<1>3. Shifted(h, start, next)
        = [k \in P |-> CASE k \notin R -> h[k]
                         [] k \in R \cap DOMAIN next -> h[next[k]]
                         [] OTHER -> h[start]]
  BY DEF Shifted
<1>4. from = [k \in P |-> CASE k \notin R -> k
                           [] k \in R \cap DOMAIN next -> next[k]
                           [] OTHER -> start]
  BY DEF From
<1> HIDE DEF R, from
<1>5. from \in [P -> P] BY <1>1, <1>4
<1>6. \A k \in P : Shifted(h, start, next)[k] = h[from[k]] BY <1>3, <1>4
<1>7. \A j, k \in P : from[j] = from[k] => j = k
  <2> SUFFICES ASSUME NEW j \in P, NEW k \in P, from[j] = from[k] PROVE j = k
    OBVIOUS
  <2>1. CASE j \notin R BY <1>1, <1>4, <2>1
  <2>2. CASE j \in R \cap DOMAIN next BY <1>1, <1>2, <1>4, <2>2
  <2>3. CASE j \in R \ DOMAIN next BY <1>1, <1>2, <1>4, <2>3
  <2> QED BY <2>1, <2>2, <2>3
<1>8. \A j \in P : \E k \in P : from[k] = j
  <2> SUFFICES ASSUME NEW j \in P PROVE \E k \in P : from[k] = j
    OBVIOUS
  <2>1. CASE j \notin R
    <3>1. from[j] = j BY <1>4, <2>1
    <3> QED BY <3>1
  <2>2. CASE j = start
    <3>1. PICK e \in R : e \notin DOMAIN next BY <1>2
    <3>2. e \in P /\ from[e] = start BY <1>1, <1>4, <3>1
    <3> QED BY <2>2, <3>2
  <2>3. CASE j \in R /\ j # start
    <3>1. PICK u \in R \cap DOMAIN next : next[u] = j BY <1>1, <2>3
    <3>2. u \in P /\ from[u] = j BY <1>1, <1>4, <3>1
    <3> QED BY <3>2
  <2> QED BY <2>1, <2>2, <2>3
<1> QED BY <1>5, <1>6, <1>7, <1>8 DEF from

\* So it loses no node, and doubles no stream.
Distinct(h) == \A j, k \in DOMAIN h : h[j].stream = h[k].stream => j = k

LEMMA ShiftedKeeps ==
  ASSUME NEW P, NEW start \in P, NEW next, NEW rank, Ranked(P, next, rank),
         NEW V, NEW h \in [P -> V]
  PROVE  LET g == Shifted(h, start, next) IN
         g \in [P -> V] /\ Range(g) = Range(h) /\ (Distinct(h) => Distinct(g))
<1> DEFINE g == Shifted(h, start, next)
<1> DEFINE from == From(P, start, next)
<1>1. /\ from \in [P -> P]
      /\ \A k \in P : g[k] = h[from[k]]
      /\ \A j, k \in P : from[j] = from[k] => j = k
      /\ \A j \in P : \E k \in P : from[k] = j
  <2>1. DOMAIN h = P OBVIOUS
  <2> QED BY <2>1, ShiftedMoves, SMTT(20)
<1>2. DOMAIN g = P /\ g = [k \in P |-> g[k]] BY DEF Shifted
<1> HIDE DEF g, from
<1>3. g \in [P -> V] BY <1>1, <1>2
<1>4. Range(g) = Range(h) BY <1>1, <1>2 DEF Range
<1>5. Distinct(h) => Distinct(g) BY <1>1, <1>2 DEF Distinct
<1> QED BY <1>3, <1>4, <1>5 DEF g

-----------------------------------------------------------------------------
(* The order of the nodes.                                                  *)

LEMMA NodeTypes ==
  ASSUME NEW n \in IsQueue!Nodes
  PROVE  /\ n.tsPt \in Nat /\ n.tsPriority \in Int
         /\ n.stream \in Streams /\ n.tsPt \in Times
         /\ n = IsQueue!Timed(n.stream, n.tsPt)
BY NodesAssumption DEF IsQueue!Nodes, IsQueue!Timed

LEMMA PrecedesOrder ==
  ASSUME NEW a \in IsQueue!Nodes, NEW b \in IsQueue!Nodes, NEW c \in IsQueue!Nodes
  PROVE  /\ Precedes(a, b) => ~Precedes(b, a)
         /\ Precedes(a, b) /\ Precedes(b, c) => Precedes(a, c)
         /\ ~Precedes(a, b) /\ ~Precedes(b, c) => ~Precedes(a, c)
<1>1. /\ a.tsPt \in Nat /\ a.tsPriority \in Int
      /\ b.tsPt \in Nat /\ b.tsPriority \in Int
      /\ c.tsPt \in Nat /\ c.tsPriority \in Int
  BY NodeTypes
<1> QED BY <1>1 DEF Precedes

\* The order of a heap, without the place at, whose node is being sifted.
OrderedBut(h, N, at) ==
  \A k \in 1..N - 1 : k # at /\ Parent(k) # at => ~Precedes(h[k], h[Parent(k)])

\* Parents come before their children, and each node but the root has one.
LEMMA ParentPlace ==
  ASSUME NEW k \in Nat, 0 < k
  PROVE  Parent(k) \in Nat /\ Parent(k) < k /\ (k = 2 * Parent(k) + 1 \/ k = 2 * Parent(k) + 2)
BY DEF Parent

LEMMA ShiftUpOrders ==
  ASSUME NEW n \in Nat, NEW h \in [0..n -> IsQueue!Nodes],
         OrderedBut(h, n + 1, n)
  PROVE  LET g == ShiftUp(h, n) IN
         /\ g \in [0..n -> IsQueue!Nodes] /\ Range(g) = Range(h)
         /\ Distinct(h) => Distinct(g)
         /\ \A k \in 1..n : ~Precedes(g[k], g[Parent(k)])
<1> DEFINE P == 0..n
           D == Rising(h, n)
           next == [c \in D |-> Parent(c)]
           rank == [p \in P |-> p]
           R == Route(P, n, next)
           g == ShiftUp(h, n)
<1>1. \A k \in 1..n : Parent(k) \in 0..n - 1 /\ Parent(k) \in P /\ Parent(k) < k
  BY ParentPlace
<1>2. D \subseteq 1..n BY DEF Rising
<1>3. Ranked(P, next, rank) BY <1>1, <1>2 DEF Ranked
<1>4. n \in P /\ DOMAIN h = P OBVIOUS
<1>5. g = Shifted(h, n, next) BY DEF ShiftUp
<1>6. g \in [P -> IsQueue!Nodes] /\ Range(g) = Range(h) /\ (Distinct(h) => Distinct(g))
  <2>1. h \in [P -> IsQueue!Nodes] OBVIOUS
  <2> HIDE DEF next, rank, P, g
  <2> QED BY <1>3, <1>4, <1>5, <2>1, ShiftedKeeps
<1>7. /\ R \subseteq P /\ n \in R
      /\ \A c \in R \cap D : Parent(c) \in R
      /\ \A c \in R : c = n \/ \E u \in R \cap D : Parent(u) = c
      /\ \A v, w \in R : w < v => v \in D
  <2>1. DOMAIN next = D /\ \A c \in D : next[c] = Parent(c) OBVIOUS
  <2>2. \A p \in P : rank[p] = p OBVIOUS
  <2> HIDE DEF next, rank, P
  <2>3. /\ R \subseteq P /\ n \in R
        /\ \A c \in R \cap DOMAIN next : next[c] \in R
        /\ \A c \in R : c = n \/ \E u \in R \cap DOMAIN next : next[u] = c
    BY <1>3, <1>4, RouteSteps
  <2>4. \A v, w \in R : rank[w] < rank[v] => v \in DOMAIN next
    BY <1>3, <1>4, RouteLine
  <2> HIDE DEF R, D
  <2> QED BY <2>1, <2>2, <2>3, <2>4
<1>8. \A k \in P : /\ k \notin R => g[k] = h[k]
                   /\ k \in R \cap D => g[k] = h[Parent(k)]
                   /\ k \in R \ D => g[k] = h[n]
  <2>1. DOMAIN next = D /\ \A c \in D : next[c] = Parent(c) OBVIOUS
  <2>2. g = [k \in P |-> CASE k \notin R -> h[k]
                           [] k \in R \cap DOMAIN next -> h[next[k]]
                           [] OTHER -> h[n]]
    BY <1>4, <1>5 DEF Shifted
  <2> HIDE DEF next, R, D, P, g
  <2> QED BY <2>1, <2>2
<1>9. \A k \in 1..n - 1 : ~Precedes(h[k], h[Parent(k)])
  BY <1>1 DEF OrderedBut
<1>10. \A k \in 1..n : k \in D <=> Precedes(h[n], h[Parent(k)])
  BY DEF Rising
<1>11. \A k \in P : h[k] \in IsQueue!Nodes OBVIOUS
<1> HIDE DEF R, D, next, rank, g
<1>12. ASSUME NEW k \in 1..n PROVE ~Precedes(g[k], g[Parent(k)])
  <2> DEFINE q == Parent(k)
  <2>1. q \in P /\ q # n /\ q < k /\ (q # 0 => q \in 1..n - 1 /\ Parent(q) \in P) BY <1>1
  <2>2. k \in P OBVIOUS
  <2> HIDE DEF q, P
  <2>3. CASE k \notin R
    <3>1. g[k] = h[k] /\ ~Precedes(h[k], h[q])
      <4>1. k # n BY <1>7, <2>3
      <4> QED BY <1>8, <1>9, <2>2, <2>3, <4>1 DEF q
    <3>2. CASE q \notin R BY <1>8, <2>1, <3>1, <3>2 DEF q
    <3>3. CASE q \in R \cap D
      <4>1. q \in 1..n - 1 /\ g[q] = h[Parent(q)] BY <1>2, <1>8, <2>1, <3>3
      <4>2. ~Precedes(h[q], h[Parent(q)]) BY <1>9, <4>1
      <4> DEFINE r == Parent(q)
      <4>3. r \in P BY <2>1, <4>1
      <4> HIDE DEF r
      <4>4. /\ h[k] \in IsQueue!Nodes /\ h[q] \in IsQueue!Nodes
            /\ h[r] \in IsQueue!Nodes
        BY <1>11, <2>1, <2>2, <4>3
      <4>5. ~Precedes(h[k], h[r]) BY <3>1, <4>2, <4>4, PrecedesOrder DEF r
      <4> QED BY <3>1, <4>1, <4>5 DEF q, r
    <3>4. CASE q \in R \ D
      <4>1. PICK u \in R \cap D : Parent(u) = q BY <1>7, <2>1, <3>4
      <4>2. Precedes(h[n], h[q]) BY <1>2, <1>10, <4>1
      <4>3. g[q] = h[n] BY <1>8, <2>1, <3>4
      <4> QED BY <1>4, <1>11, <2>1, <2>2, <3>1, <4>2, <4>3, PrecedesOrder DEF q
    <3> QED BY <3>2, <3>3, <3>4
  <2>4. CASE k \in R \cap D
    <3>1. g[k] = h[q] /\ q \in R /\ Precedes(h[n], h[q]) BY <1>7, <1>8, <1>10, <2>2, <2>4 DEF q
    <3>2. CASE q \in D
      <4>1. q \in 1..n - 1 /\ g[q] = h[Parent(q)] BY <1>2, <1>8, <2>1, <3>1, <3>2
      <4> QED BY <1>9, <3>1, <4>1 DEF q
    <3>3. CASE q \notin D
      <4>1. g[q] = h[n] BY <1>8, <2>1, <3>1, <3>3
      <4> QED BY <1>4, <1>11, <2>1, <3>1, <4>1, PrecedesOrder DEF q
    <3> QED BY <3>2, <3>3
  <2>5. CASE k \in R \ D
    <3>1. g[k] = h[n] /\ ~Precedes(h[n], h[q]) BY <1>8, <1>10, <2>2, <2>5 DEF q
    <3>2. q \notin R BY <1>7, <2>1, <2>5
    <3> QED BY <1>8, <2>1, <3>1, <3>2 DEF q
  <2> QED BY <2>3, <2>4, <2>5
<1> QED BY <1>6, <1>12 DEF g

\* The child is the first of the children.
LEMMA ChildIsFirst ==
  ASSUME NEW n \in Nat \ {0}, NEW h \in [0..n - 1 -> IsQueue!Nodes]
  PROVE  /\ \A p \in 0..n - 1 : Child(h, n, p) # -1 =>
              Child(h, n, p) \in 1..n - 1 /\ p < Child(h, n, p) /\ Parent(Child(h, n, p)) = p
         /\ \A k \in 1..n - 1 : /\ Child(h, n, Parent(k)) # -1
                                /\ ~Precedes(h[k], h[Child(h, n, Parent(k))])
<1>1. ASSUME NEW p \in 0..n - 1, Child(h, n, p) # -1
      PROVE  Child(h, n, p) \in 1..n - 1 /\ p < Child(h, n, p) /\ Parent(Child(h, n, p)) = p
  <2>1. 2 * p + 1 < n /\ (Child(h, n, p) = 2 * p + 1 \/ (2 * p + 2 < n /\ Child(h, n, p) = 2 * p + 2))
    BY <1>1 DEF Child
  <2> QED BY <2>1 DEF Parent
<1>2. ASSUME NEW k \in 1..n - 1
      PROVE  /\ Child(h, n, Parent(k)) # -1
             /\ ~Precedes(h[k], h[Child(h, n, Parent(k))])
  <2> DEFINE p == Parent(k)
  <2>1. p \in Nat /\ (k = 2 * p + 1 \/ k = 2 * p + 2) BY ParentPlace
  <2>2. \A j \in 0..n - 1 : h[j] \in IsQueue!Nodes OBVIOUS
  <2>3. \A i, j \in 0..n - 1 : Precedes(h[i], h[j]) => ~Precedes(h[j], h[i])
    BY <2>2, PrecedesOrder
  <2>4. \A j \in 0..n - 1 : ~Precedes(h[j], h[j]) BY <2>3
  <2> HIDE DEF p
  <2>5. CASE n <= 2 * p + 2
    <3>1. Child(h, n, p) = 2 * p + 1 /\ k = 2 * p + 1 BY <2>1, <2>5 DEF Child
    <3> QED BY <2>1, <2>4, <3>1 DEF p
  <2>6. CASE 2 * p + 2 < n
    <3>1. Child(h, n, p) = IF Precedes(h[2 * p + 1], h[2 * p + 2]) THEN 2 * p + 1 ELSE 2 * p + 2
      BY <2>1, <2>6 DEF Child
    <3>2. 2 * p + 1 \in 0..n - 1 /\ 2 * p + 2 \in 0..n - 1 BY <2>1, <2>6
    <3>3. CASE Precedes(h[2 * p + 1], h[2 * p + 2]) BY <2>1, <2>3, <2>4, <3>1, <3>2, <3>3 DEF p
    <3>4. CASE ~Precedes(h[2 * p + 1], h[2 * p + 2]) BY <2>1, <2>3, <2>4, <3>1, <3>2, <3>4 DEF p
    <3> QED BY <3>3, <3>4
  <2> QED BY <2>1, <2>5, <2>6
<1> QED BY <1>1, <1>2

LEMMA ShiftDownOrders ==
  ASSUME NEW n \in Nat \ {0}, NEW h \in [0..n - 1 -> IsQueue!Nodes],
         OrderedBut(h, n, 0)
  PROVE  LET g == ShiftDown(h, n, 0) IN
         /\ g \in [0..n - 1 -> IsQueue!Nodes] /\ Range(g) = Range(h)
         /\ Distinct(h) => Distinct(g)
         /\ \A k \in 1..n - 1 : ~Precedes(g[k], g[Parent(k)])
<1> DEFINE P == 0..n - 1
           D == Sinking(h, n, 0)
           C(p) == Child(h, n, p)
           next == [p \in D |-> C(p)]
           rank == [p \in P |-> n - p]
           R == Route(P, 0, next)
           g == ShiftDown(h, n, 0)
<1>1. /\ \A p \in P : C(p) # -1 => C(p) \in 1..n - 1 /\ p < C(p) /\ Parent(C(p)) = p
      /\ \A k \in 1..n - 1 : C(Parent(k)) # -1 /\ ~Precedes(h[k], h[C(Parent(k))])
  BY ChildIsFirst
<1>2. /\ \A p \in P : p \in D <=> C(p) # -1 /\ Precedes(h[C(p)], h[0])
      /\ D \subseteq P
  BY DEF Sinking
<1> HIDE DEF C, D
<1>3. Ranked(P, next, rank) BY <1>1, <1>2 DEF Ranked
<1>4. 0 \in P /\ DOMAIN h = P OBVIOUS
<1>5. g = Shifted(h, 0, next) BY DEF ShiftDown, C, D
<1>6. g \in [P -> IsQueue!Nodes] /\ Range(g) = Range(h) /\ (Distinct(h) => Distinct(g))
  <2>1. h \in [P -> IsQueue!Nodes] OBVIOUS
  <2> HIDE DEF next, rank, P, g
  <2> QED BY <1>3, <1>4, <1>5, <2>1, ShiftedKeeps
<1>7. /\ R \subseteq P /\ 0 \in R
      /\ \A p \in R \cap D : C(p) \in R
      /\ \A c \in R : c = 0 \/ \E u \in R \cap D : C(u) = c
  <2>1. DOMAIN next = D /\ \A p \in D : next[p] = C(p) OBVIOUS
  <2> HIDE DEF next, rank, P
  <2>3. /\ R \subseteq P /\ 0 \in R
        /\ \A c \in R \cap DOMAIN next : next[c] \in R
        /\ \A c \in R : c = 0 \/ \E u \in R \cap DOMAIN next : next[u] = c
    BY <1>3, <1>4, RouteSteps
  <2> HIDE DEF R
  <2> QED BY <2>1, <2>3
<1>8. \A k \in P : /\ k \notin R => g[k] = h[k]
                   /\ k \in R \cap D => g[k] = h[C(k)]
                   /\ k \in R \ D => g[k] = h[0]
  <2>1. DOMAIN next = D /\ \A c \in D : next[c] = C(c) OBVIOUS
  <2>2. g = [k \in P |-> CASE k \notin R -> h[k]
                           [] k \in R \cap DOMAIN next -> h[next[k]]
                           [] OTHER -> h[0]]
    BY <1>4, <1>5 DEF Shifted
  <2> HIDE DEF next, R, P, g
  <2> QED BY <2>1, <2>2
<1>9. \A k \in 1..n - 1 : Parent(k) # 0 => ~Precedes(h[k], h[Parent(k)])
  BY DEF OrderedBut
<1>11. \A k \in P : h[k] \in IsQueue!Nodes OBVIOUS
<1> HIDE DEF R, next, rank, g
<1>12. ASSUME NEW k \in 1..n - 1 PROVE ~Precedes(g[k], g[Parent(k)])
  <2> DEFINE q == Parent(k)
             c == C(q)
  <2>1. q \in P /\ k \in P /\ k # 0 BY ParentPlace
  <2>2. c # -1 /\ c \in P /\ ~Precedes(h[k], h[c]) BY <1>1, <2>1
  <2> HIDE DEF q, P
  <2>3. CASE k \notin R
    <3>1. g[k] = h[k] BY <1>8, <2>1, <2>3
    <3>2. CASE q \notin R
      <4>1. q # 0 BY <1>7, <3>2
      <4> QED BY <1>8, <1>9, <2>1, <3>1, <3>2, <4>1 DEF q
    <3>3. CASE q \in R \cap D BY <1>8, <2>1, <2>2, <3>1, <3>3 DEF q
    <3>4. CASE q \in R \ D
      <4>1. g[q] = h[0] /\ ~Precedes(h[c], h[0]) BY <1>2, <1>8, <2>1, <2>2, <3>4
      <4> QED BY <1>4, <1>11, <2>1, <2>2, <3>1, <4>1, PrecedesOrder DEF q
    <3> QED BY <3>2, <3>3, <3>4
  <2>4. CASE k \in R
    <3>1. PICK u \in R \cap D : C(u) = k BY <1>7, <2>1, <2>4
    <3>2. u = q /\ c = k BY <1>1, <1>2, <3>1 DEF q
    <3>3. g[q] = h[k] /\ Precedes(h[k], h[0]) BY <1>2, <1>8, <3>1, <3>2
    <3>4. CASE k \in D
      <4>1. C(k) \in 1..n - 1 /\ Parent(C(k)) = k /\ g[k] = h[C(k)] BY <1>1, <1>2, <1>8, <2>1, <2>4, <3>4
      <4>2. ~Precedes(h[C(k)], h[k]) BY <1>9, <2>1, <4>1
      <4> QED BY <3>3, <4>1, <4>2 DEF q
    <3>5. CASE k \notin D
      <4>1. g[k] = h[0] BY <1>8, <2>1, <2>4, <3>5
      <4> QED BY <1>4, <1>11, <2>1, <3>3, <4>1, PrecedesOrder DEF q
    <3> QED BY <3>4, <3>5
  <2> QED BY <2>3, <2>4
<1> QED BY <1>6, <1>12 DEF g

-----------------------------------------------------------------------------
(* The machine.                                                             *)

IInv == TypeOK /\ HeapOrder /\ Distinct(content)

\* No node of an ordered heap is to be served before its root.
LEMMA RootIsFirst ==
  ASSUME TypeOK, HeapOrder
  PROVE  \A k \in DOMAIN content : ~Precedes(content[k], content[0])
<1>1. /\ usedSize \in Nat /\ DOMAIN content = 0..usedSize - 1
      /\ \A k \in 0..usedSize - 1 : content[k] \in IsQueue!Nodes
  BY DEF TypeOK
<1> DEFINE Bad == {k \in 0..usedSize - 1 : Precedes(content[k], content[0])}
<1>2. SUFFICES ASSUME Bad # {} PROVE FALSE BY <1>1
<1>3. Bad \in SUBSET Nat OBVIOUS
<1>4. PICK k \in Bad : \A j \in Bad : k <= j
  <2> HIDE DEF Bad
  <2> QED BY <1>2, <1>3, Smallest
<1>5. k # 0
  <2>1. 0 \in 0..usedSize - 1 BY <1>1
  <2>2. ~Precedes(content[0], content[0]) BY <1>1, <2>1, PrecedesOrder
  <2> QED BY <2>2
<1>6. Parent(k) \in 0..usedSize - 1 /\ Parent(k) < k /\ k \in 1..usedSize - 1
  BY <1>1, <1>5, ParentPlace
<1>7. ~Precedes(content[Parent(k)], content[0]) BY <1>4, <1>6
<1>8. ~Precedes(content[k], content[Parent(k)]) BY <1>6 DEF HeapOrder
<1>9. ~Precedes(content[k], content[0]) BY <1>1, <1>6, <1>7, <1>8, PrecedesOrder
<1> QED BY <1>9

\* An insertion keeps the invariant, and adds the one node.
LEMMA AddKeeps ==
  ASSUME IInv, NEW n \in IsQueue!Nodes, Add(n)
  PROVE  IInv' /\ IsQueue!Add(n)
<1>1. /\ usedSize \in 0..allocatedSize /\ allocatedSize \in Nat /\ usedSize \in Nat
      /\ content \in [0..usedSize - 1 -> IsQueue!Nodes]
  BY DEF IInv, TypeOK
<1> DEFINE h == [k \in 0..usedSize |-> IF k = usedSize THEN n ELSE content[k]]
<1>2. /\ \A k \in DOMAIN content : content[k].stream # n.stream
      /\ allocatedSize' = Allocation
      /\ content' = ShiftUp(h, usedSize)
      /\ usedSize' = usedSize + 1
      /\ extracted' = extracted
  BY DEF Add
<1>3. h \in [0..usedSize -> IsQueue!Nodes] BY <1>1
<1>4. \A k \in 0..usedSize - 1 : h[k] = content[k] BY <1>1
<1>5. OrderedBut(h, usedSize + 1, usedSize)
  <2> SUFFICES ASSUME NEW k \in 1..(usedSize + 1) - 1, k # usedSize
               PROVE  ~Precedes(h[k], h[Parent(k)])
    BY DEF OrderedBut
  <2>1. k \in 1..usedSize - 1 BY <1>1
  <2>2. Parent(k) \in 0..usedSize - 1 BY <1>1, <2>1, ParentPlace
  <2>3. ~Precedes(content[k], content[Parent(k)]) BY <2>1 DEF IInv, HeapOrder
  <2>4. h[k] = content[k] /\ h[Parent(k)] = content[Parent(k)] BY <1>4, <2>1, <2>2
  <2> QED BY <2>3, <2>4
<1>6. Distinct(h)
  <2>1. Distinct(content) BY DEF IInv
  <2> QED BY <1>1, <1>2, <2>1 DEF Distinct
<1>7. Range(h) = Range(content) \cup {n} BY <1>1 DEF Range
<1> HIDE DEF h
<1>8. /\ content' \in [0..usedSize -> IsQueue!Nodes] /\ Range(content') = Range(h)
      /\ Distinct(content')
      /\ \A k \in 1..usedSize : ~Precedes(content'[k], content'[Parent(k)])
  BY <1>1, <1>2, <1>3, <1>5, <1>6, ShiftUpOrders
<1>9. usedSize' - 1 = usedSize BY <1>1, <1>2
<1>10. allocatedSize' \in Nat /\ usedSize' \in 0..allocatedSize'
  BY <1>1, <1>2, DefaultSizeAssumption DEF Allocation, IncreasedTo
<1>11. extracted' \in IsQueue!Nodes \cup {IsQueue!None} BY <1>2 DEF IInv, TypeOK
<1>12. IInv'
  BY <1>8, <1>9, <1>10, <1>11 DEF IInv, TypeOK, HeapOrder, Distinct
<1>13. IsQueue!Add(n)
  <2>1. \A m \in Range(content) : m.stream # n.stream BY <1>2 DEF Range
  <2>2. Range(content)' = Range(content) \cup {n} BY <1>7, <1>8
  <2> QED BY <1>2, <2>1, <2>2 DEF IsQueue!Add
<1> QED BY <1>12, <1>13

\* An extraction keeps it, and takes out a node that none is to be served before.
LEMMA ExtractKeeps ==
  ASSUME IInv, NEW t \in Times, Extract(t)
  PROVE  IInv' /\ IsQueue!Extract
<1>1. /\ usedSize \in 0..allocatedSize /\ allocatedSize \in Nat /\ usedSize \in Nat
      /\ content \in [0..usedSize - 1 -> IsQueue!Nodes]
  BY DEF IInv, TypeOK
<1> DEFINE moved == [k \in 0..usedSize - 2 |->
                       IF k = 0 THEN content[usedSize - 1] ELSE content[k]]
<1>2. /\ 0 < usedSize
      /\ extracted' = content[0] /\ usedSize' = usedSize - 1
      /\ content' = IF usedSize = 1 THEN moved ELSE ShiftDown(moved, usedSize - 1, 0)
      /\ allocatedSize' = allocatedSize
  BY DEF Extract, IsReady
<1>3. moved \in [0..usedSize - 2 -> IsQueue!Nodes] BY <1>1, <1>2
<1>4. Distinct(content) /\ HeapOrder /\ TypeOK BY DEF IInv
<1>5. Range(moved) = Range(content) \ {content[0]}
  <2>1. \A j, k \in 0..usedSize - 1 : content[j] = content[k] => j = k
    BY <1>1, <1>4 DEF Distinct
  <2>2. ASSUME NEW m \in Range(moved) PROVE m \in Range(content) \ {content[0]}
    <3>1. PICK k \in 0..usedSize - 2 : m = moved[k] BY DEF Range
    <3>2. CASE k = 0
      <4>1. m = content[usedSize - 1] /\ usedSize - 1 # 0 /\ usedSize - 1 \in 0..usedSize - 1
        BY <1>1, <1>2, <3>1, <3>2
      <4> QED BY <1>1, <1>2, <2>1, <4>1 DEF Range
    <3>3. CASE k # 0
      <4>1. m = content[k] /\ k \in 0..usedSize - 1 BY <1>1, <3>1, <3>3
      <4> QED BY <1>1, <1>2, <2>1, <3>3, <4>1 DEF Range
    <3> QED BY <3>2, <3>3
  <2>3. ASSUME NEW m \in Range(content) \ {content[0]} PROVE m \in Range(moved)
    <3>1. PICK k \in 0..usedSize - 1 : m = content[k] BY <1>1 DEF Range
    <3>2. k # 0 BY <2>3, <3>1
    <3>3. CASE k = usedSize - 1
      <4>1. 0 \in 0..usedSize - 2 /\ moved[0] = m BY <1>1, <3>1, <3>2, <3>3
      <4> QED BY <4>1 DEF Range
    <3>4. CASE k # usedSize - 1
      <4>1. k \in 0..usedSize - 2 /\ moved[k] = m BY <1>1, <3>1, <3>2, <3>4
      <4> QED BY <4>1 DEF Range
    <3> QED BY <3>3, <3>4
  <2> HIDE DEF moved
  <2> QED BY <2>2, <2>3
<1>6. Distinct(moved) BY <1>1, <1>2, <1>4 DEF Distinct
<1>7. usedSize # 1 => OrderedBut(moved, usedSize - 1, 0)
  <2> SUFFICES ASSUME NEW k \in 1..(usedSize - 1) - 1, Parent(k) # 0
               PROVE  ~Precedes(moved[k], moved[Parent(k)])
    BY DEF OrderedBut
  <2>1. k \in 1..usedSize - 1 /\ k \in 0..usedSize - 2 BY <1>1
  <2>2. Parent(k) \in 0..usedSize - 2 BY <1>1, <2>1, ParentPlace
  <2>3. ~Precedes(content[k], content[Parent(k)]) BY <1>4, <2>1 DEF HeapOrder
  <2>4. moved[k] = content[k] /\ moved[Parent(k)] = content[Parent(k)] BY <2>1, <2>2
  <2> QED BY <2>3, <2>4
<1> HIDE DEF moved
<1>8. /\ content' \in [0..usedSize - 2 -> IsQueue!Nodes] /\ Range(content') = Range(moved)
      /\ Distinct(content')
      /\ \A k \in 1..usedSize - 2 : ~Precedes(content'[k], content'[Parent(k)])
  <2>1. CASE usedSize = 1 BY <1>2, <1>3, <1>6, <2>1
  <2>2. CASE usedSize # 1
    <3>1. usedSize - 1 \in Nat \ {0} /\ (usedSize - 1) - 1 = usedSize - 2 BY <1>1, <1>2, <2>2
    <3>2. content' = ShiftDown(moved, usedSize - 1, 0) BY <1>2, <2>2
    <3> QED BY <1>3, <1>6, <1>7, <2>2, <3>1, <3>2, ShiftDownOrders
  <2> QED BY <2>1, <2>2
<1>9. usedSize' - 1 = usedSize - 2 /\ usedSize' \in 0..allocatedSize' /\ allocatedSize' \in Nat
  BY <1>1, <1>2
<1>10. content[0] \in IsQueue!Nodes /\ 0 \in DOMAIN content BY <1>1, <1>2
<1>11. IInv'
  BY <1>2, <1>8, <1>9, <1>10 DEF IInv, TypeOK, HeapOrder, Distinct
<1>12. IsQueue!Extract
  <2>1. content[0] \in Range(content) BY <1>10 DEF Range
  <2>2. \A m \in Range(content) : ~IsQueue!Before(m, content[0])
    <3>1. \A k \in DOMAIN content : ~Precedes(content[k], content[0]) BY <1>4, RootIsFirst
    <3>2. \A k \in DOMAIN content : ~IsQueue!Before(content[k], content[0])
      <4> SUFFICES ASSUME NEW k \in DOMAIN content PROVE ~IsQueue!Before(content[k], content[0])
        OBVIOUS
      <4>1. content[k] \in IsQueue!Nodes BY <1>1
      <4>2. content[k].tsPt \in Nat /\ content[0].tsPt \in Nat BY <1>10, <4>1, NodeTypes
      <4> QED BY <3>1, <4>2 DEF Precedes, IsQueue!Before
    <3> QED BY <3>2 DEF Range
  <2>3. Range(content)' = Range(content) \ {content[0]} BY <1>5, <1>8
  <2>4. IsQueue!IsFirst(content[0]) BY <2>1, <2>2 DEF IsQueue!IsFirst
  <2> QED BY <1>2, <2>1, <2>3, <2>4 DEF IsQueue!Extract
<1> QED BY <1>11, <1>12

LEMMA StartsRight == Init => IInv /\ IsQueue!Init
<1> SUFFICES ASSUME Init PROVE IInv /\ IsQueue!Init OBVIOUS
<1>1. /\ content = [k \in {} |-> IsQueue!None]
      /\ usedSize = 0 /\ allocatedSize = 0 /\ extracted = IsQueue!None
  BY DEF Init
<1>2. 0..usedSize - 1 = {} /\ 1..usedSize - 1 = {} BY <1>1
<1>3. DOMAIN content = {} /\ content \in [0..usedSize - 1 -> IsQueue!Nodes] BY <1>1, <1>2
<1>4. Range(content) = {} BY <1>3 DEF Range
<1> QED BY <1>1, <1>2, <1>3, <1>4 DEF IInv, TypeOK, HeapOrder, Distinct, IsQueue!Init

LEMMA StepsRight == IInv /\ [Next]_vars => IInv' /\ [IsQueue!Next]_<<Range(content), extracted>>
<1> SUFFICES ASSUME IInv, [Next]_vars
             PROVE  IInv' /\ [IsQueue!Next]_<<Range(content), extracted>>
  OBVIOUS
<1>1. ASSUME NEW s \in Streams, NEW t \in Times, Add(IsQueue!Timed(s, t))
      PROVE  IInv' /\ IsQueue!Next
  <2>1. IsQueue!Timed(s, t) \in IsQueue!Nodes BY DEF IsQueue!Nodes
  <2>2. IInv' /\ IsQueue!Add(IsQueue!Timed(s, t)) BY <1>1, <2>1, AddKeeps
  <2> QED BY <2>1, <2>2 DEF IsQueue!Next
<1>2. ASSUME NEW t \in Times, Extract(t)
      PROVE  IInv' /\ IsQueue!Next
  <2>1. IInv' /\ IsQueue!Extract BY <1>2, ExtractKeeps
  <2> QED BY <2>1 DEF IsQueue!Next
<1>3. CASE UNCHANGED vars
  <2>1. content' = content /\ usedSize' = usedSize /\ allocatedSize' = allocatedSize
        /\ extracted' = extracted
    BY <1>3 DEF vars
  <2> QED BY <2>1 DEF IInv, TypeOK, HeapOrder, Distinct
<1> QED BY <1>1, <1>2, <1>3 DEF Next

LEMMA Inductive == Spec => []IInv
BY StartsRight, StepsRight, PTL DEF Spec

(* Sizes, nodes and the last extracted one keep their types; the array is   *)
(* never written past its allocation (increaseAllocationStreamHeap).        *)
THEOREM TypeCorrect == Spec => []TypeOK
<1>1. IInv => TypeOK BY DEF IInv
<1> QED BY <1>1, Inductive, PTL

(* After any sequence of addStreamHeap and extractStreamHeap no child is to *)
(* be served before its parent.                                             *)
THEOREM HeapOrdered == Spec => []HeapOrder
<1>1. IInv => HeapOrder BY DEF IInv
<1> QED BY <1>1, Inductive, PTL

(* streamIsReadyStreamHeap() looks at the root and answers for all the      *)
(* streams.                                                                 *)
THEOREM ReadyComplete == Spec => []ReadyIsComplete
<1>1. ASSUME IInv PROVE ReadyIsComplete
  <2>1. /\ usedSize \in Nat /\ DOMAIN content = 0..usedSize - 1
        /\ \A k \in 0..usedSize - 1 : content[k] \in IsQueue!Nodes
    BY <1>1 DEF IInv, TypeOK
  <2>2. \A k \in 0..usedSize - 1 : ~Precedes(content[k], content[0])
    BY <1>1, <2>1, RootIsFirst DEF IInv
  <2> SUFFICES ASSUME NEW t \in Times
               PROVE  IsReady(t) <=> \E k \in DOMAIN content : content[k].tsPt <= t
    BY DEF ReadyIsComplete
  <2>3. ASSUME IsReady(t) PROVE \E k \in DOMAIN content : content[k].tsPt <= t
    <3>1. 0 \in DOMAIN content /\ content[0].tsPt <= t BY <2>1, <2>3 DEF IsReady
    <3> QED BY <3>1
  <2>4. ASSUME NEW k \in DOMAIN content, content[k].tsPt <= t PROVE IsReady(t)
    <3>1. 0 < usedSize /\ 0 \in 0..usedSize - 1 /\ k \in 0..usedSize - 1 BY <2>1
    <3>2. content[0].tsPt \in Nat /\ content[k].tsPt \in Nat BY <2>1, <3>1, NodeTypes
    <3>3. content[0].tsPt <= content[k].tsPt BY <2>2, <3>1, <3>2 DEF Precedes
    <3>4. t \in Nat BY NodesAssumption
    <3> QED BY <2>4, <3>1, <3>2, <3>3, <3>4 DEF IsReady
  <2> QED BY <2>3, <2>4
<1> QED BY <1>1, Inductive, PTL

(* The heap implements the queue of timed streams that TimerQueue promises: *)
(* each insertion adds the one node, each extraction takes one with no node *)
(* before it, and no other step changes the set.                            *)
THEOREM Implementation == Spec => RefinesTimerQueue
<1>1. Init => IsQueue!Init BY StartsRight
<1>2. IInv /\ [Next]_vars => [IsQueue!Next]_<<Range(content), extracted>> BY StepsRight
<1> QED BY <1>1, <1>2, Inductive, PTL DEF Spec, RefinesTimerQueue, IsQueue!Spec, IsQueue!vars
=============================================================================
