------------------------- MODULE PriorityQueueProofs -------------------------
(***************************************************************************)
(* Theorems about PriorityQueue for every set of threads and items, every  *)
(* capacity and every bound on the clock.                                  *)
(***************************************************************************)
EXTENDS PriorityQueue, FiniteSetTheorems, SequenceTheorems, WellFoundedInduction, TLAPS

(* Loops.  One that gets smaller with every round ends, and keeps what each *)
(* round keeps.  The library's induction over well-founded relations needs *)
(* a set and no operator in this form: a set that is not empty has a least *)
(* member.                                                                 *)

LEMMA LeastNat ==
    ASSUME NEW T, T \subseteq Nat, T # {}
    PROVE  \E n \in T : \A k \in T : n <= k
  <1>1. PICK n \in T : \A k \in T : ~(<<k, n>> \in OpToRel(<, Nat))
    BY NatLessThanWellFounded, WFMin
  <1>2. \A k \in T : ~(k < n)
    BY <1>1 DEF OpToRel
  <1> QED
    BY <1>2

LEMMA Smallest ==
    ASSUME NEW B, B # {}, NEW m, \A x \in B : m[x] \in Nat
    PROVE  \E x \in B : \A y \in B : m[x] <= m[y]
  <1> DEFINE T == {m[x] : x \in B}
  <1>1. PICK n \in T : \A k \in T : n <= k
    BY LeastNat
  <1> QED
    BY <1>1

\* A loop over the states N that stops at some with a result and makes a step
\* from all others, which leaves less to do.
IsLoop(N, stop, step, out, m) ==
    /\ \A x \in N : m[x] \in Nat
    /\ \A x \in N : x \notin stop => step[x] \in N /\ m[step[x]] < m[x]
Rounds(f, N, stop, step, out) == [x \in N |-> IF x \in stop THEN out[x] ELSE f[step[x]]]
Keeps(I, N, stop, step) == I \subseteq N /\ \A x \in I : x \notin stop => step[x] \in I

\* A recursive function that describes a loop exists.
LEMMA LoopExists ==
    ASSUME NEW N, NEW stop, NEW step, NEW out, NEW m, IsLoop(N, stop, step, out, m)
    PROVE  \E f : f = Rounds(f, N, stop, step, out)
  <1> USE DEF IsLoop
  <1> DEFINE Part(h) == /\ DOMAIN h \subseteq N
                        /\ \A x \in DOMAIN h :
                              IF x \in stop THEN h[x] = out[x]
                              ELSE step[x] \in DOMAIN h /\ h[x] = h[step[x]]
  <1>1. ASSUME NEW g, NEW h, Part(g), Part(h), NEW z \in DOMAIN g \cap DOMAIN h
        PROVE  g[z] = h[z]
    <2> DEFINE B == {x \in DOMAIN g \cap DOMAIN h : g[x] # h[x]}
    <2> SUFFICES ASSUME B # {} PROVE FALSE
      BY <1>1
    <2>1. \A x \in B : m[x] \in Nat
      BY <1>1
    <2>2. PICK x \in B : \A y \in B : m[x] <= m[y]
      BY <2>1, Smallest
    <2>3. x \in N /\ x \notin stop
      BY <1>1
    <2>4. step[x] \in DOMAIN g \cap DOMAIN h /\ g[x] = g[step[x]] /\ h[x] = h[step[x]]
      BY <1>1, <2>3
    <2>5. step[x] \in B
      BY <2>2, <2>4
    <2> QED
      BY <2>2, <2>3, <2>5
  <1>2. ASSUME NEW z \in N
        PROVE  \E h : Part(h) /\ z \in DOMAIN h
    <2> DEFINE B == {x \in N : ~\E h : Part(h) /\ x \in DOMAIN h}
    <2> SUFFICES ASSUME B # {} PROVE FALSE
      BY <1>2
    <2>1. PICK x \in B : \A y \in B : m[x] <= m[y]
      BY Smallest
    <2>2. CASE x \in stop
      <3> DEFINE g == [y \in {x} |-> out[x]]
      <3>1. Part(g) /\ x \in DOMAIN g
        BY <2>2
      <3> QED
        BY <3>1
    <2>3. CASE x \notin stop
      <3>1. step[x] \in N /\ step[x] \notin B
        BY <2>1, <2>3
      <3>2. PICK h : Part(h) /\ step[x] \in DOMAIN h
        BY <3>1
      <3>3. x \notin DOMAIN h
        BY <3>2
      <3> DEFINE g == [y \in DOMAIN h \cup {x} |-> IF y = x THEN h[step[x]] ELSE h[y]]
      <3>4. DOMAIN g = DOMAIN h \cup {x} /\ g[x] = h[step[x]] /\ \A y \in DOMAIN h : g[y] = h[y]
        BY <3>3
      <3> HIDE DEF g
      <3>5. Part(g)
        BY <2>3, <3>2, <3>3, <3>4
      <3> QED
        BY <3>4, <3>5
    <2> QED
      BY <2>2, <2>3
  <1> HIDE DEF Part
  <1> DEFINE Some(x) == CHOOSE h : Part(h) /\ x \in DOMAIN h
             f == [x \in N |-> Some(x)[x]]
  <1>3. \A x \in N : Part(Some(x)) /\ x \in DOMAIN Some(x)
    BY <1>2
  <1> HIDE DEF Some
  <1>4. ASSUME NEW x \in N
        PROVE  f[x] = IF x \in stop THEN out[x] ELSE f[step[x]]
    <2>1. CASE x \in stop
      BY <1>3, <2>1 DEF Part
    <2>2. CASE x \notin stop
      <3>1. step[x] \in N /\ step[x] \in DOMAIN Some(x) /\ f[x] = Some(x)[step[x]]
        BY <1>3, <2>2 DEF Part
      <3>2. Some(x)[step[x]] = Some(step[x])[step[x]]
        BY <1>1, <1>3, <3>1
      <3> QED
        BY <2>2, <3>1, <3>2
    <2> QED
      BY <2>1, <2>2
  <1>5. f = Rounds(f, N, stop, step, out)
    BY <1>4 DEF Rounds
  <1> QED
    BY <1>5

\* What every round keeps holds at the end.
LEMMA LoopEnds ==
    ASSUME NEW N, NEW stop, NEW step, NEW out, NEW m, IsLoop(N, stop, step, out, m),
           NEW f, f = Rounds(f, N, stop, step, out),
           NEW I, Keeps(I, N, stop, step), NEW z \in I
    PROVE  \E y \in I : y \in stop /\ f[z] = out[y]
  <1> USE DEF IsLoop, Keeps
  <1>0. \A x \in N : f[x] = IF x \in stop THEN out[x] ELSE f[step[x]]
    BY DEF Rounds
  <1> DEFINE B == {x \in I : ~\E y \in I : y \in stop /\ f[x] = out[y]}
  <1> SUFFICES ASSUME B # {} PROVE FALSE
    OBVIOUS
  <1>1. PICK x \in B : \A y \in B : m[x] <= m[y]
    BY Smallest
  <1>2. x \notin stop
    BY <1>0
  <1>3. step[x] \in I /\ f[x] = f[step[x]] /\ m[step[x]] < m[x] /\ m[x] \in Nat /\ m[step[x]] \in Nat
    BY <1>0, <1>2
  <1>4. step[x] \in B
    BY <1>3
  <1> QED
    BY <1>1, <1>3, <1>4
-----------------------------------------------------------------------------
(* The heap. *)

LEMMA Halves ==
    ASSUME NEW k \in Nat
    PROVE  k \div 2 \in Nat /\ 2 * (k \div 2) <= k /\ k <= 2 * (k \div 2) + 1
  OBVIOUS

\* lessItem is a strict order of the items, in which no two stand side by side.
LEMMA LessOrder ==
    ASSUME NEW x \in Items, NEW y \in Items
    PROVE  /\ Less(x, y) => ~Less(y, x)
           /\ x # y => Less(x, y) \/ Less(y, x)
           /\ \A z \in Items : ~Less(x, y) /\ ~Less(y, z) => ~Less(x, z)
  <1>1. \A w \in Items : w.runAt \in Int /\ w.priority \in Int /\ w.seq \in Int
    BY ItemsAssumption DEF ItemsAssumption
  <1>2. x.seq = y.seq => x = y
    BY ItemsAssumption DEF ItemsAssumption
  <1> QED
    BY <1>1, <1>2 DEF Less

\* Two nodes change places.
Crossed(a, i, k, b) ==
    /\ b \in Seq(Items) /\ Len(b) = Len(a)
    /\ \A n \in 1..Len(a) : b[n] = IF n = k THEN a[i] ELSE IF n = i THEN a[k] ELSE a[n]

LEMMA SwappedNodes ==
    ASSUME NEW a \in Seq(Items), NEW i \in 1..Len(a), NEW k \in 1..Len(a)
    PROVE  Crossed(a, i, k, Swapped(a, i, k))
  BY DEF Swapped, Crossed

\* The same items in another order.
Same(a, b) ==
    /\ a \in Seq(Items) /\ b \in Seq(Items) /\ Len(a) = Len(b)
    /\ Range(a) = Range(b) /\ (IsInjective(a) => IsInjective(b))

LEMMA SwappedSame ==
    ASSUME NEW a \in Seq(Items), NEW i \in 1..Len(a), NEW k \in 1..Len(a)
    PROVE  Same(a, Swapped(a, i, k))
  <1> DEFINE b == Swapped(a, i, k)
  <1>0. Crossed(a, i, k, b)
    BY SwappedNodes
  <1> HIDE DEF b
  <1>1. /\ b \in Seq(Items) /\ Len(b) = Len(a) /\ DOMAIN a = 1..Len(a) /\ DOMAIN b = 1..Len(a)
        /\ \A n \in 1..Len(a) : b[n] = IF n = k THEN a[i] ELSE IF n = i THEN a[k] ELSE a[n]
    BY <1>0 DEF Crossed
  <1>2. \A n \in 1..Len(a) : \E l \in 1..Len(a) : b[n] = a[l]
    BY <1>1
  <1>3. \A n \in 1..Len(a) : \E l \in 1..Len(a) : a[n] = b[l]
    BY <1>1
  <1>4. Range(a) = Range(b)
    <2>1. Range(a) = {a[n] : n \in 1..Len(a)} /\ Range(b) = {b[n] : n \in 1..Len(a)}
      BY <1>1 DEF Range
    <2>2. \A x \in Range(a) : x \in Range(b)
      BY <1>3, <2>1
    <2>3. \A x \in Range(b) : x \in Range(a)
      BY <1>2, <2>1
    <2> QED
      BY <2>2, <2>3
  <1>5. IsInjective(a) => IsInjective(b)
    BY <1>1 DEF IsInjective
  <1> QED
    BY <1>1, <1>4, <1>5 DEF Same, b

Heap(a) == \A n \in 2..Len(a) : ~Less(a[n], a[n \div 2])

\* The item at node i has still to rise, or to sink: all other nodes are in
\* order, and those below it follow the one above it.
Astride(a, i) == \A n \in 2..Len(a) : n \div 2 = i /\ i > 1 => ~Less(a[n], a[i \div 2])
Rising(a, i)  == Astride(a, i) /\ \A n \in 2..Len(a) : n # i => ~Less(a[n], a[n \div 2])
Sinking(a, i) == Astride(a, i) /\ \A n \in 2..Len(a) : n \div 2 # i => ~Less(a[n], a[n \div 2])

\* One round of pq.push's loop.
LEMMA Rises ==
    ASSUME NEW a \in Seq(Items), NEW i \in 1..Len(a), i # 1, Rising(a, i), Less(a[i], a[i \div 2])
    PROVE  i \div 2 \in 1..Len(a) /\ i \div 2 < i /\ Rising(Swapped(a, i, i \div 2), i \div 2)
  <1> DEFINE p == i \div 2
             b == Swapped(a, i, p)
  <1>1. p \in 1..Len(a) /\ p < i
    <2>1. Len(a) \in Nat /\ i \in Nat /\ i >= 2 /\ i <= Len(a)
      OBVIOUS
    <2>2. p \in Nat /\ 2 * p <= i /\ i <= 2 * p + 1
      BY <2>1, Halves
    <2> HIDE DEF p
    <2> QED
      BY <2>1, <2>2
  <1>2. /\ Len(b) = Len(a)
        /\ \A n \in 1..Len(a) : b[n] = IF n = p THEN a[i] ELSE IF n = i THEN a[p] ELSE a[n]
    <2> HIDE DEF p
    <2>1. Crossed(a, i, p, b)
      BY <1>1, SwappedNodes
    <2> QED
      BY <2>1 DEF Crossed
  <1>3. \A n \in 2..Len(a) : n \in 1..Len(a) /\ n \div 2 \in 1..Len(a) /\ n \div 2 < n
    BY Halves
  <1>4. \A n \in 1..Len(a) : a[n] \in Items
    OBVIOUS
  <1>5. ~Less(a[p], a[i])
    BY <1>1, <1>4, LessOrder
  <1>6. Less(a[i], a[p])
    OBVIOUS
  <1> HIDE DEF p, b
  <1>7. \A n \in 2..Len(a) : n \div 2 = p /\ n # i => ~Less(a[n], a[p])
    BY DEF Rising
  <1>8. ASSUME NEW n \in 2..Len(a), n # p
        PROVE  ~Less(b[n], b[n \div 2])
    <2>1. CASE n = i
      BY <1>1, <1>2, <1>5, <2>1 DEF p
    <2>2. CASE n # i /\ n \div 2 = i
      <3>1. b[n] = a[n] /\ b[n \div 2] = a[p]
        BY <1>1, <1>2, <1>3, <1>8, <2>2
      <3> QED
        BY <1>1, <2>2, <3>1 DEF Rising, Astride, p
    <2>3. CASE n # i /\ n \div 2 = p
      <3>1. b[n] = a[n] /\ b[n \div 2] = a[i]
        BY <1>1, <1>2, <1>3, <1>8, <2>3
      <3> QED
        BY <1>1, <1>3, <1>4, <1>5, <1>7, <2>3, <3>1, LessOrder
    <2>4. CASE n # i /\ n \div 2 # i /\ n \div 2 # p
      <3>1. b[n] = a[n] /\ b[n \div 2] = a[n \div 2]
        BY <1>2, <1>3, <1>8, <2>4
      <3> QED
        BY <2>4, <3>1 DEF Rising
    <2> QED
      BY <2>1, <2>2, <2>3, <2>4
  <1>9. ASSUME NEW n \in 2..Len(a), n \div 2 = p, p > 1
        PROVE  ~Less(b[n], b[p \div 2])
    <2> DEFINE q == p \div 2
    <2>1. q \in 1..Len(a) /\ q < p /\ p \in 2..Len(a) /\ p # i
      BY <1>1, <1>3, <1>9
    <2> HIDE DEF q
    <2>2. b[q] = a[q] /\ ~Less(a[p], a[q])
      BY <1>1, <1>2, <2>1 DEF Rising, q
    <2>3. CASE n = i
      BY <1>1, <1>2, <2>2, <2>3 DEF q
    <2>4. CASE n # i
      <3>1. b[n] = a[n] /\ ~Less(a[n], a[p])
        BY <1>2, <1>3, <1>7, <1>9, <2>4
      <3>2. a[n] \in Items /\ a[p] \in Items /\ a[q] \in Items
        BY <1>1, <1>3, <1>4, <2>1
      <3>3. ~Less(a[n], a[q])
        BY <2>2, <3>1, <3>2, LessOrder
      <3> QED
        BY <2>2, <3>1, <3>3 DEF q
    <2> QED
      BY <2>3, <2>4
  <1>10. Rising(b, p)
    BY <1>2, <1>8, <1>9 DEF Rising, Astride
  <1> QED
    BY <1>1, <1>10 DEF p, b

\* One round of pq.pop's loop.
LEMMA Sinks ==
    ASSUME NEW a \in Seq(Items), NEW i \in 1..Len(a), 2 * i <= Len(a), Sinking(a, i)
    PROVE  /\ SmallerChild(a, i) \in 1..Len(a) /\ i < SmallerChild(a, i)
           /\ ~Less(a[SmallerChild(a, i)], a[i]) => Heap(a)
           /\ Less(a[SmallerChild(a, i)], a[i]) =>
                 Sinking(Swapped(a, i, SmallerChild(a, i)), SmallerChild(a, i))
  <1> DEFINE c == SmallerChild(a, i)
             b == Swapped(a, i, c)
  <1>1. c \in 2..Len(a) /\ c \in 1..Len(a) /\ i < c /\ c \div 2 = i
    BY Halves DEF SmallerChild
  <1>2. \A n \in 2..Len(a) : n \in 1..Len(a) /\ n \div 2 \in 1..Len(a) /\ n \div 2 < n
    BY Halves
  <1>3. \A n \in 1..Len(a) : a[n] \in Items
    OBVIOUS
  <1>4. ASSUME NEW n \in 2..Len(a), n \div 2 = i
        PROVE  ~Less(a[n], a[c])
    <2>1. n = 2 * i \/ n = 2 * i + 1
      BY <1>4, Halves
    <2>2. a[n] \in Items /\ a[2 * i] \in Items
      BY <1>2, <1>3
    <2> QED
      BY <2>1, <2>2, LessOrder DEF SmallerChild
  <1>5. /\ Len(b) = Len(a)
        /\ \A n \in 1..Len(a) : b[n] = IF n = c THEN a[i] ELSE IF n = i THEN a[c] ELSE a[n]
    <2> HIDE DEF c
    <2>1. Crossed(a, i, c, b)
      BY <1>1, SwappedNodes
    <2> QED
      BY <2>1 DEF Crossed
  <1> HIDE DEF c, b
  <1>6. ASSUME ~Less(a[c], a[i])
        PROVE  Heap(a)
    <2>1. ASSUME NEW n \in 2..Len(a)
          PROVE  ~Less(a[n], a[n \div 2])
      <3>1. CASE n \div 2 = i
        BY <1>1, <1>2, <1>3, <1>4, <1>6, <3>1, LessOrder
      <3>2. CASE n \div 2 # i
        BY <3>2 DEF Sinking
      <3> QED
        BY <3>1, <3>2
    <2> QED
      BY <2>1 DEF Heap
  <1>7. ASSUME Less(a[c], a[i])
        PROVE  Sinking(b, c)
    <2>1. ASSUME NEW n \in 2..Len(a), n \div 2 # c
          PROVE  ~Less(b[n], b[n \div 2])
      <3>1. CASE n = c
        <4>1. b[n] = a[i] /\ b[n \div 2] = a[c]
          BY <1>1, <1>5, <3>1
        <4> QED
          BY <1>1, <1>3, <1>7, <4>1, LessOrder
      <3>2. CASE n # c /\ n \div 2 = i
        <4>1. b[n] = a[n] /\ b[n \div 2] = a[c]
          BY <1>1, <1>2, <1>5, <3>2
        <4> QED
          BY <1>4, <3>2, <4>1
      <3>3. CASE n = i
        <4>1. b[n] = a[c] /\ b[n \div 2] = a[n \div 2] /\ i > 1
          BY <1>1, <1>2, <1>5, <2>1, <3>3
        <4>2. c \in 2..Len(a) /\ c \div 2 = i /\ n \div 2 = i \div 2
          BY <1>1, <3>3
        <4>3. ~Less(a[c], a[i \div 2])
          BY <4>1, <4>2 DEF Sinking, Astride
        <4> QED
          BY <4>1, <4>2, <4>3
      <3>4. CASE n # c /\ n # i /\ n \div 2 # i
        <4>1. b[n] = a[n] /\ b[n \div 2] = a[n \div 2]
          BY <1>2, <1>5, <2>1, <3>4
        <4> QED
          BY <3>4, <4>1 DEF Sinking
      <3> QED
        BY <1>1, <3>1, <3>2, <3>3, <3>4
    <2>2. ASSUME NEW n \in 2..Len(a), n \div 2 = c
          PROVE  ~Less(b[n], b[c \div 2])
      <3>1. b[n] = a[n] /\ b[c \div 2] = a[c]
        <4>1. n \in 1..Len(a) /\ n # c /\ n # i /\ i # c /\ c \div 2 = i
          BY <1>1, <1>2, <2>2
        <4> QED
          BY <1>5, <4>1
      <3> QED
        BY <1>1, <2>2, <3>1 DEF Sinking
    <2> QED
      BY <1>5, <2>1, <2>2 DEF Sinking, Astride
  <1> QED
    BY <1>1, <1>6, <1>7 DEF c, b

LEMMA Pairs ==
    ASSUME NEW a \in Seq(Items), NEW i \in 1..Len(a)
    PROVE  <<a, i>> \in Nodes /\ <<a, i>>[1] = a /\ <<a, i>>[2] = i
  BY DEF Nodes

LEMMA OfPairs ==
    ASSUME NEW x \in Nodes
    PROVE  x[1] \in Seq(Items) /\ x[2] \in 1..Len(x[1]) /\ x = <<x[1], x[2]>>
  BY DEF Nodes

\* The loop of pq.push: from a node that is to rise it makes a heap of the same
\* items.
LEMMA SiftsUp ==
    ASSUME NEW a \in Seq(Items), NEW i \in 1..Len(a), Rising(a, i)
    PROVE  Same(a, SiftUp[<<a, i>>]) /\ Heap(SiftUp[<<a, i>>])
  <1> DEFINE Stop == {x \in Nodes : x[2] = 1 \/ ~Less(x[1][x[2]], x[1][x[2] \div 2])}
             step == [x \in Nodes |-> <<Swapped(x[1], x[2], x[2] \div 2), x[2] \div 2>>]
             out  == [x \in Nodes |-> x[1]]
             m    == [x \in Nodes |-> x[2]]
             f    == SiftUp
             I    == {x \in Nodes : Same(a, x[1]) /\ Rising(x[1], x[2])}
  <1>1. ASSUME NEW x \in Nodes, x \notin Stop
        PROVE  step[x] \in Nodes /\ m[step[x]] < m[x]
    <2>1. x[1] \in Seq(Items) /\ x[2] \in 2..Len(x[1])
      BY <1>1, OfPairs
    <2>2. x[2] \div 2 \in 1..Len(x[1]) /\ x[2] \div 2 < x[2]
      BY <2>1, Halves
    <2>3. Swapped(x[1], x[2], x[2] \div 2) \in Seq(Items) /\ Len(Swapped(x[1], x[2], x[2] \div 2)) = Len(x[1])
      BY <2>1, <2>2, SwappedNodes DEF Crossed
    <2>4. step[x] \in Nodes /\ step[x][2] = x[2] \div 2
      BY <2>2, <2>3, Pairs
    <2> QED
      BY <2>2, <2>4
  <1>2. \A x \in Nodes : m[x] \in Nat
    BY OfPairs
  <1>3. IsLoop(Nodes, Stop, step, out, m)
    BY <1>1, <1>2 DEF IsLoop
  <1>4. f = Rounds(f, Nodes, Stop, step, out)
    <2> DEFINE Body(g) == [x \in Nodes |-> LET b == x[1]  k == x[2]
                                           IN  IF k = 1 \/ ~Less(b[k], b[k \div 2]) THEN b
                                               ELSE g[<<Swapped(b, k, k \div 2), k \div 2>>]]
    <2>1. PICK g : g = Rounds(g, Nodes, Stop, step, out)
      <3> HIDE DEF Stop, step, out, m
      <3> QED
        BY <1>3, LoopExists
    <2>2. \A h : Rounds(h, Nodes, Stop, step, out) = Body(h)
      BY DEF Rounds
    <2>3. g = Body(g)
      <3> HIDE DEF Stop, step, out, m, Body
      <3> QED
        BY <2>1, <2>2, Zenon
    <2>4. f = Body(f)
      BY <2>3, Zenon DEF SiftUp
    <2> HIDE DEF Stop, step, out, m, Body, f
    <2> QED
      BY <2>2, <2>4, Zenon
  <1>5. ASSUME NEW x \in I, x \notin Stop
        PROVE  step[x] \in I
    <2>1. /\ x[1] \in Seq(Items) /\ x[2] \in 1..Len(x[1]) /\ x[2] # 1
          /\ Less(x[1][x[2]], x[1][x[2] \div 2]) /\ Rising(x[1], x[2]) /\ Same(a, x[1])
      BY <1>5, OfPairs
    <2>2. x[2] \div 2 \in 1..Len(x[1]) /\ Rising(Swapped(x[1], x[2], x[2] \div 2), x[2] \div 2)
      BY <2>1, Rises
    <2>3. Same(x[1], Swapped(x[1], x[2], x[2] \div 2))
      BY <2>1, <2>2, SwappedSame
    <2>4. Same(a, Swapped(x[1], x[2], x[2] \div 2))
      BY <2>1, <2>3 DEF Same
    <2>5. step[x] \in Nodes /\ step[x] = <<Swapped(x[1], x[2], x[2] \div 2), x[2] \div 2>>
      BY <1>1, <1>5
    <2> QED
      BY <2>2, <2>4, <2>5
  <1>6. <<a, i>> \in I
    BY Pairs DEF Same
  <1>7. PICK y \in I : y \in Stop /\ f[<<a, i>>] = out[y]
    <2>1. Keeps(I, Nodes, Stop, step)
      BY <1>5 DEF Keeps
    <2> HIDE DEF Stop, step, out, m, f, I
    <2> QED
      BY <1>3, <1>4, <1>6, <2>1, LoopEnds
  <1>8. Heap(y[1])
    <2>1. y[1] \in Seq(Items) /\ y[2] \in 1..Len(y[1]) /\ Rising(y[1], y[2])
      BY OfPairs
    <2>2. y[2] = 1 \/ ~Less(y[1][y[2]], y[1][y[2] \div 2])
      BY <1>7
    <2> HIDE DEF Stop, step, out, m, f, I
    <2>3. ASSUME NEW n \in 2..Len(y[1])
          PROVE  ~Less(y[1][n], y[1][n \div 2])
      BY <2>1, <2>2 DEF Rising
    <2> QED
      BY <2>3 DEF Heap
  <1>9. f[<<a, i>>] = y[1] /\ Same(a, y[1])
    BY <1>7
  <1> QED
    BY <1>8, <1>9

\* The loop of pq.pop: from a node that is to sink it makes a heap of the same
\* items.
LEMMA SiftsDown ==
    ASSUME NEW a \in Seq(Items), NEW i \in 1..Len(a), Sinking(a, i)
    PROVE  Same(a, SiftDown[<<a, i>>]) /\ Heap(SiftDown[<<a, i>>])
  <1> DEFINE Child(x) == SmallerChild(x[1], x[2])
             Stop == {x \in Nodes : 2 * x[2] > Len(x[1]) \/ ~Less(x[1][Child(x)], x[1][x[2]])}
             step == [x \in Nodes |-> <<Swapped(x[1], x[2], Child(x)), Child(x)>>]
             out  == [x \in Nodes |-> x[1]]
             m    == [x \in Nodes |-> Len(x[1]) - x[2]]
             f    == SiftDown
             I    == {x \in Nodes : Same(a, x[1]) /\ Sinking(x[1], x[2])}
  <1>1. ASSUME NEW x \in Nodes, x \notin Stop
        PROVE  step[x] \in Nodes /\ m[step[x]] < m[x]
    <2>1. x[1] \in Seq(Items) /\ x[2] \in 1..Len(x[1]) /\ 2 * x[2] <= Len(x[1])
      BY <1>1, OfPairs
    <2>2. Child(x) \in 1..Len(x[1]) /\ x[2] < Child(x)
      BY <2>1 DEF SmallerChild
    <2>3. Swapped(x[1], x[2], Child(x)) \in Seq(Items) /\ Len(Swapped(x[1], x[2], Child(x))) = Len(x[1])
      BY <2>1, <2>2, SwappedNodes DEF Crossed
    <2>4. step[x] \in Nodes /\ step[x][2] = Child(x) /\ Len(step[x][1]) = Len(x[1])
      BY <2>2, <2>3, Pairs
    <2>5. m[x] = Len(x[1]) - x[2] /\ m[step[x]] = Len(x[1]) - Child(x)
      BY <2>4
    <2> HIDE DEF m, step, Child
    <2> QED
      BY <2>1, <2>2, <2>4, <2>5
  <1>2. \A x \in Nodes : m[x] \in Nat
    BY OfPairs
  <1>3. IsLoop(Nodes, Stop, step, out, m)
    BY <1>1, <1>2 DEF IsLoop
  <1>4. f = Rounds(f, Nodes, Stop, step, out)
    <2> DEFINE Body(g) == [x \in Nodes |-> LET b == x[1]  k == x[2]  child == SmallerChild(b, k)
                                           IN  IF 2 * k > Len(b) \/ ~Less(b[child], b[k]) THEN b
                                               ELSE g[<<Swapped(b, k, child), child>>]]
    <2>1. PICK g : g = Rounds(g, Nodes, Stop, step, out)
      <3> HIDE DEF Stop, step, out, m
      <3> QED
        BY <1>3, LoopExists
    <2>2. \A h : Rounds(h, Nodes, Stop, step, out) = Body(h)
      BY DEF Rounds
    <2>3. g = Body(g)
      <3> HIDE DEF Stop, step, out, m, Body
      <3> QED
        BY <2>1, <2>2, Zenon
    <2>4. f = Body(f)
      BY <2>3, Zenon DEF SiftDown
    <2> HIDE DEF Stop, step, out, m, Body, f
    <2> QED
      BY <2>2, <2>4, Zenon
  <1>5. ASSUME NEW x \in I, x \notin Stop
        PROVE  step[x] \in I
    <2>1. /\ x[1] \in Seq(Items) /\ x[2] \in 1..Len(x[1]) /\ 2 * x[2] <= Len(x[1])
          /\ Less(x[1][Child(x)], x[1][x[2]]) /\ Sinking(x[1], x[2]) /\ Same(a, x[1])
      BY <1>5, OfPairs
    <2>2. Child(x) \in 1..Len(x[1]) /\ Sinking(Swapped(x[1], x[2], Child(x)), Child(x))
      BY <2>1, Sinks
    <2>3. Same(x[1], Swapped(x[1], x[2], Child(x)))
      BY <2>1, <2>2, SwappedSame
    <2>4. Same(a, Swapped(x[1], x[2], Child(x)))
      BY <2>1, <2>3 DEF Same
    <2>5. step[x] \in Nodes /\ step[x] = <<Swapped(x[1], x[2], Child(x)), Child(x)>>
      BY <1>1, <1>5
    <2> QED
      BY <2>2, <2>4, <2>5
  <1>6. <<a, i>> \in I
    BY Pairs DEF Same
  <1>7. PICK y \in I : y \in Stop /\ f[<<a, i>>] = out[y]
    <2>1. Keeps(I, Nodes, Stop, step)
      BY <1>5 DEF Keeps
    <2> HIDE DEF Stop, step, out, m, f, I
    <2> QED
      BY <1>3, <1>4, <1>6, <2>1, LoopEnds
  <1>8. Heap(y[1])
    <2>1. y[1] \in Seq(Items) /\ y[2] \in 1..Len(y[1]) /\ Sinking(y[1], y[2])
      BY OfPairs
    <2>2. 2 * y[2] > Len(y[1]) \/ ~Less(y[1][Child(y)], y[1][y[2]])
      BY <1>7
    <2> HIDE DEF Stop, step, out, m, f, I
    <2>3. CASE 2 * y[2] > Len(y[1])
      <3>1. \A n \in 2..Len(y[1]) : n \div 2 # y[2]
        BY <2>1, <2>3, Halves
      <3> QED
        BY <2>1, <3>1 DEF Sinking, Heap
    <2>4. CASE 2 * y[2] <= Len(y[1])
      BY <2>1, <2>2, <2>4, Sinks
    <2> QED
      BY <2>1, <2>3, <2>4
  <1>9. f[<<a, i>>] = y[1] /\ Same(a, y[1])
    BY <1>7
  <1> QED
    BY <1>8, <1>9

\* pq.push adds its item to a heap, and pq.pop takes the root away.
LEMMA PushMakesHeap ==
    ASSUME NEW a \in Seq(Items), Heap(a), NEW it \in Items
    PROVE  /\ Pushed(a, it) \in Seq(Items) /\ Len(Pushed(a, it)) = Len(a) + 1 /\ Heap(Pushed(a, it))
           /\ Range(Pushed(a, it)) = Range(a) \cup {it}
           /\ IsInjective(a) /\ it \notin Range(a) => IsInjective(Pushed(a, it))
  <1> DEFINE c == Append(a, it)
             n == Len(a) + 1
  <1>1. /\ c \in Seq(Items) /\ Len(c) = n /\ n \in 1..Len(c) /\ Len(a) \in Nat
        /\ c[n] = it /\ \A k \in 1..Len(a) : c[k] = a[k]
    OBVIOUS
  <1>2. \A k \in 2..n : k \div 2 \in 1..Len(a) /\ k \div 2 < k
    BY <1>1, Halves
  <1> HIDE DEF c
  <1>3. Rising(c, n)
    BY <1>1, <1>2 DEF Rising, Astride, Heap
  <1>4. Same(c, Pushed(a, it)) /\ Heap(Pushed(a, it))
    BY <1>1, <1>3, SiftsUp DEF Pushed, c
  <1>5. DOMAIN c = 1..n /\ DOMAIN a = 1..Len(a)
    BY <1>1
  <1>6. Range(c) = Range(a) \cup {it}
    <2>1. Range(c) = {c[k] : k \in 1..n} /\ Range(a) = {a[k] : k \in 1..Len(a)}
      BY <1>5 DEF Range
    <2>2. \A k \in 1..n : k = n \/ k \in 1..Len(a)
      BY <1>1
    <2>3. \A k \in 1..Len(a) : k \in 1..n
      BY <1>1
    <2> QED
      BY <1>1, <2>1, <2>2, <2>3
  <1>7. IsInjective(a) /\ it \notin Range(a) => IsInjective(c)
    <2> SUFFICES ASSUME IsInjective(a), it \notin Range(a), NEW k \in 1..n, NEW l \in 1..n, c[k] = c[l]
                 PROVE  k = l
      BY <1>5 DEF IsInjective
    <2>1. \A j \in 1..Len(a) : a[j] # it
      BY <1>5 DEF Range
    <2>2. (k = n \/ k \in 1..Len(a)) /\ (l = n \/ l \in 1..Len(a))
      BY <1>1
    <2> QED
      BY <1>1, <1>5, <2>1, <2>2 DEF IsInjective
  <1> QED
    BY <1>1, <1>4, <1>6, <1>7 DEF Same

LEMMA PopMakesHeap ==
    ASSUME NEW a \in Seq(Items), Heap(a), a # <<>>
    PROVE  /\ Popped(a) \in Seq(Items) /\ Len(Popped(a)) = Len(a) - 1 /\ Heap(Popped(a))
           /\ IsInjective(a) =>
                 IsInjective(Popped(a)) /\ Range(Popped(a)) = Range(a) \ {a[1]}
  <1> DEFINE rest == SubSeq(a, 1, Len(a) - 1)
             n == Len(a) - 1
             c == [rest EXCEPT ![1] = a[Len(a)]]
  <1>1. /\ Len(a) \in Nat \ {0} /\ n \in Nat /\ DOMAIN a = 1..Len(a)
        /\ \A k \in 1..Len(a) : a[k] \in Items
    BY EmptySeq
  <1>2. /\ rest \in Seq(Items) /\ Len(rest) = n /\ DOMAIN rest = 1..n
        /\ \A k \in 1..n : rest[k] = a[k]
    <2>1. \A k \in 1..n : a[k] \in Items
      BY <1>1
    <2>2. /\ rest \in Seq(Items) /\ Len(rest) = IF 1 <= n THEN n - 1 + 1 ELSE 0
          /\ \A k \in 1..n - 1 + 1 : rest[k] = a[1 + k - 1]
      BY <1>1, <2>1, SubSeqProperties
    <2> HIDE DEF rest
    <2>3. Len(rest) = n
      <3>1. n \in Nat
        BY <1>1
      <3>2. Len(rest) = IF 1 <= n THEN n - 1 + 1 ELSE 0
        BY <2>2
      <3> HIDE DEF n
      <3> QED
        BY <3>1, <3>2
    <2>4. n - 1 + 1 = n /\ \A k \in 1..n : 1 + k - 1 = k
      BY <1>1
    <2> QED
      BY <2>2, <2>3, <2>4
  <1>3. CASE n = 0
    <2>1. rest = <<>>
      <3>1. rest \in Seq(Items) /\ Len(rest) = 0
        BY <1>2, <1>3
      <3> HIDE DEF rest
      <3> QED
        BY <3>1, EmptySeq
    <2>2. Popped(a) = <<>>
      BY <2>1 DEF Popped
    <2>3. Len(a) = 1 /\ Range(a) = {a[1]}
      <3>1. Len(a) = 1 /\ DOMAIN a = {1}
        BY <1>1, <1>3
      <3> QED
        BY <3>1 DEF Range
    <2>4. Range(<<>>) = {} /\ IsInjective(<<>>) /\ Heap(<<>>)
      BY DEF Range, IsInjective, Heap
    <2> QED
      BY <2>2, <2>3, <2>4
  <1>4. CASE n # 0
    <2>1. rest # <<>> /\ 1 \in 1..n
      BY <1>1, <1>2, <1>4
    <2>2. /\ c \in Seq(Items) /\ Len(c) = n /\ DOMAIN c = 1..n
          /\ \A k \in 1..n : c[k] = IF k = 1 THEN a[Len(a)] ELSE a[k]
      <3>1. a[Len(a)] \in Items
        BY <1>1
      <3>2. /\ rest \in Seq(Items) /\ Len(rest) = n /\ DOMAIN rest = 1..n /\ 1 \in 1..n
            /\ \A k \in 1..n : rest[k] = a[k]
        BY <1>2, <2>1
      <3> HIDE DEF rest, n
      <3>3. c \in Seq(Items) /\ Len(c) = n /\ DOMAIN c = 1..n
        BY <3>1, <3>2
      <3>4. \A k \in 1..n : c[k] = IF k = 1 THEN a[Len(a)] ELSE rest[k]
        BY <3>2
      <3> QED
        BY <3>2, <3>3, <3>4
    <2>3. Popped(a) = SiftDown[<<c, 1>>]
      BY <2>1 DEF Popped
    <2> HIDE DEF rest, c
    <2>4. Sinking(c, 1)
      <3>1. \A k \in 2..n : k \div 2 # 1 => k \div 2 \in 2..n
        BY <1>1, Halves
      <3>2. \A k \in 2..n : k \in 2..Len(a) /\ k \in 1..n
        BY <1>1
      <3>3. \A k \in 2..n : c[k] = a[k]
        BY <2>2
      <3> QED
        BY <2>2, <3>1, <3>2, <3>3 DEF Sinking, Astride, Heap
    <2>5. Same(c, Popped(a)) /\ Heap(Popped(a))
      BY <2>1, <2>2, <2>3, <2>4, SiftsDown
    <2>6. ASSUME IsInjective(a)
          PROVE  IsInjective(c) /\ Range(c) = Range(a) \ {a[1]}
      <3>1. IsInjective(c)
        BY <1>1, <1>4, <2>2, <2>6 DEF IsInjective
      <3>2. \A k \in 1..n : \E l \in 1..Len(a) : l # 1 /\ c[k] = a[l]
        BY <1>1, <1>4, <2>2
      <3>3. \A l \in 1..Len(a) : l # 1 => \E k \in 1..n : a[l] = c[k]
        <4> SUFFICES ASSUME NEW l \in 1..Len(a), l # 1
                     PROVE  \E k \in 1..n : a[l] = c[k]
          OBVIOUS
        <4>1. CASE l = Len(a)
          BY <2>1, <2>2, <4>1
        <4>2. CASE l # Len(a)
          <5>0. Len(a) \in Nat /\ l \in 1..Len(a)
            BY <1>1
          <5>1. l \in 1..n
            BY <4>2, <5>0
          <5>2. c[l] = a[l]
            BY <2>2, <5>1
          <5> QED
            BY <5>1, <5>2
        <4> QED
          BY <4>1, <4>2
      <3>4. Range(c) = {c[k] : k \in 1..n} /\ Range(a) = {a[k] : k \in 1..Len(a)}
        BY <1>1, <2>2 DEF Range
      <3>5. \A l \in 1..Len(a) : l # 1 => a[l] # a[1]
        BY <1>1, <2>6 DEF IsInjective
      <3>6. \A x \in Range(c) : x \in Range(a) /\ x # a[1]
        BY <3>2, <3>4, <3>5
      <3>7. \A x \in Range(a) : x # a[1] => x \in Range(c)
        BY <3>3, <3>4
      <3> QED
        BY <3>1, <3>6, <3>7
    <2> QED
      BY <2>2, <2>5, <2>6 DEF Same
  <1> QED
    BY <1>3, <1>4

\* The root of a heap is first.
LEMMA RootIsFirst ==
    ASSUME NEW a \in Seq(Items), Heap(a), NEW k \in 1..Len(a)
    PROVE  ~Less(a[k], a[1])
  <1> DEFINE B == {n \in 1..Len(a) : Less(a[n], a[1])}
  <1> SUFFICES ASSUME B # {} PROVE FALSE
    OBVIOUS
  <1>1. PICK n \in B : \A l \in B : n <= l
    <2>1. B \subseteq Nat
      OBVIOUS
    <2> HIDE DEF B
    <2> QED
      BY <2>1, LeastNat
  <1>2. n \in 1..Len(a) /\ Less(a[n], a[1]) /\ Len(a) \in Nat /\ 1 \in 1..Len(a)
    OBVIOUS
  <1>3. \A l \in 1..Len(a) : a[l] \in Items
    OBVIOUS
  <1>4. n # 1
    BY <1>2, <1>3, LessOrder
  <1>5. n \div 2 \in 1..Len(a) /\ n \div 2 < n /\ n \in 2..Len(a)
    BY <1>2, <1>4, Halves
  <1>6. ~Less(a[n \div 2], a[1])
    BY <1>1, <1>5
  <1>7. ~Less(a[n], a[n \div 2])
    BY <1>5 DEF Heap
  <1> QED
    BY <1>2, <1>3, <1>5, <1>6, <1>7, LessOrder
-----------------------------------------------------------------------------
(* The queue. *)

\* The array is a heap without repetitions, and a caller is parked in Pop, on a
\* queue that is open.
Shape == TypeOK /\ HeapOrdered /\ IsInjective(items)
Parking ==
    /\ closed => parked = {}
    /\ \A t \in parked : pc[t] = "look" /\ deadline[t] = Forever

\* What each operation does to the array.
Fits(b) == b \in Seq(Items) /\ (Capacity > 0 => Len(b) <= Capacity) /\ Heap(b) /\ IsInjective(b)

LEMMA ShapeParts ==
    ASSUME Shape
    PROVE  /\ items \in Seq(Items) /\ Len(items) \in Nat /\ Heap(items) /\ IsInjective(items)
           /\ items # <<>> => 1 \in 1..Len(items) /\ items[1] \in Items
  <1>1. items \in Seq(Items) /\ Heap(items) /\ IsInjective(items)
    BY DEF Shape, TypeOK, HeapOrdered, Heap
  <1>2. items # <<>> => Len(items) \in Nat \ {0}
    BY <1>1, EmptySeq
  <1> QED
    BY <1>1, <1>2

LEMMA PushFits ==
    ASSUME Shape, NEW it \in Items, Push(it)
    PROVE  /\ Fits(items') /\ Len(items') = Len(items) + 1
           /\ Range(items') = Range(items) \cup {it}
  <1>1. items' = Pushed(items, it) /\ it \notin Range(items) /\ (Capacity > 0 => Len(items) < Capacity)
    BY ShapeParts, CapacityAssumption DEF Push, Full, CapacityAssumption
  <1>2. /\ items' \in Seq(Items) /\ Len(items') = Len(items) + 1 /\ Heap(items')
        /\ Range(items') = Range(items) \cup {it} /\ IsInjective(items')
    BY <1>1, ShapeParts, PushMakesHeap
  <1>3. Capacity > 0 => Len(items') <= Capacity
    BY <1>1, <1>2, ShapeParts, CapacityAssumption DEF CapacityAssumption
  <1> QED
    BY <1>2, <1>3 DEF Fits

LEMMA DropFits ==
    ASSUME Shape, NEW it \in Items, DropOldestPush(it)
    PROVE  /\ Fits(items') /\ Len(items') = Len(items) /\ items # <<>>
           /\ Capacity > 0 /\ Len(items) = Capacity
           /\ Range(items') = (Range(items) \ {items[1]}) \cup {it}
  <1> DEFINE b == Popped(items)
  <1>1. /\ items' = Pushed(b, it) /\ it \notin Range(items)
        /\ Capacity > 0 /\ Len(items) = Capacity
    BY ShapeParts, CapacityAssumption DEF DropOldestPush, Full, Shape, TypeOK, CapacityAssumption
  <1>2. items # <<>>
    BY <1>1, EmptySeq
  <1>3. /\ b \in Seq(Items) /\ Len(b) = Len(items) - 1 /\ Heap(b)
        /\ IsInjective(b) /\ Range(b) = Range(items) \ {items[1]}
    BY <1>2, ShapeParts, PopMakesHeap
  <1>4. it \notin Range(b)
    BY <1>1, <1>3
  <1> HIDE DEF b
  <1>5. /\ items' \in Seq(Items) /\ Len(items') = Len(b) + 1 /\ Heap(items')
        /\ Range(items') = Range(b) \cup {it} /\ IsInjective(items')
    BY <1>1, <1>3, <1>4, PushMakesHeap
  <1> QED
    BY <1>1, <1>2, <1>3, <1>5, ShapeParts DEF Fits

LEMMA PopFits ==
    ASSUME Shape, items # <<>>, items' = Popped(items)
    PROVE  /\ Fits(items') /\ Len(items') = Len(items) - 1
           /\ Range(items') = Range(items) \ {items[1]}
  <1>1. Capacity > 0 => Len(items) <= Capacity
    BY DEF Shape, TypeOK
  <1> QED
    BY <1>1, ShapeParts, PopMakesHeap, CapacityAssumption DEF Fits, CapacityAssumption

LEMMA SameFits == ASSUME Shape, UNCHANGED items PROVE Fits(items')
  BY ShapeParts DEF Shape, TypeOK, Fits

LEMMA StepsFit == ASSUME Shape, [Next]_vars PROVE Fits(items')
  <1>1. ASSUME NEW it \in Items, Push(it) \/ DropOldestPush(it) PROVE Fits(items')
    BY <1>1, PushFits, DropFits
  <1>2. CASE TryPop \/ \E t \in Threads : Takes(t)
    BY <1>2, PopFits DEF TryPop, Takes, Ripe
  <1>3. CASE UNCHANGED items
    BY <1>3, SameFits
  <1> QED
    BY <1>1, <1>2, <1>3 DEF Next, Close, Calls, Step, Fails, Parks, Sleeps, Wakes, Tick, vars

\* What the callers keep.
CallersTyped ==
    /\ now \in 0..MaxTime
    /\ closed \in BOOLEAN /\ wake \in BOOLEAN
    /\ parked \subseteq Threads
    /\ pc \in [Threads -> {"out", "look", "asleep"}]
    /\ deadline \in [Threads -> (0..MaxTime) \cup {Forever}]
    /\ timer \in [Threads -> 0..MaxTime]

LEMMA CallersStep ==
    ASSUME Shape, [Next]_vars
    PROVE  CallersTyped'
  <1>0. CallersTyped /\ MaxTime \in Nat /\ Forever \in Nat /\ Forever > MaxTime
    BY ItemsAssumption, ForeverAssumption
       DEF Shape, TypeOK, CallersTyped, ItemsAssumption, ForeverAssumption
  <1> USE DEF CallersTyped
  <1>1. ASSUME NEW it \in Items, Push(it) \/ DropOldestPush(it) PROVE CallersTyped'
    BY <1>0, <1>1 DEF Push, DropOldestPush, SignalOne, waiting
  <1>2. CASE TryPop
    BY <1>0, <1>2 DEF TryPop, waiting
  <1>3. CASE Close
    BY <1>0, <1>3 DEF Close, waiting
  <1>4. ASSUME NEW t \in Threads, NEW until \in (now..MaxTime) \cup {Forever}, Calls(t, until)
        PROVE  CallersTyped'
    <2>1. until \in (0..MaxTime) \cup {Forever}
      BY <1>0
    <2> QED
      BY <1>0, <1>4, <2>1 DEF Calls
  <1>5. ASSUME NEW t \in Threads, Takes(t) \/ Fails(t) PROVE CallersTyped'
    BY <1>0, <1>5 DEF Takes, Fails, Returns
  <1>6. ASSUME NEW t \in Threads, Parks(t) PROVE CallersTyped'
    BY <1>0, <1>6 DEF Parks, waiting
  <1>7. ASSUME NEW t \in Threads, Sleeps(t) PROVE CallersTyped'
    <2>1. items # <<>> => items[1].runAt \in 0..MaxTime
      BY ShapeParts, ItemsAssumption DEF ItemsAssumption
    <2>2. deadline[t] \in 0..MaxTime \/ deadline[t] = Forever
      BY <1>0
    <2>3. timer'[t] \in 0..MaxTime
      <3>1. CASE items = <<>>
        BY <1>0, <1>7, <2>2, <3>1 DEF Sleeps
      <3>2. CASE items # <<>> /\ items[1].runAt > deadline[t]
        <4>1. timer'[t] = deadline[t]
          BY <1>0, <1>7, <3>2 DEF Sleeps
        <4> QED
          BY <1>0, <2>1, <2>2, <3>2, <4>1
      <3>3. CASE items # <<>> /\ ~(items[1].runAt > deadline[t])
        BY <1>0, <1>7, <2>1, <3>3 DEF Sleeps
      <3> QED
        BY <3>1, <3>2, <3>3
    <2>4. timer' = [timer EXCEPT ![t] = timer'[t]]
      BY <1>0, <1>7 DEF Sleeps
    <2> QED
      BY <1>0, <1>7, <2>3, <2>4 DEF Sleeps
  <1>8. ASSUME NEW t \in Threads, Wakes(t) PROVE CallersTyped'
    <2>1. 0 \in 0..MaxTime
      BY <1>0
    <2>2. wake' \in BOOLEAN
      BY <1>0, <1>8 DEF Wakes
    <2> QED
      BY <1>0, <1>8, <2>1, <2>2 DEF Wakes
  <1>9. CASE Tick
    BY <1>0, <1>9 DEF Tick, waiting
  <1>10. CASE UNCHANGED vars
    BY <1>0, <1>10 DEF vars, waiting
  <1> QED
    BY <1>1, <1>2, <1>3, <1>4, <1>5, <1>6, <1>7, <1>8, <1>9, <1>10 DEF Next, Step

LEMMA StepsShape == ASSUME Shape, [Next]_vars PROVE Shape'
  <1>1. Fits(items') /\ CallersTyped'
    BY StepsFit, CallersStep
  <1> QED
    BY <1>1 DEF Fits, CallersTyped, Shape, TypeOK, HeapOrdered, Heap

\* Nobody is parked whose call is not Pop, or on a closed queue.
LEMMA StepsParking == ASSUME Shape, Parking, [Next]_vars PROVE Parking'
  <1>0. parked \subseteq Threads /\ pc \in [Threads -> {"out", "look", "asleep"}]
        /\ deadline \in [Threads -> (0..MaxTime) \cup {Forever}]
    BY DEF Shape, TypeOK
  <1> USE DEF Parking
  <1>1. ASSUME NEW it \in Items, Push(it) \/ DropOldestPush(it) PROVE Parking'
    BY <1>1 DEF Push, DropOldestPush, SignalOne, waiting
  <1>2. CASE TryPop \/ Tick \/ UNCHANGED vars
    BY <1>2 DEF TryPop, Tick, vars, waiting
  <1>3. CASE Close
    BY <1>3 DEF Close
  <1>4. ASSUME NEW t \in Threads, NEW until, Calls(t, until) PROVE Parking'
    BY <1>0, <1>4 DEF Calls
  <1>5. ASSUME NEW t \in Threads, Takes(t) \/ Fails(t) PROVE Parking'
    BY <1>0, <1>5 DEF Takes, Fails, Returns, Looking
  <1>6. ASSUME NEW t \in Threads, Parks(t) PROVE Parking'
    BY <1>0, <1>6 DEF Parks, Looking, waiting
  <1>7. ASSUME NEW t \in Threads, Sleeps(t) \/ Wakes(t) PROVE Parking'
    BY <1>0, <1>7 DEF Sleeps, Wakes, Looking
  <1> QED
    BY <1>1, <1>2, <1>3, <1>4, <1>5, <1>6, <1>7 DEF Next, Step

LEMMA PoppingFinite == IsFiniteSet(Popping) /\ Cardinality(Popping) \in Nat
  <1>1. Popping \in SUBSET Threads
    BY DEF Popping
  <1> QED
    BY <1>1, ThreadsAssumption, FS_Subset, FS_CardinalityType DEF ThreadsAssumption

LEMMA PoppingFiniteNext == IsFiniteSet(Popping') /\ Cardinality(Popping') \in Nat
  <1>1. Popping' \in SUBSET Threads
    BY DEF Popping
  <1> QED
    BY <1>1, ThreadsAssumption, FS_Subset, FS_CardinalityType DEF ThreadsAssumption

\* A step that sends no caller of Pop away and adds no item loses no signal.
LEMMA StillComing ==
    ASSUME NoLostSignal, items \in Seq(Items), items' \in Seq(Items),
           Popping \subseteq Popping', Len(items') <= Len(items),
           parked' # {} => parked # {}
    PROVE  NoLostSignal'
  <1>1. Cardinality(Popping) <= Cardinality(Popping')
    BY PoppingFiniteNext, FS_Subset
  <1>2. Len(items) \in Nat /\ Len(items') \in Nat
    OBVIOUS
  <1> QED
    BY <1>1, <1>2, PoppingFinite, PoppingFiniteNext DEF NoLostSignal

LEMMA StepsSignal == ASSUME Shape, Parking, NoLostSignal, [Next]_vars PROVE NoLostSignal'
  <1>0. /\ now \in 0..MaxTime /\ MaxTime \in Nat /\ Forever \in Nat /\ Forever > MaxTime
        /\ parked \subseteq Threads /\ pc \in [Threads -> {"out", "look", "asleep"}]
        /\ deadline \in [Threads -> (0..MaxTime) \cup {Forever}]
    BY ItemsAssumption, ForeverAssumption DEF Shape, TypeOK, ItemsAssumption, ForeverAssumption
  <1>a. items \in Seq(Items) /\ items' \in Seq(Items) /\ Len(items) \in Nat /\ Len(items') \in Nat
    BY StepsShape DEF Shape, TypeOK
  <1>1. ASSUME NEW it \in Items, Push(it) PROVE NoLostSignal'
    <2>1. CASE parked = {}
      BY <1>1, <2>1 DEF Push, SignalOne, NoLostSignal
    <2>2. CASE parked # {}
      <3>1. PICK t \in parked : parked' = parked \ {t}
        BY <1>1, <2>2 DEF Push, SignalOne
      <3>2. pc' = pc /\ deadline' = deadline
        BY <1>1 DEF Push, waiting
      <3>3. pc[t] = "look" /\ deadline[t] = Forever /\ t \in Threads
        BY <1>0 DEF Parking
      <3>4. Popping' = Popping \cup {t} /\ t \notin Popping
        BY <3>1, <3>2, <3>3 DEF Popping
      <3>5. Cardinality(Popping') = Cardinality(Popping) + 1
        BY <3>4, PoppingFinite, FS_AddElement
      <3>6. Len(items') = Len(items) + 1
        BY <1>1, PushFits
      <3> QED
        BY <1>a, <2>2, <3>5, <3>6, PoppingFinite DEF NoLostSignal
    <2> QED
      BY <2>1, <2>2
  <1>2. ASSUME NEW it \in Items, DropOldestPush(it) PROVE NoLostSignal'
    <2>1. parked' \subseteq parked /\ pc' = pc /\ deadline' = deadline
      BY <1>2 DEF DropOldestPush, SignalOne, waiting
    <2>2. Len(items') = Len(items)
      BY <1>2, DropFits
    <2>3. Popping \subseteq Popping'
      BY <2>1 DEF Popping
    <2> QED
      BY <1>a, <2>1, <2>2, <2>3, StillComing
  <1>3. CASE TryPop
    <2>1. parked' = parked /\ Popping \subseteq Popping'
      BY <1>3 DEF TryPop, waiting, Popping
    <2>2. Len(items') = Len(items) - 1
      BY <1>3, PopFits DEF TryPop, Ripe
    <2> QED
      BY <1>a, <2>1, <2>2, StillComing
  <1>4. CASE Close
    BY <1>4 DEF Close, NoLostSignal
  <1>5. ASSUME NEW t \in Threads, NEW until, Calls(t, until) PROVE NoLostSignal'
    <2>1. parked' = parked /\ items' = items /\ Popping \subseteq Popping'
      BY <1>0, <1>5 DEF Calls, Popping
    <2> QED
      BY <1>a, <2>1, StillComing
  <1>6. ASSUME NEW t \in Threads, Takes(t) PROVE NoLostSignal'
    <2>1. parked' = parked /\ Popping \ {t} \subseteq Popping'
      BY <1>0, <1>6 DEF Takes, Returns, Popping
    <2>2. Len(items') = Len(items) - 1
      BY <1>6, PopFits DEF Takes, Ripe
    <2>3. Cardinality(Popping \ {t}) <= Cardinality(Popping')
      BY <2>1, PoppingFiniteNext, FS_Subset
    <2>4. Cardinality(Popping \ {t}) \in {Cardinality(Popping), Cardinality(Popping) - 1}
      BY PoppingFinite, FS_RemoveElement
    <2> QED
      BY <1>a, <2>1, <2>2, <2>3, <2>4, PoppingFinite, PoppingFiniteNext DEF NoLostSignal
  <1>7. ASSUME NEW t \in Threads, Fails(t) PROVE NoLostSignal'
    <2>0. parked' = parked /\ items' = items
      BY <1>7 DEF Fails
    <2>1. CASE closed
      BY <2>0, <2>1 DEF Parking, NoLostSignal
    <2>2. CASE TimedOut(t)
      <3>1. deadline[t] # Forever
        BY <1>0, <2>2 DEF TimedOut
      <3>2. Popping \subseteq Popping'
        BY <1>0, <1>7, <3>1 DEF Fails, Returns, Popping
      <3> QED
        BY <1>a, <2>0, <3>2, StillComing
    <2> QED
      BY <1>7, <2>1, <2>2 DEF Fails
  <1>8. ASSUME NEW t \in Threads, Parks(t) PROVE NoLostSignal'
    <2>1. Len(items') = 0
      BY <1>8 DEF Parks
    <2> QED
      BY <2>1, PoppingFiniteNext DEF NoLostSignal
  <1>9. ASSUME NEW t \in Threads, Sleeps(t) \/ Wakes(t) PROVE NoLostSignal'
    <2>1. parked' = parked /\ items' = items /\ deadline' = deadline
      BY <1>9 DEF Sleeps, Wakes
    <2>2. \A u \in Threads : pc[u] # "out" => pc'[u] # "out"
      BY <1>0, <1>9 DEF Sleeps, Wakes
    <2>3. Popping \subseteq Popping'
      BY <2>1, <2>2 DEF Popping
    <2> QED
      BY <1>a, <2>1, <2>3, StillComing
  <1>10. CASE Tick \/ UNCHANGED vars
    <2>1. parked' = parked /\ items' = items /\ Popping \subseteq Popping'
      BY <1>10 DEF Tick, vars, waiting, Popping
    <2> QED
      BY <1>a, <2>1, StillComing
  <1> QED
    BY <1>1, <1>2, <1>3, <1>4, <1>5, <1>6, <1>7, <1>8, <1>9, <1>10 DEF Next, Step

\* The inductive invariant.
QueueInv == Shape /\ Parking /\ NoLostSignal

LEMMA Inductive == Spec => []QueueInv
  <1>1. Init => QueueInv
    <2> SUFFICES ASSUME Init PROVE QueueInv
      OBVIOUS
    <2>1. /\ items = <<>> /\ items \in Seq(Items) /\ Len(items) = 0
          /\ now = 0 /\ now \in 0..MaxTime /\ 0 \in 0..MaxTime
      BY ItemsAssumption DEF Init, ItemsAssumption
    <2>2. IsInjective(items)
      BY <2>1 DEF IsInjective
    <2>3. now \in 0..MaxTime /\ items \in Seq(Items) /\ (Capacity > 0 => Len(items) <= Capacity) /\ HeapOrdered
      BY <2>1, CapacityAssumption DEF HeapOrdered, CapacityAssumption
    <2>4. TypeOK
      BY <2>1, <2>3 DEF Init, TypeOK
    <2> QED
      BY <2>2, <2>3, <2>4 DEF Init, QueueInv, Shape, Parking, NoLostSignal
  <1>2. QueueInv /\ [Next]_vars => QueueInv'
    BY StepsShape, StepsParking, StepsSignal DEF QueueInv
  <1> QED
    BY <1>1, <1>2, PTL DEF Spec

\* Every variable keeps its type and the array its capacity, through Push, Pop,
\* DropOldestPush and every wait.
THEOREM QueueTypes == Spec => []TypeOK
  <1>1. QueueInv => TypeOK
    BY DEF QueueInv, Shape
  <1> QED
    BY <1>1, Inductive, PTL

\* The sifts of pq.push and pq.pop restore the order of the heap, for arrays of
\* every length and for items of every time, priority and sequence number.
THEOREM HeapStaysOrdered == Spec => []HeapOrdered
  <1>1. QueueInv => HeapOrdered
    BY DEF QueueInv, Shape
  <1> QED
    BY <1>1, Inductive, PTL

\* One Signal per push suffices for any number of callers of Pop.
THEOREM NoSignalIsLost == Spec => []NoLostSignal
  <1>1. QueueInv => NoLostSignal
    BY DEF QueueInv
  <1> QED
    BY <1>1, Inductive, PTL
-----------------------------------------------------------------------------
(* The abstract queue. *)

LEMMA Counted ==
    ASSUME NEW b \in Seq(Items), IsInjective(b)
    PROVE  Cardinality(Range(b)) = Len(b)
  <1>1. /\ Len(b) \in Nat /\ DOMAIN b = 1..Len(b) /\ Range(b) = {b[k] : k \in 1..Len(b)}
        /\ b \in [1..Len(b) -> Range(b)]
    BY DEF Range
  <1>2. \A k, l \in 1..Len(b) : b[k] = b[l] => k = l
    BY <1>1 DEF IsInjective
  <1>3. \A x \in Range(b) : \E k \in 1..Len(b) : b[k] = x
    BY <1>1
  <1>4. b \in Bijection(1..Len(b), Range(b))
    BY <1>1, <1>2, <1>3 DEF Bijection, Injection, Surjection, IsInjective
  <1>5. ExistsBijection(1..Len(b), Range(b))
    BY <1>4 DEF ExistsBijection
  <1>6. IsFiniteSet(1..Len(b)) /\ Cardinality(1..Len(b)) = Len(b)
    <2>1. 1 \in Int /\ Len(b) \in Int
      BY <1>1
    <2>2. IsFiniteSet(1..Len(b)) /\ Cardinality(1..Len(b)) = IF 1 > Len(b) THEN 0 ELSE Len(b) - 1 + 1
      BY ONLY <2>1, FS_Interval
    <2> QED
      BY <1>1, <2>2
  <1> QED
    BY <1>5, <1>6, FS_Bijection

\* The library's count, under the name it has in the abstract queue.
LEMMA SameCount == \A S : Abstract!Cardinality(S) = Cardinality(S)
  BY DEF Abstract!Cardinality, Cardinality

\* The root is first in the abstract queue too.
LEMMA RootLeaves ==
    ASSUME Shape, items # <<>>
    PROVE  items[1] \in Items /\ items[1] \in Range(items) /\ Abstract!IsFirst(items[1])
  <1>1. items[1] \in Range(items) /\ Range(items) = {items[k] : k \in 1..Len(items)}
    BY ShapeParts DEF Range
  <1>2. \A k \in 1..Len(items) : items[k] \in Items /\ ~Less(items[k], items[1])
    BY ShapeParts, RootIsFirst
  <1>3. ASSUME NEW x \in Range(items) \ {items[1]} PROVE Less(items[1], x)
    <2>1. x \in Items /\ ~Less(x, items[1])
      BY <1>1, <1>2
    <2> QED
      BY <1>3, <2>1, ShapeParts, LessOrder
  <1> QED
    BY <1>1, <1>3, ShapeParts DEF Abstract!IsFirst

\* Every step of the heap is a step of the abstract queue, or none.
LEMMA StepsAbstract == ASSUME Shape, [Next]_vars PROVE [Abstract!Next]_(Abstract!vars)
  <1>0. Shape' /\ Fits(items')
    BY StepsShape, StepsFit
  <1>a. Cardinality(Range(items)) = Len(items) /\ Cardinality(Range(items')) = Len(items')
    BY <1>0, ShapeParts, Counted DEF Fits
  <1>1. ASSUME NEW it \in Items, Push(it) PROVE Abstract!Next
    <2>1. Abstract!Put(it, {})
      BY <1>0, <1>1, <1>a, PushFits, SameCount DEF Push, Fits, Abstract!Put
    <2> QED
      BY <2>1 DEF Abstract!Next
  <1>2. ASSUME NEW it \in Items, DropOldestPush(it) PROVE Abstract!Next
    <2>1. Abstract!Put(it, {items[1]})
      BY <1>0, <1>2, <1>a, DropFits, SameCount DEF DropOldestPush, Fits, Abstract!Put
    <2>2. Abstract!IsFirst(items[1]) /\ items[1] \in Range(items) /\ Cardinality(Range(items)) = Capacity
      BY <1>2, <1>a, DropFits, RootLeaves
    <2> QED
      BY <2>1, <2>2, SameCount DEF Abstract!Next
  <1>3. CASE TryPop \/ \E t \in Threads : Takes(t)
    <2>1. /\ items # <<>> /\ items' = Popped(items) /\ items[1].runAt <= now
          /\ closed' = closed /\ now' = now
      BY <1>3 DEF TryPop, Takes, Ripe
    <2>2. items[1] \in Items /\ Abstract!Take(items[1])
      BY <2>1, PopFits, RootLeaves DEF Abstract!Take
    <2> QED
      BY <2>2 DEF Abstract!Next
  <1>4. CASE Close
    BY <1>4 DEF Close, Abstract!Close, Abstract!Next
  <1>5. CASE Tick
    BY <1>5 DEF Tick, Abstract!Tick, Abstract!Next
  <1>6. CASE UNCHANGED <<items, closed, now>>
    BY <1>6 DEF Abstract!vars
  <1> QED
    BY <1>1, <1>2, <1>3, <1>4, <1>5, <1>6
       DEF Next, Step, Calls, Fails, Parks, Sleeps, Wakes, vars

\* The heap implements the queue the pool expects: what leaves is ripe and
\* precedes all that stays, and nothing else leaves, for every number of items.
THEOREM HeapImplementsQueue == Spec => Refines
  <1>1. Init => Abstract!Init
    BY DEF Init, Abstract!Init, Range
  <1>2. QueueInv /\ [Next]_vars => [Abstract!Next]_(Abstract!vars)
    BY StepsAbstract DEF QueueInv
  <1> QED
    BY <1>1, <1>2, Inductive, PTL DEF Spec, Refines, Abstract!Spec
=============================================================================
