------------------------------ MODULE RingProofs ------------------------------
(***************************************************************************)
(* Theorems about Ring for every number of cells, threads and elements,    *)
(* and for counters of every width.                                        *)
(***************************************************************************)
EXTENDS Ring, TLAPS
-----------------------------------------------------------------------------
(* Remainders. *)

LEMMA Products == ASSUME NEW m \in Nat, NEW k \in Int, k >= 1 PROVE m * k >= m
  OBVIOUS

LEMMA Quotient ==
    ASSUME NEW m \in Nat \ {0}, NEW x \in Int
    PROVE  /\ x % m \in 0..m-1 /\ x \div m \in Int /\ x % m \in Int
           /\ x = m * (x \div m) + (x % m)
  <1>1. x % m \in 0..m-1
    OBVIOUS
  <1>2. x \div m \in Int
    OBVIOUS
  <1>3. x % m \in Int
    OBVIOUS
  <1>4. x = m * (x \div m) + (x % m)
    OBVIOUS
  <1> QED
    BY <1>1, <1>2, <1>3, <1>4

LEMMA Unique ==
    ASSUME NEW m \in Nat \ {0}, NEW q \in Int, NEW r \in 0..m-1, NEW k \in Int, NEW s \in 0..m-1,
           m * q + r = m * k + s
    PROVE  q = k /\ r = s
  <1>1. m * (q - k) = s - r
    OBVIOUS
  <1>2. q - k < 1
    BY <1>1, Products
  <1>3. k - q < 1
    <2>1. m * (k - q) = r - s
      OBVIOUS
    <2> QED
      BY <2>1, Products
  <1> QED
    BY <1>2, <1>3

LEMMA Remainder ==
    ASSUME NEW m \in Nat \ {0}, NEW q \in Int, NEW r \in 0..m-1
    PROVE  (m * q + r) % m = r
  <1> DEFINE x == m * q + r
  <1>1. x \in Int
    OBVIOUS
  <1> HIDE DEF x
  <1>2. x % m \in 0..m-1 /\ x \div m \in Int /\ x = m * (x \div m) + (x % m)
    BY <1>1, Quotient
  <1>3. m * q + r = m * (x \div m) + (x % m)
    BY <1>2 DEF x
  <1> DEFINE k == x \div m
             s == x % m
  <1>4. k \in Int /\ s \in 0..m-1 /\ m * q + r = m * k + s
    BY <1>2, <1>3
  <1> HIDE DEF k, s
  <1>5. s = r
    BY <1>4, Unique
  <1> QED
    BY <1>5 DEF s, x

\* Numbers less than m apart with the same remainder are the same.
LEMMA Apart ==
    ASSUME NEW m \in Nat \ {0}, NEW x \in Int, NEW y \in Int, x % m = y % m, x - y < m, y - x < m
    PROVE  x = y
  <1> DEFINE q == x \div m
             k == y \div m
             r == x % m
  <1>1. q \in Int /\ k \in Int /\ r \in Int /\ x = m * q + r /\ y = m * k + r
    BY Quotient
  <1> HIDE DEF q, k, r
  <1>2. x - y = m * (q - k) /\ y - x = m * (k - q)
    BY <1>1
  <1>3. q - k < 1
    BY <1>1, <1>2, Products
  <1>4. k - q < 1
    BY <1>1, <1>2, Products
  <1>5. q = k
    BY <1>1, <1>3, <1>4
  <1> QED
    BY <1>1, <1>5

\* A remainder is not changed by a multiple of the divisor.
LEMMA Multiple ==
    ASSUME NEW m \in Nat \ {0}, NEW x \in Int, NEW k \in Int
    PROVE  (x + m * k) % m = x % m
  <1> DEFINE q == x \div m
             r == x % m
  <1>1. q \in Int /\ r \in 0..m-1 /\ r \in Int /\ x = m * q + r
    BY Quotient
  <1> HIDE DEF q, r
  <1>2. x + m * k = m * (q + k) + r /\ q + k \in Int
    BY <1>1
  <1>3. (m * (q + k) + r) % m = r
    BY <1>1, <1>2, Remainder
  <1> QED
    BY <1>2, <1>3 DEF r

LEMMA OneMore == ASSUME NEW m \in Nat \ {0}, NEW x \in Int PROVE (x + m) % m = x % m
  <1> DEFINE one == 1
  <1>1. one \in Int /\ x + m * one = x + m
    OBVIOUS
  <1> HIDE DEF one
  <1>2. (x + m * one) % m = x % m
    BY <1>1, Multiple
  <1> QED
    BY <1>1, <1>2

LEMMA Sizes ==
    /\ Cells \in Nat \ {0} /\ Cells >= 2
    /\ Wrap \in Nat \ {0} /\ Wrap >= 4 * Cells /\ Wrap % Cells = 0
  BY RingAssumption DEF RingAssumption

\* The counters count on for ever; what the program sees of x is x modulo Wrap.
Shown(x) == x % Wrap

LEMMA ShownMultiple ==
    ASSUME NEW x \in Int
    PROVE  Shown(x) \in 0..Wrap-1 /\ \E k \in Int : Shown(x) = x + Wrap * k
  <1> DEFINE q == x \div Wrap
  <1>1. q \in Int /\ Shown(x) \in 0..Wrap-1 /\ x = Wrap * q + Shown(x)
    BY Quotient, Sizes DEF Shown
  <1> HIDE DEF q
  <1>2. -q \in Int /\ Shown(x) = x + Wrap * (-q)
    BY <1>1, Sizes
  <1> QED
    BY <1>1, <1>2

LEMMA ShownSame ==
    ASSUME NEW x \in Int, NEW k \in Int
    PROVE  Shown(x + Wrap * k) = Shown(x)
  BY Multiple, Sizes DEF Shown

LEMMA ShownCell ==
    ASSUME NEW x \in Int
    PROVE  Cell(Shown(x)) = Cell(x) /\ Cell(x) \in 0..Cells-1
  <1>1. PICK k \in Int : Shown(x) = x + Wrap * k
    BY ShownMultiple
  <1> DEFINE n == Wrap \div Cells
  <1>2. n \in Int /\ Wrap = Cells * n
    BY Quotient, Sizes
  <1> HIDE DEF n
  <1>3. Wrap * k = Cells * (n * k) /\ n * k \in Int
    BY <1>2, Sizes
  <1>4. (x + Cells * (n * k)) % Cells = x % Cells
    BY <1>3, Multiple, Sizes
  <1>5. x % Cells \in 0..Cells-1
    BY Quotient, Sizes
  <1> QED
    BY <1>1, <1>3, <1>4, <1>5 DEF Cell

LEMMA ShownPlus ==
    ASSUME NEW x \in Int, NEW n \in Int
    PROVE  Plus(Shown(x), n) = Shown(x + n)
  <1>1. PICK k \in Int : Shown(x) = x + Wrap * k
    BY ShownMultiple
  <1>2. Shown(x) + n = (x + n) + Wrap * k /\ x + n \in Int
    BY <1>1, Sizes
  <1>3. Shown((x + n) + Wrap * k) = Shown(x + n)
    BY <1>2, ShownSame
  <1> QED
    BY <1>2, <1>3 DEF Plus, Shown

LEMMA ShownNext == ASSUME NEW x \in Int PROVE Plus(Shown(x), 1) = Shown(x + 1)
  <1>1. PICK n \in Int : n = 1
    OBVIOUS
  <1>2. Plus(Shown(x), n) = Shown(x + n)
    BY ShownPlus
  <1> QED
    BY <1>1, <1>2

LEMMA ShownMinus ==
    ASSUME NEW x \in Int, NEW y \in Int
    PROVE  (Shown(x) - Shown(y)) % Wrap = Shown(x - y)
  <1>1. PICK k \in Int : Shown(x) = x + Wrap * k
    BY ShownMultiple
  <1>2. PICK n \in Int : Shown(y) = y + Wrap * n
    BY ShownMultiple
  <1>3. k - n \in Int /\ x - y \in Int /\ Shown(x) - Shown(y) = (x - y) + Wrap * (k - n)
    BY <1>1, <1>2, Sizes
  <1>4. Shown((x - y) + Wrap * (k - n)) = Shown(x - y)
    BY <1>3, ShownSame
  <1> QED
    BY <1>3, <1>4 DEF Shown

LEMMA ShownSmall == ASSUME NEW x \in 0..Wrap-1 PROVE Shown(x) = x
  <1>1. (Wrap * 0 + x) % Wrap = x
    BY Remainder, Sizes
  <1>2. Wrap * 0 + x = x
    BY Sizes
  <1> QED
    BY <1>1, <1>2 DEF Shown

LEMMA ShownApart ==
    ASSUME NEW x \in Int, NEW y \in Int, Shown(x) = Shown(y), x - y < Wrap, y - x < Wrap
    PROVE  x = y
  BY Apart, Sizes DEF Shown

LEMMA CellApart ==
    ASSUME NEW x \in Int, NEW y \in Int, Cell(x) = Cell(y), x - y < Cells, y - x < Cells
    PROVE  x = y
  BY Apart, Sizes DEF Cell

LEMMA CellLater == ASSUME NEW x \in Int PROVE Cell(x + Cells) = Cell(x) /\ Cell(x - Cells) = Cell(x)
  <1>1. ASSUME NEW y \in Int PROVE (y + Cells) % Cells = y % Cells
    BY Sizes, OneMore
  <1>2. x - Cells \in Int /\ (x - Cells) + Cells = x
    BY Sizes
  <1>3. ((x - Cells) + Cells) % Cells = (x - Cells) % Cells
    BY <1>1, <1>2
  <1> QED
    BY <1>1, <1>2, <1>3 DEF Cell

\* The signed difference is the difference, while it is less than half of Wrap.
LEMMA ShownDif ==
    ASSUME NEW x \in Int, NEW y \in Int, 2 * (x - y) < Wrap, 2 * (y - x) < Wrap
    PROVE  Dif(Shown(x), Shown(y)) = x - y
  <1> DEFINE d == (Shown(x) - Shown(y)) % Wrap
  <1>1. d = Shown(x - y) /\ x - y \in Int
    BY ShownMinus
  <1> HIDE DEF d
  <1>2. CASE x >= y
    <2>1. x - y \in 0..Wrap-1
      BY <1>2, Sizes
    <2>2. d = x - y
      BY <1>1, <2>1, ShownSmall
    <2> QED
      BY <2>2 DEF Dif, d
  <1>3. CASE x < y
    <2>1. (x - y) + Wrap \in 0..Wrap-1 /\ (x - y) + Wrap = (x - y) + Wrap * 1
      BY <1>3, Sizes
    <2>2. d = (x - y) + Wrap
      BY <1>1, <2>1, ShownSmall, ShownSame
    <2>3. ~(2 * d < Wrap)
      BY <2>2, Sizes
    <2>4. d - Wrap = x - y
      BY <2>2, Sizes
    <2> QED
      BY <2>3, <2>4 DEF Dif, d
  <1> QED
    BY <1>2, <1>3
-----------------------------------------------------------------------------
(* The ring with counters that never wrap. *)

Owning == {"copy", "clear", "publish"}
Pushes(t) == op[t] = "TryPush" /\ pc[t] \in Owning
Pops(t)   == op[t] = "TryPop" /\ pc[t] \in Owning

Types ==
    /\ pc \in [Threads -> {"idle", "load", "seq", "cas", "copy", "clear", "publish"}]
    /\ op \in [Threads -> {"TryPush", "TryPop"}]
    /\ arg \in [Threads -> Values \cup {None}]
    /\ val \in [0..Cells-1 -> Values \cup {None}]
    /\ pos \in [Threads -> Int] /\ seq \in [0..Cells-1 -> Int]
    /\ \A t \in Threads : pc[t] = "clear" => op[t] = "TryPop"

\* What the variables show: h and T of the counters, P of the positions that the
\* threads have loaded, S of the sequence numbers.
Shows(h, T, P, S) ==
    /\ head = Shown(h) /\ tail = Shown(T)
    /\ \A t \in Threads : pos[t] = Shown(P[t])
    /\ \A i \in 0..Cells-1 : seq[i] = Shown(S[i])

\* A position that has been pushed and not popped has its cell, with the
\* element in it or with a thread that is about to put it there.
Filled(h, T, P, S) ==
    \A p \in Int : h <= p /\ p < T =>
        \/ S[Cell(p)] = p + 1
        \/ S[Cell(p)] = p /\ \E t \in Threads : Pushes(t) /\ P[t] = p

\* So has one that may be pushed before anything else is popped: the cell is
\* free, or with the thread that empties it.
Vacant(h, T, P, S) ==
    \A p \in Int : T <= p /\ p < h + Cells =>
        \/ S[Cell(p)] = p
        \/ S[Cell(p)] = p - Cells + 1 /\ \E t \in Threads : Pops(t) /\ P[t] = p - Cells

Pushers(h, T, P, S) ==
    \A t \in Threads : Pushes(t) => h <= P[t] /\ P[t] < T /\ S[Cell(P[t])] = P[t]
Poppers(h, T, P, S) ==
    \A t \in Threads : Pops(t) => P[t] < h /\ T <= P[t] + Cells /\ S[Cell(P[t])] = P[t] + 1
Alone(P) ==
    \A t, u \in Threads :
        P[t] = P[u] /\ ((Pushes(t) /\ Pushes(u)) \/ (Pops(t) /\ Pops(u))) => t = u

\* A position that has been loaded is not too old.
Near(c, p) == p <= c /\ 2 * (c - p + Cells) < Wrap
Recent(h, T, P) ==
    \A t \in Threads : pc[t] \in {"seq", "cas"} =>
        Near(IF op[t] = "TryPush" THEN T ELSE h, P[t])

\* A thread that is about to win its position has found the cell ready for it.
ReadyPush(T, S, p) == p = T => S[Cell(T)] = T
ReadyPop(h, S, p) == p = h => S[Cell(h)] = h + 1
Ready(h, T, P, S) ==
    \A t \in Threads : pc[t] = "cas" =>
        IF op[t] = "TryPush" THEN ReadyPush(T, S, P[t]) ELSE ReadyPop(h, S, P[t])

Ideal(h, T, P, S) ==
    /\ h <= T /\ T <= h + Cells
    /\ Filled(h, T, P, S) /\ Vacant(h, T, P, S)
    /\ Pushers(h, T, P, S) /\ Poppers(h, T, P, S) /\ Alone(P)
    /\ Recent(h, T, P) /\ Ready(h, T, P, S)

Positions == [Threads -> Int]
Numbers == [0..Cells-1 -> Int]

LEMMA CellNext == ASSUME NEW x \in Int PROVE Cell(x + 1) # Cell(x)
  BY CellApart, Sizes

\* A step of a thread that owns no cell, before or after.
LEMMA OthersStep ==
    ASSUME NEW h \in Int, NEW T \in Int, NEW P \in Positions, NEW S \in Numbers, NEW Q \in Positions,
           Ideal(h, T, P, S), NEW t \in Threads,
           \A u \in Threads \ {t} : pc'[u] = pc[u] /\ op'[u] = op[u] /\ Q[u] = P[u],
           pc[t] \notin Owning, pc'[t] \notin Owning,
           pc'[t] \in {"seq", "cas"} => Near(IF op'[t] = "TryPush" THEN T ELSE h, Q[t]),
           pc'[t] = "cas" => IF op'[t] = "TryPush" THEN ReadyPush(T, S, Q[t]) ELSE ReadyPop(h, S, Q[t])
    PROVE  Ideal(h, T, Q, S)'
  <1>1. \A u \in Threads : (Pushes(u)' <=> Pushes(u)) /\ (Pops(u)' <=> Pops(u))
    BY DEF Pushes, Pops
  <1>2. \A u \in Threads : Pushes(u) \/ Pops(u) => u # t /\ Q[u] = P[u]
    BY DEF Pushes, Pops
  <1>3. Filled(h, T, Q, S)'
    BY <1>1, <1>2 DEF Ideal, Filled
  <1>4. Vacant(h, T, Q, S)'
    BY <1>1, <1>2 DEF Ideal, Vacant
  <1>5. Pushers(h, T, Q, S)' /\ Poppers(h, T, Q, S)'
    BY <1>1, <1>2 DEF Ideal, Pushers, Poppers
  <1>6. Alone(Q)'
    BY <1>1, <1>2 DEF Ideal, Alone
  <1>7. Recent(h, T, Q)'
    BY DEF Ideal, Recent
  <1>8. Ready(h, T, Q, S)'
    BY DEF Ideal, Ready
  <1> QED
    BY <1>3, <1>4, <1>5, <1>6, <1>7, <1>8 DEF Ideal

\* A cell that is ready for a push is free, and one ready for a pop is filled.
LEMMA Room ==
    ASSUME NEW h \in Int, NEW T \in Int, NEW P \in Positions, NEW S \in Numbers,
           Ideal(h, T, P, S), S[Cell(T)] = T
    PROVE  T < h + Cells
  <1> SUFFICES ASSUME T = h + Cells PROVE FALSE
    BY Sizes DEF Ideal
  <1>1. Cell(T) = Cell(h) /\ h < T
    BY CellLater, Sizes
  <1>2. S[Cell(h)] = h + 1 \/ S[Cell(h)] = h
    BY <1>1 DEF Ideal, Filled
  <1> QED
    BY <1>1, <1>2, Sizes

LEMMA Stock ==
    ASSUME NEW h \in Int, NEW T \in Int, NEW P \in Positions, NEW S \in Numbers,
           Ideal(h, T, P, S), S[Cell(h)] = h + 1
    PROVE  h < T
  <1> SUFFICES ASSUME T = h PROVE FALSE
    BY DEF Ideal
  <1>1. S[Cell(h)] = h \/ S[Cell(h)] = h - Cells + 1
    BY Sizes DEF Ideal, Vacant
  <1> QED
    BY <1>1, Sizes

\* A push wins the position T.
LEMMA PushWins ==
    ASSUME NEW h \in Int, NEW T \in Int, NEW P \in Positions, NEW S \in Numbers,
           Ideal(h, T, P, S), NEW t \in Threads,
           pc[t] = "cas", op[t] = "TryPush", P[t] = T, op' = op,
           pc'[t] = "copy", \A u \in Threads \ {t} : pc'[u] = pc[u],
           \A u \in Threads : pc[u] \in {"seq", "cas"} /\ op[u] = "TryPush" => Near(T + 1, P[u])
    PROVE  Ideal(h, T + 1, P, S)'
  <1>1. S[Cell(T)] = T
    BY DEF Ideal, Ready, ReadyPush
  <1>2. T < h + Cells
    BY <1>1, Room
  <1>3. /\ Pushes(t)' /\ \A u \in Threads : u # t => (Pushes(u)' <=> Pushes(u))
        /\ \A u \in Threads : Pops(u)' <=> Pops(u)
    BY DEF Pushes, Pops, Owning
  <1>4. ~Pushes(t) /\ ~Pops(t)
    BY DEF Pushes, Pops, Owning
  <1>5. Filled(h, T + 1, P, S)'
    <2> SUFFICES ASSUME NEW p \in Int, h <= p, p < T + 1
                 PROVE  \/ S[Cell(p)] = p + 1
                        \/ S[Cell(p)] = p /\ \E u \in Threads : Pushes(u)' /\ P[u] = p
      BY DEF Filled
    <2>1. CASE p = T
      BY <1>1, <1>3, <2>1
    <2>2. CASE p < T
      BY <1>3, <1>4, <2>2 DEF Ideal, Filled
    <2> QED
      BY <2>1, <2>2
  <1>6. Vacant(h, T + 1, P, S)'
    BY <1>3 DEF Ideal, Vacant
  <1>7. Pushers(h, T + 1, P, S)'
    <2>1. \A u \in Threads : P[u] \in Int
      BY DEF Positions
    <2> QED
      BY <1>1, <1>3, <2>1 DEF Ideal, Pushers
  <1>8. Poppers(h, T + 1, P, S)'
    <2> SUFFICES ASSUME NEW u \in Threads, Pops(u)
                 PROVE  P[u] < h /\ T + 1 <= P[u] + Cells /\ S[Cell(P[u])] = P[u] + 1
      BY <1>3 DEF Poppers
    <2>1. P[u] < h /\ T <= P[u] + Cells /\ S[Cell(P[u])] = P[u] + 1 /\ P[u] \in Int
      BY DEF Ideal, Poppers, Positions
    <2>2. T # P[u] + Cells
      BY <1>1, <2>1, CellLater, Sizes
    <2> QED
      BY <2>1, <2>2, Sizes
  <1>9. Alone(P)'
    BY <1>3, <1>4 DEF Ideal, Alone, Pushers
  <1>10. Recent(h, T + 1, P)'
    <2> SUFFICES ASSUME NEW u \in Threads, pc'[u] \in {"seq", "cas"}
                 PROVE  Near(IF op[u] = "TryPush" THEN T + 1 ELSE h, P[u])
      BY DEF Recent, Near
    <2>1. pc[u] \in {"seq", "cas"}
      BY DEF Owning
    <2> QED
      BY <2>1 DEF Ideal, Recent
  <1>11. Ready(h, T + 1, P, S)'
    <2>1. \A u \in Threads : pc[u] = "cas" /\ op[u] = "TryPush" => P[u] # T + 1
      <3>1. \A u \in Threads : P[u] \in Int
        BY DEF Positions
      <3> QED
        BY <3>1 DEF Ideal, Recent, Near
    <2> QED
      BY <2>1 DEF Ideal, Ready, ReadyPush, ReadyPop
  <1>12. h <= T + 1 /\ T + 1 <= h + Cells
    BY <1>2, Sizes DEF Ideal
  <1> QED
    BY <1>5, <1>6, <1>7, <1>8, <1>9, <1>10, <1>11, <1>12 DEF Ideal

\* A pop wins the position h.
LEMMA PopWins ==
    ASSUME NEW h \in Int, NEW T \in Int, NEW P \in Positions, NEW S \in Numbers,
           Ideal(h, T, P, S), NEW t \in Threads,
           pc[t] = "cas", op[t] = "TryPop", P[t] = h, op' = op,
           pc'[t] = "copy", \A u \in Threads \ {t} : pc'[u] = pc[u],
           \A u \in Threads : pc[u] \in {"seq", "cas"} /\ op[u] # "TryPush" => Near(h + 1, P[u])
    PROVE  Ideal(h + 1, T, P, S)'
  <1>1. S[Cell(h)] = h + 1
    BY DEF Ideal, Ready, ReadyPop
  <1>2. h < T
    BY <1>1, Stock
  <1>3. /\ Pops(t)' /\ \A u \in Threads : u # t => (Pops(u)' <=> Pops(u))
        /\ \A u \in Threads : Pushes(u)' <=> Pushes(u)
    BY DEF Pushes, Pops, Owning
  <1>4. ~Pushes(t) /\ ~Pops(t)
    BY DEF Pushes, Pops, Owning
  <1>5. Filled(h + 1, T, P, S)'
    BY <1>3 DEF Ideal, Filled
  <1>6. Vacant(h + 1, T, P, S)'
    <2> SUFFICES ASSUME NEW p \in Int, T <= p, p < h + 1 + Cells
                 PROVE  \/ S[Cell(p)] = p
                        \/ S[Cell(p)] = p - Cells + 1 /\ \E u \in Threads : Pops(u)' /\ P[u] = p - Cells
      BY DEF Vacant
    <2>1. CASE p = h + Cells
      <3>1. Cell(p) = Cell(h) /\ p - Cells = h /\ p - Cells + 1 = h + 1
        BY <2>1, CellLater, Sizes
      <3> QED
        BY <1>1, <1>3, <3>1
    <2>2. CASE p < h + Cells
      BY <1>3, <1>4, <2>2 DEF Ideal, Vacant
    <2> QED
      BY <2>1, <2>2, Sizes
  <1>7. Pushers(h + 1, T, P, S)'
    <2> SUFFICES ASSUME NEW u \in Threads, Pushes(u)
                 PROVE  h + 1 <= P[u] /\ P[u] < T /\ S[Cell(P[u])] = P[u]
      BY <1>3 DEF Pushers
    <2>1. h <= P[u] /\ P[u] < T /\ S[Cell(P[u])] = P[u] /\ P[u] \in Int
      BY DEF Ideal, Pushers, Positions
    <2>2. P[u] # h
      BY <1>1, <2>1
    <2> QED
      BY <2>1, <2>2
  <1>8. Poppers(h + 1, T, P, S)'
    <2>1. \A u \in Threads : P[u] \in Int
      BY DEF Positions
    <2> QED
      BY <1>1, <1>3, <2>1 DEF Ideal, Poppers
  <1>9. Alone(P)'
    BY <1>3, <1>4 DEF Ideal, Alone, Poppers
  <1>10. Recent(h + 1, T, P)'
    <2> SUFFICES ASSUME NEW u \in Threads, pc'[u] \in {"seq", "cas"}
                 PROVE  Near(IF op[u] = "TryPush" THEN T ELSE h + 1, P[u])
      BY DEF Recent, Near
    <2>1. pc[u] \in {"seq", "cas"}
      BY DEF Owning
    <2> QED
      BY <2>1 DEF Ideal, Recent
  <1>11. Ready(h + 1, T, P, S)'
    <2>1. \A u \in Threads : pc[u] = "cas" /\ op[u] # "TryPush" => P[u] # h + 1
      <3>1. \A u \in Threads : P[u] \in Int
        BY DEF Positions
      <3> QED
        BY <3>1 DEF Ideal, Recent, Near
    <2> QED
      BY <2>1 DEF Ideal, Ready, ReadyPush, ReadyPop
  <1>12. h + 1 <= T /\ T <= h + 1 + Cells
    BY <1>2, Sizes DEF Ideal
  <1> QED
    BY <1>5, <1>6, <1>7, <1>8, <1>9, <1>10, <1>11, <1>12 DEF Ideal

\* Two threads never own the same cell.
LEMMA OwnCells ==
    ASSUME NEW h \in Int, NEW T \in Int, NEW P \in Positions, NEW S \in Numbers,
           Ideal(h, T, P, S), NEW t \in Threads, NEW u \in Threads, t # u,
           Pushes(t) \/ Pops(t), Pushes(u) \/ Pops(u)
    PROVE  Cell(P[t]) # Cell(P[u])
  <1> SUFFICES ASSUME Cell(P[t]) = Cell(P[u]) PROVE FALSE
    OBVIOUS
  <1>0. P[t] \in Int /\ P[u] \in Int
    BY DEF Positions
  <1>1. CASE Pushes(t) /\ Pushes(u)
    <2>1. P[t] = P[u]
      <3>1. h <= P[t] /\ P[t] < T /\ h <= P[u] /\ P[u] < T /\ T <= h + Cells
        BY <1>1 DEF Ideal, Pushers
      <3>2. P[t] - P[u] < Cells /\ P[u] - P[t] < Cells
        BY <1>0, <3>1, Sizes
      <3> QED
        BY <1>0, <3>2, CellApart
    <2> QED
      BY <1>1, <2>1 DEF Ideal, Alone
  <1>2. CASE Pops(t) /\ Pops(u)
    <2>1. P[t] = P[u]
      <3>1. P[t] < h /\ T <= P[t] + Cells /\ P[u] < h /\ T <= P[u] + Cells /\ h <= T
        BY <1>2 DEF Ideal, Poppers
      <3>2. P[t] - P[u] < Cells /\ P[u] - P[t] < Cells
        BY <1>0, <3>1, Sizes
      <3> QED
        BY <1>0, <3>2, CellApart
    <2> QED
      BY <1>2, <2>1 DEF Ideal, Alone
  <1>3. CASE Pushes(t) /\ Pops(u)
    <2>1. P[t] = P[u] + 1
      BY <1>3 DEF Ideal, Pushers, Poppers
    <2> QED
      BY <1>0, <2>1, CellNext
  <1>4. CASE Pops(t) /\ Pushes(u)
    <2>1. P[u] = P[t] + 1
      BY <1>4 DEF Ideal, Pushers, Poppers
    <2> QED
      BY <1>0, <2>1, CellNext
  <1> QED
    BY <1>1, <1>2, <1>3, <1>4

\* The owner of a cell hands it over.
Released(t) ==
    /\ pc'[t] = "idle"
    /\ \A u \in Threads \ {t} : pc'[u] = pc[u] /\ op'[u] = op[u]

LEMMA PushReleases ==
    ASSUME NEW h \in Int, NEW T \in Int, NEW P \in Positions, NEW S \in Numbers,
           NEW Q \in Positions, NEW R \in Numbers,
           Ideal(h, T, P, S), NEW t \in Threads, Pushes(t), Released(t),
           \A u \in Threads \ {t} : Q[u] = P[u],
           R[Cell(P[t])] = P[t] + 1, \A i \in 0..Cells-1 : i # Cell(P[t]) => R[i] = S[i]
    PROVE  Ideal(h, T, Q, R)'
  <1> DEFINE p == P[t]
  <1>0. /\ p \in Int /\ \A u \in Threads : P[u] \in Int
        /\ h <= T /\ T <= h + Cells
    BY DEF Positions, Ideal
  <1>1. h <= p /\ p < T /\ S[Cell(p)] = p
    BY DEF Ideal, Pushers
  <1>2. /\ ~Pushes(t)' /\ ~Pops(t)' /\ ~Pops(t)
        /\ \A u \in Threads : u # t => (Pushes(u)' <=> Pushes(u)) /\ (Pops(u)' <=> Pops(u))
    BY DEF Pushes, Pops, Owning, Released
  <1>3. \A q \in Int : Cell(q) \in 0..Cells-1
    BY ShownCell
  <1>4. \A q \in Int : h <= q /\ q < h + Cells /\ q # p => R[Cell(q)] = S[Cell(q)]
    <2> SUFFICES ASSUME NEW q \in Int, h <= q, q < h + Cells, q # p PROVE Cell(q) # Cell(p)
      BY <1>3
    <2>1. q - p < Cells /\ p - q < Cells
      BY <1>0, <1>1, Sizes
    <2> QED
      BY <1>0, <2>1, CellApart
  <1>5. \A u \in Threads : u # t /\ (Pushes(u) \/ Pops(u)) => R[Cell(P[u])] = S[Cell(P[u])]
    BY <1>0, <1>3, OwnCells
  <1> HIDE DEF p
  <1>6. R[Cell(p)] = p + 1
    BY DEF p
  <1>7. Filled(h, T, Q, R)'
    <2> SUFFICES ASSUME NEW q \in Int, h <= q, q < T
                 PROVE  \/ R[Cell(q)] = q + 1
                        \/ R[Cell(q)] = q /\ \E u \in Threads : Pushes(u)' /\ Q[u] = q
      BY DEF Filled
    <2>1. CASE q = p
      BY <1>6, <2>1
    <2>2. CASE q # p
      <3>1. R[Cell(q)] = S[Cell(q)]
        BY <1>0, <1>4, <2>2, Sizes
      <3>2. S[Cell(q)] = q + 1 \/ (S[Cell(q)] = q /\ \E u \in Threads : Pushes(u) /\ P[u] = q)
        BY DEF Ideal, Filled
      <3>3. \A u \in Threads : P[u] = q => u # t
        BY <2>2 DEF p
      <3> QED
        BY <1>2, <3>1, <3>2, <3>3
    <2> QED
      BY <2>1, <2>2
  <1>8. Vacant(h, T, Q, R)'
    <2> SUFFICES ASSUME NEW q \in Int, T <= q, q < h + Cells
                 PROVE  \/ R[Cell(q)] = q
                        \/ R[Cell(q)] = q - Cells + 1 /\ \E u \in Threads : Pops(u)' /\ Q[u] = q - Cells
      BY DEF Vacant
    <2>1. R[Cell(q)] = S[Cell(q)]
      BY <1>0, <1>1, <1>4, Sizes
    <2>2. S[Cell(q)] = q \/ (S[Cell(q)] = q - Cells + 1 /\ \E u \in Threads : Pops(u) /\ P[u] = q - Cells)
      BY DEF Ideal, Vacant
    <2> QED
      BY <1>2, <2>1, <2>2
  <1>9. Pushers(h, T, Q, R)' /\ Poppers(h, T, Q, R)'
    BY <1>2, <1>5 DEF Ideal, Pushers, Poppers
  <1>10. Alone(Q)'
    BY <1>2 DEF Ideal, Alone
  <1>11. Recent(h, T, Q)'
    BY DEF Ideal, Recent, Released
  <1>12. Ready(h, T, Q, R)'
    <2>1. S[Cell(T)] = T => R[Cell(T)] = T
      BY <1>0, <1>1, <1>3 DEF p
    <2>2. S[Cell(h)] = h + 1 => R[Cell(h)] = h + 1
      <3>1. p # h => R[Cell(h)] = S[Cell(h)]
        BY <1>0, <1>4, Sizes
      <3> QED
        BY <1>6, <3>1
    <2> QED
      BY <2>1, <2>2 DEF Ideal, Ready, ReadyPush, ReadyPop, Released
  <1> QED
    BY <1>0, <1>7, <1>8, <1>9, <1>10, <1>11, <1>12 DEF Ideal

LEMMA PopReleases ==
    ASSUME NEW h \in Int, NEW T \in Int, NEW P \in Positions, NEW S \in Numbers,
           NEW Q \in Positions, NEW R \in Numbers,
           Ideal(h, T, P, S), NEW t \in Threads, Pops(t), Released(t),
           \A u \in Threads \ {t} : Q[u] = P[u],
           R[Cell(P[t])] = P[t] + Cells, \A i \in 0..Cells-1 : i # Cell(P[t]) => R[i] = S[i]
    PROVE  Ideal(h, T, Q, R)'
  <1> DEFINE p == P[t]
             n == P[t] + Cells
  <1>0. /\ p \in Int /\ \A u \in Threads : P[u] \in Int
        /\ h <= T /\ T <= h + Cells /\ n \in Int /\ n = p + Cells /\ p = n - Cells
    BY Sizes DEF Positions, Ideal
  <1>1. p < h /\ T <= n /\ n < h + Cells /\ S[Cell(p)] = p + 1 /\ Cell(n) = Cell(p)
    BY <1>0, CellLater, Sizes DEF Ideal, Poppers
  <1>2. /\ ~Pushes(t)' /\ ~Pops(t)' /\ ~Pushes(t)
        /\ \A u \in Threads : u # t => (Pushes(u)' <=> Pushes(u)) /\ (Pops(u)' <=> Pops(u))
    BY DEF Pushes, Pops, Owning, Released
  <1>3. \A q \in Int : Cell(q) \in 0..Cells-1
    BY ShownCell
  <1>4. \A q \in Int : h <= q /\ q < h + Cells /\ q # n => R[Cell(q)] = S[Cell(q)]
    <2> SUFFICES ASSUME NEW q \in Int, h <= q, q < h + Cells, q # n PROVE Cell(q) # Cell(n)
      BY <1>1, <1>3
    <2>1. q - n < Cells /\ n - q < Cells
      BY <1>0, <1>1, Sizes
    <2> QED
      BY <1>0, <2>1, CellApart
  <1>5. \A u \in Threads : u # t /\ (Pushes(u) \/ Pops(u)) => R[Cell(P[u])] = S[Cell(P[u])]
    BY <1>0, <1>3, OwnCells
  <1> HIDE DEF p, n
  <1>6. R[Cell(n)] = n
    BY <1>1 DEF p, n
  <1>7. Filled(h, T, Q, R)'
    <2> SUFFICES ASSUME NEW q \in Int, h <= q, q < T
                 PROVE  \/ R[Cell(q)] = q + 1
                        \/ R[Cell(q)] = q /\ \E u \in Threads : Pushes(u)' /\ Q[u] = q
      BY DEF Filled
    <2>1. R[Cell(q)] = S[Cell(q)]
      BY <1>0, <1>1, <1>4, Sizes
    <2>2. S[Cell(q)] = q + 1 \/ (S[Cell(q)] = q /\ \E u \in Threads : Pushes(u) /\ P[u] = q)
      BY DEF Ideal, Filled
    <2> QED
      BY <1>2, <2>1, <2>2
  <1>8. Vacant(h, T, Q, R)'
    <2> SUFFICES ASSUME NEW q \in Int, T <= q, q < h + Cells
                 PROVE  \/ R[Cell(q)] = q
                        \/ R[Cell(q)] = q - Cells + 1 /\ \E u \in Threads : Pops(u)' /\ Q[u] = q - Cells
      BY DEF Vacant
    <2>1. CASE q = n
      BY <1>6, <2>1
    <2>2. CASE q # n
      <3>1. R[Cell(q)] = S[Cell(q)]
        BY <1>0, <1>4, <2>2, Sizes
      <3>2. S[Cell(q)] = q \/ (S[Cell(q)] = q - Cells + 1 /\ \E u \in Threads : Pops(u) /\ P[u] = q - Cells)
        BY DEF Ideal, Vacant
      <3>3. \A u \in Threads : P[u] = q - Cells => u # t
        BY <1>0, <2>2, Sizes DEF p
      <3> QED
        BY <1>2, <3>1, <3>2, <3>3
    <2> QED
      BY <2>1, <2>2
  <1>9. Pushers(h, T, Q, R)' /\ Poppers(h, T, Q, R)'
    BY <1>2, <1>5 DEF Ideal, Pushers, Poppers
  <1>10. Alone(Q)'
    BY <1>2 DEF Ideal, Alone
  <1>11. Recent(h, T, Q)'
    BY DEF Ideal, Recent, Released
  <1>12. Ready(h, T, Q, R)'
    <2>1. S[Cell(T)] = T => R[Cell(T)] = T
      <3>1. CASE T = n
        BY <1>6, <3>1
      <3>2. CASE T # n /\ T < h + Cells
        BY <1>0, <1>4, <3>2
      <3>3. CASE T = h + Cells
        BY <1>0, <1>1, <3>3
      <3> QED
        BY <1>0, <3>1, <3>2, <3>3, Sizes
    <2>2. S[Cell(h)] = h + 1 => R[Cell(h)] = h + 1
      <3>1. CASE h = n
        BY <1>0, <1>1, <3>1, Sizes
      <3>2. CASE h # n
        BY <1>4, <3>2, Sizes
      <3> QED
        BY <3>1, <3>2
    <2> QED
      BY <2>1, <2>2 DEF Ideal, Ready, ReadyPush, ReadyPop, Released
  <1> QED
    BY <1>0, <1>7, <1>8, <1>9, <1>10, <1>11, <1>12 DEF Ideal
-----------------------------------------------------------------------------
(* What a thread learns from the sequence number of its cell. *)

\* Every cell is that of a position in reach.
LEMMA Window ==
    ASSUME NEW h \in Int, NEW p \in Int
    PROVE  \E q \in Int : h <= q /\ q < h + Cells /\ Cell(q) = Cell(p)
  <1> DEFINE x == p - h
             r == x % Cells
             k == x \div Cells
  <1>0. x \in Int /\ x = p - h
    OBVIOUS
  <1> HIDE DEF x
  <1>1. r \in 0..Cells-1 /\ k \in Int /\ x = Cells * k + r
    BY <1>0, Quotient, Sizes
  <1> HIDE DEF r, k
  <1>2. h + r \in Int /\ p = (h + r) + Cells * k
    BY <1>0, <1>1, Sizes
  <1>3. Cell(h + r) = Cell(p)
    <2> DEFINE q == h + r
    <2>1. q \in Int /\ p = q + Cells * k
      BY <1>2
    <2> HIDE DEF q
    <2>2. (q + Cells * k) % Cells = q % Cells
      BY <1>1, <2>1, Multiple, Sizes
    <2> QED
      BY <2>1, <2>2 DEF Cell, q
  <1> QED
    BY <1>1, <1>2, <1>3, Sizes

LEMMA Bounds ==
    ASSUME NEW h \in Int, NEW T \in Int, NEW P \in Positions, NEW S \in Numbers,
           Ideal(h, T, P, S), NEW p \in Int
    PROVE  /\ S[Cell(p)] \in Int /\ T - Cells <= S[Cell(p)] /\ S[Cell(p)] <= h + Cells
           /\ h <= T /\ T <= h + Cells
  <1>0. h <= T /\ T <= h + Cells
    BY DEF Ideal
  <1>1. PICK q \in Int : h <= q /\ q < h + Cells /\ Cell(q) = Cell(p)
    BY Window
  <1>2. S[Cell(p)] \in Int
    BY ShownCell DEF Numbers
  <1>3. CASE q < T
    <2>1. S[Cell(q)] = q + 1 \/ S[Cell(q)] = q
      BY <1>1, <1>3 DEF Ideal, Filled
    <2> QED
      BY <1>0, <1>1, <1>2, <1>3, <2>1, Sizes
  <1>4. CASE T <= q
    <2>1. S[Cell(q)] = q \/ S[Cell(q)] = q - Cells + 1
      BY <1>1, <1>4 DEF Ideal, Vacant
    <2> QED
      BY <1>0, <1>1, <1>2, <1>4, <2>1, Sizes
  <1> QED
    BY <1>3, <1>4

\* The signed difference that a call computes is the one it means.
LEMMA Seen ==
    ASSUME NEW h \in Int, NEW T \in Int, NEW P \in Positions, NEW S \in Numbers,
           Types, Shows(h, T, P, S), Ideal(h, T, P, S), NEW t \in Threads, pc[t] = "seq"
    PROVE  /\ op[t] = "TryPush" => Dif(seq[Cell(pos[t])], Turn(t)) = S[Cell(P[t])] - P[t]
           /\ op[t] = "TryPop" => Dif(seq[Cell(pos[t])], Turn(t)) = S[Cell(P[t])] - (P[t] + 1)
  <1> DEFINE p == P[t]
             s == S[Cell(p)]
  <1>1. p \in Int /\ p + 1 \in Int
    BY DEF Positions
  <1>2. seq[Cell(pos[t])] = Shown(s) /\ pos[t] = Shown(p)
    BY <1>1, ShownCell DEF Shows
  <1>3. /\ s \in Int /\ T - Cells <= s /\ s <= h + Cells
        /\ h <= T /\ T <= h + Cells
    BY <1>1, Bounds
  <1>4. Near(IF op[t] = "TryPush" THEN T ELSE h, p)
    BY DEF Ideal, Recent
  <1> HIDE DEF p, s
  <1>5. CASE op[t] = "TryPush"
    <2>1. 2 * (s - p) < Wrap /\ 2 * (p - s) < Wrap
      BY <1>1, <1>3, <1>4, <1>5, Sizes DEF Near
    <2>2. Turn(t) = Shown(p)
      BY <1>2, <1>5 DEF Turn
    <2>3. Dif(Shown(s), Shown(p)) = s - p
      BY <1>1, <1>3, <2>1, ShownDif
    <2> QED
      BY <1>2, <1>5, <2>2, <2>3 DEF s, p
  <1>6. CASE op[t] = "TryPop"
    <2>1. 2 * (s - (p + 1)) < Wrap /\ 2 * ((p + 1) - s) < Wrap
      BY <1>1, <1>3, <1>4, <1>6, Sizes DEF Near
    <2>2. Turn(t) = Shown(p + 1)
      BY <1>1, <1>2, <1>6, ShownPlus DEF Turn
    <2>3. Dif(Shown(s), Shown(p + 1)) = s - (p + 1)
      BY <1>1, <1>3, <2>1, ShownDif
    <2> QED
      BY <1>2, <1>6, <2>2, <2>3 DEF s, p
  <1> QED
    BY <1>5, <1>6

\* A push that finds its cell behind stands at the tail: the ring is full, or
\* somebody is emptying the cell.
LEMMA BehindAtTail ==
    ASSUME NEW h \in Int, NEW T \in Int, NEW P \in Positions, NEW S \in Numbers,
           Ideal(h, T, P, S), NEW p \in Int, p <= T, S[Cell(p)] < p
    PROVE  p = T /\ (T = h + Cells \/ \E u \in Threads : Pops(u) /\ P[u] = T - Cells)
  <1>0. S[Cell(p)] \in Int /\ T - Cells <= S[Cell(p)] /\ h <= T /\ T <= h + Cells
    BY Bounds
  <1>1. ~(h <= p /\ p < T)
    BY <1>0 DEF Ideal, Filled
  <1>2. ~(p < h)
    <2> SUFFICES ASSUME p < h PROVE FALSE
      OBVIOUS
    <2> DEFINE n == p + Cells
    <2>1. n \in Int /\ T <= n /\ n < h + Cells /\ Cell(n) = Cell(p) /\ n - Cells = p
      BY <1>0, CellLater, Sizes
    <2>2. S[Cell(n)] = n \/ S[Cell(n)] = n - Cells + 1
      BY <2>1 DEF Ideal, Vacant
    <2> QED
      BY <1>0, <2>1, <2>2, Sizes
  <1>3. p = T
    BY <1>0, <1>1, <1>2
  <1>4. T # h + Cells => \E u \in Threads : Pops(u) /\ P[u] = T - Cells
    BY <1>0, <1>3, Sizes DEF Ideal, Vacant
  <1> QED
    BY <1>3, <1>4

\* And a pop at the head: the ring is empty, or somebody is filling the cell.
LEMMA BehindAtHead ==
    ASSUME NEW h \in Int, NEW T \in Int, NEW P \in Positions, NEW S \in Numbers,
           Ideal(h, T, P, S), NEW p \in Int, p <= h, S[Cell(p)] < p + 1
    PROVE  p = h /\ (h = T \/ \E u \in Threads : Pushes(u) /\ P[u] = h)
  <1>0. S[Cell(p)] \in Int /\ T - Cells <= S[Cell(p)] /\ h <= T /\ T <= h + Cells
    BY Bounds
  <1>1. ~(p < h)
    <2> SUFFICES ASSUME p < h PROVE FALSE
      OBVIOUS
    <2> DEFINE n == p + Cells
    <2>1. n \in Int /\ T <= n /\ n < h + Cells /\ Cell(n) = Cell(p) /\ n - Cells = p
      BY <1>0, CellLater, Sizes
    <2>2. S[Cell(n)] = n \/ S[Cell(n)] = n - Cells + 1
      BY <2>1 DEF Ideal, Vacant
    <2> QED
      BY <1>0, <2>1, <2>2, Sizes
  <1>2. p = h
    BY <1>1
  <1>3. h # T => \E u \in Threads : Pushes(u) /\ P[u] = h
    BY <1>0, <1>2 DEF Ideal, Filled
  <1> QED
    BY <1>2, <1>3
-----------------------------------------------------------------------------
(* The inductive invariant. *)

Lifts ==
    \E h, T \in Int : \E P \in Positions : \E S \in Numbers : Shows(h, T, P, S) /\ Ideal(h, T, P, S)

\* A push that has only to publish has written its element.
Written == \A t \in Threads : pc[t] = "publish" /\ op[t] = "TryPush" => val[Cell(pos[t])] = arg[t]

RingInv == Types /\ Lifts /\ Written

LEMMA LiftsShow ==
    ASSUME Lifts
    PROVE  /\ head \in Int /\ tail \in Int
           /\ \A t \in Threads : Cell(pos[t]) \in 0..Cells-1
           /\ \A t, u \in Threads :
                 t # u /\ pc[t] \in Owning /\ pc[u] \in Owning /\ Types => Cell(pos[t]) # Cell(pos[u])
  <1>1. PICK h \in Int, T \in Int, P \in Positions, S \in Numbers : Shows(h, T, P, S) /\ Ideal(h, T, P, S)
    BY DEF Lifts
  <1>2. head \in Int /\ tail \in Int
    BY <1>1, ShownMultiple, Sizes DEF Shows
  <1>3. \A t \in Threads : P[t] \in Int /\ Cell(pos[t]) = Cell(P[t]) /\ Cell(pos[t]) \in 0..Cells-1
    BY <1>1, ShownCell DEF Shows, Positions
  <1>4. ASSUME NEW t \in Threads, NEW u \in Threads, t # u, pc[t] \in Owning, pc[u] \in Owning, Types
        PROVE  Cell(pos[t]) # Cell(pos[u])
    <2>1. (Pushes(t) \/ Pops(t)) /\ (Pushes(u) \/ Pops(u))
      BY <1>4 DEF Types, Pushes, Pops
    <2> QED
      BY <1>1, <1>3, <1>4, <2>1, OwnCells
  <1> QED
    BY <1>2, <1>3, <1>4

LEMMA PlusTyped == ASSUME NEW x \in Int, NEW n \in Int PROVE Plus(x, n) \in Int
  BY Quotient, Sizes DEF Plus

LEMMA TypesStep == ASSUME RingInv, [Next]_vars PROVE Types'
  <1>0. /\ Types /\ head \in Int /\ tail \in Int
        /\ \A t \in Threads : Cell(pos[t]) \in 0..Cells-1
    BY LiftsShow DEF RingInv
  <1> USE DEF Types
  <1>1. ASSUME NEW t \in Threads, NEW o \in {"TryPush", "TryPop"}, NEW v \in Values \cup {None}, Call(t, o, v)
        PROVE  Types'
    BY <1>0, <1>1 DEF Call
  <1>2. ASSUME NEW t \in Threads, Load(t) PROVE Types'
    BY <1>0, <1>2 DEF Load, Counter, local
  <1>3. ASSUME NEW t \in Threads, SeqReady(t) \/ SeqPassed(t) \/ CasLoses(t) PROVE Types'
    BY <1>0, <1>3 DEF SeqReady, SeqPassed, CasLoses, local
  <1>4. ASSUME NEW t \in Threads, SeqBehind(t) PROVE Types'
    BY <1>0, <1>4 DEF SeqBehind, Return
  <1>5. ASSUME NEW t \in Threads, CasWins(t) PROVE Types'
    BY <1>0, <1>5 DEF CasWins, local
  <1>6. ASSUME NEW t \in Threads, Copy(t) PROVE Types'
    <2>1. CASE op[t] = "TryPush"
      BY <1>0, <1>6, <2>1 DEF Copy
    <2>2. CASE op[t] # "TryPush"
      <3>1. /\ arg' = [arg EXCEPT ![t] = val[Cell(pos[t])]] /\ pc' = [pc EXCEPT ![t] = "clear"]
            /\ UNCHANGED <<op, pos, seq, val>>
        BY <1>6, <2>2 DEF Copy
      <3>2. val[Cell(pos[t])] \in Values \cup {None} /\ op[t] = "TryPop"
        BY <1>0, <2>2
      <3> QED
        BY <1>0, <3>1, <3>2
    <2> QED
      BY <2>1, <2>2
  <1>7. ASSUME NEW t \in Threads, Clear(t) PROVE Types'
    BY <1>0, <1>7 DEF Clear, local
  <1>8. ASSUME NEW t \in Threads, Publish(t) PROVE Types'
    <2>1. NextTurn(t) \in Int
      <3>1. pos[t] \in Int /\ Cells \in Int /\ 1 \in Int
        BY <1>0, Sizes
      <3>2. Plus(pos[t], 1) \in Int /\ Plus(pos[t], Cells) \in Int
        BY <3>1, PlusTyped
      <3> QED
        BY <3>2 DEF NextTurn
    <2>2. seq' \in [0..Cells-1 -> Int] /\ val' = val
      BY <1>0, <1>8, <2>1 DEF Publish
    <2>3. /\ pc' = [pc EXCEPT ![t] = "idle"] /\ op' = [op EXCEPT ![t] = "TryPop"]
          /\ pos' = [pos EXCEPT ![t] = 0] /\ arg' = [arg EXCEPT ![t] = None]
      BY <1>8 DEF Publish, Return
    <2> QED
      BY <1>0, <2>2, <2>3
  <1>9. CASE UNCHANGED vars
    BY <1>0, <1>9 DEF vars
  <1> QED
    BY <1>1, <1>2, <1>3, <1>4, <1>5, <1>6, <1>7, <1>8, <1>9 DEF Next, Step

\* Threads that do not publish keep their cells to themselves.
LEMMA WrittenStep == ASSUME RingInv, [Next]_vars PROVE Written'
  <1>0. /\ Types /\ Written
        /\ \A t \in Threads : Cell(pos[t]) \in 0..Cells-1
        /\ \A t, u \in Threads : t # u /\ pc[t] \in Owning /\ pc[u] \in Owning => Cell(pos[t]) # Cell(pos[u])
    BY LiftsShow DEF RingInv
  <1>1. ASSUME NEW t \in Threads, pc'[t] # "publish", val' = val,
               \A u \in Threads \ {t} : pc'[u] = pc[u] /\ op'[u] = op[u] /\ pos'[u] = pos[u] /\ arg'[u] = arg[u]
        PROVE  Written'
    BY <1>0, <1>1 DEF Written
  <1>2. ASSUME NEW t \in Threads, NEW o, NEW v, Call(t, o, v) PROVE Written'
    BY <1>0, <1>1, <1>2 DEF Call, Types
  <1>3. ASSUME NEW t \in Threads, Load(t) \/ SeqReady(t) \/ SeqPassed(t) \/ CasWins(t) \/ CasLoses(t)
        PROVE  Written'
    BY <1>0, <1>1, <1>3 DEF Load, SeqReady, SeqPassed, CasWins, CasLoses, local, Types
  <1>4. ASSUME NEW t \in Threads, SeqBehind(t) \/ Publish(t) PROVE Written'
    BY <1>0, <1>1, <1>4 DEF SeqBehind, Publish, Return, Types
  <1>5. ASSUME NEW t \in Threads, Copy(t) PROVE Written'
    <2>1. CASE op[t] = "TryPush"
      <3>1. /\ val' = [val EXCEPT ![Cell(pos[t])] = arg[t]] /\ pc' = [pc EXCEPT ![t] = "publish"]
            /\ arg' = arg /\ op' = op /\ pos' = pos /\ pc[t] \in Owning
        BY <1>5, <2>1 DEF Copy, Owning
      <3> SUFFICES ASSUME NEW u \in Threads, pc'[u] = "publish", op[u] = "TryPush"
                   PROVE  val'[Cell(pos[u])] = arg[u]
        BY <3>1 DEF Written
      <3>2. CASE u = t
        BY <1>0, <3>1, <3>2 DEF Types
      <3>3. CASE u # t
        <4>1. pc[u] = "publish" /\ Cell(pos[u]) # Cell(pos[t])
          BY <1>0, <3>1, <3>3 DEF Types, Owning
        <4> QED
          BY <1>0, <3>1, <4>1 DEF Written, Types
      <3> QED
        BY <3>2, <3>3
    <2>2. CASE op[t] # "TryPush"
      BY <1>0, <1>1, <1>5, <2>2 DEF Copy, Types
    <2> QED
      BY <2>1, <2>2
  <1>6. ASSUME NEW t \in Threads, Clear(t) PROVE Written'
    <2>1. /\ val' = [val EXCEPT ![Cell(pos[t])] = None] /\ pc' = [pc EXCEPT ![t] = "publish"]
          /\ arg' = arg /\ op' = op /\ pos' = pos /\ pc[t] \in Owning /\ op[t] = "TryPop"
      BY <1>0, <1>6 DEF Clear, Owning, Types, local
    <2> SUFFICES ASSUME NEW u \in Threads, pc'[u] = "publish", op[u] = "TryPush"
                 PROVE  val'[Cell(pos[u])] = arg[u]
      BY <2>1 DEF Written
    <2>2. u # t /\ pc[u] = "publish" /\ Cell(pos[u]) # Cell(pos[t])
      BY <1>0, <2>1 DEF Types, Owning
    <2> QED
      BY <1>0, <2>1, <2>2 DEF Written, Types
  <1>7. CASE UNCHANGED vars
    BY <1>0, <1>7 DEF Written, vars
  <1> QED
    BY <1>2, <1>3, <1>4, <1>5, <1>6, <1>7 DEF Next, Step

\* A step of a thread that owns no cell and leaves the counters and the cells.
LEMMA LiftsOther ==
    ASSUME NEW h \in Int, NEW T \in Int, NEW P \in Positions, NEW S \in Numbers,
           Shows(h, T, P, S), Ideal(h, T, P, S), NEW t \in Threads, NEW p \in Int,
           head' = head, tail' = tail, seq' = seq, pos'[t] = Shown(p),
           \A u \in Threads \ {t} : pc'[u] = pc[u] /\ op'[u] = op[u] /\ pos'[u] = pos[u],
           pc[t] \notin Owning, pc'[t] \notin Owning,
           pc'[t] \in {"seq", "cas"} => Near(IF op'[t] = "TryPush" THEN T ELSE h, p),
           pc'[t] = "cas" => IF op'[t] = "TryPush" THEN ReadyPush(T, S, p) ELSE ReadyPop(h, S, p)
    PROVE  Lifts'
  <1> DEFINE Q == [P EXCEPT ![t] = p]
  <1>1. Q \in Positions /\ Q[t] = p /\ \A u \in Threads \ {t} : Q[u] = P[u]
    BY DEF Positions
  <1> HIDE DEF Q
  <1>2. Ideal(h, T, Q, S)'
    BY <1>1, OthersStep
  <1>3. Shows(h, T, Q, S)'
    BY <1>1 DEF Shows
  <1> QED
    BY <1>1, <1>2, <1>3 DEF Lifts

\* A step within the same cells.
LEMMA LiftsKept ==
    ASSUME NEW h \in Int, NEW T \in Int, NEW P \in Positions, NEW S \in Numbers,
           Shows(h, T, P, S), Ideal(h, T, P, S),
           head' = head, tail' = tail, seq' = seq, op' = op, pos' = pos,
           \A u \in Threads : (pc'[u] \in Owning <=> pc[u] \in Owning),
           \A u \in Threads : pc'[u] \in {"seq", "cas"} => pc'[u] = pc[u]
    PROVE  Lifts'
  <1>1. \A u \in Threads : (Pushes(u)' <=> Pushes(u)) /\ (Pops(u)' <=> Pops(u))
    BY DEF Pushes, Pops
  <1>2. Filled(h, T, P, S)' /\ Vacant(h, T, P, S)'
    BY <1>1 DEF Ideal, Filled, Vacant
  <1>3. Pushers(h, T, P, S)' /\ Poppers(h, T, P, S)' /\ Alone(P)'
    BY <1>1 DEF Ideal, Pushers, Poppers, Alone
  <1>4. Recent(h, T, P)' /\ Ready(h, T, P, S)'
    BY DEF Ideal, Recent, Ready
  <1>5. Ideal(h, T, P, S)'
    BY <1>2, <1>3, <1>4 DEF Ideal
  <1>6. Shows(h, T, P, S)'
    BY DEF Shows
  <1> QED
    BY <1>5, <1>6 DEF Lifts

LEMMA ShownZero == Shown(0) = 0
  BY ShownSmall, Sizes

LEMMA LiftsStep == ASSUME RingInv, [Next]_vars PROVE Lifts'
  <1>0. Types
    BY DEF RingInv
  <1>a. PICK h \in Int, T \in Int, P \in Positions, S \in Numbers : Shows(h, T, P, S) /\ Ideal(h, T, P, S)
    BY DEF RingInv, Lifts
  <1>b. \A t \in Threads : P[t] \in Int /\ pos[t] = Shown(P[t])
    BY <1>a DEF Shows, Positions
  <1>1. ASSUME NEW t \in Threads, NEW o, NEW v, Call(t, o, v) PROVE Lifts'
    <2>1. /\ head' = head /\ tail' = tail /\ seq' = seq /\ pos' = pos
          /\ pc[t] \notin Owning /\ pc'[t] = "load"
          /\ \A u \in Threads \ {t} : pc'[u] = pc[u] /\ op'[u] = op[u] /\ pos'[u] = pos[u]
      BY <1>0, <1>1 DEF Call, Types, Owning
    <2>2. pos'[t] = Shown(P[t]) /\ pc'[t] \notin Owning
      BY <1>b, <2>1 DEF Owning
    <2> QED
      BY <1>a, <1>b, <2>1, <2>2, LiftsOther
  <1>2. ASSUME NEW t \in Threads, Load(t) PROVE Lifts'
    <2> DEFINE p == IF op[t] = "TryPush" THEN T ELSE h
    <2>1. /\ head' = head /\ tail' = tail /\ seq' = seq /\ op' = op
          /\ pc[t] \notin Owning /\ pc'[t] = "seq" /\ pc'[t] \notin Owning
          /\ \A u \in Threads \ {t} : pc'[u] = pc[u] /\ op'[u] = op[u] /\ pos'[u] = pos[u]
      BY <1>0, <1>2 DEF Load, Types, Owning, local
    <2>2. p \in Int /\ pos'[t] = Shown(p)
      BY <1>0, <1>2, <1>a DEF Load, Counter, Shows, Types
    <2>3. Near(p, p)
      BY <2>2, Sizes DEF Near
    <2>4. Near(IF op'[t] = "TryPush" THEN T ELSE h, p)
      BY <2>1, <2>3
    <2> HIDE DEF p
    <2> QED
      BY <1>a, <2>1, <2>2, <2>4, LiftsOther
  <1>3. ASSUME NEW t \in Threads, SeqReady(t) PROVE Lifts'
    <2>1. /\ head' = head /\ tail' = tail /\ seq' = seq /\ op' = op /\ pos' = pos
          /\ pc[t] = "seq" /\ pc[t] \notin Owning /\ pc'[t] = "cas" /\ pc'[t] \notin Owning
          /\ \A u \in Threads \ {t} : pc'[u] = pc[u] /\ op'[u] = op[u] /\ pos'[u] = pos[u]
      BY <1>0, <1>3 DEF SeqReady, Types, Owning, local
    <2>2. Near(IF op'[t] = "TryPush" THEN T ELSE h, P[t])
      BY <1>a, <2>1 DEF Ideal, Recent
    <2>3. Dif(seq[Cell(pos[t])], Turn(t)) = 0
      BY <1>3 DEF SeqReady
    <2>4. S[Cell(P[t])] \in Int
      BY <1>b, ShownCell DEF Numbers
    <2>5. IF op'[t] = "TryPush" THEN ReadyPush(T, S, P[t]) ELSE ReadyPop(h, S, P[t])
      <3>1. CASE op[t] = "TryPush"
        <4>1. S[Cell(P[t])] = P[t]
          BY <1>0, <1>a, <1>b, <2>1, <2>3, <2>4, <3>1, Seen
        <4> QED
          BY <2>1, <3>1, <4>1 DEF ReadyPush
      <3>2. CASE op[t] = "TryPop"
        <4>1. S[Cell(P[t])] = P[t] + 1
          BY <1>0, <1>a, <1>b, <2>1, <2>3, <2>4, <3>2, Seen
        <4> QED
          BY <2>1, <3>2, <4>1 DEF ReadyPop
      <3> QED
        BY <1>0, <3>1, <3>2 DEF Types
    <2>6. pos'[t] = Shown(P[t])
      BY <1>b, <2>1
    <2> QED
      BY <1>a, <1>b, <2>1, <2>2, <2>5, <2>6, LiftsOther
  <1>4. ASSUME NEW t \in Threads, SeqPassed(t) \/ CasLoses(t) PROVE Lifts'
    <2>1. /\ head' = head /\ tail' = tail /\ seq' = seq /\ op' = op /\ pos' = pos
          /\ pc[t] \in {"seq", "cas"} /\ pc[t] \notin Owning
          /\ pc'[t] \in {"load", "seq"} /\ pc'[t] \notin Owning
          /\ \A u \in Threads \ {t} : pc'[u] = pc[u] /\ op'[u] = op[u] /\ pos'[u] = pos[u]
      BY <1>0, <1>4 DEF SeqPassed, CasLoses, Types, Owning, local
    <2>2. Near(IF op'[t] = "TryPush" THEN T ELSE h, P[t])
      BY <1>a, <2>1 DEF Ideal, Recent
    <2>3. pos'[t] = Shown(P[t]) /\ pc'[t] # "cas"
      BY <1>b, <2>1
    <2> QED
      BY <1>a, <1>b, <2>1, <2>2, <2>3, LiftsOther
  <1>5. ASSUME NEW t \in Threads, SeqBehind(t) PROVE Lifts'
    <2>1. /\ head' = head /\ tail' = tail /\ seq' = seq
          /\ pc[t] \notin Owning /\ pc'[t] = "idle" /\ pc'[t] \notin Owning
          /\ \A u \in Threads \ {t} : pc'[u] = pc[u] /\ op'[u] = op[u] /\ pos'[u] = pos[u]
          /\ pos'[t] = Shown(0)
      BY <1>0, <1>5, ShownZero DEF SeqBehind, Return, Types, Owning
    <2> QED
      BY <1>a, <2>1, LiftsOther
  <1>6. ASSUME NEW t \in Threads, CasWins(t) PROVE Lifts'
    <2>1. /\ seq' = seq /\ op' = op /\ pos' = pos /\ pc[t] = "cas" /\ pc'[t] = "copy"
          /\ \A u \in Threads \ {t} : pc'[u] = pc[u]
          /\ pos[t] = Shown(P[t]) /\ P[t] \in Int /\ Plus(pos[t], 1) = Shown(P[t] + 1)
      <3>1. pos[t] = Shown(P[t]) /\ P[t] \in Int /\ Plus(pos[t], 1) = Shown(P[t] + 1)
        BY <1>b, ShownNext
      <3> QED
        BY <1>0, <1>6, <3>1 DEF CasWins, Types, local
    <2>2. ASSUME NEW c \in Int, NEW u \in Threads, pc[u] \in {"seq", "cas"}, op[u] = op[t],
                 P[t] = c, Near(c, P[u])
          PROVE  Near(c + 1, P[u])
      <3> DEFINE d == (c + 1) - P[u]
      <3>1. P[u] \in Int /\ d \in 0..Wrap-1
        BY <1>b, <2>2, Sizes DEF Near
      <3>2. 2 * (((Plus(pos[t], 1) - pos[u]) % Wrap) + Cells) < Wrap
        BY <1>6, <2>2 DEF CasWins, NotLapped
      <3>3. (Plus(pos[t], 1) - pos[u]) % Wrap = Shown(d)
        <4>1. Plus(pos[t], 1) = Shown(c + 1) /\ pos[u] = Shown(P[u]) /\ c + 1 \in Int
          BY <1>b, <2>1, <2>2
        <4>2. (Shown(c + 1) - Shown(P[u])) % Wrap = Shown((c + 1) - P[u])
          BY <3>1, <4>1, ShownMinus
        <4> QED
          BY <4>1, <4>2
      <3>4. Shown(d) = d
        BY <3>1, ShownSmall
      <3> HIDE DEF d
      <3>5. 2 * (d + Cells) < Wrap
        BY <3>2, <3>3, <3>4
      <3> QED
        BY <2>2, <3>1, <3>5, Sizes DEF Near, d
    <2>3. CASE op[t] = "TryPush"
      <3>1. tail = pos[t] /\ tail' = Plus(pos[t], 1) /\ head' = head
        BY <1>6, <2>3 DEF CasWins, Counter
      <3>2. Near(T, P[t])
        BY <1>a, <2>1, <2>3 DEF Ideal, Recent
      <3>3. P[t] = T
        <4>1. Shown(P[t]) = Shown(T) /\ P[t] - T < Wrap /\ T - P[t] < Wrap
          BY <1>a, <2>1, <3>1, <3>2, Sizes DEF Shows, Near
        <4> QED
          BY <2>1, <4>1, ShownApart
      <3>4. ASSUME NEW u \in Threads, pc[u] \in {"seq", "cas"}, op[u] = "TryPush" PROVE Near(T + 1, P[u])
        <4>1. Near(T, P[u])
          BY <1>a, <3>4 DEF Ideal, Recent
        <4> QED
          BY <2>2, <2>3, <3>3, <3>4, <4>1
      <3>5. Ideal(h, T + 1, P, S)'
        BY <1>a, <2>1, <2>3, <3>3, <3>4, PushWins
      <3>6. Shows(h, T + 1, P, S)'
        BY <1>a, <2>1, <3>1, <3>3 DEF Shows
      <3>7. T + 1 \in Int
        OBVIOUS
      <3> QED
        BY <3>5, <3>6, <3>7 DEF Lifts
    <2>4. CASE op[t] = "TryPop"
      <3>1. head = pos[t] /\ head' = Plus(pos[t], 1) /\ tail' = tail
        BY <1>6, <2>4 DEF CasWins, Counter
      <3>2. Near(h, P[t])
        BY <1>a, <2>1, <2>4 DEF Ideal, Recent
      <3>3. P[t] = h
        <4>1. Shown(P[t]) = Shown(h) /\ P[t] - h < Wrap /\ h - P[t] < Wrap
          BY <1>a, <2>1, <3>1, <3>2, Sizes DEF Shows, Near
        <4> QED
          BY <2>1, <4>1, ShownApart
      <3>4. ASSUME NEW u \in Threads, pc[u] \in {"seq", "cas"}, op[u] # "TryPush" PROVE Near(h + 1, P[u])
        <4>1. Near(h, P[u]) /\ op[u] = "TryPop"
          BY <1>0, <1>a, <3>4 DEF Ideal, Recent, Types
        <4> QED
          BY <2>2, <2>4, <3>3, <3>4, <4>1
      <3>5. Ideal(h + 1, T, P, S)'
        BY <1>a, <2>1, <2>4, <3>3, <3>4, PopWins
      <3>6. Shows(h + 1, T, P, S)'
        BY <1>a, <2>1, <3>1, <3>3 DEF Shows
      <3>7. h + 1 \in Int
        OBVIOUS
      <3> QED
        BY <3>5, <3>6, <3>7 DEF Lifts
    <2> QED
      BY <1>0, <2>3, <2>4 DEF Types
  <1>7. ASSUME NEW t \in Threads, Copy(t) \/ Clear(t) PROVE Lifts'
    <2>1. /\ head' = head /\ tail' = tail /\ seq' = seq /\ op' = op /\ pos' = pos
          /\ pc[t] \in Owning /\ pc'[t] \in {"clear", "publish"}
          /\ \A u \in Threads \ {t} : pc'[u] = pc[u]
      BY <1>0, <1>7 DEF Copy, Clear, Types, Owning, local
    <2>2. \A u \in Threads : (pc'[u] \in Owning <=> pc[u] \in Owning)
      BY <2>1 DEF Owning
    <2>3. \A u \in Threads : pc'[u] \in {"seq", "cas"} => pc'[u] = pc[u]
      BY <2>1
    <2> QED
      BY <1>a, <2>1, <2>2, <2>3, LiftsKept
  <1>8. ASSUME NEW t \in Threads, Publish(t) PROVE Lifts'
    <2>0. PICK n \in Int : n = IF op[t] = "TryPush" THEN P[t] + 1 ELSE P[t] + Cells
      BY <1>b, Sizes
    <2> DEFINE c == Cell(P[t])
               Q == [P EXCEPT ![t] = 0]
               R == [S EXCEPT ![c] = n]
    <2>1. P[t] \in Int /\ pos[t] = Shown(P[t]) /\ c \in 0..Cells-1 /\ Cell(pos[t]) = c
      BY <1>b, ShownCell, Sizes
    <2>2. Q \in Positions /\ Q[t] = 0 /\ \A u \in Threads \ {t} : Q[u] = P[u]
      BY DEF Positions
    <2>3. /\ head' = head /\ tail' = tail /\ seq' = [seq EXCEPT ![c] = NextTurn(t)]
          /\ pc[t] \in Owning /\ pos'[t] = 0 /\ Released(t)
          /\ \A u \in Threads \ {t} : pos'[u] = pos[u]
      BY <1>0, <1>8, <2>1 DEF Publish, Return, Types, Owning, Released
    <2>4. NextTurn(t) = Shown(n)
      BY <2>0, <2>1, ShownPlus, Sizes DEF NextTurn
    <2> HIDE DEF c
    <2>5. R \in Numbers /\ R[c] = n /\ \A i \in 0..Cells-1 : i # c => R[i] = S[i]
      BY <2>1 DEF Numbers
    <2> HIDE DEF Q, R
    <2>6. Shows(h, T, Q, R)'
      <3>1. \A i \in 0..Cells-1 : seq'[i] = IF i = c THEN Shown(n) ELSE seq[i]
        BY <1>0, <2>3, <2>4 DEF Types
      <3>2. \A i \in 0..Cells-1 : seq'[i] = Shown(R[i])
        BY <1>a, <2>5, <3>1 DEF Shows
      <3>3. \A u \in Threads : pos'[u] = Shown(Q[u])
        BY <1>b, <2>2, <2>3, ShownZero
      <3> QED
        BY <1>a, <2>3, <3>2, <3>3 DEF Shows
    <2>7. CASE op[t] = "TryPush"
      <3>1. Pushes(t) /\ n = P[t] + 1
        BY <2>0, <2>3, <2>7 DEF Pushes
      <3>2. Ideal(h, T, Q, R)'
        BY <1>a, <2>2, <2>3, <2>5, <3>1, PushReleases DEF c
      <3> QED
        BY <2>2, <2>5, <2>6, <3>2 DEF Lifts
    <2>8. CASE op[t] = "TryPop"
      <3>1. Pops(t) /\ n = P[t] + Cells
        BY <2>0, <2>3, <2>8 DEF Pops
      <3>2. Ideal(h, T, Q, R)'
        BY <1>a, <2>2, <2>3, <2>5, <3>1, PopReleases DEF c
      <3> QED
        BY <2>2, <2>5, <2>6, <3>2 DEF Lifts
    <2> QED
      BY <1>0, <2>7, <2>8 DEF Types
  <1>9. CASE UNCHANGED vars
    BY <1>9, <1>a, LiftsKept DEF vars
  <1> QED
    BY <1>1, <1>2, <1>3, <1>4, <1>5, <1>6, <1>7, <1>8, <1>9 DEF Next, Step

LEMMA Inductive == Spec => []RingInv
  <1>1. Init => RingInv
    <2> SUFFICES ASSUME Init PROVE RingInv
      OBVIOUS
    <2>1. Types /\ Written
      <3>1. \A i \in 0..Cells-1 : i \in Int
        BY Sizes
      <3> QED
        BY <3>1 DEF Init, Types, Written
    <2> DEFINE P == [t \in Threads |-> 0]
               S == [i \in 0..Cells-1 |-> i]
    <2>2. P \in Positions /\ S \in Numbers
      BY Sizes DEF Positions, Numbers
    <2>3. Shows(0, 0, P, S)
      <3>1. \A i \in 0..Cells-1 : Shown(i) = i
        BY ShownSmall, Sizes
      <3> QED
        BY <3>1, ShownZero DEF Init, Shows
    <2>4. \A t \in Threads : ~Pushes(t) /\ ~Pops(t) /\ pc[t] = "idle"
      BY DEF Init, Pushes, Pops, Owning
    <2>5. Vacant(0, 0, P, S)
      <3> SUFFICES ASSUME NEW p \in Int, 0 <= p, p < Cells PROVE S[Cell(p)] = p
        BY Sizes DEF Vacant
      <3>1. Cell(p) \in 0..Cells-1 /\ Cell(p) \in Int
        BY ShownCell, Sizes
      <3>2. (Cells * 0 + p) % Cells = p
        BY Remainder, Sizes
      <3>3. Cells * 0 + p = p
        BY Sizes
      <3> QED
        BY <3>1, <3>2, <3>3 DEF Cell
    <2> HIDE DEF P, S
    <2>6. Filled(0, 0, P, S) /\ Pushers(0, 0, P, S) /\ Poppers(0, 0, P, S) /\ Alone(P)
      BY <2>4 DEF Filled, Pushers, Poppers, Alone
    <2>7. Recent(0, 0, P) /\ Ready(0, 0, P, S)
      BY <2>4 DEF Recent, Ready
    <2>8. Ideal(0, 0, P, S)
      BY <2>5, <2>6, <2>7, Sizes DEF Ideal
    <2> QED
      BY <2>1, <2>2, <2>3, <2>8 DEF RingInv, Lifts
  <1>2. RingInv /\ [Next]_vars => RingInv'
    BY TypesStep, LiftsStep, WrittenStep DEF RingInv
  <1> QED
    BY <1>1, <1>2, PTL DEF Spec
-----------------------------------------------------------------------------
(* Refusals. *)

\* A step is one thread's.
LEMMA OneMoves ==
    ASSUME Types, NEW t \in Threads, NEW u \in Threads, u # t,
           Step(t) \/ (\E v \in Values : Call(t, "TryPush", v)) \/ Call(t, "TryPop", None)
    PROVE  pc'[u] = pc[u] /\ op'[u] = op[u] /\ arg'[u] = arg[u] /\ pos'[u] = pos[u]
  <1>1. CASE (\E v \in Values : Call(t, "TryPush", v)) \/ Call(t, "TryPop", None)
    BY <1>1 DEF Call, Types
  <1>2. CASE Load(t) \/ SeqReady(t) \/ SeqPassed(t) \/ CasWins(t) \/ CasLoses(t)
    BY <1>2 DEF Load, SeqReady, SeqPassed, CasWins, CasLoses, local, Types
  <1>3. CASE SeqBehind(t) \/ Publish(t)
    BY <1>3 DEF SeqBehind, Publish, Return, Types
  <1>4. CASE Copy(t) \/ Clear(t)
    BY <1>4 DEF Copy, Clear, local, Types
  <1> QED
    BY <1>1, <1>2, <1>3, <1>4 DEF Step

LEMMA RefusedBehind ==
    ASSUME Types, Next, NEW t \in Threads, pc[t] = "seq", pc'[t] = "idle"
    PROVE  SeqBehind(t)
  <1>1. PICK u \in Threads : \/ \E v \in Values : Call(u, "TryPush", v)
                             \/ Call(u, "TryPop", None)
                             \/ Step(u)
    BY DEF Next
  <1>2. u = t
    BY <1>1, OneMoves
  <1> QED
    BY <1>1, <1>2 DEF Types, Step, Call, Load, SeqReady, SeqPassed, CasWins, CasLoses, Copy, Clear, Publish

\* Why a call is refused: in counters that never wrap.
AtTail(h, T, P, p) == p = T /\ (T = h + Cells \/ \E u \in Threads : Pops(u) /\ P[u] = T - Cells)
AtHead(h, T, P, p) == p = h /\ (h = T \/ \E u \in Threads : Pushes(u) /\ P[u] = h)

LEMMA Refusals ==
    ASSUME NEW h \in Int, NEW T \in Int, NEW P \in Positions, NEW S \in Numbers,
           Types, Shows(h, T, P, S), Ideal(h, T, P, S), NEW t \in Threads, SeqBehind(t)
    PROVE  /\ op[t] = "TryPush" => AtTail(h, T, P, P[t])
           /\ op[t] = "TryPop" => AtHead(h, T, P, P[t])
  <1>1. pc[t] = "seq" /\ Dif(seq[Cell(pos[t])], Turn(t)) < 0
    BY DEF SeqBehind, Behind
  <1>2. P[t] \in Int /\ S[Cell(P[t])] \in Int
    BY ShownCell DEF Positions, Numbers
  <1>3. Near(IF op[t] = "TryPush" THEN T ELSE h, P[t])
    BY <1>1 DEF Ideal, Recent
  <1>4. CASE op[t] = "TryPush"
    <2>0. Dif(seq[Cell(pos[t])], Turn(t)) = S[Cell(P[t])] - P[t]
      BY <1>1, <1>4, Seen
    <2>1. P[t] <= T /\ S[Cell(P[t])] < P[t]
      BY <1>1, <1>2, <1>3, <1>4, <2>0 DEF Near
    <2> QED
      BY <1>2, <1>4, <2>1, BehindAtTail DEF AtTail
  <1>5. CASE op[t] = "TryPop"
    <2>0. Dif(seq[Cell(pos[t])], Turn(t)) = S[Cell(P[t])] - (P[t] + 1)
      BY <1>1, <1>5, Seen
    <2>1. P[t] <= h /\ S[Cell(P[t])] < P[t] + 1
      BY <1>1, <1>2, <1>3, <1>5, <2>0 DEF Near
    <2> QED
      BY <1>2, <1>5, <2>1, BehindAtHead DEF AtHead
  <1> QED
    BY <1>4, <1>5

LEMMA HowMany ==
    ASSUME NEW h \in Int, NEW T \in Int, NEW P \in Positions, NEW S \in Numbers,
           Shows(h, T, P, S), Ideal(h, T, P, S)
    PROVE  (tail - head) % Wrap = T - h /\ T - h \in 0..Cells
  <1>1. T - h \in 0..Cells /\ T - h \in 0..Wrap-1
    BY Sizes DEF Ideal
  <1> QED
    BY <1>1, ShownMinus, ShownSmall DEF Shows

\* TryPush is refused only at the tail, on a full ring or on a cell that a pop
\* has still to release; TryPop only at the head, on an empty ring or on a cell
\* that a push has still to publish.
THEOREM RefusalsHaveCause == Spec => RefusedForCause
  <1> DEFINE Cause(t) ==
          /\ pos[t] = Counter(t)
          /\ \/ op[t] = "TryPush" /\ (tail - head) % Wrap = Cells
             \/ op[t] = "TryPush" /\ Owner("TryPop", (pos[t] - Cells) % Wrap) # {}
             \/ op[t] = "TryPop" /\ head = tail
             \/ op[t] = "TryPop" /\ Owner("TryPush", pos[t]) # {}
  <1>1. ASSUME RingInv, Next, NEW t \in Threads, pc[t] = "seq", pc'[t] = "idle"
        PROVE  Cause(t)
    <2>0. Types /\ SeqBehind(t)
      BY <1>1, RefusedBehind DEF RingInv
    <2>1. PICK h \in Int, T \in Int, P \in Positions, S \in Numbers : Shows(h, T, P, S) /\ Ideal(h, T, P, S)
      BY <1>1 DEF RingInv, Lifts
    <2>2. \A u \in Threads : P[u] \in Int /\ pos[u] = Shown(P[u])
      BY <2>1 DEF Shows, Positions
    <2>3. CASE op[t] = "TryPush"
      <3>1. P[t] = T /\ (T = h + Cells \/ \E u \in Threads : Pops(u) /\ P[u] = T - Cells)
        <4>1. AtTail(h, T, P, P[t])
          BY <2>0, <2>1, <2>3, Refusals
        <4> QED
          BY <4>1 DEF AtTail
      <3>2. pos[t] = Shown(T) /\ pos[t] = Counter(t)
        BY <2>1, <2>2, <2>3, <3>1 DEF Counter, Shows
      <3>3. CASE T = h + Cells
        BY <2>1, <2>3, <3>2, <3>3, HowMany, Sizes
      <3>4. ASSUME NEW u \in Threads, Pops(u), P[u] = T - Cells PROVE Cause(t)
        <4>1. (pos[t] - Cells) % Wrap = Shown(T - Cells)
          <5> DEFINE n == 0 - Cells
          <5>1. n \in Int /\ Shown(T) + n = Shown(T) - Cells /\ T + n = T - Cells
            BY ShownMultiple, Sizes
          <5> HIDE DEF n
          <5>2. Plus(Shown(T), n) = Shown(T + n)
            BY <5>1, ShownPlus
          <5> QED
            BY <3>2, <5>1, <5>2 DEF Plus
        <4>2. u \in Owner("TryPop", (pos[t] - Cells) % Wrap)
          BY <2>2, <3>4, <4>1 DEF Owner, Pops, Owning
        <4> QED
          BY <2>3, <3>2, <4>2
      <3> QED
        BY <3>1, <3>3, <3>4
    <2>4. CASE op[t] = "TryPop"
      <3>1. P[t] = h /\ (h = T \/ \E u \in Threads : Pushes(u) /\ P[u] = h)
        <4>1. AtHead(h, T, P, P[t])
          BY <2>0, <2>1, <2>4, Refusals
        <4> QED
          BY <4>1 DEF AtHead
      <3>2. pos[t] = Shown(h) /\ pos[t] = Counter(t)
        BY <2>1, <2>2, <2>4, <3>1 DEF Counter, Shows
      <3>3. CASE T = h
        BY <2>1, <2>4, <3>2, <3>3 DEF Shows
      <3>4. ASSUME NEW u \in Threads, Pushes(u), P[u] = h PROVE Cause(t)
        <4>1. u \in Owner("TryPush", pos[t])
          BY <2>2, <3>2, <3>4 DEF Owner, Pushes, Owning
        <4> QED
          BY <2>4, <3>2, <4>1
      <3> QED
        BY <3>1, <3>3, <3>4
    <2> QED
      BY <2>0, <2>3, <2>4 DEF Types
  <1>2. RingInv /\ [Next]_vars =>
          [\A t \in Threads : pc[t] = "seq" /\ pc'[t] = "idle" => Cause(t)]_vars
    BY <1>1
  <1> QED
    BY <1>2, Inductive, PTL DEF Spec, RefusedForCause
-----------------------------------------------------------------------------
(* The abstract queue. *)

Things == Values \cup {None}

LEMMA ElementFor ==
    ASSUME Types, NEW x
    PROVE  /\ \A u \in Threads : Owner("TryPush", x) = {u} => Element(x) = arg[u]
           /\ Owner("TryPush", x) = {} => Element(x) = val[Cell(x)]
           /\ Cell(x) \in 0..Cells-1 => Element(x) \in Things
  <1>1. ASSUME NEW u \in Threads, Owner("TryPush", x) = {u} PROVE Element(x) = arg[u]
    <2>1. (CHOOSE t \in {u} : TRUE) = u
      OBVIOUS
    <2> QED
      BY <1>1, <2>1 DEF Element
  <1>2. Owner("TryPush", x) = {} => Element(x) = val[Cell(x)]
    BY DEF Element
  <1>3. ASSUME Cell(x) \in 0..Cells-1 PROVE Element(x) \in Things
    <2> DEFINE pushing == Owner("TryPush", x)
               c == CHOOSE t \in pushing : TRUE
    <2>1. pushing # {} => c \in Threads
      <3>1. pushing # {} => c \in pushing
        OBVIOUS
      <3> QED
        BY <3>1 DEF Owner
    <2>2. Element(x) = IF pushing = {} THEN val[Cell(x)] ELSE arg[c]
      BY DEF Element
    <2> HIDE DEF pushing, c
    <2>3. CASE pushing = {}
      BY <1>3, <2>2, <2>3 DEF Types, Things
    <2>4. CASE pushing # {}
      BY <2>1, <2>2, <2>4 DEF Types, Things
    <2> QED
      BY <2>3, <2>4
  <1> QED
    BY <1>1, <1>2, <1>3

\* An element stays the same while its pushers, its cell and their elements do.
LEMMA ElementSame ==
    ASSUME NEW x, Owner("TryPush", x)' = Owner("TryPush", x),
           \A u \in Owner("TryPush", x) : arg'[u] = arg[u],
           Owner("TryPush", x) = {} => val'[Cell(x)] = val[Cell(x)]
    PROVE  Element(x)' = Element(x)
  <1> DEFINE pushing == Owner("TryPush", x)
             c == CHOOSE t \in pushing : TRUE
  <1>1. pushing # {} => c \in pushing
    OBVIOUS
  <1>2. Element(x) = IF pushing = {} THEN val[Cell(x)] ELSE arg[c]
    BY DEF Element
  <1>3. Element(x)' = IF pushing = {} THEN val'[Cell(x)] ELSE arg'[c]
    BY DEF Element
  <1> HIDE DEF pushing, c
  <1> QED
    BY <1>1, <1>2, <1>3 DEF pushing

\* The pushers of a position, seen from the counters that never wrap.
LEMMA OwnerIs ==
    ASSUME NEW h \in Int, NEW T \in Int, NEW P \in Positions, NEW S \in Numbers,
           Shows(h, T, P, S), Ideal(h, T, P, S), NEW p \in Int, h <= p, p <= T
    PROVE  /\ \A u \in Threads : Pushes(u) /\ P[u] = p => Owner("TryPush", Shown(p)) = {u}
           /\ (\A u \in Threads : ~(Pushes(u) /\ P[u] = p)) => Owner("TryPush", Shown(p)) = {}
  <1>1. ASSUME NEW u \in Owner("TryPush", Shown(p)) PROVE u \in Threads /\ Pushes(u) /\ P[u] = p
    <2>1. u \in Threads /\ Pushes(u) /\ pos[u] = Shown(p)
      BY DEF Owner, Pushes, Owning
    <2>2. Shown(P[u]) = Shown(p) /\ P[u] \in Int
      BY <2>1 DEF Shows, Positions
    <2>3. h <= P[u] /\ P[u] < T /\ T <= h + Cells
      BY <2>1 DEF Ideal, Pushers
    <2>4. P[u] - p < Wrap /\ p - P[u] < Wrap
      BY <2>2, <2>3, Sizes
    <2> QED
      BY <2>1, <2>2, <2>4, ShownApart
  <1>2. ASSUME NEW u \in Threads, Pushes(u), P[u] = p PROVE u \in Owner("TryPush", Shown(p))
    BY <1>2 DEF Owner, Pushes, Owning, Shows
  <1>3. \A u, w \in Threads : Pushes(u) /\ Pushes(w) /\ P[u] = P[w] => u = w
    BY DEF Ideal, Alone
  <1>4. ASSUME NEW u \in Threads, Pushes(u), P[u] = p PROVE Owner("TryPush", Shown(p)) = {u}
    BY <1>1, <1>2, <1>3, <1>4
  <1> QED
    BY <1>1, <1>4

LEMMA IsASequence ==
    ASSUME NEW V, NEW n \in Nat, NEW f \in [1..n -> V]
    PROVE  f \in Seq(V) /\ Len(f) = n
  OBVIOUS

\* The contents, in the same counters.
LEMMA ContentsAre ==
    ASSUME NEW h \in Int, NEW T \in Int, NEW P \in Positions, NEW S \in Numbers,
           Types, Shows(h, T, P, S), Ideal(h, T, P, S)
    PROVE  /\ Contents = [i \in 1..T-h |-> Element(Shown(h + (i - 1)))]
           /\ Contents \in Seq(Things) /\ Len(Contents) = T - h /\ T - h \in 0..Cells
           /\ \A i \in 1..T-h : Contents[i] = Element(Shown(h + (i - 1)))
  <1>1. (tail - head) % Wrap = T - h /\ T - h \in 0..Cells
    BY HowMany
  <1>2. ASSUME NEW i \in 1..T-h
        PROVE  /\ Plus(head, i - 1) = Shown(h + (i - 1))
               /\ Element(Shown(h + (i - 1))) \in Things
    <2>1. i - 1 \in Int /\ h + (i - 1) \in Int
      OBVIOUS
    <2>2. Plus(head, i - 1) = Shown(h + (i - 1))
      BY <2>1, ShownPlus DEF Shows
    <2>3. Cell(Shown(h + (i - 1))) \in 0..Cells-1
      BY <2>1, ShownCell
    <2> QED
      BY <2>2, <2>3, ElementFor
  <1>3. Contents = [i \in 1..T-h |-> Element(Shown(h + (i - 1)))]
    BY <1>1, <1>2 DEF Contents
  <1>4. T - h \in Nat
    BY <1>1, Sizes
  <1>5. \A i \in 1..T-h : Contents[i] = Element(Shown(h + (i - 1))) /\ Contents[i] \in Things
    BY <1>2, <1>3
  <1>6. Contents \in Seq(Things) /\ Len(Contents) = T - h
    <2> DEFINE n == T - h
    <2>1. n \in Nat /\ DOMAIN Contents = 1..n /\ Contents = [i \in 1..n |-> Contents[i]]
      BY <1>3, <1>4
    <2>2. \A i \in 1..n : Contents[i] \in Things
      BY <1>5
    <2> HIDE DEF n
    <2>3. Contents \in [1..n -> Things]
      BY <2>1, <2>2
    <2> QED
      BY <2>1, <2>3, IsASequence DEF n
  <1> QED
    BY <1>1, <1>3, <1>5, <1>6

\* Steps that leave the counters and each element leave the contents.
LEMMA ContentsSame ==
    ASSUME NEW h \in Int, NEW T \in Int, NEW P \in Positions, NEW S \in Numbers,
           Types, Shows(h, T, P, S), Ideal(h, T, P, S), head' = head, tail' = tail,
           \A p \in Int : h <= p /\ p < T => Element(Shown(p))' = Element(Shown(p))
    PROVE  Contents' = Contents
  <1>1. (tail - head) % Wrap = T - h /\ T - h \in 0..Cells
    BY HowMany
  <1>2. ASSUME NEW i \in 1..T-h
        PROVE  Element(Plus(head, i - 1))' = Element(Plus(head, i - 1))
    <2> DEFINE p == h + (i - 1)
    <2>1. i - 1 \in Int /\ p \in Int /\ h <= p /\ p < T
      OBVIOUS
    <2>2. Plus(head, i - 1) = Shown(p)
      BY <2>1, ShownPlus DEF Shows
    <2>3. Element(Shown(p))' = Element(Shown(p))
      BY <2>1
    <2>4. Plus(head, i - 1)' = Shown(p)
      BY <2>2 DEF Plus
    <2> QED
      BY <2>2, <2>3, <2>4
  <1>3. Contents' = [i \in 1..((tail - head) % Wrap) |-> Element(Plus(head, i - 1))']
    BY DEF Contents
  <1> QED
    BY <1>1, <1>2, <1>3 DEF Contents

\* What the other threads keep.
Still(t) ==
    \A u \in Threads \ {t} :
        pc'[u] = pc[u] /\ op'[u] = op[u] /\ arg'[u] = arg[u] /\ pos'[u] = pos[u]

\* A step of a thread that pushes nothing, before or after, and clears nothing.
LEMMA Untouched ==
    ASSUME RingInv, NEW t \in Threads, Still(t), head' = head, tail' = tail, val' = val,
           ~Pushes(t), ~Pushes(t)'
    PROVE  Contents' = Contents
  <1>1. PICK h \in Int, T \in Int, P \in Positions, S \in Numbers : Shows(h, T, P, S) /\ Ideal(h, T, P, S)
    BY DEF RingInv, Lifts
  <1>2. ASSUME NEW p \in Int PROVE Element(Shown(p))' = Element(Shown(p))
    <2> DEFINE x == Shown(p)
    <2>1. \A u \in Threads : (u \in Owner("TryPush", x)' <=> u \in Owner("TryPush", x))
      BY DEF Owner, Still, Pushes, Owning
    <2>2. Owner("TryPush", x)' = Owner("TryPush", x)
      BY <2>1 DEF Owner
    <2>3. \A u \in Owner("TryPush", x) : u \in Threads /\ u # t
      BY DEF Owner, Pushes, Owning
    <2>4. \A u \in Owner("TryPush", x) : arg'[u] = arg[u]
      BY <2>3 DEF Still
    <2> HIDE DEF x
    <2>5. Element(x)' = Element(x)
      BY <2>2, <2>4, ElementSame
    <2> QED
      BY <2>5 DEF x
  <1> QED
    BY <1>1, <1>2, ContentsSame DEF RingInv

\* A push writes into its own cell.
LEMMA CopyKeeps ==
    ASSUME RingInv, NEW t \in Threads, Copy(t), op[t] = "TryPush"
    PROVE  Contents' = Contents
  <1>0. Types
    BY DEF RingInv
  <1>1. PICK h \in Int, T \in Int, P \in Positions, S \in Numbers : Shows(h, T, P, S) /\ Ideal(h, T, P, S)
    BY DEF RingInv, Lifts
  <1>2. /\ head' = head /\ tail' = tail /\ arg' = arg /\ op' = op /\ pos' = pos /\ Pushes(t)
        /\ val' = [val EXCEPT ![Cell(pos[t])] = arg[t]] /\ pc' = [pc EXCEPT ![t] = "publish"]
    BY DEF Copy, Pushes, Owning
  <1>3. P[t] \in Int /\ h <= P[t] /\ P[t] < T /\ T <= h + Cells /\ Cell(pos[t]) = Cell(P[t])
    BY <1>1, <1>2, ShownCell DEF Ideal, Pushers, Positions, Shows
  <1>4. ASSUME NEW p \in Int, h <= p, p < T PROVE Element(Shown(p))' = Element(Shown(p))
    <2> DEFINE x == Shown(p)
    <2>1. \A u \in Threads : (u \in Owner("TryPush", x)' <=> u \in Owner("TryPush", x))
      BY <1>0, <1>2 DEF Owner, Types, Pushes, Owning
    <2>2. Owner("TryPush", x)' = Owner("TryPush", x)
      BY <2>1 DEF Owner
    <2>3. Cell(x) = Cell(p) /\ Cell(p) \in 0..Cells-1
      BY ShownCell
    <2>4. CASE p = P[t]
      <3>1. t \in Owner("TryPush", x)
        BY <1>1, <1>2, <2>4 DEF Owner, Pushes, Owning, Shows
      <3> QED
        BY <1>2, <2>2, <3>1, ElementSame
    <2>5. CASE p # P[t]
      <3>1. p - P[t] < Cells /\ P[t] - p < Cells
        BY <1>3, <1>4, Sizes
      <3>2. Cell(x) # Cell(pos[t])
        BY <1>3, <2>3, <2>5, <3>1, CellApart
      <3>3. val'[Cell(x)] = val[Cell(x)]
        BY <1>0, <1>2, <2>3, <3>2 DEF Types
      <3> QED
        BY <1>2, <2>2, <3>3, ElementSame
    <2> QED
      BY <2>4, <2>5
  <1> QED
    BY <1>0, <1>1, <1>2, <1>4, ContentsSame

\* A pop clears a cell that no element in the queue is in.
LEMMA ClearKeeps ==
    ASSUME RingInv, NEW t \in Threads, Clear(t)
    PROVE  Contents' = Contents
  <1>0. Types
    BY DEF RingInv
  <1>1. PICK h \in Int, T \in Int, P \in Positions, S \in Numbers : Shows(h, T, P, S) /\ Ideal(h, T, P, S)
    BY DEF RingInv, Lifts
  <1>2. /\ head' = head /\ tail' = tail /\ arg' = arg /\ op' = op /\ pos' = pos /\ Pops(t)
        /\ val' = [val EXCEPT ![Cell(pos[t])] = None] /\ pc' = [pc EXCEPT ![t] = "publish"]
    BY <1>0 DEF Clear, Pops, Owning, Types, local
  <1>3. P[t] \in Int /\ P[t] < h /\ T <= P[t] + Cells /\ Cell(pos[t]) = Cell(P[t])
    BY <1>1, <1>2, ShownCell DEF Ideal, Poppers, Positions, Shows
  <1>4. ASSUME NEW p \in Int, h <= p, p < T PROVE Element(Shown(p))' = Element(Shown(p))
    <2> DEFINE x == Shown(p)
    <2>1. \A u \in Threads : (u \in Owner("TryPush", x)' <=> u \in Owner("TryPush", x))
      BY <1>0, <1>2 DEF Owner, Types, Pops, Owning
    <2>2. Owner("TryPush", x)' = Owner("TryPush", x)
      BY <2>1 DEF Owner
    <2>3. Cell(x) = Cell(p) /\ Cell(p) \in 0..Cells-1
      BY ShownCell
    <2>4. p - P[t] < Cells /\ P[t] - p < Cells /\ p # P[t]
      BY <1>3, <1>4, Sizes
    <2>5. Cell(x) # Cell(pos[t])
      BY <1>3, <2>3, <2>4, CellApart
    <2>6. val'[Cell(x)] = val[Cell(x)]
      BY <1>0, <1>2, <2>3, <2>5 DEF Types
    <2> QED
      BY <1>2, <2>2, <2>6, ElementSame
  <1> QED
    BY <1>0, <1>1, <1>2, <1>4, ContentsSame

\* What a push publishes is in its cell.
LEMMA PublishKeeps ==
    ASSUME RingInv, NEW t \in Threads, Publish(t), op[t] = "TryPush"
    PROVE  Contents' = Contents
  <1>0. Types /\ val[Cell(pos[t])] = arg[t]
    BY DEF RingInv, Written, Publish
  <1>1. PICK h \in Int, T \in Int, P \in Positions, S \in Numbers : Shows(h, T, P, S) /\ Ideal(h, T, P, S)
    BY DEF RingInv, Lifts
  <1>2. head' = head /\ tail' = tail /\ val' = val /\ Pushes(t) /\ Still(t) /\ pc'[t] = "idle" /\ pc[t] \in Owning
    BY <1>0 DEF Publish, Return, Pushes, Owning, Still, Types
  <1>3. P[t] \in Int /\ h <= P[t] /\ P[t] < T /\ pos[t] = Shown(P[t]) /\ Cell(pos[t]) = Cell(P[t])
    BY <1>1, <1>2, ShownCell DEF Ideal, Pushers, Positions, Shows
  <1>4. ASSUME NEW p \in Int, h <= p, p < T PROVE Element(Shown(p))' = Element(Shown(p))
    <2>1. \A u \in Threads \ {t} : (u \in Owner("TryPush", Shown(p))' <=> u \in Owner("TryPush", Shown(p)))
      BY <1>2 DEF Owner, Still
    <2>2. t \notin Owner("TryPush", Shown(p))'
      BY <1>2 DEF Owner
    <2>3. CASE p = P[t]
      <3>1. Owner("TryPush", Shown(p)) = {t}
        BY <1>1, <1>2, <1>3, <1>4, <2>3, OwnerIs
      <3>2. Owner("TryPush", Shown(p))' = {}
        BY <2>1, <2>2, <3>1 DEF Owner
      <3>3. Element(Shown(p)) = arg[t]
        BY <1>0, <3>1, ElementFor
      <3>4. Element(Shown(p))' = val'[Cell(Shown(p))]
        BY <3>2 DEF Element
      <3> QED
        BY <1>0, <1>2, <1>3, <2>3, <3>3, <3>4
    <2>4. CASE p # P[t]
      <3>1. t \notin Owner("TryPush", Shown(p))
        <4>1. P[t] - p < Wrap /\ p - P[t] < Wrap
          BY <1>1, <1>3, <1>4, Sizes DEF Ideal
        <4> QED
          BY <1>3, <2>4, <4>1, ShownApart DEF Owner
      <3>2. Owner("TryPush", Shown(p))' = Owner("TryPush", Shown(p))
        BY <2>1, <2>2, <3>1 DEF Owner
      <3>3. \A u \in Owner("TryPush", Shown(p)) : arg'[u] = arg[u]
        BY <1>2, <3>1 DEF Owner, Still
      <3> QED
        BY <1>2, <3>2, <3>3, ElementSame
    <2> QED
      BY <2>3, <2>4
  <1> QED
    BY <1>0, <1>1, <1>2, <1>4, ContentsSame

LEMMA Appended ==
    ASSUME NEW V, NEW s \in Seq(V), NEW v \in V, NEW f,
           f = [i \in 1..Len(s)+1 |-> IF i = Len(s) + 1 THEN v ELSE s[i]]
    PROVE  f = Append(s, v)
  <1>1. Append(s, v) \in Seq(V) /\ Len(Append(s, v)) = Len(s) + 1 /\ Len(s) \in Nat
    OBVIOUS
  <1>2. \A i \in 1..Len(s)+1 : Append(s, v)[i] = IF i = Len(s) + 1 THEN v ELSE s[i]
    OBVIOUS
  <1> DEFINE a == Append(s, v)
  <1>3. a \in Seq(V) /\ Len(a) = Len(s) + 1
        /\ \A i \in 1..Len(s)+1 : a[i] = IF i = Len(s) + 1 THEN v ELSE s[i]
    BY <1>1, <1>2
  <1> HIDE DEF a
  <1>4. DOMAIN a = 1..Len(s)+1 /\ a = [i \in 1..Len(s)+1 |-> a[i]]
    BY <1>3
  <1>5. a = f
    BY <1>3, <1>4
  <1> QED
    BY <1>5 DEF a

LEMMA Shortened ==
    ASSUME NEW V, NEW s \in Seq(V), s # <<>>, NEW f, f = [i \in 1..Len(s)-1 |-> s[i + 1]]
    PROVE  f = Tail(s)
  <1>1. Tail(s) \in Seq(V) /\ Len(Tail(s)) = Len(s) - 1 /\ Len(s) \in Nat
    OBVIOUS
  <1>2. \A i \in 1..Len(s)-1 : Tail(s)[i] = s[i + 1]
    OBVIOUS
  <1> DEFINE a == Tail(s)
  <1>3. a \in Seq(V) /\ Len(a) = Len(s) - 1 /\ \A i \in 1..Len(s)-1 : a[i] = s[i + 1]
    BY <1>1, <1>2
  <1> HIDE DEF a
  <1>4. DOMAIN a = 1..Len(s)-1 /\ a = [i \in 1..Len(s)-1 |-> a[i]]
    BY <1>3
  <1>5. a = f
    BY <1>3, <1>4
  <1> QED
    BY <1>5 DEF a

\* The position that a compare-and-swap wins.
Won(h, T, P, S, t) ==
    IF op[t] = "TryPush" THEN /\ P[t] = T /\ head' = head /\ tail' = Shown(T + 1)
                              /\ S[Cell(T)] = T /\ T < h + Cells
                         ELSE /\ P[t] = h /\ tail' = tail /\ head' = Shown(h + 1)
                              /\ S[Cell(h)] = h + 1 /\ h < T

LEMMA Wins ==
    ASSUME NEW h \in Int, NEW T \in Int, NEW P \in Positions, NEW S \in Numbers,
           Types, Shows(h, T, P, S), Ideal(h, T, P, S), NEW t \in Threads, CasWins(t)
    PROVE  Won(h, T, P, S, t)
  <1>1. pos[t] = Shown(P[t]) /\ P[t] \in Int /\ Plus(pos[t], 1) = Shown(P[t] + 1) /\ pc[t] = "cas"
    <2>1. pos[t] = Shown(P[t]) /\ P[t] \in Int /\ pc[t] = "cas"
      BY DEF Shows, Positions, CasWins
    <2>2. Plus(Shown(P[t]), 1) = Shown(P[t] + 1)
      BY <2>1, ShownNext
    <2> QED
      BY <2>1, <2>2
  <1>2. CASE op[t] = "TryPush"
    <2>1. tail = pos[t] /\ tail' = Plus(pos[t], 1) /\ head' = head
      BY <1>2 DEF CasWins, Counter
    <2>2. Near(T, P[t])
      BY <1>1, <1>2 DEF Ideal, Recent
    <2>3. Shown(P[t]) = Shown(T) /\ P[t] - T < Wrap /\ T - P[t] < Wrap
      BY <1>1, <2>1, <2>2, Sizes DEF Shows, Near
    <2>4. P[t] = T
      BY <1>1, <2>3, ShownApart
    <2>5. S[Cell(T)] = T
      BY <1>1, <1>2, <2>4 DEF Ideal, Ready, ReadyPush
    <2>6. T < h + Cells
      BY <2>5, Room
    <2> QED
      BY <1>1, <1>2, <2>1, <2>4, <2>5, <2>6 DEF Won
  <1>3. CASE op[t] = "TryPop"
    <2>1. head = pos[t] /\ head' = Plus(pos[t], 1) /\ tail' = tail
      BY <1>3 DEF CasWins, Counter
    <2>2. Near(h, P[t])
      BY <1>1, <1>3 DEF Ideal, Recent
    <2>3. Shown(P[t]) = Shown(h) /\ P[t] - h < Wrap /\ h - P[t] < Wrap
      BY <1>1, <2>1, <2>2, Sizes DEF Shows, Near
    <2>4. P[t] = h
      BY <1>1, <2>3, ShownApart
    <2>5. S[Cell(h)] = h + 1
      BY <1>1, <1>3, <2>4 DEF Ideal, Ready, ReadyPop
    <2>6. h < T
      BY <2>5, Stock
    <2> QED
      BY <1>1, <1>3, <2>1, <2>4, <2>5, <2>6 DEF Won
  <1> QED
    BY <1>2, <1>3 DEF Types

\* A push that wins its position puts its element at the end.
LEMMA PushAppends ==
    ASSUME RingInv, NEW t \in Threads, CasWins(t), op[t] = "TryPush"
    PROVE  /\ Contents' = Append(Contents, arg[t])
           /\ Contents \in Seq(Things) /\ Len(Contents) < Cells
  <1>0. Types
    BY DEF RingInv
  <1>1. PICK h \in Int, T \in Int, P \in Positions, S \in Numbers : Shows(h, T, P, S) /\ Ideal(h, T, P, S)
    BY DEF RingInv, Lifts
  <1>2. P[t] = T /\ head' = head /\ tail' = Shown(T + 1) /\ S[Cell(T)] = T /\ T < h + Cells
    <2>1. Won(h, T, P, S, t)
      BY <1>0, <1>1, Wins
    <2> QED
      BY <2>1 DEF Won
  <1>3. /\ op' = op /\ pos' = pos /\ arg' = arg /\ val' = val /\ pc[t] = "cas" /\ pc'[t] = "copy"
        /\ \A u \in Threads \ {t} : pc'[u] = pc[u]
    BY <1>0 DEF CasWins, local, Types
  <1>4. /\ Contents \in Seq(Things) /\ Len(Contents) = T - h /\ T - h \in 0..Cells
        /\ \A i \in 1..T-h : Contents[i] = Element(Shown(h + (i - 1)))
    BY <1>0, <1>1, ContentsAre
  <1>5. ((tail - head) % Wrap)' = (T - h) + 1
    <2>1. (T + 1) - h \in 0..Wrap-1 /\ T + 1 \in Int /\ (T + 1) - h = (T - h) + 1
      BY <1>2, <1>4, Sizes
    <2>2. (Shown(T + 1) - Shown(h)) % Wrap = Shown((T + 1) - h)
      BY <2>1, ShownMinus
    <2>3. Shown((T + 1) - h) = (T + 1) - h
      BY <2>1, ShownSmall
    <2> QED
      BY <1>1, <1>2, <2>1, <2>2, <2>3 DEF Shows
  <1>6. \A x : \A u \in Threads \ {t} : (u \in Owner("TryPush", x)' <=> u \in Owner("TryPush", x))
    BY <1>3 DEF Owner
  <1>7. \A x : t \notin Owner("TryPush", x)
    BY <1>3 DEF Owner
  <1>8. ASSUME NEW p \in Int, h <= p, p < T PROVE Element(Shown(p))' = Element(Shown(p))
    <2>1. p - T < Wrap /\ T - p < Wrap /\ h <= T /\ T <= h + Cells
      BY <1>1, <1>8, Sizes DEF Ideal
    <2>2. Shown(p) # Shown(T)
      BY <1>8, <2>1, ShownApart
    <2>3. t \notin Owner("TryPush", Shown(p))'
      BY <1>1, <1>2, <1>3, <2>2 DEF Owner, Shows
    <2>4. Owner("TryPush", Shown(p))' = Owner("TryPush", Shown(p))
      BY <1>6, <1>7, <2>3 DEF Owner
    <2> QED
      BY <1>3, <2>4, ElementSame
  <1>9. Element(Shown(T))' = arg[t]
    <2>1. Owner("TryPush", Shown(T)) = {}
      <3>1. \A u \in Threads : ~(Pushes(u) /\ P[u] = T)
        BY <1>1 DEF Ideal, Pushers
      <3>2. h <= T /\ T <= T
        BY <1>1 DEF Ideal
      <3> QED
        BY <1>1, <3>1, <3>2, OwnerIs
    <2>2. t \in Owner("TryPush", Shown(T))'
      BY <1>1, <1>2, <1>3 DEF Owner, Shows
    <2>3. Owner("TryPush", Shown(T))' = {t}
      BY <1>6, <2>1, <2>2 DEF Owner
    <2>4. (CHOOSE u \in {t} : TRUE) = t
      OBVIOUS
    <2> QED
      BY <1>3, <2>3, <2>4 DEF Element
  <1>10. ASSUME NEW i \in 1..(T-h)+1
         PROVE  Element(Plus(head, i - 1))' = IF i = (T - h) + 1 THEN arg[t] ELSE Contents[i]
    <2>1. PICK p \in Int : p = h + (i - 1)
      OBVIOUS
    <2>2. i - 1 \in Int /\ Plus(head, i - 1) = Shown(p)
      BY <1>1, <2>1, ShownPlus DEF Shows
    <2>3. Element(Plus(head, i - 1))' = Element(Shown(p))'
      BY <1>2, <2>2 DEF Plus
    <2>4. CASE i = (T - h) + 1
      <3>1. p = T
        BY <2>1, <2>4
      <3> QED
        BY <1>9, <2>3, <2>4, <3>1
    <2>5. CASE i # (T - h) + 1
      <3>1. h <= p /\ p < T /\ i \in 1..T-h
        BY <1>4, <2>1, <2>5
      <3> QED
        BY <1>4, <1>8, <2>1, <2>3, <2>5, <3>1
    <2> QED
      BY <2>4, <2>5
  <1>11. Contents' = [i \in 1..(T-h)+1 |-> IF i = (T - h) + 1 THEN arg[t] ELSE Contents[i]]
    <2>1. Contents' = [i \in 1..((tail - head) % Wrap)' |-> Element(Plus(head, i - 1))']
      BY DEF Contents
    <2> QED
      BY <1>5, <1>10, <2>1
  <1>12. arg[t] \in Things
    BY <1>0 DEF Types, Things
  <1>13. Contents' = Append(Contents, arg[t])
    BY <1>4, <1>11, <1>12, Appended
  <1> QED
    BY <1>2, <1>4, <1>13, Sizes

\* A pop that wins its position takes the first element, which its cell holds.
LEMMA PopTakes ==
    ASSUME RingInv, NEW t \in Threads, CasWins(t), op[t] = "TryPop"
    PROVE  /\ Contents' = Tail(Contents)
           /\ Contents # <<>> /\ Head(Contents) = val[Cell(pos[t])]
  <1>0. Types
    BY DEF RingInv
  <1>1. PICK h \in Int, T \in Int, P \in Positions, S \in Numbers : Shows(h, T, P, S) /\ Ideal(h, T, P, S)
    BY DEF RingInv, Lifts
  <1>2. P[t] = h /\ tail' = tail /\ head' = Shown(h + 1) /\ S[Cell(h)] = h + 1 /\ h < T
    <2>1. Won(h, T, P, S, t)
      BY <1>0, <1>1, Wins
    <2> QED
      BY <2>1 DEF Won
  <1>3. /\ op' = op /\ pos' = pos /\ arg' = arg /\ val' = val /\ op[t] = "TryPop"
        /\ \A u \in Threads \ {t} : pc'[u] = pc[u]
    BY <1>0 DEF CasWins, local, Types
  <1>4. /\ Contents \in Seq(Things) /\ Len(Contents) = T - h /\ T - h \in 0..Cells
        /\ \A i \in 1..T-h : Contents[i] = Element(Shown(h + (i - 1)))
    BY <1>0, <1>1, ContentsAre
  <1>5. ((tail - head) % Wrap)' = (T - h) - 1
    <2>1. T - (h + 1) \in 0..Wrap-1 /\ h + 1 \in Int /\ T - (h + 1) = (T - h) - 1
      BY <1>2, <1>4, Sizes
    <2>2. (Shown(T) - Shown(h + 1)) % Wrap = Shown(T - (h + 1))
      BY <2>1, ShownMinus
    <2>3. Shown(T - (h + 1)) = T - (h + 1)
      BY <2>1, ShownSmall
    <2> QED
      BY <1>1, <1>2, <2>1, <2>2, <2>3 DEF Shows
  <1>6. \A x : Element(x)' = Element(x)
    <2> TAKE x
    <2>1. \A u \in Threads : (u \in Owner("TryPush", x)' <=> u \in Owner("TryPush", x))
      BY <1>3 DEF Owner
    <2>2. Owner("TryPush", x)' = Owner("TryPush", x)
      BY <2>1 DEF Owner
    <2> QED
      BY <1>3, <2>2, ElementSame
  <1>7. ASSUME NEW i \in 1..(T-h)-1 PROVE Element(Plus(head, i - 1))' = Contents[i + 1]
    <2>1. PICK p \in Int : p = h + i
      OBVIOUS
    <2>2. i - 1 \in Int /\ h + 1 \in Int /\ (h + 1) + (i - 1) = p
      BY <2>1
    <2>3. Plus(Shown(h + 1), i - 1) = Shown(p)
      BY <2>2, ShownPlus
    <2>4. Plus(head, i - 1)' = Shown(p)
      BY <1>2, <2>3 DEF Plus
    <2>5. i + 1 \in 1..T-h /\ h + ((i + 1) - 1) = p
      BY <1>4, <2>1
    <2>6. Element(Plus(head, i - 1))' = Element(Shown(p))'
      BY <2>4
    <2> QED
      BY <1>4, <1>6, <2>5, <2>6
  <1>8. Contents' = [i \in 1..Len(Contents)-1 |-> Contents[i + 1]]
    <2>1. Contents' = [i \in 1..((tail - head) % Wrap)' |-> Element(Plus(head, i - 1))']
      BY DEF Contents
    <2> QED
      BY <1>4, <1>5, <1>7, <2>1
  <1>9. Contents # <<>> /\ Head(Contents) = Contents[1] /\ Contents[1] = Element(Shown(h))
    <2>1. 1 \in 1..T-h /\ h + (1 - 1) = h
      BY <1>2
    <2>2. Contents[1] = Element(Shown(h))
      BY <1>4, <2>1
    <2> QED
      BY <1>2, <1>4, <2>2
  <1>10. Element(Shown(h)) = val[Cell(pos[t])]
    <2>1. \A u \in Threads : ~(Pushes(u) /\ P[u] = h)
      BY <1>1, <1>2 DEF Ideal, Pushers
    <2>2. Owner("TryPush", Shown(h)) = {}
      BY <1>1, <1>2, <2>1, OwnerIs
    <2>3. pos[t] = Shown(h)
      BY <1>1, <1>2 DEF Shows
    <2> QED
      BY <1>0, <2>2, <2>3, ElementFor
  <1> QED
    BY <1>4, <1>8, <1>9, <1>10, Shortened

\* The call that a thread is in.
Waits == {"load", "seq", "cas"}
Result(t) == IF op[t] = "TryPush" THEN None ELSE IF pc[t] = "copy" THEN val[Cell(pos[t])] ELSE arg[t]

LEMMA CallsAre ==
    ASSUME RingInv, NEW t \in Threads
    PROVE  /\ pc[t] = "idle" => Calls[t] = None
           /\ pc[t] \in Waits => /\ Calls[t] = [op |-> op[t], val |-> arg[t], done |-> FALSE]
                                 /\ Calls[t] # None
           /\ pc[t] \in Owning => /\ Calls[t] = [op |-> op[t], val |-> Result(t), done |-> TRUE]
                                  /\ Calls[t] # None
  <1>0. Types /\ Cell(pos[t]) \in 0..Cells-1
    BY LiftsShow DEF RingInv
  <1>1. Calls[t] = Called(t)
    BY DEF Calls
  <1>2. \A r \in [op : {"TryPush", "TryPop"}, val : Things, done : BOOLEAN] : r # None
    BY RingAssumption DEF RingAssumption, Things
  <1>3. op[t] \in {"TryPush", "TryPop"} /\ arg[t] \in Things /\ Result(t) \in Things
    BY <1>0 DEF Types, Result, Things
  <1>4. pc[t] = "idle" => Called(t) = None
    BY DEF Called
  <1>5. ASSUME pc[t] \in Waits
        PROVE  Called(t) = [op |-> op[t], val |-> arg[t], done |-> FALSE] /\ Called(t) # None
    <2>1. Called(t) = [op |-> op[t], val |-> arg[t], done |-> FALSE]
      BY <1>5 DEF Called, Waits
    <2>2. [op |-> op[t], val |-> arg[t], done |-> FALSE] \in [op : {"TryPush", "TryPop"}, val : Things, done : BOOLEAN]
      BY <1>3
    <2> QED
      BY <1>2, <2>1, <2>2
  <1>6. ASSUME pc[t] \in Owning
        PROVE  Called(t) = [op |-> op[t], val |-> Result(t), done |-> TRUE] /\ Called(t) # None
    <2>1. Called(t) = [op |-> op[t], val |-> Result(t), done |-> TRUE]
      BY <1>6 DEF Called, Owning, Result
    <2>2. [op |-> op[t], val |-> Result(t), done |-> TRUE] \in [op : {"TryPush", "TryPop"}, val : Things, done : BOOLEAN]
      BY <1>3
    <2> QED
      BY <1>2, <2>1, <2>2
  <1> QED
    BY <1>1, <1>4, <1>5, <1>6

\* A step of one thread changes its own call.
LEMMA CallsStep ==
    ASSUME NEW t \in Threads, Still(t), NEW c, Called(t)' = c,
           \A u \in Threads \ {t} : pc[u] = "copy" /\ op[u] # "TryPush" => val'[Cell(pos[u])] = val[Cell(pos[u])]
    PROVE  Calls' = [Calls EXCEPT ![t] = c]
  <1>1. ASSUME NEW u \in Threads \ {t} PROVE Called(u)' = Called(u)
    <2>1. pc'[u] = pc[u] /\ op'[u] = op[u] /\ arg'[u] = arg[u] /\ pos'[u] = pos[u]
      BY DEF Still
    <2>2. CASE pc[u] = "copy" /\ op[u] # "TryPush"
      BY <2>1, <2>2 DEF Called
    <2>3. CASE ~(pc[u] = "copy" /\ op[u] # "TryPush")
      BY <2>1, <2>3 DEF Called
    <2> QED
      BY <2>2, <2>3
  <1>2. Calls' = [u \in Threads |-> Called(u)']
    BY DEF Calls
  <1>3. [Calls EXCEPT ![t] = c] = [u \in Threads |-> IF u = t THEN c ELSE Called(u)]
    BY DEF Calls
  <1> QED
    BY <1>1, <1>2, <1>3

LEMMA CallsKept ==
    ASSUME NEW t \in Threads, Still(t), Called(t)' = Called(t),
           \A u \in Threads \ {t} : pc[u] = "copy" /\ op[u] # "TryPush" => val'[Cell(pos[u])] = val[Cell(pos[u])]
    PROVE  Calls' = Calls
  <1>1. Calls' = [Calls EXCEPT ![t] = Called(t)]
    BY CallsStep
  <1>2. Calls[t] = Called(t) /\ Calls = [u \in Threads |-> Calls[u]]
    BY DEF Calls
  <1> QED
    BY <1>1, <1>2

LEMMA Stills ==
    ASSUME Types, NEW t \in Threads,
           Step(t) \/ (\E v \in Values : Call(t, "TryPush", v)) \/ Call(t, "TryPop", None)
    PROVE  Still(t)
  BY OneMoves DEF Still

\* A call begins.
LEMMA CallStarts ==
    ASSUME RingInv, NEW t \in Threads, NEW o, NEW v, Still(t), Call(t, o, v)
    PROVE  Abstract!Start(t, o, v)
  <1>0. Types
    BY DEF RingInv
  <1>1. /\ head' = head /\ tail' = tail /\ val' = val /\ pc[t] = "idle" /\ pc'[t] = "load"
        /\ op'[t] = o /\ arg'[t] = v /\ res' = [res EXCEPT ![t] = None]
    BY <1>0 DEF Call, Types
  <1>2. Contents' = Contents
    BY <1>1, Untouched DEF Pushes, Owning
  <1>3. Called(t)' = [op |-> o, val |-> v, done |-> FALSE]
    BY <1>1 DEF Called
  <1>4. Calls' = [Calls EXCEPT ![t] = [op |-> o, val |-> v, done |-> FALSE]]
    BY <1>1, <1>3, CallsStep
  <1>5. Calls[t] = None
    BY <1>1, CallsAre
  <1> QED
    BY <1>1, <1>2, <1>4, <1>5 DEF Abstract!Start

\* A thread looks at the counters and at its cell.
LEMMA LooksKeep ==
    ASSUME RingInv, NEW t \in Threads, Still(t),
           Load(t) \/ SeqReady(t) \/ SeqPassed(t) \/ CasLoses(t)
    PROVE  UNCHANGED Abstract!vars
  <1>0. Types
    BY DEF RingInv
  <1>1. /\ head' = head /\ tail' = tail /\ val' = val /\ res' = res /\ arg' = arg /\ op' = op
        /\ pc[t] \in Waits /\ pc'[t] \in Waits
    BY <1>0 DEF Load, SeqReady, SeqPassed, CasLoses, local, Types, Waits
  <1>2. ~Pushes(t) /\ ~Pushes(t)'
    BY <1>1 DEF Pushes, Owning, Waits
  <1>3. Contents' = Contents
    BY <1>1, <1>2, Untouched
  <1>4. Called(t)' = Called(t)
    BY <1>1 DEF Called, Waits
  <1>5. Calls' = Calls
    BY <1>1, <1>4, CallsKept
  <1> QED
    BY <1>1, <1>3, <1>5 DEF Abstract!vars

\* A refused call ends; its answer is one the abstract queue may give.
LEMMA RefusalEnds ==
    ASSUME RingInv, NEW t \in Threads, Still(t), SeqBehind(t)
    PROVE  Abstract!Refuse(t) \/ Abstract!GiveUp(t)
  <1>0. Types
    BY DEF RingInv
  <1>1. /\ head' = head /\ tail' = tail /\ val' = val /\ pc[t] = "seq" /\ pc'[t] = "idle"
        /\ res' = [res EXCEPT ![t] = [ok |-> FALSE, val |-> None]]
    BY <1>0 DEF SeqBehind, Return, Types
  <1>2. Contents' = Contents
    BY <1>1, Untouched DEF Pushes, Owning
  <1>3. Calls' = [Calls EXCEPT ![t] = None]
    <2>1. Called(t)' = None
      BY <1>1 DEF Called
    <2> QED
      BY <1>1, <2>1, CallsStep
  <1>4. Abstract!Return(t, FALSE, None)
    BY <1>1, <1>3 DEF Abstract!Return
  <1>5. Calls[t] # None /\ Calls[t].op = op[t] /\ Calls[t].done = FALSE
    <2>1. Calls[t] = [op |-> op[t], val |-> arg[t], done |-> FALSE] /\ Calls[t] # None
      BY <1>1, CallsAre DEF Waits
    <2> QED
      BY <2>1
  <1>6. PICK h \in Int, T \in Int, P \in Positions, S \in Numbers : Shows(h, T, P, S) /\ Ideal(h, T, P, S)
    BY DEF RingInv, Lifts
  <1>7. Contents \in Seq(Things) /\ Len(Contents) = T - h
    BY <1>0, <1>6, ContentsAre
  <1>8. ASSUME NEW u \in Threads, Pushes(u) \/ Pops(u) PROVE Abstract!In(u, op[u])
    <2>1. pc[u] \in Owning
      BY <1>8 DEF Pushes, Pops
    <2>2. Calls[u] = [op |-> op[u], val |-> Result(u), done |-> TRUE] /\ Calls[u] # None
      BY <2>1, CallsAre
    <2> QED
      BY <2>2 DEF Abstract!In
  <1>9. CASE op[t] = "TryPush"
    <2>1. T = h + Cells \/ \E u \in Threads : Pops(u)
      BY <1>0, <1>6, <1>9, Refusals DEF AtTail
    <2>2. Len(Contents) = Cells \/ \E u \in Threads : Abstract!In(u, "TryPop")
      <3>1. CASE T = h + Cells
        BY <1>7, <3>1, Sizes
      <3>2. CASE \E u \in Threads : Pops(u)
        BY <1>8, <3>2 DEF Pops
      <3> QED
        BY <2>1, <3>1, <3>2
    <2>3. Abstract!Pending(t, "TryPush")
      BY <1>5, <1>9 DEF Abstract!Pending, Abstract!In
    <2> QED
      BY <1>2, <1>4, <2>2, <2>3 DEF Abstract!Refuse
  <1>10. CASE op[t] = "TryPop"
    <2>1. h = T \/ \E u \in Threads : Pushes(u)
      BY <1>0, <1>6, <1>10, Refusals DEF AtHead
    <2>2. Contents = <<>> \/ \E u \in Threads : Abstract!In(u, "TryPush")
      <3>1. CASE T = h
        BY <1>7, <3>1
      <3>2. CASE \E u \in Threads : Pushes(u)
        BY <1>8, <3>2 DEF Pushes
      <3> QED
        BY <2>1, <3>1, <3>2
    <2>3. Abstract!Pending(t, "TryPop")
      BY <1>5, <1>10 DEF Abstract!Pending, Abstract!In
    <2> QED
      BY <1>2, <1>4, <2>2, <2>3 DEF Abstract!GiveUp
  <1> QED
    BY <1>0, <1>9, <1>10 DEF Types

\* The compare-and-swap is the instant at which a call takes effect.
LEMMA WinTakesEffect ==
    ASSUME RingInv, NEW t \in Threads, Still(t), CasWins(t)
    PROVE  Abstract!Accept(t) \/ Abstract!Deliver(t)
  <1>0. Types
    BY DEF RingInv
  <1>1. /\ val' = val /\ res' = res /\ arg' = arg /\ op' = op /\ pos' = pos
        /\ pc[t] = "cas" /\ pc'[t] = "copy"
    BY <1>0 DEF CasWins, local, Types
  <1>2. Calls[t] = [op |-> op[t], val |-> arg[t], done |-> FALSE] /\ Calls[t] # None
    BY <1>1, CallsAre DEF Waits
  <1>3. Abstract!Pending(t, op[t]) /\ Calls[t].val = arg[t]
    BY <1>2 DEF Abstract!Pending, Abstract!In
  <1>4. CASE op[t] = "TryPush"
    <2>1. Called(t)' = [op |-> "TryPush", val |-> None, done |-> TRUE]
      BY <1>1, <1>4 DEF Called
    <2>2. Calls' = [Calls EXCEPT ![t] = [op |-> "TryPush", val |-> None, done |-> TRUE]]
      BY <1>1, <2>1, CallsStep
    <2>3. Contents' = Append(Contents, arg[t]) /\ Len(Contents) < Cells
      BY <1>4, PushAppends
    <2> QED
      BY <1>1, <1>3, <1>4, <2>2, <2>3 DEF Abstract!Accept
  <1>5. CASE op[t] = "TryPop"
    <2>1. Contents' = Tail(Contents) /\ Contents # <<>> /\ Head(Contents) = val[Cell(pos[t])]
      BY <1>5, PopTakes
    <2>2. Called(t)' = [op |-> "TryPop", val |-> Head(Contents), done |-> TRUE]
      BY <1>1, <1>5, <2>1 DEF Called
    <2>3. Calls' = [Calls EXCEPT ![t] = [op |-> "TryPop", val |-> Head(Contents), done |-> TRUE]]
      BY <1>1, <2>2, CallsStep
    <2> QED
      BY <1>1, <1>3, <1>5, <2>1, <2>3 DEF Abstract!Deliver
  <1> QED
    BY <1>0, <1>4, <1>5 DEF Types

\* What the owner of a cell does with it before it hands it over is not seen.
LEMMA WorkIsHidden ==
    ASSUME RingInv, NEW t \in Threads, Still(t), Copy(t) \/ Clear(t)
    PROVE  UNCHANGED Abstract!vars
  <1>0. /\ Types /\ \A u \in Threads : Cell(pos[u]) \in 0..Cells-1
        /\ \A u, w \in Threads : u # w /\ pc[u] \in Owning /\ pc[w] \in Owning => Cell(pos[u]) # Cell(pos[w])
    BY LiftsShow DEF RingInv
  <1>1. pc[t] \in Owning /\ res' = res
    BY DEF Copy, Clear, Owning, local
  <1>2. ASSUME NEW u \in Threads \ {t}, pc[u] = "copy" PROVE val'[Cell(pos[u])] = val[Cell(pos[u])]
    <2>1. Cell(pos[u]) # Cell(pos[t]) /\ Cell(pos[u]) \in 0..Cells-1
      BY <1>0, <1>1, <1>2 DEF Owning
    <2> QED
      BY <1>0, <2>1 DEF Copy, Clear, Types
  <1>3. Called(t)' = Called(t)
    <2>1. CASE Copy(t) /\ op[t] = "TryPush"
      <3>1. pc[t] = "copy" /\ pc'[t] = "publish" /\ op'[t] = op[t]
        BY <1>0, <2>1 DEF Copy, Types
      <3> QED
        BY <2>1, <3>1 DEF Called
    <2>2. CASE Copy(t) /\ op[t] # "TryPush"
      <3>1. pc[t] = "copy" /\ pc'[t] = "clear" /\ op'[t] = op[t] /\ arg'[t] = val[Cell(pos[t])]
        BY <1>0, <2>2 DEF Copy, Types
      <3> QED
        BY <2>2, <3>1 DEF Called
    <2>3. CASE Clear(t)
      <3>1. pc[t] = "clear" /\ pc'[t] = "publish" /\ op'[t] = op[t] /\ arg'[t] = arg[t]
        BY <1>0, <2>3 DEF Clear, Types, local
      <3> QED
        BY <3>1 DEF Called
    <2> QED
      BY <2>1, <2>2, <2>3
  <1>4. Calls' = Calls
    BY <1>2, <1>3, CallsKept
  <1>5. Contents' = Contents
    <2>1. CASE Copy(t) /\ op[t] = "TryPush"
      BY <2>1, CopyKeeps
    <2>2. CASE Copy(t) /\ op[t] # "TryPush"
      <3>1. head' = head /\ tail' = tail /\ val' = val /\ ~Pushes(t) /\ ~Pushes(t)'
        BY <2>2 DEF Copy, Pushes
      <3> QED
        BY <3>1, Untouched
    <2>3. CASE Clear(t)
      BY <2>3, ClearKeeps
    <2> QED
      BY <2>1, <2>2, <2>3
  <1> QED
    BY <1>1, <1>4, <1>5 DEF Abstract!vars

\* The last store ends the call.
LEMMA PublishEnds ==
    ASSUME RingInv, NEW t \in Threads, Still(t), Publish(t)
    PROVE  Abstract!Finish(t)
  <1>0. Types
    BY DEF RingInv
  <1>1. /\ head' = head /\ tail' = tail /\ val' = val /\ pc[t] = "publish" /\ pc'[t] = "idle"
        /\ res' = [res EXCEPT ![t] = [ok |-> TRUE, val |-> Result(t)]]
    BY <1>0 DEF Publish, Return, Types, Result
  <1>2. Calls[t] = [op |-> op[t], val |-> Result(t), done |-> TRUE] /\ Calls[t] # None
    BY <1>1, CallsAre DEF Owning
  <1>3. Called(t)' = None
    BY <1>1 DEF Called
  <1>4. Calls' = [Calls EXCEPT ![t] = None]
    BY <1>1, <1>3, CallsStep
  <1>5. Contents' = Contents
    <2>1. CASE op[t] = "TryPush"
      BY <2>1, PublishKeeps
    <2>2. CASE op[t] # "TryPush"
      <3>1. ~Pushes(t) /\ ~Pushes(t)'
        BY <1>1, <2>2 DEF Pushes, Owning
      <3> QED
        BY <1>1, <3>1, Untouched
    <2> QED
      BY <2>1, <2>2
  <1>6. Calls[t].done /\ Calls[t].val = Result(t)
    BY <1>2
  <1> QED
    BY <1>1, <1>2, <1>4, <1>5, <1>6 DEF Abstract!Finish, Abstract!Return

LEMMA StepsAbstract == ASSUME RingInv, [Next]_vars PROVE [Abstract!Next]_(Abstract!vars)
  <1>0. Types
    BY DEF RingInv
  <1>1. CASE UNCHANGED vars
    <2>1. UNCHANGED <<head, tail, seq, val, pc, op, pos, arg, res>>
      BY <1>1 DEF vars
    <2>2. Contents' = Contents
      BY <2>1 DEF Contents, Element, Owner, Plus
    <2>3. Calls' = Calls
      BY <2>1 DEF Calls, Called
    <2> QED
      BY <2>1, <2>2, <2>3 DEF Abstract!vars
  <1>2. CASE Next
    <2>1. PICK t \in Threads : \/ \E v \in Values : Call(t, "TryPush", v)
                               \/ Call(t, "TryPop", None)
                               \/ Step(t)
      BY <1>2 DEF Next
    <2>2. Still(t)
      BY <1>0, <2>1, Stills
    <2>3. ASSUME NEW v \in Values, Call(t, "TryPush", v) PROVE Abstract!Next
      BY <2>2, <2>3, CallStarts DEF Abstract!Next
    <2>4. CASE Call(t, "TryPop", None)
      BY <2>2, <2>4, CallStarts DEF Abstract!Next
    <2>5. CASE Load(t) \/ SeqReady(t) \/ SeqPassed(t) \/ CasLoses(t) \/ Copy(t) \/ Clear(t)
      BY <2>2, <2>5, LooksKeep, WorkIsHidden
    <2>6. CASE SeqBehind(t)
      BY <2>2, <2>6, RefusalEnds DEF Abstract!Next
    <2>7. CASE CasWins(t)
      BY <2>2, <2>7, WinTakesEffect DEF Abstract!Next
    <2>8. CASE Publish(t)
      BY <2>2, <2>8, PublishEnds DEF Abstract!Next
    <2> QED
      BY <2>1, <2>3, <2>4, <2>5, <2>6, <2>7, <2>8 DEF Step
  <1> QED
    BY <1>1, <1>2

\* The ring is the queue that LaxQueue describes: what TryPush accepts TryPop
\* delivers, once and in the order of the compare-and-swaps, at most Cells
\* elements wait, and a call fails only for the two reasons given there.
THEOREM RingImplementsQueue == Spec => Refines
  <1>1. Init => Abstract!Init
    <2> SUFFICES ASSUME Init PROVE Abstract!Init
      OBVIOUS
    <2>1. (tail - head) % Wrap = 0
      <3>1. tail - head = 0
        BY DEF Init
      <3> QED
        BY <3>1, ShownZero DEF Shown
    <2>2. Contents = <<>>
      BY <2>1 DEF Contents
    <2>3. Calls = [t \in Threads |-> None]
      BY DEF Calls, Called, Init
    <2> QED
      BY <2>2, <2>3 DEF Init, Abstract!Init
  <1>2. RingInv /\ [Next]_vars => [Abstract!Next]_(Abstract!vars)
    BY StepsAbstract
  <1> QED
    BY <1>1, <1>2, Inductive, PTL DEF Spec, Refines, Abstract!Spec
=============================================================================
