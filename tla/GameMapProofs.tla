---------------------------- MODULE GameMapProofs ----------------------------
(***************************************************************************)
(* The map of the caravaneer game, for any constants: lines, rings and     *)
(* discs of the hex grid, and the search for the cheapest route.           *)
(*                                                                         *)
(* What a loop or a recursive function computes is proved by induction     *)
(* over sets: a set of numbers that holds 0 and with a number the next one *)
(* holds them all, since what is missing has a least element (LeastNumber, *)
(* Induction); a loop has a result because the numbers of passes after     *)
(* which it has one are such a set (LoopEnds).                             *)
(*                                                                         *)
(* A line is unbroken because along the axis that is longest it advances by*)
(* one hex, and along the others rounding follows by one at most: there is *)
(* one case for each order of the three coordinates (LineSteps).  A disc is*)
(* full because a ring is the hexes at its distance (RingIs).              *)
(*                                                                         *)
(* A route is cheapest because of three invariants.  BestInv: what each hex*)
(* costs at best is accounted for by a neighbour and, when it is measured, *)
(* undercut by none.  SearchInv: no cost in the search is below the best,  *)
(* and each hex that has been looked at is still in the heap or has offered*)
(* its neighbours what they cost by way of it, so that the first of the    *)
(* heap to reach the goal is the best (GoalIsCheapest).  PathInv: the way  *)
(* back goes down by what it costs, and each jump stays on it.  That no    *)
(* way at all costs less than the best is NoWayIsCheaper.                  *)
(***************************************************************************)
EXTENDS Components, SequenceTheorems, FiniteSetTheorems, WellFoundedInduction,
        TLAPS

GridStep == Grid!Next \/ UNCHANGED grid
RoutesStep == Routes!Next \/ UNCHANGED routes
FlightStep == Flight!Next \/ UNCHANGED flight
TradeStep == Trade!Next \/ UNCHANGED trade

\* A step of the whole is a step of the part that moves, and the part that
\* moves stays the one that does.
LEMMA GameMoves ==
  ASSUME [Next]_vars
  PROVE  /\ part' = part
         /\ part = "grid" => GridStep
         /\ part = "routes" => RoutesStep
         /\ part = "flight" => FlightStep
         /\ part = "trade" => TradeStep
<1> USE DEF GridStep, RoutesStep, FlightStep, TradeStep
<1>1. CASE UNCHANGED vars
  BY <1>1 DEF vars
<1>2. ASSUME NEW p, OtherThan(p), Next
      PROVE  /\ part' = part
             /\ part = "grid" => GridStep
             /\ part = "routes" => RoutesStep
             /\ part = "flight" => FlightStep
             /\ part = "trade" => TradeStep
  BY <1>2 DEF OtherThan, Next
<1> QED
  BY <1>1, <1>2 DEF Next

(***************************************************************************)
(* Induction, over sets of numbers.                                        *)
(***************************************************************************)

\* Every set of natural numbers but the empty one has a least element.
LEMMA LeastNumber ==
  ASSUME NEW T, T \subseteq Nat, T # {}
  PROVE  \E x \in T : \A y \in T : x <= y
<1> DEFINE R == {ss \in Nat \X Nat : ss[1] < ss[2]}
<1>1. IsWellFoundedOn(R, Nat)
  BY NatLessThanWellFounded DEF OpToRel
<1>2. \A x, y \in Nat : y < x => <<y, x>> \in R
  OBVIOUS
<1> HIDE DEF R
<1>3. PICK x \in T : \A y \in T : ~ (<<y, x>> \in R)
  BY <1>1, WFMin
<1>4. \A y \in T : ~(y < x)
  BY <1>2, <1>3, Zenon
<1>5. \A y \in T : x <= y
  BY <1>4
<1> QED
  BY <1>5

\* A set of numbers that holds 0 and with a number the next one, up to n,
\* holds all of them.
LEMMA Induction ==
  ASSUME NEW n \in Nat, NEW T, 0 \in T,
         \A i \in 1..n : i - 1 \in T => i \in T
  PROVE  \A i \in 0..n : i \in T
<1> SUFFICES ASSUME NEW j \in 0..n, j \notin T PROVE FALSE
  OBVIOUS
<1> DEFINE Rest == {k \in 0..n : k \notin T}
<1>1. Rest # {} /\ Rest \subseteq Nat
  OBVIOUS
<1>2. PICK x \in Rest : \A y \in Rest : x <= y
  <2> HIDE DEF Rest
  <2> QED
    BY <1>1, LeastNumber
<1>3. x \in 1..n
  BY <1>2
<1>4. x - 1 \in T
  <2>1. x - 1 \in 0..n
    BY <1>3
  <2>2. ~(x <= x - 1)
    BY <1>3
  <2> QED
    BY <1>2, <2>1, <2>2
<1> QED
  BY <1>2, <1>3, <1>4

\* The passes of a loop: f[i] is what is there after pass i.
Passes(f, n, S, ground, F) ==
  /\ f = [i \in 0..n |-> f[i]]
  /\ f[0] = ground
  /\ \A i \in 1..n : f[i] = F[<<i, f[i - 1]>>]
  /\ \A i \in 0..n : f[i] \in S[i]
PassesStay(n, S, F) == \A i \in 1..n : \A x \in S[i - 1] : F[<<i, x>>] \in S[i]

\* A loop of n passes that stays in the sets S[i] has a result.
LEMMA LoopEnds ==
  ASSUME NEW n \in Nat, NEW S, NEW ground \in S[0], NEW F, PassesStay(n, S, F)
  PROVE  \E f : Passes(f, n, S, ground, F)
<1> USE DEF Passes, PassesStay
<1> DEFINE Good(f, m) == /\ f = [i \in 0..m |-> f[i]]
                         /\ f[0] = ground
                         /\ \A i \in 1..m : f[i] = F[<<i, f[i - 1]>>]
                         /\ \A i \in 0..m : f[i] \in S[i]
           T == {m \in 0..n : \E f : Good(f, m)}
<1>1. 0 \in T
  <2> DEFINE g == [i \in 0..0 |-> ground]
  <2>1. Good(g, 0)
    OBVIOUS
  <2>2. \E f : Good(f, 0)
    <3> HIDE DEF g, Good
    <3> QED
      BY <2>1
  <2> QED
    BY <2>2
<1>2. ASSUME NEW m \in 1..n, m - 1 \in T
      PROVE  m \in T
  <2>1. PICK f : Good(f, m - 1)
    BY <1>2
  <2> DEFINE g == [i \in 0..m |-> IF i = m THEN F[<<m, f[m - 1]>>] ELSE f[i]]
  <2>2. /\ m - 1 \in 0..(m - 1) /\ m \in 0..m /\ 0 \in 0..(m - 1)
        /\ \A i \in 0..(m - 1) : i \in 0..m /\ i # m
        /\ \A i \in 0..m : i # m => i \in 0..(m - 1)
        /\ \A i \in 1..m : i - 1 \in 0..(m - 1) /\ (i # m => i \in 1..(m - 1))
    OBVIOUS
  <2>3. g[m] = F[<<m, f[m - 1]>>] /\ \A i \in 0..(m - 1) : g[i] = f[i]
    BY <2>2
  <2>4. g = [i \in 0..m |-> g[i]]
    OBVIOUS
  <2> HIDE DEF g
  <2>5. \A i \in 1..m : g[i] = F[<<i, g[i - 1]>>]
    BY <2>1, <2>2, <2>3
  <2>6. \A i \in 0..m : g[i] \in S[i]
    BY <1>2, <2>1, <2>2, <2>3
  <2>7. g[0] = ground
    BY <2>1, <2>2, <2>3
  <2>8. \E h : Good(h, m)
    BY <2>4, <2>5, <2>6, <2>7
  <2>9. m \in 0..n
    OBVIOUS
  <2> QED
    BY <2>8, <2>9
<1>3. n \in T
  <2> HIDE DEF T
  <2>1. n \in 0..n
    OBVIOUS
  <2> QED
    BY <1>1, <1>2, <2>1, Induction
<1> QED
  BY <1>3

(***************************************************************************)
(* The grid (HexGrid).                                                     *)
(***************************************************************************)

\* The grid is one, whoever looks at it.
LEMMA SameGrid ==
  ASSUME NEW a, NEW b, NEW k
  PROVE  /\ Routes!Grid!Distance(a, b) = Grid!Distance(a, b)
         /\ Routes!Grid!Neighbours(a) = Grid!Neighbours(a)
         /\ Routes!Grid!Within(a, k) = Grid!Within(a, k)
         /\ Flight!Grid!Distance(a, b) = Grid!Distance(a, b)
         /\ Flight!Grid!Neighbours(a) = Grid!Neighbours(a)
         /\ Flight!Grid!Within(a, k) = Grid!Within(a, k)
         /\ Flight!Grid!LineTo(a, b) = Grid!LineTo(a, b)
<1>1. Routes!Grid!Distance(a, b) = Grid!Distance(a, b)
  BY Zenon DEF Routes!Grid!Distance, Grid!Distance, Routes!Grid!Abs, Grid!Abs,
               Routes!Grid!Max, Grid!Max
<1>2. Routes!Grid!Neighbours(a) = Grid!Neighbours(a)
  BY Zenon DEF Routes!Grid!Neighbours, Grid!Neighbours, Routes!Grid!Plus,
               Grid!Plus, Routes!Grid!Sides, Grid!Sides
<1>3. Routes!Grid!Corner = Grid!Corner
  BY Zenon DEF Routes!Grid!Corner, Grid!Corner, Routes!Grid!Plus, Grid!Plus,
               Routes!Grid!Sides, Grid!Sides
<1>4. ASSUME NEW j
      PROVE  Routes!Grid!Ring(a, j) = Grid!Ring(a, j)
  BY <1>3 DEF Routes!Grid!Ring, Grid!Ring, Routes!Grid!Times, Grid!Times,
              Routes!Grid!Plus, Grid!Plus, Routes!Grid!Sides, Grid!Sides
<1>5. Routes!Grid!Within(a, k) = Grid!Within(a, k)
  BY <1>4 DEF Routes!Grid!Within, Grid!Within
<1>6. Flight!Grid!Distance(a, b) = Grid!Distance(a, b)
  BY Zenon DEF Flight!Grid!Distance, Grid!Distance, Flight!Grid!Abs, Grid!Abs,
               Flight!Grid!Max, Grid!Max
<1>7. Flight!Grid!Neighbours(a) = Grid!Neighbours(a)
  BY Zenon DEF Flight!Grid!Neighbours, Grid!Neighbours, Flight!Grid!Plus,
               Grid!Plus, Flight!Grid!Sides, Grid!Sides
<1>8. Flight!Grid!Corner = Grid!Corner
  BY Zenon DEF Flight!Grid!Corner, Grid!Corner, Flight!Grid!Plus, Grid!Plus,
               Flight!Grid!Sides, Grid!Sides
<1>9. ASSUME NEW j
      PROVE  Flight!Grid!Ring(a, j) = Grid!Ring(a, j)
  BY <1>8 DEF Flight!Grid!Ring, Grid!Ring, Flight!Grid!Times, Grid!Times,
              Flight!Grid!Plus, Grid!Plus, Flight!Grid!Sides, Grid!Sides
<1>10. Flight!Grid!Within(a, k) = Grid!Within(a, k)
  BY <1>9 DEF Flight!Grid!Within, Grid!Within
<1>11. \A n, i : Flight!Grid!OnLine(a, b, n, i) = Grid!OnLine(a, b, n, i)
  <2>1. \A x, n : Flight!Grid!Round(x, n) = Grid!Round(x, n)
    BY DEF Flight!Grid!Round, Grid!Round
  <2>2. \A x : Flight!Grid!Abs(x) = Grid!Abs(x)
    BY DEF Flight!Grid!Abs, Grid!Abs
  <2> QED
    BY <2>1, <2>2 DEF Flight!Grid!OnLine, Grid!OnLine
<1>12. Flight!Grid!LineTo(a, b) = Grid!LineTo(a, b)
  BY <1>6, <1>11 DEF Flight!Grid!LineTo, Grid!LineTo
<1> QED
  BY <1>1, <1>2, <1>5, <1>6, <1>7, <1>10, <1>12

\* Distance is the greatest of three differences.
LEMMA DistanceIs ==
  ASSUME NEW a \in Int \X Int, NEW b \in Int \X Int
  PROVE  LET n == Grid!Distance(a, b)
             d == b[1] - a[1]
             e == b[2] - a[2]
             f == d + e
         IN /\ n \in Nat
            /\ d <= n /\ -n <= d /\ e <= n /\ -n <= e /\ f <= n /\ -n <= f
            /\ n \in {d, -d, e, -e, f, -f}
<1> DEFINE d == b[1] - a[1]
           e == b[2] - a[2]
           u == Grid!Abs(a[1] - b[1])
           v == Grid!Abs(a[2] - b[2])
           w == Grid!Abs((a[1] + a[2]) - (b[1] + b[2]))
           S == {u, v, w}
<1>1. /\ u \in Nat /\ u \in {d, -d} /\ d <= u /\ -u <= d
      /\ v \in Nat /\ v \in {e, -e} /\ e <= v /\ -v <= e
      /\ w \in Nat /\ w \in {d + e, -(d + e)} /\ d + e <= w /\ -w <= d + e
  BY DEF Grid!Abs
<1>2. d \in Int /\ e \in Int
  OBVIOUS
<1> HIDE DEF u, v, w, d, e
<1>3. \E m \in S : \A x \in S : m >= x
  BY <1>1
<1>4. Grid!Distance(a, b) = CHOOSE m \in S : \A x \in S : m >= x
  BY Zenon DEF Grid!Distance, Grid!Max, u, v, w
<1>5. Grid!Distance(a, b) \in S /\ \A x \in S : Grid!Distance(a, b) >= x
  BY <1>3, <1>4
<1> QED
  BY <1>1, <1>2, <1>5 DEF d, e

\* Round takes to the nearest, and a half to the even.
LEMMA RoundIs ==
  ASSUME NEW x \in Int, NEW n \in Nat \ {0}
  PROVE  LET p == Grid!Round(x, n) * n IN
         /\ Grid!Round(x, n) \in Int
         /\ 2 * (p - x) <= n /\ -n <= 2 * (p - x)
         /\ 2 * (p - x) = n \/ 2 * (p - x) = -n => Grid!Round(x, n) % 2 = 0
BY DEF Grid!Round

\* The six neighbours.
LEMMA NeighboursAre ==
  ASSUME NEW q \in Int, NEW r \in Int
  PROVE  Grid!Neighbours(<<q, r>>) =
           {<<q, r + 1>>, <<q - 1, r + 1>>, <<q - 1, r>>, <<q, r - 1>>,
            <<q + 1, r - 1>>, <<q + 1, r>>}
<1> DEFINE P(i) == Grid!Plus(<<q, r>>, Grid!Sides[i])
<1>1. /\ P(1) = <<q, r + 1>> /\ P(2) = <<q - 1, r + 1>> /\ P(3) = <<q - 1, r>>
      /\ P(4) = <<q, r - 1>> /\ P(5) = <<q + 1, r - 1>> /\ P(6) = <<q + 1, r>>
  BY DEF Grid!Plus, Grid!Sides
<1>2. Grid!Neighbours(<<q, r>>) = {P(i) : i \in 1..6}
  BY DEF Grid!Neighbours
<1> HIDE DEF P
<1>3. {P(i) : i \in 1..6} = {P(1), P(2), P(3), P(4), P(5), P(6)}
  OBVIOUS
<1> QED
  BY <1>1, <1>2, <1>3, Zenon

\* A whole number is rounded to itself.
LEMMA RoundOfWhole ==
  ASSUME NEW k \in Int, NEW n \in Nat \ {0}
  PROVE  Grid!Round(k * n, n) = k
BY DEF Grid!Round

\* A number is rounded as far as what it lacks of a whole one.
LEMMA RoundOfRest ==
  ASSUME NEW y \in Int, NEW z \in Int, NEW k \in Int, NEW n \in Nat \ {0},
         y + z = k * n
  PROVE  Grid!Abs(Grid!Round(y, n) * n - y) = Grid!Abs(Grid!Round(z, n) * n - z)
<1> DEFINE R == Grid!Round(y, n)
           S == Grid!Round(z, n)
           p == R * n
           s == S * n
<1>1. /\ R \in Int /\ S \in Int
      /\ 2 * (p - y) <= n /\ -n <= 2 * (p - y)
      /\ 2 * (s - z) <= n /\ -n <= 2 * (s - z)
  BY RoundIs
<1> HIDE DEF R, S
<1> DEFINE m == R + S - k
<1>2. m * n = p + s - k * n
  BY <1>1
<1>3. p \in Int /\ s \in Int /\ k * n \in Int
  BY <1>1
<1>4. m \in {-1, 0, 1}
  <2>1. m * n <= n /\ -n <= m * n
    <3> HIDE DEF m, p, s
    <3> QED
      BY <1>1, <1>2, <1>3
  <2>2. m \in Int
    BY <1>1
  <2> HIDE DEF m
  <2>3. m > 1 => m * n > n
    BY <2>2
  <2>4. m < -1 => m * n < -n
    BY <2>2
  <2> QED
    BY <2>1, <2>2, <2>3, <2>4
<1>5. m * n \in {-n, 0, n}
  <2> HIDE DEF m
  <2> QED
    BY <1>4
<1> HIDE DEF m, p, s
<1> DEFINE t == m * n
           c == k * n
<1>6. t \in {-n, 0, n} /\ t = p + s - c /\ c \in Int /\ y + z = c
  BY <1>2, <1>3, <1>5
<1> HIDE DEF t, c
<1>7. p - y = -(s - z) \/ p - y = s - z
  BY <1>1, <1>3, <1>6
<1> QED
  BY <1>3, <1>7 DEF Grid!Abs, p, s, R, S

\* The same, for any.
LEMMA RestOfAny ==
  \A n \in Nat \ {0} : \A k \in Int : \A y, z \in Int : y + z = k * n =>
    Grid!Abs(Grid!Round(y, n) * n - y) = Grid!Abs(Grid!Round(z, n) * n - z)
<1> SUFFICES ASSUME NEW n \in Nat \ {0}, NEW k \in Int, NEW y \in Int, NEW z \in Int,
                    y + z = k * n
             PROVE  Grid!Abs(Grid!Round(y, n) * n - y) = Grid!Abs(Grid!Round(z, n) * n - z)
  OBVIOUS
<1> QED
  BY RoundOfRest

\* Where the line is before it is rounded, times n.
LineQ(a, b, n, i) == a[1] * n + (b[1] - a[1]) * i
LineR(a, b, n, i) == a[2] * n + (b[2] - a[2]) * i

\* Where the line is when one of its coordinates is whole.
LEMMA OnLineIs ==
  ASSUME NEW a \in Int \X Int, NEW b \in Int \X Int, NEW n \in Nat \ {0},
         NEW i \in Nat, NEW k \in Int
  PROVE  LET x == LineQ(a, b, n, i)
             y == LineR(a, b, n, i)
             p == Grid!OnLine(a, b, n, i)
         IN /\ x = k * n => p = <<k, Grid!Round(y, n)>>
            /\ y = k * n => p = <<Grid!Round(x, n), k>>
            /\ -x - y = k * n => p = <<Grid!Round(x, n), -Grid!Round(x, n) - k>>
<1> DEFINE x == LineQ(a, b, n, i)
           y == LineR(a, b, n, i)
           z == -x - y
           q == Grid!Round(x, n)
           r == Grid!Round(y, n)
           s == Grid!Round(z, n)
           dq == Grid!Abs(q * n - x)
           dr == Grid!Abs(r * n - y)
           ds == Grid!Abs(s * n - z)
<1>1. Grid!OnLine(a, b, n, i) =
        IF dq > dr /\ dq > ds THEN <<-r - s, r>>
        ELSE IF dr > ds THEN <<q, -q - s>> ELSE <<q, r>>
  BY DEF Grid!OnLine, LineQ, LineR
<1>2. x \in Int /\ y \in Int /\ z \in Int
  <2>1. \A u, v, w \in Int : u * n + v * w \in Int
    OBVIOUS
  <2>2. /\ a[1] \in Int /\ b[1] - a[1] \in Int /\ a[2] \in Int /\ b[2] - a[2] \in Int
        /\ i \in Int
    OBVIOUS
  <2>3. x \in Int /\ y \in Int
    BY <2>1, <2>2 DEF LineQ, LineR
  <2> QED
    BY <2>3
<1> HIDE DEF x, y, z
<1>3. q \in Int /\ r \in Int /\ s \in Int
  BY <1>2, RoundIs
<1>4. /\ q * n - x \in Int /\ r * n - y \in Int /\ s * n - z \in Int
  BY <1>2, <1>3
<1>5. dq \in Nat /\ dr \in Nat /\ ds \in Nat
  <2> HIDE DEF q, r, s
  <2> QED
    BY <1>4 DEF Grid!Abs
<1>6. \A u \in Int : u - u = 0
  OBVIOUS
<1>7. Grid!Abs(0) = 0
  BY DEF Grid!Abs
<1>8. ASSUME x = k * n
      PROVE  Grid!OnLine(a, b, n, i) = <<k, Grid!Round(y, n)>>
  <2>1. q = k
    BY <1>8, RoundOfWhole
  <2>2. dq = 0
    BY <1>2, <1>6, <1>7, <1>8, <2>1
  <2>3. dr = ds
    <3> DEFINE m == -k
    <3>1. y + z = m * n /\ m \in Int
      BY <1>2, <1>8 DEF z
    <3> HIDE DEF m
    <3>2. Grid!Abs(Grid!Round(y, n) * n - y) = Grid!Abs(Grid!Round(z, n) * n - z)
      <4>1. \A u, v \in Int : u + v = m * n =>
              Grid!Abs(Grid!Round(u, n) * n - u) = Grid!Abs(Grid!Round(v, n) * n - v)
        BY <3>1, RestOfAny
      <4> QED
        BY <1>2, <3>1, <4>1, Zenon
    <3> QED
      BY <3>2
  <2> HIDE DEF q, r, s, dq, dr, ds
  <2>4. ~(dq > dr) /\ ~(dr > ds)
    BY <1>5, <2>2, <2>3
  <2> QED
    BY <1>1, <2>1, <2>4 DEF r
<1>9. ASSUME y = k * n
      PROVE  Grid!OnLine(a, b, n, i) = <<Grid!Round(x, n), k>>
  <2>1. r = k
    BY <1>9, RoundOfWhole
  <2>2. dr = 0
    BY <1>2, <1>6, <1>7, <1>9, <2>1
  <2>3. dq = ds
    <3> DEFINE m == -k
    <3>1. x + z = m * n /\ m \in Int
      BY <1>2, <1>9 DEF z
    <3> HIDE DEF m
    <3>2. Grid!Abs(Grid!Round(x, n) * n - x) = Grid!Abs(Grid!Round(z, n) * n - z)
      <4>1. \A u, v \in Int : u + v = m * n =>
              Grid!Abs(Grid!Round(u, n) * n - u) = Grid!Abs(Grid!Round(v, n) * n - v)
        BY <3>1, RestOfAny
      <4> QED
        BY <1>2, <3>1, <4>1, Zenon
    <3> QED
      BY <3>2
  <2> HIDE DEF q, r, s, dq, dr, ds
  <2>4. ~(dq > ds) /\ ~(dr > ds)
    BY <1>5, <2>2, <2>3
  <2> QED
    BY <1>1, <2>1, <2>4 DEF q
<1>10. ASSUME z = k * n
       PROVE  Grid!OnLine(a, b, n, i) = <<Grid!Round(x, n), -Grid!Round(x, n) - k>>
  <2>1. s = k
    BY <1>10, RoundOfWhole
  <2>2. ds = 0
    BY <1>2, <1>6, <1>7, <1>10, <2>1
  <2>3. dq = dr
    <3> DEFINE m == -k
    <3>1. x + y = m * n /\ m \in Int
      BY <1>2, <1>10 DEF z
    <3> HIDE DEF m
    <3>2. Grid!Abs(Grid!Round(x, n) * n - x) = Grid!Abs(Grid!Round(y, n) * n - y)
      BY <1>2, <3>1, RoundOfRest
    <3> QED
      BY <3>2
  <2>4. CASE dr > ds
    <3> HIDE DEF q, r, s, dq, dr, ds
    <3>1. ~(dq > dr)
      BY <1>5, <2>3
    <3> QED
      BY <1>1, <2>1, <2>4, <3>1 DEF q
  <2>5. CASE ~(dr > ds)
    <3>1. dr = 0 /\ dq = 0
      <4> HIDE DEF dq, dr, ds
      <4> QED
        BY <1>5, <2>2, <2>3, <2>5
    <3>2. q * n = x /\ r * n = y
      <4> DEFINE u == q * n - x
                 v == r * n - y
      <4>1. u = 0 /\ v = 0
        <5>1. \A w \in Int : Grid!Abs(w) = 0 => w = 0
          BY DEF Grid!Abs
        <5> QED
          BY <1>4, <3>1, <5>1
      <4>2. q * n \in Int /\ r * n \in Int
        BY <1>3
      <4> HIDE DEF q, r
      <4> QED
        BY <1>2, <4>1, <4>2
    <3>3. r = -q - k
      <4> HIDE DEF q, r
      <4>1. (q + r + k) * n = 0
        <5>1. (q + r + k) * n = q * n + r * n + k * n
          BY <1>3
        <5>2. q * n + r * n + z = 0
          BY <1>2, <3>2 DEF z
        <5> QED
          BY <1>10, <5>1, <5>2
      <4>2. q + r + k \in Int
        BY <1>3
      <4> DEFINE m == q + r + k
      <4> HIDE DEF m
      <4>3. m = 0
        <5>1. \A u \in Int : (u >= 1 => u * n >= n) /\ (u <= -1 => u * n <= -n)
          OBVIOUS
        <5>2. m \in Int /\ m * n = 0
          BY <4>1, <4>2 DEF m
        <5>3. ~(m >= 1) /\ ~(m <= -1)
          BY <5>1, <5>2
        <5> QED
          BY <5>2, <5>3
      <4> QED
        BY <1>3, <4>3 DEF m
    <3> HIDE DEF q, r, s, dq, dr, ds
    <3>4. ~(dq > dr)
      BY <1>5, <2>3
    <3> QED
      BY <1>1, <2>5, <3>3, <3>4 DEF q
  <2> QED
    BY <2>4, <2>5
<1> QED
  BY <1>8, <1>9, <1>10 DEF x, y, z

\* Rounding follows a number up by less than one whole.
LEMMA RoundMovesUp ==
  ASSUME NEW n \in Nat \ {0}, NEW y \in Int, NEW d \in Nat, d < n
  PROVE  Grid!Round(y + d, n) - Grid!Round(y, n) \in {0, 1}
<1> DEFINE R == Grid!Round(y, n)
           S == Grid!Round(y + d, n)
           p == R * n
           s == S * n
<1>1. /\ R \in Int /\ S \in Int
      /\ 2 * (p - y) <= n /\ -n <= 2 * (p - y)
      /\ 2 * (s - (y + d)) <= n /\ -n <= 2 * (s - (y + d))
      /\ 2 * (p - y) = n \/ 2 * (p - y) = -n => R % 2 = 0
      /\ 2 * (s - (y + d)) = n \/ 2 * (s - (y + d)) = -n => S % 2 = 0
  BY RoundIs
<1>2. d = 0 => S = R
  <2>1. d = 0 => y + d = y
    OBVIOUS
  <2> QED
    BY <2>1, Zenon
<1> HIDE DEF R, S
<1> DEFINE m == S - R
<1>3. m * n = s - p /\ p \in Int /\ s \in Int
  BY <1>1
<1> DEFINE t == m * n
<1>4. t = s - p
  BY <1>3
<1> HIDE DEF t, p, s
<1>5. t < 2 * n /\ -n <= t
  BY <1>1, <1>3, <1>4
<1>6. m \in Int
  BY <1>1
<1>7. m \in {-1, 0, 1}
  <2> HIDE DEF m
  <2>1. m >= 2 => m * n >= 2 * n
    BY <1>6
  <2>2. m <= -2 => m * n <= -(2 * n)
    BY <1>6
  <2> QED
    BY <1>5, <1>6, <2>1, <2>2 DEF t
<1>8. m # -1
  <2> SUFFICES ASSUME m = -1 PROVE FALSE
    OBVIOUS
  <2>1. t = -n
    BY DEF t
  <2>2. d = 0
    BY <1>1, <1>3, <1>4, <2>1
  <2>3. S = R
    BY <1>2, <2>2
  <2> QED
    BY <1>1, <2>3
<1> QED
  BY <1>7, <1>8 DEF R, S

\* And down.
LEMMA RoundMovesDown ==
  ASSUME NEW n \in Nat \ {0}, NEW y \in Int, NEW d \in Nat, d < n
  PROVE  Grid!Round(y - d, n) - Grid!Round(y, n) \in {0, -1}
<1> DEFINE u == y - d
<1>1. u \in Int /\ u + d = y
  OBVIOUS
<1> HIDE DEF u
<1>2. Grid!Round(u + d, n) - Grid!Round(u, n) \in {0, 1}
  BY <1>1, RoundMovesUp
<1>3. Grid!Round(u, n) \in Int /\ Grid!Round(y, n) \in Int
  BY <1>1, RoundIs
<1>4. Grid!Round(y, n) - Grid!Round(u, n) \in {0, 1}
  BY <1>1, <1>2
<1> QED
  BY <1>3, <1>4 DEF u

\* A coordinate of a line goes one way, by at most one at a step.
LEMMA CoordinateMoves ==
  ASSUME NEW n \in Nat \ {0}, NEW c \in Int, NEW d \in Int, NEW i \in Nat \ {0}
  PROVE  LET move == Grid!Round(c * n + d * i, n) - Grid!Round(c * n + d * (i - 1), n)
         IN /\ 0 <= d /\ d <= n => move \in {0, 1}
            /\ -n <= d /\ d <= 0 => move \in {0, -1}
            /\ Grid!Round(c * n + d * i, n) \in Int
            /\ Grid!Round(c * n + d * (i - 1), n) \in Int
<1> DEFINE y == c * n + d * (i - 1)
           z == c * n + d * i
<1>1. z = y + d /\ y \in Int /\ z \in Int
  OBVIOUS
<1>2. CASE d = n
  <2>1. z = (c + i) * n /\ y = (c + (i - 1)) * n
    BY <1>2
  <2>2. Grid!Round(z, n) = c + i /\ Grid!Round(y, n) = c + (i - 1)
    <3>1. c + i \in Int /\ c + (i - 1) \in Int
      OBVIOUS
    <3>2. \A k \in Int : Grid!Round(k * n, n) = k
      BY RoundOfWhole
    <3> QED
      BY <2>1, <3>1, <3>2
  <2> QED
    BY <1>2, <2>2
<1>3. CASE d = -n
  <2>1. z = (c - i) * n /\ y = (c - (i - 1)) * n
    BY <1>3
  <2>2. Grid!Round(z, n) = c - i /\ Grid!Round(y, n) = c - (i - 1)
    <3>1. c - i \in Int /\ c - (i - 1) \in Int
      OBVIOUS
    <3>2. \A k \in Int : Grid!Round(k * n, n) = k
      BY RoundOfWhole
    <3> QED
      BY <2>1, <3>1, <3>2
  <2> QED
    BY <1>3, <2>2
<1> HIDE DEF y, z
<1>4. Grid!Round(z, n) \in Int /\ Grid!Round(y, n) \in Int
  BY <1>1, RoundIs
<1>5. CASE 0 <= d /\ d < n
  <2>1. d \in Nat
    BY <1>5
  <2>2. Grid!Round(y + d, n) - Grid!Round(y, n) \in {0, 1}
    BY <1>1, <1>5, <2>1, RoundMovesUp
  <2>3. -n <= d /\ d <= 0 => z = y
    BY <1>1, <1>5
  <2> QED
    BY <1>1, <1>4, <2>2, <2>3 DEF y, z
<1>6. CASE -n < d /\ d < 0
  <2> DEFINE e == -d
  <2>1. e \in Nat /\ e < n /\ z = y - e /\ ~(0 <= d)
    BY <1>1, <1>6
  <2> HIDE DEF e
  <2>2. Grid!Round(y - e, n) - Grid!Round(y, n) \in {0, -1}
    BY <1>1, <2>1, RoundMovesDown
  <2> QED
    BY <1>1, <1>4, <2>1, <2>2 DEF y, z
<1>7. CASE d > n \/ d < -n
  BY <1>4, <1>7 DEF y, z
<1> QED
  BY <1>2, <1>3, <1>5, <1>6, <1>7

\* The hexes of a line, one after the other, are neighbours.
LEMMA LineSteps ==
  ASSUME NEW a \in Int \X Int, NEW b \in Int \X Int, NEW n \in Nat \ {0},
         n = Grid!Distance(a, b), NEW i \in 1..n
  PROVE  /\ Grid!OnLine(a, b, n, i) \in Int \X Int
         /\ Grid!OnLine(a, b, n, i - 1) \in Int \X Int
         /\ Grid!OnLine(a, b, n, i) \in Grid!Neighbours(Grid!OnLine(a, b, n, i - 1))
<1> DEFINE d == b[1] - a[1]
           e == b[2] - a[2]
           j == i - 1
           x == LineQ(a, b, n, i)
           y == LineR(a, b, n, i)
           u == LineQ(a, b, n, j)
           v == LineR(a, b, n, j)
           p == Grid!OnLine(a, b, n, i)
           o == Grid!OnLine(a, b, n, j)
           X == Grid!Round(x, n)
           Y == Grid!Round(y, n)
           U == Grid!Round(u, n)
           V == Grid!Round(v, n)
<1>1. /\ d \in Int /\ e \in Int /\ a[1] \in Int /\ a[2] \in Int
      /\ i \in Nat \ {0} /\ j \in Nat
  OBVIOUS
<1>2. /\ d <= n /\ -n <= d /\ e <= n /\ -n <= e /\ d + e <= n /\ -n <= d + e
      /\ n \in {d, -d, e, -e, d + e, -(d + e)}
  BY DistanceIs
<1>3. \A k \in Int :
        /\ x = k * n => p = <<k, Y>>
        /\ y = k * n => p = <<X, k>>
        /\ -x - y = k * n => p = <<X, -X - k>>
  <2>1. i \in Nat
    BY <1>1
  <2> SUFFICES ASSUME NEW k \in Int
               PROVE  /\ x = k * n => p = <<k, Y>>
                      /\ y = k * n => p = <<X, k>>
                      /\ -x - y = k * n => p = <<X, -X - k>>
    OBVIOUS
  <2> QED
    BY <2>1, OnLineIs
<1>4. \A k \in Int :
        /\ u = k * n => o = <<k, V>>
        /\ v = k * n => o = <<U, k>>
        /\ -u - v = k * n => o = <<U, -U - k>>
  <2> SUFFICES ASSUME NEW k \in Int
               PROVE  /\ u = k * n => o = <<k, V>>
                      /\ v = k * n => o = <<U, k>>
                      /\ -u - v = k * n => o = <<U, -U - k>>
    OBVIOUS
  <2> HIDE DEF j
  <2> QED
    BY <1>1, OnLineIs
<1>5. /\ 0 <= d /\ d <= n => X - U \in {0, 1}
      /\ -n <= d /\ d <= 0 => X - U \in {0, -1}
      /\ X \in Int /\ U \in Int
  <2> DEFINE c == a[1]
  <2>1. c \in Int /\ d \in Int /\ i \in Nat \ {0}
    BY <1>1
  <2> HIDE DEF c, d
  <2> QED
    BY <2>1, CoordinateMoves DEF c, d, e, LineQ, LineR
<1>6. /\ 0 <= e /\ e <= n => Y - V \in {0, 1}
      /\ -n <= e /\ e <= 0 => Y - V \in {0, -1}
      /\ Y \in Int /\ V \in Int
  <2> DEFINE c == a[2]
  <2>1. c \in Int /\ e \in Int /\ i \in Nat \ {0}
    BY <1>1
  <2> HIDE DEF c, e
  <2> QED
    BY <2>1, CoordinateMoves DEF c, d, e, LineQ, LineR
<1>7. \A q, r \in Int :
        Grid!Neighbours(<<q, r>>) =
           {<<q, r + 1>>, <<q - 1, r + 1>>, <<q - 1, r>>, <<q, r - 1>>,
            <<q + 1, r - 1>>, <<q + 1, r>>}
  BY NeighboursAre
<1> DEFINE A == a[1]
           B == a[2]
<1> SUFFICES p \in Int \X Int /\ o \in Int \X Int /\ p \in Grid!Neighbours(o)
  OBVIOUS
<1>8. i = j + 1 /\ j \in Int /\ A \in Int /\ B \in Int
  BY <1>1
<1> HIDE DEF p, o, X, Y, U, V
<1>9. CASE n = d
  <2>1. x = (A + i) * n /\ u = (A + j) * n
    BY <1>1, <1>9 DEF LineQ, LineR
  <2>2. A + i \in Int /\ A + j \in Int /\ A + i = (A + j) + 1
    BY <1>8
  <2>3. p = <<A + i, Y>> /\ o = <<A + j, V>>
    <3> HIDE DEF x, u, A, j, y, v
    <3> QED
      BY <1>3, <1>4, <2>1, <2>2
  <2>4. Y - V \in {0, -1}
    BY <1>1, <1>2, <1>6, <1>9
  <2>5. Y = V \/ Y = V - 1
    BY <1>6, <2>4
  <2> DEFINE q == A + j
  <2>6. p \in {<<q + 1, V>>, <<q + 1, V - 1>>} /\ o = <<q, V>> /\ q \in Int
    BY <2>2, <2>3, <2>5
  <2> HIDE DEF q
  <2> QED
    BY <1>6, <1>7, <2>6
<1>10. CASE n = -d
  <2>1. x = (A - i) * n /\ u = (A - j) * n
    BY <1>1, <1>10 DEF LineQ, LineR
  <2>2. A - i \in Int /\ A - j \in Int /\ A - i = (A - j) - 1
    BY <1>8
  <2>3. p = <<A - i, Y>> /\ o = <<A - j, V>>
    <3> HIDE DEF x, u, A, j, y, v
    <3> QED
      BY <1>3, <1>4, <2>1, <2>2
  <2>4. Y - V \in {0, 1}
    BY <1>1, <1>2, <1>6, <1>10
  <2>5. Y = V \/ Y = V + 1
    BY <1>6, <2>4
  <2> DEFINE q == A - j
  <2>6. p \in {<<q - 1, V>>, <<q - 1, V + 1>>} /\ o = <<q, V>> /\ q \in Int
    BY <2>2, <2>3, <2>5
  <2> HIDE DEF q
  <2> QED
    BY <1>6, <1>7, <2>6
<1>11. CASE n = e
  <2>1. y = (B + i) * n /\ v = (B + j) * n
    BY <1>1, <1>11 DEF LineQ, LineR
  <2>2. B + i \in Int /\ B + j \in Int /\ B + i = (B + j) + 1
    BY <1>8
  <2>3. p = <<X, B + i>> /\ o = <<U, B + j>>
    <3> HIDE DEF x, u, B, j, y, v
    <3> QED
      BY <1>3, <1>4, <2>1, <2>2
  <2>4. X - U \in {0, -1}
    BY <1>1, <1>2, <1>5, <1>11
  <2>5. X = U \/ X = U - 1
    BY <1>5, <2>4
  <2> DEFINE r == B + j
  <2>6. p \in {<<U, r + 1>>, <<U - 1, r + 1>>} /\ o = <<U, r>> /\ r \in Int
    BY <2>2, <2>3, <2>5
  <2> HIDE DEF r
  <2> QED
    BY <1>5, <1>7, <2>6
<1>12. CASE n = -e
  <2>1. y = (B - i) * n /\ v = (B - j) * n
    BY <1>1, <1>12 DEF LineQ, LineR
  <2>2. B - i \in Int /\ B - j \in Int /\ B - i = (B - j) - 1
    BY <1>8
  <2>3. p = <<X, B - i>> /\ o = <<U, B - j>>
    <3> HIDE DEF x, u, B, j, y, v
    <3> QED
      BY <1>3, <1>4, <2>1, <2>2
  <2>4. X - U \in {0, 1}
    BY <1>1, <1>2, <1>5, <1>12
  <2>5. X = U \/ X = U + 1
    BY <1>5, <2>4
  <2> DEFINE r == B - j
  <2>6. p \in {<<U, r - 1>>, <<U + 1, r - 1>>} /\ o = <<U, r>> /\ r \in Int
    BY <2>2, <2>3, <2>5
  <2> HIDE DEF r
  <2> QED
    BY <1>5, <1>7, <2>6
<1>13. CASE n = d + e
  <2> DEFINE k == -(A + B) - i
             l == -(A + B) - j
  <2>1. -x - y = k * n /\ -u - v = l * n
    BY <1>1, <1>13 DEF LineQ, LineR
  <2>2. k \in Int /\ l \in Int /\ k = l - 1
    BY <1>8
  <2> HIDE DEF k, l
  <2>3. p = <<X, -X - k>> /\ o = <<U, -U - l>>
    <3> HIDE DEF x, u, A, j, y, v
    <3> QED
      BY <1>3, <1>4, <2>1, <2>2
  <2>4. X - U \in {0, 1}
    BY <1>1, <1>2, <1>5, <1>13
  <2>5. X = U \/ X = U + 1
    BY <1>5, <2>4
  <2> DEFINE r == -U - l
  <2>6. p \in {<<U, r + 1>>, <<U + 1, r>>} /\ o = <<U, r>> /\ r \in Int
    BY <1>5, <2>2, <2>3, <2>5
  <2> HIDE DEF r
  <2> QED
    BY <1>5, <1>7, <2>6
<1>14. CASE n = -(d + e)
  <2> DEFINE k == -(A + B) + i
             l == -(A + B) + j
  <2>1. -x - y = k * n /\ -u - v = l * n
    BY <1>1, <1>14 DEF LineQ, LineR
  <2>2. k \in Int /\ l \in Int /\ k = l + 1
    BY <1>8
  <2> HIDE DEF k, l
  <2>3. p = <<X, -X - k>> /\ o = <<U, -U - l>>
    <3> HIDE DEF x, u, A, j, y, v
    <3> QED
      BY <1>3, <1>4, <2>1, <2>2
  <2>4. X - U \in {0, -1}
    BY <1>1, <1>2, <1>5, <1>14
  <2>5. X = U \/ X = U - 1
    BY <1>5, <2>4
  <2> DEFINE r == -U - l
  <2>6. p \in {<<U, r - 1>>, <<U - 1, r>>} /\ o = <<U, r>> /\ r \in Int
    BY <1>5, <2>2, <2>3, <2>5
  <2> HIDE DEF r
  <2> QED
    BY <1>5, <1>7, <2>6
<1> QED
  BY <1>2, <1>9, <1>10, <1>11, <1>12, <1>13, <1>14

\* A point of the line that is a hex stays where it is.
LEMMA OnLineWhole ==
  ASSUME NEW a, NEW b, NEW n \in Nat \ {0}, NEW i, NEW k \in Int, NEW l \in Int,
         a[1] * n + (b[1] - a[1]) * i = k * n,
         a[2] * n + (b[2] - a[2]) * i = l * n
  PROVE  Grid!OnLine(a, b, n, i) = <<k, l>>
<1> DEFINE x == a[1] * n + (b[1] - a[1]) * i
           y == a[2] * n + (b[2] - a[2]) * i
           z == -x - y
           q == Grid!Round(x, n)
           r == Grid!Round(y, n)
           s == Grid!Round(z, n)
           dq == Grid!Abs(q * n - x)
           dr == Grid!Abs(r * n - y)
           ds == Grid!Abs(s * n - z)
<1>1. Grid!OnLine(a, b, n, i) =
        IF dq > dr /\ dq > ds THEN <<-r - s, r>>
        ELSE IF dr > ds THEN <<q, -q - s>> ELSE <<q, r>>
  BY Zenon DEF Grid!OnLine
<1>2. x = k * n /\ y = l * n
  OBVIOUS
<1> HIDE DEF x, y
<1>3. z = (-k - l) * n /\ -k - l \in Int
  BY <1>2
<1>4. \A m \in Int : Grid!Round(m * n, n) = m
  BY RoundOfWhole
<1>5. q = k /\ r = l /\ s = -k - l
  BY <1>2, <1>3, <1>4, Zenon
<1>6. k * n \in Int /\ l * n \in Int /\ (-k - l) * n \in Int
  OBVIOUS
<1> HIDE DEF q, r, s, z
<1>7. /\ q * n - x = 0 /\ r * n - y = 0 /\ s * n - z = 0
  BY <1>2, <1>3, <1>5, <1>6
<1>8. dq = Grid!Abs(0) /\ dr = Grid!Abs(0) /\ ds = Grid!Abs(0)
  BY <1>7, Zenon
<1>9. Grid!Abs(0) = 0
  BY DEF Grid!Abs
<1> HIDE DEF dq, dr, ds
<1>10. ~(dq > dr) /\ ~(dr > ds)
  BY <1>8, <1>9
<1> QED
  BY <1>1, <1>5, <1>10, Zenon

\* A line starts and ends where it should.
LEMMA LineEnds ==
  ASSUME NEW a \in Int \X Int, NEW b \in Int \X Int, NEW n \in Nat \ {0}
  PROVE  Grid!OnLine(a, b, n, 0) = a /\ Grid!OnLine(a, b, n, n) = b
<1>1. /\ a[1] \in Int /\ a[2] \in Int /\ b[1] \in Int /\ b[2] \in Int
      /\ a = <<a[1], a[2]>> /\ b = <<b[1], b[2]>>
  OBVIOUS
<1>2. \A u, v \in Int : u * n + (v - u) * 0 = u * n /\ u * n + (v - u) * n = v * n
  OBVIOUS
<1>3. /\ a[1] * n + (b[1] - a[1]) * 0 = a[1] * n
      /\ a[2] * n + (b[2] - a[2]) * 0 = a[2] * n
      /\ a[1] * n + (b[1] - a[1]) * n = b[1] * n
      /\ a[2] * n + (b[2] - a[2]) * n = b[2] * n
  BY <1>1, <1>2, Zenon
<1>4. Grid!OnLine(a, b, n, 0) = <<a[1], a[2]>>
  BY <1>1, <1>3, OnLineWhole
<1>5. Grid!OnLine(a, b, n, n) = <<b[1], b[2]>>
  BY <1>1, <1>3, OnLineWhole
<1> QED
  BY <1>1, <1>4, <1>5, Zenon

\* The way back is the way there.
LEMMA LineBack ==
  ASSUME NEW a \in Int \X Int, NEW b \in Int \X Int, NEW n \in Nat, NEW i \in 0..n
  PROVE  Grid!OnLine(b, a, n, i) = Grid!OnLine(a, b, n, n - i)
<1>1. ASSUME NEW u \in Int, NEW v \in Int
      PROVE  v * n + (u - v) * i = u * n + (v - u) * (n - i)
  <2>1. (v - u) * (n - i) = (v - u) * n - (v - u) * i
    OBVIOUS
  <2>2. (v - u) * n = v * n - u * n /\ (u - v) * i = -((v - u) * i)
    OBVIOUS
  <2> QED
    BY <2>1, <2>2
<1>2. /\ b[1] * n + (a[1] - b[1]) * i = a[1] * n + (b[1] - a[1]) * (n - i)
      /\ b[2] * n + (a[2] - b[2]) * i = a[2] * n + (b[2] - a[2]) * (n - i)
  BY <1>1
<1> QED
  BY <1>2, Zenon DEF Grid!OnLine

\* It is as far back as it is there.
LEMMA DistanceBack ==
  ASSUME NEW a \in Int \X Int, NEW b \in Int \X Int
  PROVE  Grid!Distance(b, a) = Grid!Distance(a, b)
BY DistanceIs

\* Every line is as it should be.
LEMMA LineIsUnbroken ==
  ASSUME NEW a \in Int \X Int, NEW b \in Int \X Int
  PROVE  LET there == Grid!LineTo(a, b)  n == Len(there)
             back == Grid!LineTo(b, a) IN
         /\ n = Grid!Distance(a, b) + 1
         /\ there[1] = a /\ there[n] = b
         /\ \A i \in 1..n : there[i] \in Int \X Int
         /\ \A i \in 1..(n - 1) : there[i + 1] \in Grid!Neighbours(there[i])
         /\ \A i \in 1..n : back[i] = there[n + 1 - i]
<1> DEFINE n == Grid!Distance(a, b)
           p(i) == Grid!OnLine(a, b, n, i)
           o(i) == Grid!OnLine(b, a, n, i)
           there == Grid!LineTo(a, b)
           back == Grid!LineTo(b, a)
<1>1. n \in Nat /\ n = Grid!Distance(b, a)
  BY DistanceIs, DistanceBack
<1>2. CASE n = 0
  <2>1. b = a
    <3>1. /\ b[1] - a[1] <= n /\ -n <= b[1] - a[1]
          /\ b[2] - a[2] <= n /\ -n <= b[2] - a[2]
      BY DistanceIs
    <3> HIDE DEF n
    <3>2. b[1] = a[1] /\ b[2] = a[2]
      BY <1>2, <3>1
    <3> QED
      BY <3>2
  <2>2. there = <<a>> /\ back = <<a>>
    BY <1>1, <1>2, <2>1, Zenon DEF Grid!LineTo
  <2>3. Len(there) = 1 /\ there[1] = a /\ back[1] = a
    BY <2>2
  <2> HIDE DEF there, back
  <2> QED
    BY <1>2, <2>1, <2>3 DEF there, back
<1>3. CASE n # 0
  <2>1. there = [i \in 1..(n + 1) |-> p(i - 1)] /\ back = [i \in 1..(n + 1) |-> o(i - 1)]
    BY <1>1, <1>3 DEF Grid!LineTo
  <2>2. Len(there) = n + 1
    BY <1>1, <2>1
  <2>3. p(0) = a /\ p(n) = b
    <3> HIDE DEF n
    <3> QED
      BY <1>1, <1>3, LineEnds DEF n
  <2>4. \A i \in 1..n : /\ p(i) \in Int \X Int /\ p(i - 1) \in Int \X Int
                        /\ p(i) \in Grid!Neighbours(p(i - 1))
    <3> SUFFICES ASSUME NEW i \in 1..n
                 PROVE  /\ p(i) \in Int \X Int /\ p(i - 1) \in Int \X Int
                        /\ p(i) \in Grid!Neighbours(p(i - 1))
      OBVIOUS
    <3> DEFINE m == n
    <3>1. m \in Nat \ {0} /\ m = Grid!Distance(a, b) /\ i \in 1..m
      BY <1>1, <1>3
    <3> HIDE DEF m
    <3>2. /\ Grid!OnLine(a, b, m, i) \in Int \X Int
          /\ Grid!OnLine(a, b, m, i - 1) \in Int \X Int
          /\ Grid!OnLine(a, b, m, i) \in Grid!Neighbours(Grid!OnLine(a, b, m, i - 1))
      BY <3>1, LineSteps
    <3> QED
      BY <3>2 DEF m
  <2>5. \A i \in 0..n : o(i) = p(n - i)
    <3> DEFINE m == n
    <3>1. m \in Nat
      BY <1>1
    <3> HIDE DEF m
    <3>2. \A i \in 0..m : Grid!OnLine(b, a, m, i) = Grid!OnLine(a, b, m, m - i)
      BY <3>1, LineBack
    <3> QED
      BY <3>2 DEF m
  <2> HIDE DEF there, back, p, o, n
  <2>6. there[1] = a /\ there[n + 1] = b
    <3>1. 1 \in 1..n + 1 /\ n + 1 \in 1..n + 1 /\ 1 - 1 = 0 /\ (n + 1) - 1 = n
      BY <1>1
    <3> QED
      BY <2>1, <2>3, <3>1
  <2>7. ASSUME NEW i \in 1..n + 1
        PROVE  there[i] \in Int \X Int /\ back[i] = there[(n + 1) + 1 - i]
    <3>1. /\ i - 1 \in 0..n /\ (n + 1) + 1 - i \in 1..n + 1
          /\ ((n + 1) + 1 - i) - 1 = n - (i - 1)
      BY <1>1
    <3>2. there[i] = p(i - 1) /\ back[i] = o(i - 1)
      BY <2>1
    <3>3. there[(n + 1) + 1 - i] = p(n - (i - 1))
      BY <2>1, <3>1
    <3>4. i - 1 = 0 \/ i - 1 \in 1..n
      BY <1>1
    <3> QED
      BY <2>3, <2>4, <2>5, <3>1, <3>2, <3>3, <3>4
  <2>8. ASSUME NEW i \in 1..n
        PROVE  there[i + 1] \in Grid!Neighbours(there[i])
    <3>1. i \in 1..n + 1 /\ i + 1 \in 1..n + 1 /\ (i + 1) - 1 = i
      BY <1>1
    <3>2. there[i] = p(i - 1) /\ there[i + 1] = p(i)
      BY <2>1, <3>1
    <3> QED
      BY <2>4, <3>2
  <2>9. (n + 1) - 1 = n
    BY <1>1
  <2> QED
    BY <2>2, <2>6, <2>7, <2>8, <2>9 DEF there, back, n
<1> QED
  BY <1>2, <1>3

\* The corners of the ring one hex away.
LEMMA CornersAre ==
  /\ Grid!Corner[1] = <<1, -1>> /\ Grid!Corner[2] = <<1, 0>>
  /\ Grid!Corner[3] = <<0, 1>> /\ Grid!Corner[4] = <<-1, 1>>
  /\ Grid!Corner[5] = <<-1, 0>> /\ Grid!Corner[6] = <<0, -1>>
<1> DEFINE Is(c) == c = [i \in 1..6 |-> IF i = 1 THEN <<1, -1>>
                                      ELSE Grid!Plus(c[i - 1], Grid!Sides[i - 1])]
           f == <<<<1, -1>>, <<1, 0>>, <<0, 1>>, <<-1, 1>>, <<-1, 0>>, <<0, -1>>>>
<1>1. Is(f)
  <2>1. /\ f = [i \in 1..6 |-> f[i]]
        /\ f[1] = <<1, -1>> /\ f[2] = <<1, 0>> /\ f[3] = <<0, 1>>
        /\ f[4] = <<-1, 1>> /\ f[5] = <<-1, 0>> /\ f[6] = <<0, -1>>
    OBVIOUS
  <2> HIDE DEF f
  <2>2. /\ f[2] = Grid!Plus(f[1], Grid!Sides[1]) /\ f[3] = Grid!Plus(f[2], Grid!Sides[2])
        /\ f[4] = Grid!Plus(f[3], Grid!Sides[3]) /\ f[5] = Grid!Plus(f[4], Grid!Sides[4])
        /\ f[6] = Grid!Plus(f[5], Grid!Sides[5])
    BY <2>1 DEF Grid!Plus, Grid!Sides
  <2>3. \A i \in 1..6 : f[i] = IF i = 1 THEN <<1, -1>>
                               ELSE Grid!Plus(f[i - 1], Grid!Sides[i - 1])
    BY <2>1, <2>2
  <2> QED
    BY <2>1, <2>3
<1>2. Grid!Corner = CHOOSE c : Is(c)
  BY Zenon DEF Grid!Corner
<1> HIDE DEF f
<1>3. Is(Grid!Corner)
  <2> HIDE DEF Is
  <2> QED
    BY <1>1, <1>2, Zenon
<1>4. \A i \in 1..6 : Grid!Corner[i] = IF i = 1 THEN <<1, -1>>
                        ELSE Grid!Plus(Grid!Corner[i - 1], Grid!Sides[i - 1])
  BY <1>3
<1> DEFINE C == Grid!Corner
<1> HIDE DEF C
<1>5. /\ C[1] = <<1, -1>> /\ C[2] = Grid!Plus(C[1], Grid!Sides[1])
      /\ C[3] = Grid!Plus(C[2], Grid!Sides[2]) /\ C[4] = Grid!Plus(C[3], Grid!Sides[3])
      /\ C[5] = Grid!Plus(C[4], Grid!Sides[4]) /\ C[6] = Grid!Plus(C[5], Grid!Sides[5])
  BY <1>4 DEF C
<1>6. C[2] = <<1, 0>>
  BY <1>5 DEF Grid!Plus, Grid!Sides
<1>7. C[3] = <<0, 1>>
  BY <1>5, <1>6 DEF Grid!Plus, Grid!Sides
<1>8. C[4] = <<-1, 1>>
  BY <1>5, <1>7 DEF Grid!Plus, Grid!Sides
<1>9. C[5] = <<-1, 0>>
  BY <1>5, <1>8 DEF Grid!Plus, Grid!Sides
<1>10. C[6] = <<0, -1>>
  BY <1>5, <1>9 DEF Grid!Plus, Grid!Sides
<1> QED
  BY <1>5, <1>6, <1>7, <1>8, <1>9, <1>10 DEF C

\* Step j along side i of the ring.
RingAt(a, k, i, j) ==
  Grid!Plus(a, Grid!Plus(Grid!Times(k, Grid!Corner[i]), Grid!Times(j, Grid!Sides[i])))

\* The six sides of a ring, in coordinates.
LEMMA RingPoints ==
  ASSUME NEW a \in Int \X Int, NEW k \in Int, NEW j \in Int
  PROVE  /\ RingAt(a, k, 1, j) = <<a[1] + k, a[2] + (j - k)>>
         /\ RingAt(a, k, 2, j) = <<a[1] + (k - j), a[2] + j>>
         /\ RingAt(a, k, 3, j) = <<a[1] - j, a[2] + k>>
         /\ RingAt(a, k, 4, j) = <<a[1] - k, a[2] + (k - j)>>
         /\ RingAt(a, k, 5, j) = <<a[1] + (j - k), a[2] - j>>
         /\ RingAt(a, k, 6, j) = <<a[1] + j, a[2] - k>>
<1> DEFINE C == Grid!Corner  D == Grid!Sides
<1>1. /\ C[1] = <<1, -1>> /\ C[2] = <<1, 0>> /\ C[3] = <<0, 1>>
      /\ C[4] = <<-1, 1>> /\ C[5] = <<-1, 0>> /\ C[6] = <<0, -1>>
  BY CornersAre
<1>2. /\ D[1] = <<0, 1>> /\ D[2] = <<-1, 1>> /\ D[3] = <<-1, 0>>
      /\ D[4] = <<0, -1>> /\ D[5] = <<1, -1>> /\ D[6] = <<1, 0>>
  BY DEF Grid!Sides
<1> HIDE DEF C, D
<1> DEFINE P(i) == <<a[1] + (k * C[i][1] + j * D[i][1]), a[2] + (k * C[i][2] + j * D[i][2])>>
<1>3. ASSUME NEW i
      PROVE  RingAt(a, k, i, j) = P(i)
  <2>1. \A x, y : <<x, y>>[1] = x /\ <<x, y>>[2] = y
    OBVIOUS
  <2> QED
    BY <2>1, Zenon DEF RingAt, Grid!Plus, Grid!Times, C, D
<1>4. RingAt(a, k, 1, j) = P(1)
  BY <1>3
<1>5. RingAt(a, k, 2, j) = P(2)
  BY <1>3
<1>6. RingAt(a, k, 3, j) = P(3)
  BY <1>3
<1>7. RingAt(a, k, 4, j) = P(4)
  BY <1>3
<1>8. RingAt(a, k, 5, j) = P(5)
  BY <1>3
<1>9. RingAt(a, k, 6, j) = P(6)
  BY <1>3
<1>10. a[1] \in Int /\ a[2] \in Int
  OBVIOUS
<1>11. P(1) = <<a[1] + k, a[2] + (j - k)>>
  BY <1>1, <1>2, <1>10
<1>12. P(2) = <<a[1] + (k - j), a[2] + j>>
  BY <1>1, <1>2, <1>10
<1>13. P(3) = <<a[1] - j, a[2] + k>>
  BY <1>1, <1>2, <1>10
<1>14. P(4) = <<a[1] - k, a[2] + (k - j)>>
  BY <1>1, <1>2, <1>10
<1>15. P(5) = <<a[1] + (j - k), a[2] - j>>
  BY <1>1, <1>2, <1>10
<1>16. P(6) = <<a[1] + j, a[2] - k>>
  BY <1>1, <1>2, <1>10
<1> QED
  BY <1>4, <1>5, <1>6, <1>7, <1>8, <1>9, <1>11, <1>12, <1>13, <1>14, <1>15,
     <1>16, Zenon

\* A ring holds the hexes at its distance.
LEMMA RingIs ==
  ASSUME NEW a \in Int \X Int, NEW k \in Nat
  PROVE  Grid!Ring(a, k) = {h \in Int \X Int : Grid!Distance(a, h) = k}
<1> DEFINE S == {h \in Int \X Int : Grid!Distance(a, h) = k}
<1>1. \A h \in Int \X Int :
        LET n == Grid!Distance(a, h)
            d == h[1] - a[1]
            e == h[2] - a[2]
            f == d + e
        IN /\ n \in Nat
           /\ d <= n /\ -n <= d /\ e <= n /\ -n <= e /\ f <= n /\ -n <= f
           /\ n \in {d, -d, e, -e, f, -f}
  BY DistanceIs
<1>2. CASE k = 0
  <2>1. Grid!Ring(a, k) = {a}
    BY <1>2 DEF Grid!Ring
  <2>2. ASSUME NEW h \in S
        PROVE  h = a
    <3>0. /\ h[1] \in Int /\ h[2] \in Int /\ a[1] \in Int /\ a[2] \in Int /\ h = <<h[1], h[2]>>
          /\ a = <<a[1], a[2]>>
      OBVIOUS
    <3>1. /\ h[1] - a[1] <= 0 /\ 0 <= h[1] - a[1]
          /\ h[2] - a[2] <= 0 /\ 0 <= h[2] - a[2]
      BY <1>1, <1>2
    <3>2. h[1] = a[1] /\ h[2] = a[2]
      BY <3>0, <3>1
    <3> QED
      BY <3>0, <3>2, Zenon
  <2>3. a \in S
    BY <1>1, <1>2
  <2> QED
    BY <2>1, <2>2, <2>3
<1>3. CASE k # 0
  <2>1. Grid!Ring(a, k) = {RingAt(a, k, i, j) : i \in 1..6, j \in 0..(k - 1)}
    BY <1>3 DEF Grid!Ring, RingAt
  <2>2. \A j \in 0..(k - 1) :
         /\ RingAt(a, k, 1, j) = <<a[1] + k, a[2] + (j - k)>>
         /\ RingAt(a, k, 2, j) = <<a[1] + (k - j), a[2] + j>>
         /\ RingAt(a, k, 3, j) = <<a[1] - j, a[2] + k>>
         /\ RingAt(a, k, 4, j) = <<a[1] - k, a[2] + (k - j)>>
         /\ RingAt(a, k, 5, j) = <<a[1] + (j - k), a[2] - j>>
         /\ RingAt(a, k, 6, j) = <<a[1] + j, a[2] - k>>
    BY RingPoints
  <2> DEFINE A == a[1]
             B == a[2]
  <2>3. A \in Int /\ B \in Int
    OBVIOUS
  <2>4. ASSUME NEW i \in 1..6, NEW j \in 0..(k - 1)
        PROVE  RingAt(a, k, i, j) \in S
    <3> DEFINE h == RingAt(a, k, i, j)
    <3>1. \/ h = <<A + k, B + (j - k)>>
          \/ h = <<A + (k - j), B + j>>
          \/ h = <<A - j, B + k>>
          \/ h = <<A - k, B + (k - j)>>
          \/ h = <<A + (j - k), B - j>>
          \/ h = <<A + j, B - k>>
      BY <2>2
    <3> HIDE DEF h, A, B
    <3>2. h \in Int \X Int
      BY <2>3, <3>1
    <3>3. \/ h[1] - A = k /\ h[2] - B = j - k
          \/ h[1] - A = k - j /\ h[2] - B = j
          \/ h[1] - A = -j /\ h[2] - B = k
          \/ h[1] - A = -k /\ h[2] - B = k - j
          \/ h[1] - A = j - k /\ h[2] - B = -j
          \/ h[1] - A = j /\ h[2] - B = -k
      BY <2>3, <3>1
    <3> DEFINE n == Grid!Distance(a, h)
               d == h[1] - A
               e == h[2] - B
    <3>4. /\ n \in Nat /\ d \in Int /\ e \in Int
          /\ d <= n /\ -n <= d /\ e <= n /\ -n <= e /\ d + e <= n /\ -n <= d + e
          /\ n \in {d, -d, e, -e, d + e, -(d + e)}
      BY <1>1, <2>3, <3>2 DEF A, B
    <3>5. \/ d = k /\ e = j - k
          \/ d = k - j /\ e = j
          \/ d = -j /\ e = k
          \/ d = -k /\ e = k - j
          \/ d = j - k /\ e = -j
          \/ d = j /\ e = -k
      BY <3>3
    <3> HIDE DEF n, d, e
    <3>6. n = k
      BY <3>4, <3>5
    <3> QED
      BY <3>2, <3>6 DEF n, h
  <2>5. ASSUME NEW h \in S
        PROVE  \E i \in 1..6, j \in 0..(k - 1) : h = RingAt(a, k, i, j)
    <3> DEFINE d == h[1] - A
               e == h[2] - B
    <3>1. /\ d \in Int /\ e \in Int
          /\ d <= k /\ -k <= d /\ e <= k /\ -k <= e /\ d + e <= k /\ -k <= d + e
          /\ k \in {d, -d, e, -e, d + e, -(d + e)}
      BY <1>1
    <3>2. h = <<A + d, B + e>>
      <4>1. h[1] = A + d /\ h[2] = B + e
        BY <2>3
      <4> HIDE DEF A, B, d, e
      <4> QED
        BY <4>1
    <3> HIDE DEF d, e
    <3>3. \/ d = k /\ e \in -k..-1
          \/ d + e = k /\ e \in 0..(k - 1)
          \/ e = k /\ -d \in 0..(k - 1)
          \/ d = -k /\ e \in 1..k
          \/ d + e = -k /\ -e \in 0..(k - 1)
          \/ e = -k /\ d \in 0..(k - 1)
      BY <1>3, <3>1
    <3> HIDE DEF A, B
    <3>4. \A j \in 0..(k - 1) :
         /\ RingAt(a, k, 1, j) = <<A + k, B + (j - k)>>
         /\ RingAt(a, k, 2, j) = <<A + (k - j), B + j>>
         /\ RingAt(a, k, 3, j) = <<A - j, B + k>>
         /\ RingAt(a, k, 4, j) = <<A - k, B + (k - j)>>
         /\ RingAt(a, k, 5, j) = <<A + (j - k), B - j>>
         /\ RingAt(a, k, 6, j) = <<A + j, B - k>>
      BY <2>2 DEF A, B
    <3>5. CASE d = k /\ e \in -k..-1
      <4>1. e + k \in 0..(k - 1) /\ (e + k) - k = e
        BY <3>1, <3>5
      <4>2. RingAt(a, k, 1, e + k) = <<A + k, B + e>>
        BY <3>4, <4>1
      <4> QED
        BY <3>2, <3>5, <4>1, <4>2
    <3>6. CASE d + e = k /\ e \in 0..(k - 1)
      <4>1. k - e = d
        BY <3>1, <3>6
      <4> QED
        BY <3>2, <3>4, <3>6, <4>1
    <3>7. CASE e = k /\ -d \in 0..(k - 1)
      <4>1. A - (-d) = A + d
        BY <2>3, <3>1
      <4> QED
        BY <3>2, <3>4, <3>7, <4>1
    <3>8. CASE d = -k /\ e \in 1..k
      <4>1. k - e \in 0..(k - 1) /\ k - (k - e) = e /\ A - k = A + d
        BY <2>3, <3>1, <3>8
      <4>2. RingAt(a, k, 4, k - e) = <<A + d, B + e>>
        BY <3>4, <4>1
      <4> QED
        BY <3>2, <3>8, <4>1, <4>2
    <3>9. CASE d + e = -k /\ -e \in 0..(k - 1)
      <4>1. (-e) - k = d /\ B - (-e) = B + e
        BY <2>3, <3>1, <3>9
      <4> QED
        BY <3>2, <3>4, <3>9, <4>1
    <3>10. CASE e = -k /\ d \in 0..(k - 1)
      <4>1. B - k = B + e
        BY <2>3, <3>1, <3>10
      <4> QED
        BY <3>2, <3>4, <3>10, <4>1
    <3> QED
      BY <3>3, <3>5, <3>6, <3>7, <3>8, <3>9, <3>10
  <2> HIDE DEF S
  <2> QED
    BY <2>1, <2>4, <2>5 DEF S
<1> QED
  BY <1>2, <1>3

\* Counting in the grid is counting.
LEMMA GridCounts ==
  ASSUME NEW S
  PROVE  Grid!Cardinality(S) = Cardinality(S)
<1>1. \A T : Grid!IsFiniteSet(T) <=> IsFiniteSet(T)
  BY Zenon DEF Grid!IsFiniteSet, IsFiniteSet
<1> QED
  BY Zenon DEF Grid!Cardinality, Cardinality, Grid!IsFiniteSet, IsFiniteSet

\* No hex is met twice on the way around.
LEMMA RingCount ==
  ASSUME NEW a \in Int \X Int, NEW k \in Nat \ {0}
  PROVE  IsFiniteSet(Grid!Ring(a, k)) /\ Cardinality(Grid!Ring(a, k)) = 6 * k
<1> DEFINE S == (1..6) \X (0..(k - 1))
           T == Grid!Ring(a, k)
           f == [s \in S |-> RingAt(a, k, s[1], s[2])]
<1>1. T = {RingAt(a, k, i, j) : i \in 1..6, j \in 0..(k - 1)}
  BY DEF Grid!Ring, RingAt
<1>2. IsFiniteSet(S) /\ Cardinality(S) = 6 * k
  <2>1. IsFiniteSet(1..6) /\ Cardinality(1..6) = 6
    <3>1. 1 \in Int /\ 6 \in Int /\ ~(1 > 6) /\ 6 - 1 + 1 = 6
      OBVIOUS
    <3>2. /\ IsFiniteSet(1..6)
          /\ Cardinality(1..6) = IF 1 > 6 THEN 0 ELSE 6 - 1 + 1
      BY <3>1, FS_Interval, Zenon
    <3> QED
      BY <3>1, <3>2
  <2>2. IsFiniteSet(0..(k - 1)) /\ Cardinality(0..(k - 1)) = k
    <3>1. k - 1 \in Int /\ 0 \in Int /\ ~(0 > k - 1) /\ (k - 1) - 0 + 1 = k
      OBVIOUS
    <3> HIDE DEF S, T
    <3> QED
      BY <3>1, FS_Interval
  <2>3. IsFiniteSet(S) /\ Cardinality(S) = Cardinality(1..6) * Cardinality(0..(k - 1))
    BY <2>1, <2>2, FS_Product, Zenon
  <2> QED
    <3> HIDE DEF S
    <3> QED
      BY <2>1, <2>2, <2>3, Zenon
<1>3. ASSUME NEW i \in 1..6, NEW j \in 0..(k - 1), NEW u \in 1..6, NEW v \in 0..(k - 1),
             RingAt(a, k, i, j) = RingAt(a, k, u, v)
      PROVE  i = u /\ j = v
  <2> DEFINE A == a[1]
             B == a[2]
             P(x, y, z) == \/ x = 1 /\ y[1] - A = k /\ y[2] - B = z - k
                           \/ x = 2 /\ y[1] - A = k - z /\ y[2] - B = z
                           \/ x = 3 /\ y[1] - A = -z /\ y[2] - B = k
                           \/ x = 4 /\ y[1] - A = -k /\ y[2] - B = k - z
                           \/ x = 5 /\ y[1] - A = z - k /\ y[2] - B = -z
                           \/ x = 6 /\ y[1] - A = z /\ y[2] - B = -k
  <2>1. ASSUME NEW x \in 1..6, NEW z \in 0..(k - 1)
        PROVE  P(x, RingAt(a, k, x, z), z) /\ RingAt(a, k, x, z) \in Int \X Int
    <3>1. /\ RingAt(a, k, 1, z) = <<A + k, B + (z - k)>>
          /\ RingAt(a, k, 2, z) = <<A + (k - z), B + z>>
          /\ RingAt(a, k, 3, z) = <<A - z, B + k>>
          /\ RingAt(a, k, 4, z) = <<A - k, B + (k - z)>>
          /\ RingAt(a, k, 5, z) = <<A + (z - k), B - z>>
          /\ RingAt(a, k, 6, z) = <<A + z, B - k>>
      BY RingPoints
    <3>2. A \in Int /\ B \in Int
      OBVIOUS
    <3> HIDE DEF A, B
    <3> QED
      BY <3>1, <3>2
  <2> DEFINE h == RingAt(a, k, i, j)
             d == h[1] - A
             e == h[2] - B
  <2>2. P(i, h, j) /\ h \in Int \X Int /\ A \in Int /\ B \in Int
    BY <2>1
  <2>3. P(u, h, v)
    <3> HIDE DEF P
    <3>1. P(u, RingAt(a, k, u, v), v)
      BY <2>1
    <3> QED
      BY <1>3, <3>1, Zenon
  <2>4. d \in Int /\ e \in Int
    BY <2>2
  <2>5. \/ i = 1 /\ d = k /\ e = j - k
        \/ i = 2 /\ d = k - j /\ e = j
        \/ i = 3 /\ d = -j /\ e = k
        \/ i = 4 /\ d = -k /\ e = k - j
        \/ i = 5 /\ d = j - k /\ e = -j
        \/ i = 6 /\ d = j /\ e = -k
    BY <2>2, Zenon
  <2>6. \/ u = 1 /\ d = k /\ e = v - k
        \/ u = 2 /\ d = k - v /\ e = v
        \/ u = 3 /\ d = -v /\ e = k
        \/ u = 4 /\ d = -k /\ e = k - v
        \/ u = 5 /\ d = v - k /\ e = -v
        \/ u = 6 /\ d = v /\ e = -k
    BY <2>3, Zenon
  <2> HIDE DEF d, e
  <2> QED
    BY <2>4, <2>5, <2>6
<1>4. f \in Bijection(S, T)
  <2>1. f \in [S -> T]
    BY <1>1
  <2>2. ASSUME NEW s \in S, NEW t \in S, f[s] = f[t]
        PROVE  s = t
    <3>1. s[1] = t[1] /\ s[2] = t[2]
      BY <1>3, <2>2
    <3> QED
      BY <3>1
  <2>3. ASSUME NEW t \in T
        PROVE  \E s \in S : f[s] = t
    <3>1. PICK i \in 1..6, j \in 0..(k - 1) : t = RingAt(a, k, i, j)
      BY <1>1
    <3>2. <<i, j>> \in S /\ f[<<i, j>>] = t
      BY <3>1
    <3> QED
      BY <3>2
  <2> HIDE DEF f, S, T
  <2> QED
    BY <2>1, <2>2, <2>3 DEF Bijection, Injection, Surjection, IsInjective
<1> HIDE DEF f, S, T
<1>5. ExistsBijection(S, T)
  BY <1>4, Zenon DEF ExistsBijection
<1> QED
  BY <1>2, <1>5, FS_Bijection, Zenon DEF T

\* A disc holds the hexes no further than its radius.
LEMMA DiscIs ==
  ASSUME NEW a \in Int \X Int, NEW k \in Nat
  PROVE  Grid!Within(a, k) = {h \in Int \X Int : Grid!Distance(a, h) <= k}
<1>1. \A j \in 0..k : Grid!Ring(a, j) = {h \in Int \X Int : Grid!Distance(a, h) = j}
  BY RingIs
<1>2. \A h \in Int \X Int : Grid!Distance(a, h) \in Nat
  BY DistanceIs
<1>3. Grid!Within(a, k) = UNION {Grid!Ring(a, j) : j \in 0..k}
  BY Zenon DEF Grid!Within
<1> QED
  BY <1>1, <1>2, <1>3

\* How many those are.
LEMMA DiscCount ==
  ASSUME NEW a \in Int \X Int, NEW k \in Nat
  PROVE  /\ IsFiniteSet(Grid!Within(a, k))
         /\ Cardinality(Grid!Within(a, k)) = 1 + 3 * k * (k + 1)
<1> DEFINE Good(m) == /\ IsFiniteSet(Grid!Within(a, m))
                      /\ Cardinality(Grid!Within(a, m)) = 1 + 3 * m * (m + 1)
           T == {m \in 0..k : Good(m)}
<1>1. \A j \in 0..k :
        /\ Grid!Within(a, j) = {h \in Int \X Int : Grid!Distance(a, h) <= j}
        /\ Grid!Ring(a, j) = {h \in Int \X Int : Grid!Distance(a, h) = j}
  BY DiscIs, RingIs
<1>2. \A h \in Int \X Int : Grid!Distance(a, h) \in Nat
  BY DistanceIs
<1>3. Good(0)
  <2>1. Grid!Within(a, 0) = Grid!Ring(a, 0)
    BY <1>1, <1>2
  <2>2. Grid!Within(a, 0) = {a}
    BY <2>1 DEF Grid!Ring
  <2>3. 1 + 3 * 0 * (0 + 1) = 1
    OBVIOUS
  <2> QED
    BY <2>2, <2>3, FS_Singleton
<1>4. ASSUME NEW m \in 1..k, m - 1 \in T
      PROVE  m \in T
  <2> DEFINE U == Grid!Within(a, m - 1)
             V == Grid!Ring(a, m)
  <2>1. m - 1 \in 0..k /\ m \in 0..k /\ m \in Nat \ {0}
    OBVIOUS
  <2>2. Grid!Within(a, m) = U \cup V /\ U \cap V = {}
    BY <1>1, <1>2, <2>1
  <2>3. IsFiniteSet(U) /\ Cardinality(U) = 1 + 3 * (m - 1) * ((m - 1) + 1)
    BY <1>4
  <2>4. IsFiniteSet(V) /\ Cardinality(V) = 6 * m
    BY <2>1, RingCount
  <2> HIDE DEF U, V
  <2>5. /\ IsFiniteSet(U \cup V)
        /\ Cardinality(U \cup V) = Cardinality(U) + Cardinality(V) - Cardinality(U \cap V)
    BY <2>3, <2>4, FS_Union
  <2>6. Cardinality(U \cap V) = 0
    BY <2>2, FS_EmptySet
  <2>7. 1 + 3 * (m - 1) * ((m - 1) + 1) + 6 * m - 0 = 1 + 3 * m * (m + 1)
    BY <2>1
  <2> QED
    BY <2>1, <2>2, <2>3, <2>4, <2>5, <2>6, <2>7
<1>5. \A i \in 0..k : i \in T
  <2>1. 0 \in T
    BY <1>3
  <2> HIDE DEF T
  <2> QED
    BY <1>4, <2>1, Induction
<1> QED
  BY <1>5

\* The disc of a state, as the invariant puts it.
LEMMA DiscIsFull ==
  ASSUME NEW a \in Int \X Int, NEW k \in Nat
  PROVE  LET square == {Grid!Plus(a, <<i, j>>) : i \in -k..k, j \in -k..k} IN
         /\ Grid!Within(a, k) = {h \in square : Grid!Distance(a, h) <= k}
         /\ Grid!Cardinality(Grid!Within(a, k)) = 1 + 3 * k * (k + 1)
<1> DEFINE square == {Grid!Plus(a, <<i, j>>) : i \in -k..k, j \in -k..k}
<1>1. square \subseteq Int \X Int
  BY DEF Grid!Plus
<1>2. ASSUME NEW h \in Int \X Int, Grid!Distance(a, h) <= k
      PROVE  h \in square
  <2> DEFINE i == h[1] - a[1]
             j == h[2] - a[2]
  <2>1. i \in -k..k /\ j \in -k..k
    <3> DEFINE n == Grid!Distance(a, h)
    <3>1. n \in Nat /\ i <= n /\ -n <= i /\ j <= n /\ -n <= j
      BY DistanceIs
    <3>2. i \in Int /\ j \in Int /\ n <= k
      BY <1>2
    <3> HIDE DEF n, i, j
    <3> QED
      BY <3>1, <3>2
  <2>2. h = <<a[1] + i, a[2] + j>>
    <3>1. h[1] = a[1] + i /\ h[2] = a[2] + j
      OBVIOUS
    <3>2. h = <<h[1], h[2]>>
      OBVIOUS
    <3> HIDE DEF i, j
    <3> QED
      BY <3>1, <3>2, Zenon
  <2> HIDE DEF i, j
  <2>3. h = Grid!Plus(a, <<i, j>>)
    BY <2>2 DEF Grid!Plus
  <2> QED
    BY <2>1, <2>3
<1>3. Grid!Within(a, k) = {h \in Int \X Int : Grid!Distance(a, h) <= k}
  BY DiscIs
<1> HIDE DEF square
<1>4. Grid!Within(a, k) = {h \in square : Grid!Distance(a, h) <= k}
  BY <1>1, <1>2, <1>3
<1>5. Grid!Cardinality(Grid!Within(a, k)) = 1 + 3 * k * (k + 1)
  BY GridCounts, DiscCount
<1> QED
  BY <1>4, <1>5 DEF square

\* So much for the grid.
LEMMA GridSound ==
  ASSUME Grid!TypeOK
  PROVE  Grid!GridIsSound
<1>1. from \in Int \X Int /\ to \in Int \X Int /\ radius \in Nat
  <2>1. OnGrid.reach \in Nat
    BY PartsAreSound DEF Grid!HexConstants
  <2> QED
    BY <2>1 DEF Grid!TypeOK, Grid!Hexes
<1>2. Grid!LinesAreUnbroken
  BY <1>1, LineIsUnbroken DEF Grid!LinesAreUnbroken
<1>3. Grid!DiscsAreFull
  BY <1>1, DiscIsFull DEF Grid!DiscsAreFull
<1> QED
  BY <1>2, <1>3 DEF Grid!GridIsSound

\* A line is drawn between hexes, and a disc is not wider than the reach.
LEMMA GridStarts ==
  ASSUME Grid!Init
  PROVE  Grid!TypeOK
<1>1. OnGrid.origin \in Int \X Int /\ OnGrid.reach \in Nat
  BY PartsAreSound, Zenon DEF Grid!HexConstants, Grid!Hexes
<1>2. 0 \in 0..OnGrid.reach
  BY <1>1
<1> QED
  BY <1>1, <1>2, Zenon DEF Grid!Init, Grid!TypeOK, Grid!Hexes

\* A step of the grid shows a pair of hexes, as the types say.
LEMMA GridKeeps ==
  ASSUME Grid!TypeOK, GridStep
  PROVE  Grid!TypeOK'
<1>1. OnGrid.origin \in Int \X Int /\ OnGrid.reach \in Nat /\ 1 \in Nat
  BY PartsAreSound, Zenon DEF Grid!HexConstants, Grid!Hexes
<1>2. /\ Grid!Within(OnGrid.origin, 1) \subseteq Int \X Int
      /\ Grid!Within(OnGrid.origin, OnGrid.reach) \subseteq Int \X Int
  BY <1>1, DiscIs
<1>3. CASE UNCHANGED grid
  BY <1>3 DEF grid, Grid!TypeOK
<1>4. CASE Grid!Widen
  BY <1>1, <1>4 DEF Grid!Widen, Grid!TypeOK
<1>5. ASSUME NEW a \in Grid!Within(OnGrid.origin, 1),
             NEW b \in Grid!Within(OnGrid.origin, OnGrid.reach), Grid!Draw(a, b)
      PROVE  Grid!TypeOK'
  BY <1>2, <1>5 DEF Grid!Draw, Grid!TypeOK, Grid!Hexes
<1> QED
  BY <1>3, <1>4, <1>5, Zenon DEF GridStep, Grid!Next

\* HexGrid, TypeOK: a line is drawn between hexes, and no disc is wider than the
\* reach (caravaneer/core.py).
THEOREM GridTypes == Spec => [](part = "grid" => Grid!TypeOK)
<1> DEFINE I == part = "grid" => Grid!TypeOK
<1>1. Init => I
  BY GridStarts DEF Init
<1>2. I /\ [Next]_vars => I'
  BY GameMoves, GridKeeps
<1> QED
  BY <1>1, <1>2, PTL DEF Spec

(***************************************************************************)
(* Routes (HexRoute).                                                      *)
(***************************************************************************)

\* Neighbours are the hexes one away.
LEMMA NeighbourIs ==
  ASSUME NEW a \in Int \X Int
  PROVE  Grid!Neighbours(a) = {h \in Int \X Int : Grid!Distance(a, h) = 1}
<1> DEFINE A == a[1]
           B == a[2]
<1>1. A \in Int /\ B \in Int /\ a = <<A, B>>
  OBVIOUS
<1> HIDE DEF A, B
<1>2. Grid!Neighbours(a) =
        {<<A, B + 1>>, <<A - 1, B + 1>>, <<A - 1, B>>, <<A, B - 1>>,
         <<A + 1, B - 1>>, <<A + 1, B>>}
  BY <1>1, NeighboursAre
<1>3. \A h \in Int \X Int :
        LET n == Grid!Distance(a, h)
            d == h[1] - A
            e == h[2] - B
            f == d + e
        IN /\ n \in Nat
           /\ d <= n /\ -n <= d /\ e <= n /\ -n <= e /\ f <= n /\ -n <= f
           /\ n \in {d, -d, e, -e, f, -f}
  BY DistanceIs DEF A, B
<1>4. ASSUME NEW h \in Grid!Neighbours(a)
      PROVE  h \in Int \X Int /\ Grid!Distance(a, h) = 1
  <2>1. h \in Int \X Int
    BY <1>1, <1>2
  <2>2. \/ h[1] - A = 0 /\ h[2] - B = 1
        \/ h[1] - A = -1 /\ h[2] - B = 1
        \/ h[1] - A = -1 /\ h[2] - B = 0
        \/ h[1] - A = 0 /\ h[2] - B = -1
        \/ h[1] - A = 1 /\ h[2] - B = -1
        \/ h[1] - A = 1 /\ h[2] - B = 0
    <3>1. \/ h = <<A, B + 1>> \/ h = <<A - 1, B + 1>> \/ h = <<A - 1, B>>
          \/ h = <<A, B - 1>> \/ h = <<A + 1, B - 1>> \/ h = <<A + 1, B>>
      BY <1>2
    <3> QED
      BY <1>1, <3>1
  <2> QED
    BY <1>3, <2>1, <2>2
<1>5. ASSUME NEW h \in Int \X Int, Grid!Distance(a, h) = 1
      PROVE  h \in Grid!Neighbours(a)
  <2> DEFINE d == h[1] - A
             e == h[2] - B
  <2>1. /\ d \in {-1, 0, 1} /\ e \in {-1, 0, 1} /\ d + e \in {-1, 0, 1}
        /\ ~(d = 0 /\ e = 0)
    <3>1. d \in Int /\ e \in Int
      BY <1>1
    <3>2. /\ d <= 1 /\ -1 <= d /\ e <= 1 /\ -1 <= e /\ d + e <= 1 /\ -1 <= d + e
          /\ 1 \in {d, -d, e, -e, d + e, -(d + e)}
      BY <1>3, <1>5
    <3> HIDE DEF d, e
    <3> QED
      BY <3>1, <3>2
  <2>2. h = <<A + d, B + e>>
    <3>1. h[1] = A + d /\ h[2] = B + e
      BY <1>1
    <3> HIDE DEF d, e
    <3> QED
      BY <3>1
  <2> HIDE DEF d, e
  <2>3. \/ h = <<A + 0, B + 1>> \/ h = <<A + -1, B + 1>> \/ h = <<A + -1, B + 0>>
        \/ h = <<A + 0, B + -1>> \/ h = <<A + 1, B + -1>> \/ h = <<A + 1, B + 0>>
    <3>1. \/ d = 0 /\ e = 1
          \/ d = -1 /\ e = 1
          \/ d = -1 /\ e = 0
          \/ d = 0 /\ e = -1
          \/ d = 1 /\ e = -1
          \/ d = 1 /\ e = 0
      <4>1. d = -1 => e # -1
        BY <2>1
      <4>2. d = 1 => e # 1
        BY <2>1
      <4> QED
        BY <2>1, <4>1, <4>2
    <3> QED
      BY <2>2, <3>1
  <2>4. A + 0 = A /\ B + 0 = B /\ A + -1 = A - 1 /\ B + -1 = B - 1
    BY <1>1
  <2> QED
    BY <1>2, <2>3, <2>4
<1> QED
  BY <1>4, <1>5

\* The distance to a hex changes by at most one with a step.
LEMMA DistanceOfNext ==
  ASSUME NEW a \in Int \X Int, NEW b \in Int \X Int, NEW c \in Int \X Int,
         Grid!Distance(a, b) = 1
  PROVE  Grid!Distance(b, c) <= Grid!Distance(a, c) + 1
<1> DEFINE p == b[1] - a[1]
           q == b[2] - a[2]
           d == c[1] - b[1]
           e == c[2] - b[2]
           u == c[1] - a[1]
           v == c[2] - a[2]
           m == Grid!Distance(a, c)
           n == Grid!Distance(b, c)
<1>1. /\ p \in Int /\ q \in Int /\ d \in Int /\ e \in Int
      /\ u \in Int /\ v \in Int /\ u = p + d /\ v = q + e
  OBVIOUS
<1>2. p <= 1 /\ -1 <= p /\ q <= 1 /\ -1 <= q /\ p + q <= 1 /\ -1 <= p + q
  BY DistanceIs
<1>3. /\ m \in Nat
      /\ u <= m /\ -m <= u /\ v <= m /\ -m <= v /\ u + v <= m /\ -m <= u + v
  BY DistanceIs
<1>4. n \in Nat /\ n \in {d, -d, e, -e, d + e, -(d + e)}
  BY DistanceIs
<1> HIDE DEF p, q, d, e, u, v, m, n
<1>5. n <= m + 1
  BY <1>1, <1>2, <1>3, <1>4
<1> QED
  BY <1>5 DEF m, n

\* From anywhere a step leads nearer.
LEMMA StepNearer ==
  ASSUME NEW a \in Int \X Int, NEW h \in Int \X Int, NEW k \in Nat,
         Grid!Distance(a, h) = k + 1
  PROVE  \E n \in Int \X Int : Grid!Distance(h, n) = 1 /\ Grid!Distance(a, n) <= k
<1> DEFINE A == h[1]
           B == h[2]
           d == A - a[1]
           e == B - a[2]
<1>1. /\ A \in Int /\ B \in Int /\ a[1] \in Int /\ a[2] \in Int /\ h = <<A, B>>
      /\ d \in Int /\ e \in Int
  OBVIOUS
<1>2. /\ d <= k + 1 /\ -(k + 1) <= d /\ e <= k + 1 /\ -(k + 1) <= e
      /\ d + e <= k + 1 /\ -(k + 1) <= d + e
      /\ k + 1 \in {d, -d, e, -e, d + e, -(d + e)}
  BY DistanceIs
<1>3. ASSUME NEW s \in Int, NEW t \in Int,
             <<s, t>> \in {<<0, 1>>, <<-1, 1>>, <<-1, 0>>, <<0, -1>>, <<1, -1>>, <<1, 0>>},
             d + s <= k, -k <= d + s, e + t <= k, -k <= e + t,
             d + e + s + t <= k, -k <= d + e + s + t
      PROVE  \E n \in Int \X Int : Grid!Distance(h, n) = 1 /\ Grid!Distance(a, n) <= k
  <2> DEFINE n == <<A + s, B + t>>
  <2>1. n \in Int \X Int
    BY <1>1
  <2>2. n[1] - A = s /\ n[2] - B = t
    BY <1>1
  <2>3. n[1] - a[1] = d + s /\ n[2] - a[2] = e + t
    BY <1>1
  <2>4. Grid!Distance(h, n) = 1
    <3>1. LET m == Grid!Distance(h, n) IN
          /\ m \in Nat
          /\ s <= m /\ -m <= s /\ t <= m /\ -m <= t /\ s + t <= m /\ -m <= s + t
          /\ m \in {s, -s, t, -t, s + t, -(s + t)}
      <4> HIDE DEF n
      <4> QED
        BY <2>1, <2>2, DistanceIs
    <3> QED
      BY <1>3, <3>1
  <2>5. Grid!Distance(a, n) <= k
    <3> DEFINE m == Grid!Distance(a, n)
               u == d + s
               v == e + t
    <3>1. m \in Nat /\ m \in {u, -u, v, -v, u + v, -(u + v)}
      <4> HIDE DEF n
      <4> QED
        BY <2>1, <2>3, DistanceIs
    <3>2. /\ u \in Int /\ v \in Int
          /\ u <= k /\ -k <= u /\ v <= k /\ -k <= v /\ u + v <= k /\ -k <= u + v
      BY <1>1, <1>3
    <3> HIDE DEF m, u, v
    <3>3. m <= k
      BY <3>1, <3>2
    <3> QED
      BY <3>3 DEF m
  <2> QED
    BY <2>1, <2>4, <2>5
<1> HIDE DEF A, B, d, e
<1>4. CASE d > 0 /\ e < 0
  BY <1>1, <1>2, <1>3, <1>4
<1>5. CASE d < 0 /\ e > 0
  BY <1>1, <1>2, <1>3, <1>5
<1>6. CASE d > 0 /\ e >= 0
  BY <1>1, <1>2, <1>3, <1>6
<1>7. CASE d = 0 /\ e > 0
  BY <1>1, <1>2, <1>3, <1>7
<1>8. CASE d < 0 /\ e <= 0
  BY <1>1, <1>2, <1>3, <1>8
<1>9. CASE d = 0 /\ e < 0
  BY <1>1, <1>2, <1>3, <1>9
<1>10. CASE d = 0 /\ e = 0
  BY <1>2, <1>10
<1> QED
  BY <1>1, <1>4, <1>5, <1>6, <1>7, <1>8, <1>9, <1>10

(* What each hex costs at best is accounted for by a neighbour, and when   *)
(* it is measured no neighbour offers it for less.                         *)
BestInv ==
  /\ cost \in [Routes!Hexes -> {10, 15, 23}]
  /\ best \in [Routes!Hexes -> Nat] /\ best[OnRoute.start] = 0
  /\ \A h \in Routes!Hexes : h = OnRoute.start \/ best[h] = Routes!Unknown
       \/ \E n \in Routes!Nearby(h) : best[n] + cost[h] <= best[h]
  /\ leg # "measure" =>
       \A h \in Routes!Hexes : \A n \in Routes!Nearby(h) : best[h] <= best[n] + cost[h]

(* A hex that has been looked at is in the heap with its cost of now, or   *)
(* its neighbours are known to cost no more than by way of it.             *)
Open(x) ==
  \E f \in frontier :
     f.hex = x /\ f.priority <= sofar[x] + 10 * Grid!Distance(x, goal)
Closed(x) ==
  \A n \in Routes!Nearby(x) : n \in DOMAIN sofar /\ sofar[n] <= sofar[x] + cost[n]

SearchInv ==
  /\ goal \in OnRoute.goals
  /\ leg \in {"measure", "search", "trace", "leap", "found", "none"}
  /\ leg = "measure" => DOMAIN sofar = {OnRoute.start}
  /\ goal = OnRoute.start => leg \in {"measure", "found"}
  /\ DOMAIN sofar \subseteq Routes!Hexes
  /\ OnRoute.start \in DOMAIN sofar /\ sofar[OnRoute.start] = 0
  /\ \A h \in DOMAIN sofar : sofar[h] \in Nat /\ best[h] <= sofar[h]
  /\ DOMAIN came = DOMAIN sofar \ {OnRoute.start}
  /\ \A h \in DOMAIN came :
       /\ came[h] \in DOMAIN sofar /\ Grid!Distance(came[h], h) = 1
       /\ sofar[came[h]] + cost[h] <= sofar[h]
  /\ frontier \subseteq [priority : Nat, hex : Routes!Hexes]
  /\ \A f \in frontier :
       f.hex \in DOMAIN sofar /\ (f.hex = OnRoute.start \/ sofar[f.hex] <= f.priority)
  /\ \A x \in DOMAIN sofar : Open(x) \/ Closed(x)

(* The way back goes down by what it costs, and the jumps along it.        *)
PathInv ==
  /\ path \in Seq(Routes!Hexes)
  /\ leg \in {"trace", "leap"} \/ (leg = "found" /\ goal # OnRoute.start) =>
       /\ goal \in DOMAIN sofar /\ sofar[goal] = best[goal]
       /\ Len(path) >= 1 /\ path[Len(path)] = goal
       /\ \A i \in 1..Len(path) : path[i] \in DOMAIN sofar
       /\ \A i \in 1..Len(path) - 1 :
            /\ Grid!Distance(path[i], path[i + 1]) = 1
            /\ sofar[path[i]] + cost[path[i + 1]] <= sofar[path[i + 1]]
  /\ leg = "leap" \/ (leg = "found" /\ goal # OnRoute.start) => path[1] = OnRoute.start
  /\ route \in Seq(Routes!Hexes)
  /\ leg \in {"leap", "found"} =>
       /\ Len(route) >= 1 /\ route[1] = OnRoute.start
       /\ \A i \in 1..Len(route) - 1 :
            Grid!Distance(route[i], route[i + 1]) <= OnRoute.jumpRange
  /\ leg = "leap" => \E k \in 1..Len(path) : path[k] = route[Len(route)]
  /\ leg = "found" => goal \in Routes!Hexes /\ route[Len(route)] = goal
  /\ leg = "none" => goal \notin Routes!Hexes

RouteInv == BestInv /\ SearchInv /\ PathInv

\* The constants of the map.
LEMMA RouteFacts ==
  /\ OnRoute.origin \in Int \X Int /\ OnRoute.radius \in Nat
  /\ OnRoute.start \in Routes!Hexes /\ OnRoute.jumpRange \in Nat \ {0}
  /\ OnRoute.goals \subseteq Int \X Int
  /\ OnRoute.rough \subseteq Routes!Hexes
  /\ Routes!Hexes \subseteq Int \X Int
  /\ \A h \in Int \X Int : h \in Routes!Hexes <=>
                             Grid!Distance(OnRoute.origin, h) <= OnRoute.radius
<1>1. Routes!RouteConstants
  BY PartsAreSound, Zenon
<1>2. /\ OnRoute.origin \in Int \X Int /\ OnRoute.radius \in Nat
      /\ OnRoute.start \in Routes!Hexes /\ OnRoute.jumpRange \in Nat \ {0}
      /\ OnRoute.goals \subseteq Int \X Int /\ OnRoute.rough \subseteq Routes!Hexes
  BY <1>1, Zenon
     DEF Routes!RouteConstants, Routes!Grid!HexConstants, Routes!Grid!Hexes
<1>3. Routes!Hexes = Grid!Within(OnRoute.origin, OnRoute.radius)
  BY SameGrid, Zenon DEF Routes!Hexes
<1>4. Routes!Hexes = {h \in Int \X Int : Grid!Distance(OnRoute.origin, h) <= OnRoute.radius}
  BY <1>2, <1>3, DiscIs
<1> QED
  BY <1>2, <1>4, Zenon

\* Who is near whom.
LEMMA NearbyIs ==
  ASSUME NEW h \in Routes!Hexes
  PROVE  /\ Routes!Nearby(h) = {n \in Routes!Hexes : Grid!Distance(h, n) = 1}
         /\ h \notin Routes!Nearby(h)
         /\ \A n \in Routes!Nearby(h) : h \in Routes!Nearby(n)
<1>1. \A x \in Routes!Hexes :
        Routes!Nearby(x) = {n \in Routes!Hexes : Grid!Distance(x, n) = 1}
  <2> SUFFICES ASSUME NEW x \in Routes!Hexes
               PROVE  Routes!Nearby(x) = {n \in Routes!Hexes : Grid!Distance(x, n) = 1}
    OBVIOUS
  <2>1. x \in Int \X Int
    BY RouteFacts
  <2>2. Routes!Nearby(x) = Grid!Neighbours(x) \cap Routes!Hexes
    BY SameGrid, Zenon DEF Routes!Nearby
  <2>3. Grid!Neighbours(x) = {n \in Int \X Int : Grid!Distance(x, n) = 1}
    BY <2>1, NeighbourIs
  <2> QED
    BY <2>2, <2>3, RouteFacts
<1>2. \A x, y \in Int \X Int : Grid!Distance(y, x) = Grid!Distance(x, y)
  BY DistanceBack
<1>3. Grid!Distance(h, h) # 1
  <2> DEFINE n == Grid!Distance(h, h)
  <2>1. h \in Int \X Int
    BY RouteFacts
  <2>2. n \in {h[1] - h[1], -(h[1] - h[1]), h[2] - h[2], -(h[2] - h[2]),
               (h[1] - h[1]) + (h[2] - h[2]), -((h[1] - h[1]) + (h[2] - h[2]))}
    BY <2>1, DistanceIs
  <2> HIDE DEF n
  <2>3. n = 0
    BY <2>1, <2>2
  <2> QED
    BY <2>3 DEF n
<1> QED
  BY <1>1, <1>2, <1>3, RouteFacts

\* The search begins as it should.
LEMMA RouteStarts == Routes!Init => RouteInv
<1> SUFFICES ASSUME Routes!Init PROVE RouteInv
  OBVIOUS
<1>1. /\ goal \in OnRoute.goals
      /\ best = [h \in Routes!Hexes |-> IF h = OnRoute.start THEN 0 ELSE Routes!Unknown]
      /\ leg = "measure" /\ frontier = {[priority |-> 0, hex |-> OnRoute.start]}
      /\ sofar = [h \in {OnRoute.start} |-> 0] /\ came = [h \in {} |-> OnRoute.start]
      /\ path = <<>> /\ route = <<>>
  BY Zenon DEF Routes!Init
<1>2. OnRoute.start \in Routes!Hexes /\ Routes!Unknown \in Nat
  BY RouteFacts DEF Routes!Unknown
<1>3. cost \in [Routes!Hexes -> {10, 15, 23}]
  <2>1. PICK c \in [OnRoute.rough -> Routes!Costs] :
          cost = [h \in Routes!Hexes |-> IF h \in OnRoute.rough THEN c[h] ELSE 10]
    BY Zenon DEF Routes!Init
  <2> QED
    BY <2>1 DEF Routes!Costs
<1>4. BestInv
  BY <1>1, <1>2, <1>3 DEF BestInv
<1>5. SearchInv
  <2>1. /\ DOMAIN sofar = {OnRoute.start} /\ sofar[OnRoute.start] = 0
        /\ best[OnRoute.start] = 0 /\ DOMAIN came = {}
    BY <1>1, <1>2
  <2>2. Open(OnRoute.start)
    <3>1. goal \in Int \X Int /\ OnRoute.start \in Int \X Int
      BY <1>1, RouteFacts
    <3>2. Grid!Distance(OnRoute.start, goal) \in Nat
      BY <3>1, DistanceIs
    <3> QED
      BY <1>1, <2>1, <3>2 DEF Open
  <2> QED
    BY <1>1, <1>2, <2>1, <2>2 DEF SearchInv
<1>6. PathInv
  BY <1>1 DEF PathInv
<1> QED
  BY <1>4, <1>5, <1>6 DEF RouteInv

\* From Origin and back, every hex is as near as its distance.
LEMMA FromOrigin ==
  ASSUME BestInv, leg # "measure",
         NEW h \in Routes!Hexes, NEW o, o = OnRoute.origin
  PROVE  /\ o \in Routes!Hexes
         /\ best[h] <= best[o] + 23 * OnRoute.radius
         /\ best[o] <= best[h] + 23 * OnRoute.radius
<1> DEFINE R == OnRoute.radius
           H == Routes!Hexes
           T == {k \in 0..R : \A x \in H : Grid!Distance(o, x) <= k =>
                   best[x] <= best[o] + 23 * k /\ best[o] <= best[x] + 23 * k}
<1>1. /\ o \in Int \X Int /\ R \in Nat /\ H \subseteq Int \X Int
      /\ \A x \in Int \X Int : x \in H <=> Grid!Distance(o, x) <= R
  BY RouteFacts
<1>2. \A x \in Int \X Int : Grid!Distance(o, x) \in Nat
  BY <1>1, DistanceIs
<1>3. ASSUME NEW x \in Int \X Int, Grid!Distance(o, x) <= 0
      PROVE  x = o
  <2> DEFINE n == Grid!Distance(o, x)
  <2>1. /\ n \in Nat /\ x[1] - o[1] <= n /\ -n <= x[1] - o[1]
        /\ x[2] - o[2] <= n /\ -n <= x[2] - o[2]
    BY <1>1, DistanceIs
  <2>2. /\ x[1] \in Int /\ x[2] \in Int /\ o[1] \in Int /\ o[2] \in Int
        /\ x = <<x[1], x[2]>> /\ o = <<o[1], o[2]>> /\ n <= 0
    BY <1>1, <1>3
  <2> HIDE DEF n
  <2>3. x[1] = o[1] /\ x[2] = o[2]
    BY <2>1, <2>2
  <2> QED
    BY <2>2, <2>3, Zenon
<1>4. o \in H
  <2> DEFINE n == Grid!Distance(o, o)
  <2>1. n \in {o[1] - o[1], -(o[1] - o[1]), o[2] - o[2], -(o[2] - o[2]),
               (o[1] - o[1]) + (o[2] - o[2]), -((o[1] - o[1]) + (o[2] - o[2]))}
    BY <1>1, DistanceIs
  <2>2. o[1] \in Int /\ o[2] \in Int
    BY <1>1
  <2> HIDE DEF n
  <2>3. n = 0
    BY <2>1, <2>2
  <2> QED
    BY <1>1, <2>3 DEF n
<1>5. /\ \A x \in H : best[x] \in Nat /\ cost[x] \in {10, 15, 23}
      /\ \A x \in H : \A n \in H : Grid!Distance(x, n) = 1 => best[x] <= best[n] + cost[x]
  BY NearbyIs DEF BestInv
<1>6. 0 \in T
  BY <1>1, <1>3, <1>5
<1>7. ASSUME NEW k \in 1..R, k - 1 \in T
      PROVE  k \in T
  <2> SUFFICES ASSUME NEW x \in H, Grid!Distance(o, x) <= k
               PROVE  best[x] <= best[o] + 23 * k /\ best[o] <= best[x] + 23 * k
    OBVIOUS
  <2>1. CASE Grid!Distance(o, x) <= k - 1
    <3>1. best[x] <= best[o] + 23 * (k - 1) /\ best[o] <= best[x] + 23 * (k - 1)
      BY <1>7, <2>1
    <3>2. best[x] \in Nat /\ best[o] \in Nat
      BY <1>4, <1>5
    <3> QED
      BY <3>1, <3>2
  <2>2. CASE ~(Grid!Distance(o, x) <= k - 1)
    <3> DEFINE j == k - 1
    <3>1. j \in Nat /\ Grid!Distance(o, x) = j + 1 /\ x \in Int \X Int
      BY <1>1, <1>2, <2>2
    <3> HIDE DEF j
    <3>2. PICK n \in Int \X Int : Grid!Distance(x, n) = 1 /\ Grid!Distance(o, n) <= j
      BY <1>1, <3>1, StepNearer
    <3>3. n \in H
      <4>1. Grid!Distance(o, n) <= R
        BY <1>1, <1>2, <3>2 DEF j
      <4> QED
        BY <1>1, <4>1
    <3>4. best[n] <= best[o] + 23 * j /\ best[o] <= best[n] + 23 * j
      BY <1>7, <3>2, <3>3 DEF j
    <3>5. Grid!Distance(n, x) = 1
      BY <3>1, <3>2, DistanceBack
    <3>6. best[x] <= best[n] + cost[x] /\ best[n] <= best[x] + cost[n]
      BY <1>5, <3>2, <3>3, <3>5
    <3>7. /\ best[x] \in Nat /\ best[n] \in Nat /\ best[o] \in Nat
          /\ cost[x] \in Nat /\ cost[n] \in Nat /\ cost[x] <= 23 /\ cost[n] <= 23
      BY <1>4, <1>5, <3>3
    <3>8. 23 * k = 23 * j + 23 /\ 23 * j \in Nat
      BY <3>1 DEF j
    <3> HIDE DEF H, T
    <3> QED
      BY <3>4, <3>6, <3>7, <3>8
  <2> QED
    BY <2>1, <2>2
<1>8. R \in 0..R /\ \A i \in 0..R : i \in T
  <2> HIDE DEF T
  <2> QED
    BY <1>1, <1>6, <1>7, Induction
<1>9. R \in T
  BY <1>8
<1> QED
  BY <1>1, <1>4, <1>9

\* Every hex is measured.
LEMMA AllMeasured ==
  ASSUME BestInv, leg # "measure"
  PROVE  \A h \in Routes!Hexes : best[h] # Routes!Unknown
<1> SUFFICES ASSUME NEW h \in Routes!Hexes
             PROVE  best[h] # Routes!Unknown
  OBVIOUS
<1> DEFINE o == OnRoute.origin
           R == OnRoute.radius
<1>1. o \in Routes!Hexes /\ best[h] <= best[o] + 23 * R
  BY FromOrigin
<1>2. best[o] <= best[OnRoute.start] + 23 * R
  BY FromOrigin, RouteFacts
<1>3. best[OnRoute.start] = 0 /\ best[o] \in Nat /\ best[h] \in Nat /\ R \in Nat
  BY <1>1, RouteFacts DEF BestInv
<1>4. Routes!Unknown = 23 * (2 * R + 1)
  BY Zenon DEF Routes!Unknown
<1> HIDE DEF o, R
<1>5. best[h] <= 46 * R /\ 23 * (2 * R + 1) = 46 * R + 23
  BY <1>1, <1>2, <1>3
<1> QED
  BY <1>3, <1>4, <1>5

\* A destination that nothing in the heap comes before is reached as cheaply as
\* can be.
LEMMA GoalIsCheapest ==
  ASSUME BestInv, SearchInv, leg # "measure", goal \in Routes!Hexes,
         goal # OnRoute.start,
         \A f \in frontier : goal \in DOMAIN sofar /\ sofar[goal] <= f.priority
  PROVE  goal \in DOMAIN sofar /\ sofar[goal] = best[goal]
<1> DEFINE H == Routes!Hexes
           Known == DOMAIN sofar
           Far(x) == Grid!Distance(x, goal)
           Wrong == {x \in H : /\ x \in Known => best[x] < sofar[x]
                               /\ best[x] + 10 * Far(x) <= best[goal]}
<1>1. /\ \A x \in H : best[x] \in Nat /\ cost[x] \in {10, 15, 23}
      /\ \A x \in H : x # OnRoute.start =>
           \E n \in Routes!Nearby(x) : best[n] + cost[x] <= best[x]
      /\ best[OnRoute.start] = 0
  BY AllMeasured DEF BestInv
<1>2. \A x \in H : x \in Int \X Int /\ Far(x) \in Nat
  <2>1. H \subseteq Int \X Int
    BY RouteFacts
  <2> QED
    BY <2>1, DistanceIs
<1>3. Far(goal) = 0
  <2> DEFINE n == Grid!Distance(goal, goal)
  <2>1. /\ goal \in Int \X Int
        /\ n \in {goal[1] - goal[1], -(goal[1] - goal[1]),
                  goal[2] - goal[2], -(goal[2] - goal[2]),
                  (goal[1] - goal[1]) + (goal[2] - goal[2]),
                  -((goal[1] - goal[1]) + (goal[2] - goal[2]))}
    BY <1>2, DistanceIs
  <2>2. goal[1] \in Int /\ goal[2] \in Int
    BY <2>1
  <2> HIDE DEF n
  <2>3. n = 0
    BY <2>1, <2>2
  <2> QED
    BY <2>3 DEF n
<1>4. /\ \A x \in Known : x \in H /\ sofar[x] \in Nat /\ best[x] <= sofar[x]
      /\ OnRoute.start \in Known /\ sofar[OnRoute.start] = 0
  BY DEF SearchInv
<1> SUFFICES ASSUME ~(goal \in Known /\ sofar[goal] = best[goal])
             PROVE  FALSE
  OBVIOUS
<1>5. goal \in Wrong
  BY <1>1, <1>3, <1>4
<1>6. PICK x \in Wrong : \A y \in Wrong : best[x] <= best[y]
  <2> DEFINE S == {best[y] : y \in Wrong}
  <2>1. S \subseteq Nat /\ S # {}
    BY <1>1, <1>5
  <2>2. PICK m \in S : \A l \in S : m <= l
    <3> HIDE DEF S
    <3> QED
      BY <2>1, LeastNumber
  <2> QED
    BY <2>2
<1>7. x # OnRoute.start
  BY <1>1, <1>4, <1>6
<1>8. PICK n \in Routes!Nearby(x) : best[n] + cost[x] <= best[x]
  BY <1>1, <1>7
<1>9. /\ n \in H /\ x \in H /\ Grid!Distance(x, n) = 1 /\ x \in Routes!Nearby(n)
  BY <1>8, NearbyIs
<1>10. Far(n) <= Far(x) + 1
  BY <1>2, <1>9, DistanceOfNext
<1>11. /\ best[n] < best[x]
       /\ best[n] + 10 * Far(n) <= best[goal]
  <2> DEFINE p == Far(n)
             q == Far(x)
  <2>1. /\ p \in Nat /\ q \in Nat /\ p <= q + 1 /\ best[x] + 10 * q <= best[goal]
        /\ best[x] \in Nat /\ best[n] \in Nat /\ best[goal] \in Nat
        /\ cost[x] \in Nat /\ cost[x] >= 10
    BY <1>1, <1>2, <1>6, <1>9, <1>10
  <2> HIDE DEF p, q, Wrong
  <2>2. best[n] < best[x] /\ best[n] + 10 * p <= best[goal]
    BY <1>8, <2>1
  <2> QED
    BY <2>2 DEF p
<1>12. n \in Known /\ sofar[n] = best[n]
  <2>1. n \notin Wrong
    BY <1>1, <1>6, <1>9, <1>11
  <2> QED
    BY <1>1, <1>4, <1>9, <1>11, <2>1
<1>13. CASE Closed(n)
  <2>1. x \in Known /\ sofar[x] <= sofar[n] + cost[x]
    BY <1>9, <1>13 DEF Closed
  <2>2. best[x] < sofar[x]
    BY <1>6, <2>1
  <2> QED
    BY <1>1, <1>4, <1>8, <1>9, <1>12, <2>1, <2>2
<1>14. CASE Open(n)
  <2>1. PICK f \in frontier : f.priority <= sofar[n] + 10 * Far(n)
    BY <1>14 DEF Open
  <2>2. goal \in Known /\ sofar[goal] <= f.priority
    BY <2>1
  <2>3. f.priority \in Nat
    BY <2>1 DEF SearchInv
  <2>4. best[goal] < sofar[goal]
    BY <1>1, <1>4, <2>2
  <2> DEFINE p == 10 * Far(n)
  <2>5. p \in Nat /\ best[n] + p <= best[goal] /\ f.priority <= best[n] + p
    BY <1>2, <1>9, <1>11, <1>12, <2>1
  <2>6. /\ best[n] \in Nat /\ best[goal] \in Nat /\ sofar[goal] \in Nat
    BY <1>1, <1>4, <1>9, <2>2
  <2> HIDE DEF p, Wrong, Known, H
  <2> QED
    BY <2>2, <2>3, <2>4, <2>5, <2>6
<1> QED
  BY <1>12, <1>13, <1>14 DEF SearchInv

\* A heap that is not empty has a first.
LEMMA HeapHasFirst ==
  ASSUME NEW S, S \subseteq [priority : Nat, hex : Routes!Hexes], S # {}
  PROVE  \E f \in S : \A g \in S : Routes!Before(f, g)
<1> DEFINE o == OnRoute.origin
           R == OnRoute.radius
           A == {f.priority : f \in S}
<1>1. \A h \in Routes!Hexes : h[1] + (R - o[1]) \in Nat /\ h[2] + (R - o[2]) \in Nat
  <2> SUFFICES ASSUME NEW h \in Routes!Hexes
               PROVE  h[1] + (R - o[1]) \in Nat /\ h[2] + (R - o[2]) \in Nat
    OBVIOUS
  <2> DEFINE n == Grid!Distance(o, h)
  <2>1. o \in Int \X Int /\ R \in Nat /\ h \in Int \X Int /\ n <= R
    BY RouteFacts
  <2>2. n \in Nat /\ -n <= h[1] - o[1] /\ -n <= h[2] - o[2]
    BY <2>1, DistanceIs
  <2>3. /\ h[1] \in Int /\ h[2] \in Int /\ o[1] \in Int /\ o[2] \in Int
    BY <2>1
  <2> HIDE DEF n
  <2> QED
    BY <2>1, <2>2, <2>3
<1>2. \A h \in Routes!Hexes : h[1] \in Int /\ h[2] \in Int
  BY RouteFacts
<1>3. o[1] \in Int /\ o[2] \in Int /\ R \in Nat
  BY RouteFacts
<1> DEFINE u == R - o[1]
           v == R - o[2]
<1>4. u \in Int /\ v \in Int /\ \A f \in S : f.priority \in Nat
      /\ f.hex[1] \in Int /\ f.hex[2] \in Int
      /\ f.hex[1] + u \in Nat /\ f.hex[2] + v \in Nat
  BY <1>1, <1>2, <1>3
<1> HIDE DEF u, v
<1>5. PICK p \in A : \A q \in A : p <= q
  <2>1. A \subseteq Nat /\ A # {}
    BY <1>4
  <2> HIDE DEF A
  <2> QED
    BY <2>1, LeastNumber
<1> DEFINE S1 == {f \in S : f.priority = p}
           B == {f.hex[1] + u : f \in S1}
<1>6. PICK q \in B : \A x \in B : q <= x
  <2>1. B \subseteq Nat /\ B # {}
    BY <1>4, <1>5
  <2> HIDE DEF B
  <2> QED
    BY <2>1, LeastNumber
<1> DEFINE S2 == {f \in S1 : f.hex[1] + u = q}
           C == {f.hex[2] + v : f \in S2}
<1>7. PICK r \in C : \A x \in C : r <= x
  <2>1. C \subseteq Nat /\ C # {}
    BY <1>4, <1>6
  <2> HIDE DEF C
  <2> QED
    BY <2>1, LeastNumber
<1>8. PICK f \in S2 : f.hex[2] + v = r
  BY <1>7
<1>9. ASSUME NEW g \in S
      PROVE  Routes!Before(f, g)
  <2>1. f.priority <= g.priority
    BY <1>5, <1>8
  <2>2. CASE f.priority < g.priority
    BY <2>2 DEF Routes!Before
  <2>3. CASE f.priority = g.priority
    <3>1. g \in S1 /\ f \in S1
      BY <1>8, <2>3
    <3>2. f.hex[1] + u <= g.hex[1] + u
      BY <1>6, <1>8, <3>1
    <3>3. CASE f.hex[1] < g.hex[1]
      BY <2>3, <3>3 DEF Routes!Before
    <3>4. CASE f.hex[1] = g.hex[1]
      <4>1. g \in S2
        BY <1>8, <3>1, <3>4
      <4>2. f.hex[2] + v <= g.hex[2] + v
        BY <1>7, <1>8, <4>1
      <4>3. f.hex[2] <= g.hex[2]
        BY <1>4, <1>8, <4>2
      <4> QED
        BY <2>3, <3>4, <4>3 DEF Routes!Before
    <3> QED
      BY <1>4, <1>8, <3>2, <3>3, <3>4
  <2> QED
    BY <1>4, <1>8, <2>1, <2>2, <2>3
<1> QED
  BY <1>8, <1>9

\* A round of measuring takes the least that is on offer.
LEMMA LeastOffer ==
  ASSUME NEW x \in Nat, NEW S \in SUBSET Nat
  PROVE  LET m == Routes!Min({x} \cup S) IN
         /\ m \in Nat /\ m <= x /\ \A s \in S : m <= s
         /\ m = x \/ m \in S
<1> DEFINE T == {x} \cup S
<1>1. \E t \in T : \A s \in T : t <= s
  <2>1. T \subseteq Nat /\ T # {}
    OBVIOUS
  <2> HIDE DEF T
  <2> QED
    BY <2>1, LeastNumber
<1>2. Routes!Min(T) \in T /\ \A s \in T : Routes!Min(T) <= s
  BY <1>1 DEF Routes!Min
<1> QED
  BY <1>2

\* A round of the relaxation lowers bounds and ends where none can be lowered.
LEMMA MeasureKeeps ==
  ASSUME RouteInv, Routes!Measure
  PROVE  RouteInv'
<1> DEFINE H == Routes!Hexes
           offers(h) == {best[n] + cost[h] : n \in Routes!Nearby(h)}
           round == [h \in H |-> Routes!Min({best[h]} \cup offers(h))]
           start == OnRoute.start
<1>1. /\ leg = "measure" /\ best' = round
      /\ leg' = IF round # best THEN "measure"
                ELSE IF goal = start THEN "found" ELSE "search"
      /\ route' = IF goal = start THEN <<start>> ELSE <<>>
      /\ cost' = cost /\ goal' = goal /\ frontier' = frontier /\ sofar' = sofar
      /\ came' = came /\ path' = path
  BY Zenon DEF Routes!Measure, Routes!map, Routes!search
<1>2. /\ cost \in [H -> {10, 15, 23}] /\ best \in [H -> Nat] /\ best[start] = 0
      /\ \A h \in H : h = start \/ best[h] = Routes!Unknown
           \/ \E n \in Routes!Nearby(h) : best[n] + cost[h] <= best[h]
  BY DEF RouteInv, BestInv
<1>3. start \in H /\ \A h \in H : Routes!Nearby(h) \subseteq H
  BY RouteFacts, NearbyIs
<1>4. ASSUME NEW h \in H
      PROVE  /\ round[h] \in Nat /\ round[h] <= best[h]
             /\ \A n \in Routes!Nearby(h) : round[h] <= best[n] + cost[h]
             /\ round[h] = best[h] \/ \E n \in Routes!Nearby(h) : round[h] = best[n] + cost[h]
  <2>1. best[h] \in Nat /\ offers(h) \in SUBSET Nat
    BY <1>2, <1>3
  <2>2. round[h] = Routes!Min({best[h]} \cup offers(h))
    OBVIOUS
  <2> DEFINE S == offers(h)
             m == round[h]
  <2>3. m \in Nat /\ m <= best[h] /\ (\A s \in S : m <= s) /\ (m = best[h] \/ m \in S)
    <3> HIDE DEF S, m
    <3>1. S \in SUBSET Nat /\ m = Routes!Min({best[h]} \cup S)
      BY <2>1, <2>2 DEF S, m
    <3> QED
      BY <2>1, <3>1, LeastOffer
  <2> HIDE DEF round
  <2> QED
    BY <2>3
<1> HIDE DEF round, offers
<1>5. BestInv'
  <2>1. round \in [H -> Nat]
    <3>1. round = [h \in H |-> round[h]]
      BY DEF round
    <3> QED
      BY <1>4, <3>1
  <2>2. round[start] = 0
    BY <1>2, <1>3, <1>4
  <2>3. ASSUME NEW h \in H
        PROVE  h = start \/ round[h] = Routes!Unknown
                 \/ \E n \in Routes!Nearby(h) : round[n] + cost[h] <= round[h]
    <3>1. \A n \in Routes!Nearby(h) : /\ round[n] \in Nat /\ best[n] \in Nat
                                      /\ round[n] <= best[n]
      BY <1>2, <1>3, <1>4
    <3>2. cost[h] \in Nat /\ round[h] \in Nat
      BY <1>2, <1>4
    <3>3. CASE round[h] = best[h]
      BY <1>2, <3>1, <3>2, <3>3
    <3>4. CASE \E n \in Routes!Nearby(h) : round[h] = best[n] + cost[h]
      BY <3>1, <3>2, <3>4
    <3> QED
      BY <1>4, <3>3, <3>4
  <2>4. ASSUME leg' # "measure", NEW h \in H, NEW n \in Routes!Nearby(h)
        PROVE  round[h] <= round[n] + cost[h]
    <3>1. round = best
      BY <1>1, <2>4
    <3> QED
      BY <1>4, <3>1
  <2> QED
    BY <1>1, <1>2, <2>1, <2>2, <2>3, <2>4 DEF BestInv
<1>6. SearchInv'
  <2>1. SearchInv
    BY DEF RouteInv
  <2>2. DOMAIN sofar = {start} /\ sofar[start] = 0 /\ round[start] = 0
    BY <1>1, <1>2, <1>3, <1>4, <2>1 DEF SearchInv
  <2>3. \A h \in DOMAIN sofar : sofar[h] \in Nat /\ round[h] <= sofar[h]
    BY <2>2
  <2>4. \A x : (Open(x))' <=> Open(x)
    BY <1>1 DEF Open
  <2>5. \A x : (Closed(x))' <=> Closed(x)
    BY <1>1 DEF Closed
  <2>6. /\ leg' \in {"measure", "search", "trace", "leap", "found", "none"}
        /\ leg' = "measure" => DOMAIN sofar = {OnRoute.start}
        /\ goal = OnRoute.start => leg' \in {"measure", "found"}
    BY <1>1, <2>2
  <2> QED
    BY <1>1, <2>1, <2>3, <2>4, <2>5, <2>6 DEF SearchInv
<1>7. PathInv'
  <2>1. path \in Seq(H)
    BY DEF RouteInv, PathInv
  <2>2. CASE leg' = "found"
    <3>1. goal = start /\ route' = <<start>>
      BY <1>1, <2>2
    <3>2. Len(<<start>>) = 1 /\ <<start>>[1] = start /\ <<start>> \in Seq(H)
      BY <1>3
    <3> DEFINE r == <<start>>
    <3> HIDE DEF r
    <3>3. route' = r /\ Len(r) = 1 /\ r[1] = start /\ r \in Seq(H)
      BY <3>1, <3>2 DEF r
    <3> QED
      BY <1>1, <1>3, <2>1, <2>2, <3>1, <3>3 DEF PathInv
  <2>3. CASE leg' # "found"
    <3>1. leg' \in {"measure", "search"} /\ route' \in Seq(H)
      BY <1>1, <1>3, <2>3
    <3> QED
      BY <1>1, <2>1, <3>1 DEF PathInv
  <2> QED
    BY <2>2, <2>3
<1> QED
  BY <1>5, <1>6, <1>7 DEF RouteInv

\* A hex that is costed anew leaves no better one behind.
LEMMA ExpandKeeps ==
  ASSUME RouteInv, Routes!Expand
  PROVE  RouteInv'
<1> DEFINE H == Routes!Hexes
           Known == DOMAIN sofar
           start == OnRoute.start
           top == CHOOSE f \in frontier : \A g \in frontier : Routes!Before(f, g)
           h == top.hex
           better == Routes!Better(h, sofar)
           new(n) == sofar[h] + cost[n]
           entry(n) == [priority |-> new(n) + 10 * Grid!Distance(n, goal), hex |-> n]
<1>1. /\ leg = "search" /\ frontier # {}
      /\ frontier' = (frontier \ {top}) \cup {entry(n) : n \in better}
      /\ sofar' = [n \in Known \cup better |-> IF n \in better THEN new(n) ELSE sofar[n]]
      /\ came' = [n \in (Known \ {start}) \cup better |->
                    IF n \in better THEN h ELSE came[n]]
      /\ cost' = cost /\ goal' = goal /\ best' = best /\ leg' = leg
      /\ path' = path /\ route' = route
  <2>1. \A n : Routes!Grid!Distance(n, goal) = Grid!Distance(n, goal)
    BY SameGrid
  <2>2. DOMAIN sofar = Routes!Known
    BY Zenon DEF Routes!Known
  <2> QED
    BY <2>1, <2>2 DEF Routes!Expand, Routes!map
<1>2. BestInv /\ SearchInv /\ PathInv
  BY DEF RouteInv
<1>3. top \in frontier
  <2>1. frontier \subseteq [priority : Nat, hex : Routes!Hexes]
    BY <1>2 DEF SearchInv
  <2> QED
    BY <1>1, <2>1, HeapHasFirst
<1>4. /\ h \in Known /\ h \in H /\ Known \subseteq H
      /\ \A x \in Known : sofar[x] \in Nat /\ best[x] <= sofar[x]
      /\ start \in Known /\ sofar[start] = 0
  BY <1>2, <1>3 DEF SearchInv
<1> HIDE DEF top
<1>5. /\ \A x \in H : cost[x] \in {10, 15, 23} /\ best[x] \in Nat
      /\ \A x \in H : \A n \in Routes!Nearby(x) : best[x] <= best[n] + cost[x]
  BY <1>1, <1>2 DEF BestInv
<1>6. better = {n \in Routes!Nearby(h) : n \notin Known \/ new(n) < sofar[n]}
  BY Zenon DEF Routes!Better, Routes!Known
<1>7. /\ Routes!Nearby(h) \subseteq H /\ h \notin Routes!Nearby(h)
      /\ \A n \in Routes!Nearby(h) : h \in Routes!Nearby(n) /\ Grid!Distance(h, n) = 1
  BY <1>4, NearbyIs
<1>8. /\ better \subseteq H /\ h \notin better
      /\ \A n \in better : /\ new(n) \in Nat /\ best[n] <= new(n)
                           /\ n \in Known => new(n) < sofar[n]
                           /\ Grid!Distance(h, n) = 1
  <2> SUFFICES ASSUME NEW n \in better
               PROVE  /\ n \in H /\ n # h /\ new(n) \in Nat /\ best[n] <= new(n)
                      /\ n \in Known => new(n) < sofar[n]
                      /\ Grid!Distance(h, n) = 1
    OBVIOUS
  <2>1. n \in H /\ n # h /\ h \in Routes!Nearby(n) /\ Grid!Distance(h, n) = 1
    BY <1>6, <1>7
  <2>2. /\ sofar[h] \in Nat /\ best[h] \in Nat /\ best[h] <= sofar[h] /\ cost[n] \in Nat
        /\ best[n] \in Nat /\ best[n] <= best[h] + cost[n]
    BY <1>4, <1>5, <2>1
  <2> QED
    BY <1>6, <2>1, <2>2
<1>9. start \notin better
  BY <1>4, <1>8
<1> HIDE DEF better, new
<1> DEFINE K2 == Known \cup better
<1>10. /\ DOMAIN sofar' = K2
       /\ \A n \in better : sofar'[n] = new(n)
       /\ \A n \in Known : n \notin better => sofar'[n] = sofar[n]
       /\ \A n \in Known : sofar'[n] <= sofar[n]
       /\ \A n \in K2 : sofar'[n] \in Nat /\ best[n] <= sofar'[n]
  BY <1>1, <1>4, <1>8
<1>11. /\ DOMAIN came' = K2 \ {start}
       /\ \A n \in better : came'[n] = h
       /\ \A n \in Known \ {start} : n \notin better => came'[n] = came[n]
  BY <1>1, <1>9
<1>12. \A n \in DOMAIN came' :
         /\ came'[n] \in K2 /\ Grid!Distance(came'[n], n) = 1
         /\ sofar'[came'[n]] + cost[n] <= sofar'[n]
  <2> SUFFICES ASSUME NEW n \in K2 \ {start}
               PROVE  /\ came'[n] \in K2 /\ Grid!Distance(came'[n], n) = 1
                      /\ sofar'[came'[n]] + cost[n] <= sofar'[n]
    BY <1>11
  <2>1. CASE n \in better
    <3>1. came'[n] = h /\ sofar'[n] = new(n) /\ sofar'[h] = sofar[h]
      BY <1>4, <1>8, <1>10, <1>11, <2>1
    <3>2. sofar'[h] + cost[n] <= new(n)
      <4>1. sofar[h] \in Nat /\ cost[n] \in Nat
        BY <1>4, <1>5, <1>8, <2>1
      <4> QED
        BY <3>1, <4>1 DEF new
    <3> QED
      BY <1>4, <1>8, <2>1, <3>1, <3>2
  <2>2. CASE n \notin better
    <3>1. n \in Known \ {start} /\ came'[n] = came[n] /\ sofar'[n] = sofar[n]
      BY <1>10, <1>11, <2>2
    <3>2. /\ came[n] \in Known /\ Grid!Distance(came[n], n) = 1
          /\ sofar[came[n]] + cost[n] <= sofar[n]
      BY <1>2, <3>1 DEF SearchInv
    <3>3. /\ sofar'[came[n]] <= sofar[came[n]] /\ sofar'[came[n]] \in Nat
          /\ sofar[came[n]] \in Nat /\ sofar[n] \in Nat /\ cost[n] \in Nat
      BY <1>4, <1>5, <1>10, <3>1, <3>2
    <3> QED
      BY <3>1, <3>2, <3>3
  <2> QED
    BY <2>1, <2>2
<1>13. goal \in Int \X Int
  BY <1>2, RouteFacts DEF SearchInv
<1>14. \A n \in better : /\ entry(n) \in [priority : Nat, hex : H]
                         /\ new(n) <= entry(n).priority /\ entry(n).hex = n
                         /\ entry(n).priority = new(n) + 10 * Grid!Distance(n, goal)
  <2> SUFFICES ASSUME NEW n \in better
               PROVE  /\ entry(n) \in [priority : Nat, hex : H]
                      /\ new(n) <= entry(n).priority /\ entry(n).hex = n
                      /\ entry(n).priority = new(n) + 10 * Grid!Distance(n, goal)
    OBVIOUS
  <2>1. n \in Int \X Int
    BY <1>8, RouteFacts
  <2>2. Grid!Distance(n, goal) \in Nat
    BY <1>13, <2>1, DistanceIs
  <2>3. new(n) \in Nat /\ n \in H
    BY <1>8
  <2> QED
    BY <2>2, <2>3
<1> HIDE DEF entry
<1>15. \A f \in frontier' :
         /\ f \in [priority : Nat, hex : H] /\ f.hex \in K2
         /\ f.hex = start \/ sofar'[f.hex] <= f.priority
  <2> SUFFICES ASSUME NEW f \in frontier'
               PROVE  /\ f \in [priority : Nat, hex : H] /\ f.hex \in K2
                      /\ f.hex = start \/ sofar'[f.hex] <= f.priority
    OBVIOUS
  <2>1. CASE f \in frontier
    <3>1. /\ f \in [priority : Nat, hex : H] /\ f.hex \in Known
          /\ f.hex = start \/ sofar[f.hex] <= f.priority
      BY <1>2, <2>1 DEF SearchInv
    <3>2. /\ sofar'[f.hex] <= sofar[f.hex] /\ sofar'[f.hex] \in Nat
          /\ sofar[f.hex] \in Nat /\ f.priority \in Nat
      BY <1>4, <1>10, <3>1
    <3> QED
      BY <3>1, <3>2
  <2>2. CASE \E n \in better : f = entry(n)
    <3>1. PICK n \in better : f = entry(n)
      BY <2>2
    <3> QED
      BY <1>10, <1>14, <3>1
  <2> QED
    BY <1>1, <2>1, <2>2
<1>16. \A x \in K2 : (Open(x))' \/ (Closed(x))'
  <2> SUFFICES ASSUME NEW x \in K2
               PROVE  (Open(x))' \/ (Closed(x))'
    OBVIOUS
  <2>1. CASE x \in better
    <3>1. entry(x) \in frontier'
      BY <1>1, <2>1
    <3>2. entry(x).hex = x /\ entry(x).priority = sofar'[x] + 10 * Grid!Distance(x, goal)
      BY <1>10, <1>14, <2>1
    <3>3. entry(x).priority \in Nat
      BY <1>14, <2>1
    <3> DEFINE e == entry(x)
    <3>4. e \in frontier' /\ e.hex = x /\ e.priority <= sofar'[x] + 10 * Grid!Distance(x, goal)
      BY <3>1, <3>2, <3>3
    <3> HIDE DEF e
    <3> QED
      BY <1>1, <3>4 DEF Open
  <2>2. CASE x = h
    <3>1. ASSUME NEW n \in Routes!Nearby(h)
          PROVE  n \in K2 /\ sofar'[n] <= sofar'[h] + cost[n]
      <4>1. sofar'[h] = sofar[h] /\ sofar[h] \in Nat /\ cost[n] \in Nat
        BY <1>4, <1>5, <1>7, <1>8, <1>10
      <4>2. CASE n \in better
        <5>1. sofar'[n] = new(n) /\ new(n) \in Nat
          BY <1>8, <1>10, <4>2
        <5> QED
          BY <4>1, <4>2, <5>1 DEF new
      <4>3. CASE n \notin better
        <5>1. n \in Known /\ ~(new(n) < sofar[n]) /\ sofar'[n] = sofar[n] /\ sofar[n] \in Nat
          BY <1>4, <1>6, <1>10, <4>3 DEF better
        <5> QED
          BY <4>1, <5>1 DEF new
      <4> QED
        BY <4>2, <4>3
    <3> QED
      BY <1>1, <1>10, <2>2, <3>1 DEF Closed
  <2>3. CASE x \notin better /\ x # h
    <3>1. x \in Known /\ sofar'[x] = sofar[x]
      BY <1>10, <2>3
    <3>2. Open(x) \/ Closed(x)
      BY <1>2, <3>1 DEF SearchInv
    <3>3. CASE Open(x)
      <4>1. PICK f \in frontier :
              f.hex = x /\ f.priority <= sofar[x] + 10 * Grid!Distance(x, goal)
        BY <3>3 DEF Open
      <4>2. f \in frontier'
        BY <1>1, <2>3, <4>1
      <4> QED
        BY <1>1, <3>1, <4>1, <4>2 DEF Open
    <3>4. CASE Closed(x)
      <4>1. ASSUME NEW n \in Routes!Nearby(x)
            PROVE  n \in K2 /\ sofar'[n] <= sofar'[x] + cost[n]
        <5>1. n \in Known /\ sofar[n] <= sofar[x] + cost[n]
          BY <3>4 DEF Closed
        <5>2. /\ sofar'[n] <= sofar[n] /\ sofar'[n] \in Nat /\ sofar[n] \in Nat
              /\ sofar[x] \in Nat /\ cost[n] \in Nat
          BY <1>4, <1>5, <1>10, <3>1, <5>1
        <5> QED
          BY <3>1, <5>1, <5>2
      <4> QED
        BY <1>1, <1>10, <4>1 DEF Closed
    <3> QED
      BY <3>2, <3>3, <3>4
  <2> QED
    BY <2>1, <2>2, <2>3
<1>17. BestInv'
  BY <1>1, <1>2 DEF BestInv
<1>18. SearchInv'
  <2>1. /\ goal \in OnRoute.goals /\ goal # start
    BY <1>1, <1>2 DEF SearchInv
  <2>2. K2 \subseteq H /\ start \in K2 /\ sofar'[start] = 0
    BY <1>4, <1>8, <1>9, <1>10
  <2>3. frontier' \subseteq [priority : Nat, hex : H]
    BY <1>15
  <2> HIDE DEF K2
  <2> QED
    BY <1>1, <1>10, <1>11, <1>12, <1>15, <1>16, <2>1, <2>2, <2>3 DEF SearchInv
<1>19. PathInv'
  BY <1>1, <1>2 DEF PathInv
<1> QED
  BY <1>17, <1>18, <1>19 DEF RouteInv

\* What the search ends with.
LEMMA EndSearchKeeps ==
  ASSUME RouteInv, Routes!EndSearch
  PROVE  RouteInv'
<1> DEFINE start == OnRoute.start
<1>1. /\ leg = "search"
      /\ \/ frontier = {}
         \/ \E f \in frontier : f.hex = goal /\ \A g \in frontier : Routes!Before(f, g)
      /\ IF goal \in DOMAIN came THEN leg' = "trace" /\ path' = <<goal>>
         ELSE leg' = "none" /\ path' = path
      /\ cost' = cost /\ goal' = goal /\ best' = best /\ frontier' = frontier
      /\ sofar' = sofar /\ came' = came /\ route' = route
  BY Zenon DEF Routes!EndSearch, Routes!map, Routes!search
<1>2. BestInv /\ SearchInv /\ PathInv
  BY DEF RouteInv
<1>3. /\ goal # start /\ DOMAIN came = DOMAIN sofar \ {start}
      /\ DOMAIN sofar \subseteq Routes!Hexes
  BY <1>1, <1>2 DEF SearchInv
<1>4. goal \in Routes!Hexes => goal \in DOMAIN sofar /\ sofar[goal] = best[goal]
  <2>1. \A g \in frontier : goal \in DOMAIN sofar /\ sofar[goal] <= g.priority
    <3>1. CASE frontier = {}
      BY <3>1
    <3>2. ASSUME NEW f \in frontier, f.hex = goal,
                 \A g \in frontier : Routes!Before(f, g)
          PROVE  \A g \in frontier : goal \in DOMAIN sofar /\ sofar[goal] <= g.priority
      <4> SUFFICES ASSUME NEW g \in frontier
                   PROVE  goal \in DOMAIN sofar /\ sofar[goal] <= g.priority
        OBVIOUS
      <4>1. goal \in DOMAIN sofar /\ sofar[goal] <= f.priority
        BY <1>2, <1>3, <3>2 DEF SearchInv
      <4>2. sofar[goal] \in Nat /\ f.priority \in Nat /\ g.priority \in Nat
        BY <1>2, <4>1 DEF SearchInv
      <4>3. f.priority <= g.priority
        BY <3>2, <4>2 DEF Routes!Before
      <4> QED
        BY <4>1, <4>2, <4>3
    <3> QED
      BY <1>1, <3>1, <3>2
  <2> QED
    BY <1>1, <1>2, <1>3, <2>1, GoalIsCheapest
<1>5. BestInv'
  BY <1>1, <1>2 DEF BestInv
<1>6. SearchInv'
  <2>1. \A x : (Open(x))' <=> Open(x)
    BY <1>1 DEF Open
  <2>2. \A x : (Closed(x))' <=> Closed(x)
    BY <1>1 DEF Closed
  <2>3. /\ leg' \in {"measure", "search", "trace", "leap", "found", "none"}
        /\ leg' # "measure"
    BY <1>1
  <2> QED
    BY <1>1, <1>2, <1>3, <2>1, <2>2, <2>3 DEF SearchInv
<1>7. PathInv'
  <2>1. CASE goal \in DOMAIN came
    <3>1. leg' = "trace" /\ path' = <<goal>> /\ goal \in DOMAIN sofar
          /\ goal \in Routes!Hexes /\ sofar[goal] = best[goal]
      BY <1>1, <1>3, <1>4, <2>1
    <3> DEFINE p == <<goal>>
    <3>2. Len(p) = 1 /\ p[1] = goal /\ p \in Seq(Routes!Hexes) /\ path' = p
      BY <3>1
    <3> HIDE DEF p
    <3> QED
      BY <1>1, <1>2, <3>1, <3>2 DEF PathInv
  <2>2. CASE goal \notin DOMAIN came
    <3>1. leg' = "none" /\ path' = path /\ goal \notin Routes!Hexes
      BY <1>1, <1>3, <1>4, <2>2
    <3> QED
      BY <1>1, <1>2, <3>1 DEF PathInv
  <2> QED
    BY <2>1, <2>2
<1> QED
  BY <1>5, <1>6, <1>7 DEF RouteInv

\* A hex before the others of a way.
LEMMA Prepended ==
  ASSUME NEW S, NEW x \in S, NEW p \in Seq(S)
  PROVE  /\ <<x>> \o p \in Seq(S) /\ Len(<<x>> \o p) = Len(p) + 1
         /\ (<<x>> \o p)[1] = x
         /\ \A i \in 1..Len(p) : (<<x>> \o p)[i + 1] = p[i]
OBVIOUS

\* Following came_from back from the goal prepends hexes of a cheapest way.
LEMMA TraceKeeps ==
  ASSUME RouteInv, Routes!Trace
  PROVE  RouteInv'
<1> DEFINE start == OnRoute.start
           H == Routes!Hexes
<1>1. /\ leg = "trace"
      /\ IF path[1] # start
         THEN path' = <<came[path[1]]>> \o path /\ leg' = leg /\ route' = route
         ELSE /\ path' = path
              /\ IF Len(path) <= 2 THEN leg' = "found" /\ route' = path
                 ELSE leg' = "leap" /\ route' = <<start>>
      /\ cost' = cost /\ goal' = goal /\ best' = best /\ frontier' = frontier
      /\ sofar' = sofar /\ came' = came
  BY DEF Routes!Trace, Routes!map, Routes!search
<1>2. BestInv /\ SearchInv /\ PathInv
  BY DEF RouteInv
<1> DEFINE n == Len(path)
<1>3. /\ path \in Seq(H) /\ n \in Nat
      /\ goal \in DOMAIN sofar /\ sofar[goal] = best[goal]
      /\ n >= 1 /\ path[n] = goal
      /\ \A i \in 1..n : path[i] \in DOMAIN sofar
      /\ \A i \in 1..n - 1 :
           /\ Grid!Distance(path[i], path[i + 1]) = 1
           /\ sofar[path[i]] + cost[path[i + 1]] <= sofar[path[i + 1]]
  BY <1>1, <1>2 DEF PathInv
<1>4. DOMAIN sofar \subseteq H /\ goal # start
  BY <1>1, <1>2 DEF SearchInv
<1>5. BestInv'
  <2>1. leg' # "measure"
    BY <1>1
  <2> QED
    BY <1>1, <1>2, <2>1 DEF BestInv
<1>6. SearchInv'
  <2>1. \A x : (Open(x))' <=> Open(x)
    BY <1>1 DEF Open
  <2>2. \A x : (Closed(x))' <=> Closed(x)
    BY <1>1 DEF Closed
  <2>3. /\ leg' \in {"measure", "search", "trace", "leap", "found", "none"}
        /\ leg' # "measure"
    BY <1>1
  <2> QED
    BY <1>1, <1>2, <1>4, <2>1, <2>2, <2>3 DEF SearchInv
<1>7. PathInv'
  <2>1. CASE path[1] # start
    <3> DEFINE c == came[path[1]]
               p == <<c>> \o path
    <3>1. /\ path' = p /\ leg' = "trace" /\ route' = route
      BY <1>1, <2>1
    <3>2. path[1] \in DOMAIN came
      BY <1>2, <1>3, <2>1 DEF SearchInv
    <3>3. /\ c \in DOMAIN sofar /\ Grid!Distance(c, path[1]) = 1
          /\ sofar[c] + cost[path[1]] <= sofar[path[1]]
      BY <1>2, <3>2 DEF SearchInv
    <3>4. c \in H
      BY <1>4, <3>3
    <3> HIDE DEF c
    <3>5. /\ p \in Seq(H) /\ Len(p) = n + 1 /\ p[1] = c
          /\ \A i \in 1..n : p[i + 1] = path[i]
      BY <1>3, <3>4, Prepended
    <3> HIDE DEF p, n
    <3>6. ASSUME NEW i \in 1..n + 1
          PROVE  p[i] \in DOMAIN sofar
      <4>1. i = 1 \/ (i - 1 \in 1..n /\ i = (i - 1) + 1)
        BY <1>3
      <4> QED
        BY <1>3, <3>3, <3>5, <4>1
    <3>7. ASSUME NEW i \in 1..(n + 1) - 1
          PROVE  /\ Grid!Distance(p[i], p[i + 1]) = 1
                 /\ sofar[p[i]] + cost[p[i + 1]] <= sofar[p[i + 1]]
      <4>1. i \in 1..n /\ p[i + 1] = path[i]
        BY <1>3, <3>5
      <4>2. CASE i = 1
        BY <3>3, <3>5, <4>1, <4>2
      <4>3. CASE i # 1
        <5>1. i - 1 \in 1..n - 1 /\ i - 1 \in 1..n /\ i = (i - 1) + 1
          BY <1>3, <4>3
        <5>2. p[i] = path[i - 1]
          BY <3>5, <5>1
        <5> QED
          BY <1>3, <4>1, <5>1, <5>2
      <4> QED
        BY <4>2, <4>3
    <3>8. p[n + 1] = goal /\ n + 1 >= 1
      BY <1>3, <3>5
    <3>9. route \in Seq(H)
      BY <1>2 DEF PathInv
    <3> HIDE DEF H
    <3> QED
      BY <1>1, <1>3, <3>1, <3>5, <3>6, <3>7, <3>8, <3>9 DEF PathInv, H
  <2>2. CASE path[1] = start /\ n <= 2
    <3>1. path' = path /\ leg' = "found" /\ route' = path
      BY <1>1, <2>2
    <3>2. \A i \in 1..n - 1 : Grid!Distance(path[i], path[i + 1]) <= OnRoute.jumpRange
      <4>1. OnRoute.jumpRange \in Nat \ {0}
        BY RouteFacts
      <4> QED
        BY <1>3, <4>1
    <3>3. goal \in H
      BY <1>3, <1>4
    <3> HIDE DEF n, H
    <3> QED
      BY <1>1, <1>3, <2>2, <3>1, <3>2, <3>3 DEF PathInv, n, H
  <2>3. CASE path[1] = start /\ ~(n <= 2)
    <3> DEFINE r == <<start>>
    <3>1. path' = path /\ leg' = "leap" /\ route' = r
      BY <1>1, <2>3
    <3>2. r \in Seq(H) /\ Len(r) = 1 /\ r[1] = start
      BY RouteFacts
    <3> HIDE DEF r
    <3>3. \E k \in 1..n : path[k] = r[1]
      BY <1>3, <2>3, <3>2
    <3> HIDE DEF n, H
    <3> QED
      BY <1>1, <1>3, <2>3, <3>1, <3>2, <3>3 DEF PathInv, n, H
  <2> QED
    BY <2>1, <2>2, <2>3
<1> QED
  BY <1>5, <1>6, <1>7 DEF RouteInv

\* The edge of some places.
LEMMA LastPlace ==
  ASSUME NEW n \in Nat, NEW S \in SUBSET (0..n), S # {}
  PROVE  Routes!Max(S) \in S /\ \A i \in S : i <= Routes!Max(S)
<1> DEFINE T == {n - i : i \in S}
<1>0. \A i \in S : i \in Int /\ n - i \in Nat
  OBVIOUS
<1>1. T \subseteq Nat /\ T # {}
  BY <1>0
<1>2. PICK t \in T : \A s \in T : t <= s
  <2> HIDE DEF T
  <2> QED
    BY <1>1, LeastNumber
<1>3. PICK m \in S : t = n - m
  BY <1>2
<1>4. ASSUME NEW i \in S
      PROVE  i <= m
  <2>1. n - i \in T
    OBVIOUS
  <2>2. n - m <= n - i
    BY <1>2, <1>3, <2>1
  <2>3. i \in Int /\ m \in Int
    BY <1>0
  <2> HIDE DEF T
  <2> QED
    BY <2>2, <2>3
<1> QED
  BY <1>4 DEF Routes!Max

\* Taking the farthest hex within jump range goes on along the path.
LEMMA LeapKeeps ==
  ASSUME RouteInv, Routes!Leap
  PROVE  RouteInv'
<1> DEFINE start == OnRoute.start
           H == Routes!Hexes
           n == Len(path)
           m == Len(route)
           R == OnRoute.jumpRange
           i == CHOOSE k \in DOMAIN path : path[k] = route[m]
           edge == Routes!Min({i + R, n})
           ahead == {j \in (i + 1)..edge : Grid!Distance(path[i], path[j]) <= R}
           next == Routes!Max({i + 1} \cup ahead)
<1>1. /\ leg = "leap"
      /\ IF i = n THEN leg' = "found" /\ route' = route
         ELSE route' = Append(route, path[next]) /\ leg' = leg
      /\ cost' = cost /\ goal' = goal /\ best' = best /\ frontier' = frontier
      /\ sofar' = sofar /\ came' = came /\ path' = path
  <2>1. \A a, b : Routes!Grid!Distance(a, b) = Grid!Distance(a, b)
    BY SameGrid
  <2> QED
    BY <2>1 DEF Routes!Leap, Routes!map, Routes!search
<1>2. BestInv /\ SearchInv /\ PathInv
  BY DEF RouteInv
<1>3. /\ path \in Seq(H) /\ n \in Nat /\ DOMAIN path = 1..n
      /\ n >= 1 /\ path[n] = goal /\ goal \in DOMAIN sofar
      /\ \A k \in 1..n - 1 : Grid!Distance(path[k], path[k + 1]) = 1
      /\ \A k \in 1..n : path[k] \in H
      /\ route \in Seq(H) /\ m \in Nat /\ m >= 1 /\ route[1] = start
      /\ \A k \in 1..m - 1 : Grid!Distance(route[k], route[k + 1]) <= R
      /\ \E k \in 1..n : path[k] = route[m]
  <2>1. path \in Seq(H) /\ route \in Seq(H)
    BY <1>2 DEF PathInv
  <2>2. /\ n \in Nat /\ DOMAIN path = 1..n /\ m \in Nat
        /\ \A k \in 1..n : path[k] \in H
    BY <2>1
  <2> HIDE DEF H
  <2> QED
    BY <1>1, <1>2, <2>1, <2>2, Zenon DEF PathInv
<1>4. i \in 1..n /\ path[i] = route[m]
  BY <1>3
<1>5. R \in Nat \ {0}
  BY RouteFacts
<1>6. BestInv'
  <2>1. leg' # "measure"
    BY <1>1
  <2> QED
    BY <1>1, <1>2, <2>1 DEF BestInv
<1>7. SearchInv'
  <2>1. \A x : (Open(x))' <=> Open(x)
    BY <1>1 DEF Open
  <2>2. \A x : (Closed(x))' <=> Closed(x)
    BY <1>1 DEF Closed
  <2>3. /\ leg' \in {"measure", "search", "trace", "leap", "found", "none"}
        /\ leg' # "measure" /\ goal # start
    BY <1>1, <1>2 DEF SearchInv
  <2> QED
    BY <1>1, <1>2, <2>1, <2>2, <2>3 DEF SearchInv
<1> HIDE DEF i
<1>8. PathInv'
  <2>1. CASE i = n
    <3>1. leg' = "found" /\ route' = route /\ route[m] = goal /\ goal \in H
      BY <1>1, <1>3, <1>4, <2>1
    <3> HIDE DEF n, m, H
    <3> QED
      BY <1>1, <1>2, <3>1 DEF PathInv, n, m, H
  <2>2. CASE i # n
    <3>1. route' = Append(route, path[next]) /\ leg' = "leap"
      BY <1>1, <2>2
    <3>2. next \in 1..n /\ Grid!Distance(path[i], path[next]) <= R
      <4> HIDE DEF n
      <4>1. i + 1 \in 1..n /\ i \in 1..n - 1
        BY <1>3, <1>4, <2>2
      <4>2. edge \in {i + R, n} /\ edge <= n
        <5>1. \E x \in {i + R, n} : \A y \in {i + R, n} : x <= y
          BY <1>3, <1>4, <1>5
        <5>2. edge \in {i + R, n} /\ \A y \in {i + R, n} : edge <= y
          BY <5>1 DEF Routes!Min
        <5> QED
          BY <5>2
      <4>3. ahead \subseteq 1..n
        <5>1. edge \in Int
          BY <1>3, <1>4, <1>5, <4>2
        <5> HIDE DEF edge
        <5> QED
          BY <1>3, <1>4, <4>2, <5>1
      <4> DEFINE S == {i + 1} \cup ahead
      <4>4. S \in SUBSET (0..n) /\ S # {} /\ S \subseteq 1..n
        <5>1. S \subseteq 1..n
          BY <4>1, <4>3
        <5>2. 1..n \subseteq 0..n
          BY <1>3
        <5> QED
          BY <5>1, <5>2
      <4>5. \A j \in S : Grid!Distance(path[i], path[j]) <= R
        BY <1>3, <1>5, <4>1
      <4> HIDE DEF S
      <4>6. Routes!Max(S) \in S
        BY <1>3, <4>4, LastPlace
      <4>7. next = Routes!Max(S)
        BY DEF S
      <4> QED
        BY <4>4, <4>5, <4>6, <4>7
    <3> HIDE DEF next
    <3> DEFINE x == path[next]
               r == Append(route, x)
    <3>3. x \in H /\ Grid!Distance(route[m], x) <= R
      BY <1>3, <1>4, <3>2
    <3>4. \E k \in 1..n : path[k] = x
      BY <3>2
    <3> HIDE DEF x
    <3>5. /\ r \in Seq(H) /\ Len(r) = m + 1 /\ r[m + 1] = x
          /\ \A k \in 1..m : r[k] = route[k]
      BY <1>3, <3>3
    <3>6. route' = r
      BY <3>1 DEF x
    <3> HIDE DEF r, n, m
    <3>7. ASSUME NEW k \in 1..(m + 1) - 1
          PROVE  Grid!Distance(r[k], r[k + 1]) <= R
      <4>1. k \in 1..m /\ (k = m \/ (k \in 1..m - 1 /\ k + 1 \in 1..m))
        BY <1>3
      <4> QED
        BY <1>3, <3>3, <3>5, <4>1
    <3>8. r[1] = start /\ m + 1 >= 1
      BY <1>3, <3>5
    <3> HIDE DEF H
    <3> QED
      BY <1>1, <1>2, <3>1, <3>4, <3>5, <3>6, <3>7, <3>8 DEF PathInv, n, H
  <2> QED
    BY <2>1, <2>2
<1> QED
  BY <1>6, <1>7, <1>8 DEF RouteInv

\* What a way costs is what its recursion says.
LEMMA SpentIs ==
  ASSUME NEW p \in Seq(Routes!Hexes), Len(p) >= 1,
         \A h \in Routes!Hexes : cost[h] \in Nat
  PROVE  \E f \in [1..Len(p) -> Nat] :
           /\ f[1] = 0 /\ Routes!Spent(p) = f[Len(p)]
           /\ \A i \in 2..Len(p) : f[i] = f[i - 1] + cost[p[i]]
<1> DEFINE n == Len(p)
           Is(f) == f = [i \in 1..n |-> IF i = 1 THEN 0 ELSE f[i - 1] + cost[p[i]]]
           total == CHOOSE f : Is(f)
<1>1. /\ n \in Nat /\ n >= 1 /\ \A i \in 1..n : cost[p[i]] \in Nat
  OBVIOUS
<1>2. Routes!Spent(p) = total[n]
  BY Zenon DEF Routes!Spent
<1> HIDE DEF n
<1>3. \E f : Is(f) /\ f \in [1..n -> Nat]
  <2> DEFINE F == [x \in (1..n) \X Nat |-> IF x[1] = 1 THEN 0 ELSE x[2] + cost[p[x[1]]]]
             S == [i \in 0..n |-> Nat]
  <2>1. PassesStay(n, S, F)
    BY <1>1 DEF PassesStay
  <2>2. 0 \in S[0]
    BY <1>1
  <2>3. PICK f : Passes(f, n, S, 0, F)
    <3> HIDE DEF F, S
    <3> QED
      BY <1>1, <2>1, <2>2, LoopEnds
  <2>4. \A i \in 0..n : f[i] \in Nat
    BY <2>3 DEF Passes
  <2>5. \A i \in 1..n : f[i] = IF i = 1 THEN 0 ELSE f[i - 1] + cost[p[i]]
    <3> SUFFICES ASSUME NEW i \in 1..n
                 PROVE  f[i] = IF i = 1 THEN 0 ELSE f[i - 1] + cost[p[i]]
      OBVIOUS
    <3>1. f[i] = F[<<i, f[i - 1]>>]
      BY <2>3 DEF Passes
    <3>2. i - 1 \in 0..n
      BY <1>1
    <3>3. f[i - 1] \in Nat
      BY <2>4, <3>2
    <3>4. <<i, f[i - 1]>> \in (1..n) \X Nat
      BY <3>3
    <3> QED
      BY <3>1, <3>4
  <2> DEFINE g == [i \in 1..n |-> f[i]]
  <2>6. g \in [1..n -> Nat]
    BY <2>4
  <2>7. \A i \in 1..n : g[i] = f[i] /\ (i # 1 => i - 1 \in 1..n)
    BY <1>1
  <2>8. \A i \in 1..n : g[i] = IF i = 1 THEN 0 ELSE g[i - 1] + cost[p[i]]
    BY <2>5, <2>7
  <2>9. g = [i \in 1..n |-> g[i]]
    OBVIOUS
  <2> HIDE DEF g
  <2>10. g = [i \in 1..n |-> IF i = 1 THEN 0 ELSE g[i - 1] + cost[p[i]]]
    BY <2>8, <2>9, Zenon
  <2> QED
    BY <2>6, <2>10
<1>4. Is(total)
  BY <1>3
<1> HIDE DEF total
<1>5. /\ total[1] = 0 /\ \A i \in 2..n : total[i] = total[i - 1] + cost[p[i]]
      /\ total = [i \in 1..n |-> total[i]]
  BY <1>1, <1>4
<1>6. \A i \in 1..n : total[i] \in Nat
  <2> DEFINE T == {i \in 0..(n - 1) : total[i + 1] \in Nat}
             m == n - 1
  <2>1. m \in Nat /\ 0 \in T
    BY <1>1, <1>5
  <2>2. ASSUME NEW i \in 1..m, i - 1 \in T
        PROVE  i \in T
    <3>1. i + 1 \in 2..n /\ (i + 1) - 1 = i /\ (i - 1) + 1 = i /\ i \in 0..(n - 1)
      BY <1>1
    <3>2. total[i] \in Nat /\ total[i + 1] = total[i] + cost[p[i + 1]]
      BY <1>5, <2>2, <3>1
    <3>3. cost[p[i + 1]] \in Nat
      BY <1>1, <3>1
    <3> QED
      BY <3>1, <3>2, <3>3
  <2>3. \A i \in 0..m : i \in T
    <3> HIDE DEF T, m
    <3> QED
      BY <2>1, <2>2, Induction
  <2>4. \A i \in 1..n : i - 1 \in 0..m /\ (i - 1) + 1 = i
    BY <1>1
  <2> QED
    BY <2>3, <2>4
<1>7. total \in [1..n -> Nat]
  BY <1>5, <1>6
<1> QED
  BY <1>2, <1>5, <1>7 DEF n

\* The way that is found costs no more than what was noted, and no less than the best.
LEMMA WayIsCheapest ==
  ASSUME RouteInv, leg = "found", goal # OnRoute.start
  PROVE  Routes!Spent(path) = best[goal]
<1> DEFINE n == Len(path)
<1>1. BestInv /\ SearchInv /\ PathInv
  BY DEF RouteInv
<1>2. /\ path \in Seq(Routes!Hexes) /\ n \in Nat
      /\ goal \in DOMAIN sofar /\ sofar[goal] = best[goal]
      /\ n >= 1 /\ path[n] = goal /\ path[1] = OnRoute.start
      /\ \A i \in 1..n : path[i] \in DOMAIN sofar
      /\ \A i \in 1..n - 1 :
           /\ Grid!Distance(path[i], path[i + 1]) = 1
           /\ sofar[path[i]] + cost[path[i + 1]] <= sofar[path[i + 1]]
  BY <1>1 DEF PathInv
<1>3. /\ \A h \in Routes!Hexes : cost[h] \in Nat /\ best[h] \in Nat
      /\ \A h \in Routes!Hexes : \A m \in Routes!Hexes :
           Grid!Distance(m, h) = 1 => best[h] <= best[m] + cost[h]
      /\ best[OnRoute.start] = 0
  <2>1. \A h \in Routes!Hexes : \A m \in Routes!Hexes :
           Grid!Distance(m, h) = 1 => m \in Routes!Nearby(h)
    BY NearbyIs
  <2> QED
    BY <1>1, <2>1 DEF BestInv
<1>4. /\ \A h \in DOMAIN sofar : h \in Routes!Hexes /\ sofar[h] \in Nat
      /\ sofar[OnRoute.start] = 0
  BY <1>1 DEF SearchInv
<1>5. PICK f \in [1..n -> Nat] :
        /\ f[1] = 0 /\ Routes!Spent(path) = f[n]
        /\ \A i \in 2..n : f[i] = f[i - 1] + cost[path[i]]
  BY <1>2, <1>3, SpentIs
<1> DEFINE m == n - 1
           T == {i \in 0..m : best[path[i + 1]] <= f[i + 1] /\ f[i + 1] <= sofar[path[i + 1]]}
<1> HIDE DEF n
<1>6. m \in Nat /\ 0 \in T
  BY <1>2, <1>3, <1>4, <1>5
<1>7. ASSUME NEW i \in 1..m, i - 1 \in T
      PROVE  i \in T
  <2>1. /\ i \in 0..m /\ i \in 1..n - 1 /\ i \in 1..n /\ i + 1 \in 2..n /\ i + 1 \in 1..n
        /\ (i + 1) - 1 = i /\ (i - 1) + 1 = i
    BY <1>2
  <2>2. /\ best[path[i]] <= f[i] /\ f[i] <= sofar[path[i]]
        /\ f[i + 1] = f[i] + cost[path[i + 1]]
    BY <1>5, <1>7, <2>1
  <2>3. path[i] \in DOMAIN sofar /\ path[i + 1] \in DOMAIN sofar
    BY <1>2, <2>1
  <2>4. /\ sofar[path[i]] + cost[path[i + 1]] <= sofar[path[i + 1]]
        /\ best[path[i + 1]] <= best[path[i]] + cost[path[i + 1]]
    BY <1>2, <1>3, <1>4, <2>1, <2>3
  <2>5. /\ best[path[i]] \in Nat /\ best[path[i + 1]] \in Nat /\ f[i] \in Nat
        /\ cost[path[i + 1]] \in Nat /\ sofar[path[i]] \in Nat
        /\ sofar[path[i + 1]] \in Nat /\ f[i + 1] \in Nat
    BY <1>3, <1>4, <1>5, <2>1, <2>3
  <2> DEFINE b == best[path[i]]
             bb == best[path[i + 1]]
             s == sofar[path[i]]
             ss == sofar[path[i + 1]]
             c == cost[path[i + 1]]
             x == f[i]
             y == f[i + 1]
  <2>6. bb <= y /\ y <= ss
    <3>1. /\ b <= x /\ x <= s /\ y = x + c /\ s + c <= ss /\ bb <= b + c
          /\ b \in Nat /\ bb \in Nat /\ x \in Nat /\ y \in Nat /\ c \in Nat
          /\ s \in Nat /\ ss \in Nat
      BY <2>2, <2>4, <2>5
    <3> HIDE DEF b, bb, s, ss, c, x, y
    <3> QED
      BY <3>1
  <2> QED
    BY <2>1, <2>6
<1>8. \A i \in 0..m : i \in T
  <2> HIDE DEF T, m
  <2> QED
    BY <1>6, <1>7, Induction
<1>9. m \in T /\ m + 1 = n
  <2>1. m \in 0..m /\ m + 1 = n
    BY <1>2, <1>6
  <2> HIDE DEF T
  <2> QED
    BY <1>8, <2>1
<1>10. best[goal] <= f[n] /\ f[n] <= best[goal]
  BY <1>2, <1>9
<1>11. best[goal] \in Nat /\ f[n] \in Nat
  BY <1>2, <1>3, <1>4, <1>5
<1> QED
  BY <1>5, <1>10, <1>11

\* What the invariant gives.
LEMMA RouteInvGives ==
  ASSUME RouteInv
  PROVE  Routes!TypeOK /\ Routes!RoutesAreCheapest
<1>1. BestInv /\ SearchInv /\ PathInv
  BY DEF RouteInv
<1>2. Routes!TypeOK
  <2>1. /\ cost \in [Routes!Hexes -> Routes!Costs] /\ best \in [Routes!Hexes -> Nat]
    BY <1>1 DEF BestInv, Routes!Costs
  <2>2. Routes!Hexes \subseteq Routes!Grid!Hexes
    BY RouteFacts DEF Routes!Grid!Hexes
  <2>3. path \in Seq(Routes!Grid!Hexes) /\ route \in Seq(Routes!Grid!Hexes)
    BY <1>1, <2>2 DEF PathInv
  <2> QED
    BY <1>1, <2>1, <2>3 DEF SearchInv, Routes!TypeOK, Routes!Known
<1>3. Routes!RoutesAreCheapest
  <2>1. leg = "none" => goal \notin Routes!Hexes
    BY <1>1 DEF PathInv
  <2>2. ASSUME leg = "found"
        PROVE  /\ goal \in Routes!Hexes /\ route[1] = OnRoute.start
               /\ route[Len(route)] = goal
               /\ \A i \in 1..(Len(route) - 1) :
                    Routes!Grid!Distance(route[i], route[i + 1]) <= OnRoute.jumpRange
    BY <1>1, <2>2, SameGrid DEF PathInv
  <2>3. ASSUME leg = "found", goal # OnRoute.start
        PROVE  /\ \A i \in 1..(Len(path) - 1) :
                    path[i + 1] \in Routes!Grid!Neighbours(path[i])
               /\ Routes!Spent(path) = best[goal]
    <3>1. Routes!Spent(path) = best[goal]
      BY <2>3, WayIsCheapest
    <3>2. ASSUME NEW i \in 1..(Len(path) - 1)
          PROVE  path[i + 1] \in Routes!Grid!Neighbours(path[i])
      <4>1. path[i] \in Routes!Hexes /\ path[i + 1] \in Routes!Hexes
        BY <1>1 DEF PathInv
      <4>2. Grid!Distance(path[i], path[i + 1]) = 1
        BY <1>1, <2>3 DEF PathInv
      <4>3. path[i + 1] \in Routes!Nearby(path[i])
        BY <4>1, <4>2, NearbyIs
      <4> QED
        BY <4>3 DEF Routes!Nearby
    <3> QED
      BY <3>1, <3>2
  <2> QED
    BY <2>1, <2>2, <2>3 DEF Routes!RoutesAreCheapest
<1> QED
  BY <1>2, <1>3

\* A step of the route finder.
LEMMA RouteKeeps ==
  ASSUME RouteInv, Routes!Next
  PROVE  RouteInv'
BY MeasureKeeps, ExpandKeeps, EndSearchKeeps, TraceKeeps, LeapKeeps
   DEF Routes!Next

\* A step of the route search or of nothing.
LEMMA RouteStays ==
  ASSUME RouteInv, RoutesStep
  PROVE  RouteInv'
<1>1. CASE UNCHANGED routes
  <2>1. /\ UNCHANGED <<cost, best, goal, leg, frontier>>
        /\ UNCHANGED <<sofar, came, path, route>>
    BY <1>1, Zenon DEF routes
  <2>2. BestInv'
    BY <2>1 DEF RouteInv, BestInv
  <2>3. SearchInv'
    BY <2>1 DEF RouteInv, SearchInv, Open, Closed
  <2>4. PathInv'
    BY <2>1 DEF RouteInv, PathInv
  <2> QED
    BY <2>2, <2>3, <2>4 DEF RouteInv
<1>2. CASE Routes!Next
  BY <1>2, RouteKeeps
<1> QED
  BY <1>1, <1>2 DEF RoutesStep

\* HexRoute, TypeOK: the costs, the heap, what came from where, the path and the
\* route are of hexes of the map (caravaneer/travel.py).
THEOREM RouteTypes == Spec => [](part = "routes" => Routes!TypeOK)
<1> DEFINE I == part = "routes" => RouteInv
<1>1. Init => I
  BY RouteStarts DEF Init
<1>2. I /\ [Next]_vars => I'
  BY GameMoves, RouteStays
<1>3. I => (part = "routes" => Routes!TypeOK)
  BY RouteInvGives
<1> QED
  BY <1>1, <1>2, <1>3, PTL DEF Spec

\* HexGrid, GridIsSound, and HexRoute, RoutesAreCheapest: a line is unbroken, as
\* long as the distance says and the same both ways, a disc is what its distance
\* says, leaves no hex out and takes none twice (caravaneer/core.py); a route
\* that is found leads to the goal by jumps within range along a path than which
\* none is cheaper, and none is found only if the goal is off the map
\* (caravaneer/travel.py).
THEOREM GameGridIsSound == Spec => []GridIsSound
<1> DEFINE I == /\ part = "grid" => Grid!TypeOK
                /\ part = "routes" => RouteInv
<1>1. Init => I
  BY GridStarts, RouteStarts DEF Init
<1>2. I /\ [Next]_vars => I'
  BY GameMoves, GridKeeps, RouteStays
<1>3. I => GridIsSound
  BY GridSound, RouteInvGives DEF GridIsSound
<1> QED
  BY <1>1, <1>2, <1>3, PTL DEF Spec

\* A way from the start by neighbours.
Way(p) ==
  /\ p \in Seq(Routes!Hexes) /\ Len(p) >= 1 /\ p[1] = OnRoute.start
  /\ \A i \in 1..(Len(p) - 1) : p[i + 1] \in Routes!Grid!Neighbours(p[i])

\* No way costs less than the reference says.
LEMMA NoWayIsCheaper ==
  ASSUME RouteInv, leg # "measure", NEW p, Way(p)
  PROVE  best[p[Len(p)]] <= Routes!Spent(p) /\ Routes!Spent(p) \in Nat
<1> DEFINE n == Len(p)
<1>1. BestInv
  BY DEF RouteInv
<1>2. /\ p \in Seq(Routes!Hexes) /\ n \in Nat /\ n >= 1 /\ p[1] = OnRoute.start
      /\ \A i \in 1..n : p[i] \in Routes!Hexes
      /\ \A i \in 1..(n - 1) : p[i + 1] \in Routes!Grid!Neighbours(p[i])
  BY DEF Way
<1>3. /\ \A h \in Routes!Hexes : cost[h] \in Nat /\ best[h] \in Nat
      /\ \A h \in Routes!Hexes : \A m \in Routes!Hexes :
           h \in Routes!Grid!Neighbours(m) => best[h] <= best[m] + cost[h]
      /\ best[OnRoute.start] = 0
  <2>1. \A h \in Routes!Hexes : \A m \in Routes!Hexes :
           h \in Routes!Grid!Neighbours(m) => m \in Routes!Nearby(h)
    BY NearbyIs DEF Routes!Nearby
  <2> QED
    BY <1>1, <2>1 DEF BestInv
<1>4. PICK f \in [1..n -> Nat] :
        /\ f[1] = 0 /\ Routes!Spent(p) = f[n]
        /\ \A i \in 2..n : f[i] = f[i - 1] + cost[p[i]]
  BY <1>2, <1>3, SpentIs
<1> DEFINE m == n - 1
           T == {i \in 0..m : best[p[i + 1]] <= f[i + 1]}
<1> HIDE DEF n
<1>5. m \in Nat /\ 0 \in T
  BY <1>2, <1>3, <1>4
<1>6. ASSUME NEW i \in 1..m, i - 1 \in T
      PROVE  i \in T
  <2>1. /\ i \in 0..m /\ i \in 1..(n - 1) /\ i \in 1..n /\ i + 1 \in 2..n /\ i + 1 \in 1..n
        /\ (i + 1) - 1 = i /\ (i - 1) + 1 = i
    BY <1>2
  <2>2. best[p[i]] <= f[i] /\ f[i + 1] = f[i] + cost[p[i + 1]]
    BY <1>4, <1>6, <2>1
  <2>3. p[i] \in Routes!Hexes /\ p[i + 1] \in Routes!Hexes
    BY <1>2, <2>1
  <2>4. best[p[i + 1]] <= best[p[i]] + cost[p[i + 1]]
    BY <1>2, <1>3, <2>1, <2>3
  <2>5. /\ best[p[i]] \in Nat /\ best[p[i + 1]] \in Nat /\ f[i] \in Nat
        /\ cost[p[i + 1]] \in Nat
    BY <1>3, <1>4, <2>1, <2>3
  <2> DEFINE b == best[p[i]]
             bb == best[p[i + 1]]
             c == cost[p[i + 1]]
             x == f[i]
             y == f[i + 1]
  <2>6. bb <= y
    <3>1. /\ b <= x /\ y = x + c /\ bb <= b + c
          /\ b \in Nat /\ bb \in Nat /\ x \in Nat /\ c \in Nat
      BY <2>2, <2>4, <2>5
    <3> HIDE DEF b, bb, c, x, y
    <3> QED
      BY <3>1
  <2> QED
    BY <2>1, <2>6
<1>7. \A i \in 0..m : i \in T
  <2> HIDE DEF T, m
  <2> QED
    BY <1>5, <1>6, Induction
<1>8. m \in T /\ m + 1 = n /\ n \in 1..n
  <2>1. m \in 0..m /\ m + 1 = n /\ n \in 1..n
    BY <1>2, <1>5
  <2> HIDE DEF T
  <2> QED
    BY <1>7, <2>1
<1> QED
  BY <1>4, <1>8 DEF n

\* That what was found is the cheapest way, whatever the reference is.
NoWayBeatsIt ==
  part = "routes" /\ leg = "found" /\ goal # OnRoute.start =>
    /\ Way(path) /\ path[Len(path)] = goal
    /\ \A p : Way(p) /\ p[Len(p)] = goal => Routes!Spent(path) <= Routes!Spent(p)

\* The path found is one of the ways it is compared with.
LEMMA FoundIsAWay ==
  ASSUME RouteInv, leg = "found", goal # OnRoute.start
  PROVE  Way(path) /\ path[Len(path)] = goal
<1>1. PathInv
  BY DEF RouteInv
<1>2. /\ path \in Seq(Routes!Hexes) /\ path[1] = OnRoute.start
      /\ Len(path) >= 1 /\ path[Len(path)] = goal
  BY <1>1 DEF PathInv
<1>3. Routes!RoutesAreCheapest
  BY RouteInvGives
<1> QED
  BY <1>2, <1>3 DEF Way, Routes!RoutesAreCheapest

\* HexRoute, find_path: the path that is found leads from the ship to the goal
\* by neighbours, and no other path that does costs less.  What the run compares
\* it with, the measured costs, is not part of this claim.
THEOREM RoutesBeatAllWays == Spec => []NoWayBeatsIt
<1> DEFINE I == part = "routes" => RouteInv
<1>1. Init => I
  BY RouteStarts DEF Init
<1>2. I /\ [Next]_vars => I'
  BY GameMoves, RouteStays
<1>3. I => NoWayBeatsIt
  BY FoundIsAWay, NoWayIsCheaper, WayIsCheapest DEF NoWayBeatsIt
<1> QED
  BY <1>1, <1>2, <1>3, PTL DEF Spec
=============================================================================
