------------------------------ MODULE HexGrid ------------------------------
(***************************************************************************)
(* The hex grid of the caravaneer game (caravaneer/core.py): axial         *)
(* coordinates <<q, r>>, distances, rings and the line a ship flies along. *)
(* The code interpolates in floating point; here a position on the line is *)
(* a fraction, and round() takes a half to the even integer as Python does.*)
(* The state is a line and the reach of a disc, so that TLC looks at each. *)
(***************************************************************************)
EXTENDS Integers, Sequences, FiniteSets, FiniteSetsExt

CONSTANTS
  Origin,  \* a hex
  Reach    \* the discs and lines looked at go this far from Origin

Hexes == Int \X Int

HexConstants == Origin \in Hexes /\ Reach \in Nat

VARIABLES
  from, to,  \* the ends of a line
  radius     \* of a disc around from

vars == <<from, to, radius>>

Sides == <<<<0, 1>>, <<-1, 1>>, <<-1, 0>>, <<0, -1>>, <<1, -1>>, <<1, 0>>>>
Plus(a, b) == <<a[1] + b[1], a[2] + b[2]>>
Times(k, a) == <<k * a[1], k * a[2]>>
Abs(x) == IF x < 0 THEN -x ELSE x

Neighbours(a) == {Plus(a, Sides[i]) : i \in 1..6}

(* The third cube coordinate is -q - r. *)
Distance(a, b) ==
  Max({Abs(a[1] - b[1]), Abs(a[2] - b[2]),
       Abs((a[1] + a[2]) - (b[1] + b[2]))})

(* The walk around a ring starts at a corner and follows the six sides. *)
Corner[i \in 1..6] ==
  IF i = 1 THEN <<1, -1>> ELSE Plus(Corner[i - 1], Sides[i - 1])
Ring(a, k) ==
  IF k = 0 THEN {a}
  ELSE {Plus(a, Plus(Times(k, Corner[i]), Times(j, Sides[i]))) :
          i \in 1..6, j \in 0..(k - 1)}
Within(a, k) == UNION {Ring(a, j) : j \in 0..k}

(* round(x / n). *)
Round(x, n) ==
  LET low == x \div n  rest == 2 * (x % n) IN
  IF rest < n \/ (rest = n /\ low % 2 = 0) THEN low ELSE low + 1

(* A faulty variant, for the mutant: q and r as they were rounded. *)
OnLineRounded(a, b, n, i) ==
  <<Round(a[1] * n + (b[1] - a[1]) * i, n), Round(a[2] * n + (b[2] - a[2]) * i, n)>>

(* Hex i of the line: the three rounded coordinates need not add up to 0,  *)
(* and the one that was rounded furthest gives way.                        *)
OnLine(a, b, n, i) ==
  LET x == a[1] * n + (b[1] - a[1]) * i
      y == a[2] * n + (b[2] - a[2]) * i
      z == -x - y
      q == Round(x, n)  r == Round(y, n)  s == Round(z, n)
      dq == Abs(q * n - x)  dr == Abs(r * n - y)  ds == Abs(s * n - z)
  IN IF dq > dr /\ dq > ds THEN <<-r - s, r>>
     ELSE IF dr > ds THEN <<q, -q - s>>
     ELSE <<q, r>>
LineTo(a, b) ==
  LET n == Distance(a, b) IN
  IF n = 0 THEN <<a>> ELSE [i \in 1..(n + 1) |-> OnLine(a, b, n, i - 1)]

TypeOK ==
  from \in Hexes /\ to \in Hexes /\ radius \in 0..Reach

Init == from = Origin /\ to = Origin /\ radius = 0

(* A line between any two hexes of the disc. *)
Draw(a, b) == from' = a /\ to' = b /\ UNCHANGED radius
Widen == radius < Reach /\ radius' = radius + 1 /\ UNCHANGED <<from, to>>

Next ==
  \/ \E a \in Within(Origin, 1), b \in Within(Origin, Reach) : Draw(a, b)
  \/ Widen

Spec == Init /\ [][Next]_vars

(* The line a ship flies along starts and ends where it should, goes from  *)
(* neighbour to neighbour for as many hexes as the distance says that the  *)
(* jump range is compared with and the fuel is counted by, and crosses the *)
(* same hexes on the way back, although each hex is rounded on its own.    *)
LinesAreUnbroken ==
  LET there == LineTo(from, to)  n == Len(there) IN
  /\ n = Distance(from, to) + 1
  /\ there[1] = from /\ there[n] = to
  /\ \A i \in 1..(n - 1) : there[i + 1] \in Neighbours(there[i])
  /\ LET back == LineTo(to, from) IN \A i \in 1..n : back[i] = there[n + 1 - i]

(* A disc, of sensors or of the map, is what its distance says: the walks  *)
(* around its rings leave no hex out and take none twice.                  *)
DiscsAreFull ==
  LET box == {Plus(from, <<i, j>>) : i \in -radius..radius,
                                     j \in -radius..radius}
  IN /\ Within(from, radius) = {a \in box : Distance(from, a) <= radius}
     /\ Cardinality(Within(from, radius)) = 1 + 3 * radius * (radius + 1)

(* What travel, sensors and map generation take for granted of the grid. *)
GridIsSound == LinesAreUnbroken /\ DiscsAreFull
=============================================================================
