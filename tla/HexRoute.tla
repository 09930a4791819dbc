------------------------------ MODULE HexRoute ------------------------------
(***************************************************************************)
(* The route finder of the caravaneer game (caravaneer/travel.py): A* from *)
(* hex to hex, and the reduction of its path to jumps.  One pass of its    *)
(* loop is a step.  Costs are tenths of the code's; black holes, which no  *)
(* map has, are left out.                                                  *)
(*                                                                         *)
(* Before it starts, rounds of relaxation (Bellman and Ford's) measure     *)
(* what each hex costs at best: that is the reference, not code.           *)
(***************************************************************************)
EXTENDS Integers, Sequences, FiniteSets, FiniteSetsExt

CONSTANTS
  Origin, Radius,  \* the map
  Start,           \* the ship's position
  Goals,           \* destinations, on the map or not
  Rough,           \* hexes of which the terrain differs from map to map
  JumpRange

Grid == INSTANCE HexGrid WITH Reach <- Radius, from <- Start, to <- Start,
                              radius <- Radius

VARIABLES
  cost,      \* cost[h]: what it costs to enter h, for the hexes of the map
  best,      \* best[h]: the reference, or Unknown
  goal,      \* destination
  phase,     \* where find_path is
  frontier,  \* the heap: hexes with their priorities
  sofar,     \* cost_so_far
  came,      \* came_from
  path,      \* hex by hex, from the end
  route      \* waypoints

map == <<cost, goal>>
search == <<frontier, sofar, came>>
vars == <<map, best, phase, search, path, route>>

Hexes == Grid!Within(Origin, Radius)

RouteConstants ==
  /\ Grid!HexConstants /\ Start \in Hexes /\ Goals \subseteq Grid!Hexes
  /\ Rough \subseteq Hexes /\ JumpRange \in Nat \ {0}

Costs == {10, 15, 23}  \* plain, asteroids, nebula

(* More than it costs to fly by way of Origin, whatever the terrain is. *)
Unknown == 23 * (2 * Radius + 1)
Known == DOMAIN sofar
Nearby(h) == Grid!Neighbours(h) \cap Hexes

TypeOK ==
  /\ cost \in [Hexes -> Costs] /\ best \in [Hexes -> Nat] /\ goal \in Goals
  /\ phase \in {"measure", "search", "trace", "leap", "found", "none"}
  /\ frontier \subseteq [priority : Nat, hex : Hexes]
  /\ Known \subseteq Hexes /\ \A h \in Known : sofar[h] \in Nat
  /\ DOMAIN came = Known \ {Start} /\ \A h \in DOMAIN came : came[h] \in Known
  /\ path \in Seq(Grid!Hexes) /\ route \in Seq(Grid!Hexes)

Init ==
  /\ \E c \in [Rough -> Costs] :
       cost = [h \in Hexes |-> IF h \in Rough THEN c[h] ELSE 10]
  /\ goal \in Goals
  /\ best = [h \in Hexes |-> IF h = Start THEN 0 ELSE Unknown]
  /\ phase = "measure"
  /\ frontier = {[priority |-> 0, hex |-> Start]}
  /\ sofar = [h \in {Start} |-> 0] /\ came = [h \in {} |-> Start]
  /\ path = <<>> /\ route = <<>>

Measure ==
  LET round == [h \in Hexes |->
                  Min({best[h]} \cup {best[n] + cost[h] : n \in Nearby(h)})]
  IN /\ phase = "measure"
     /\ best' = round
     /\ phase' = IF round # best THEN "measure"
                 ELSE IF goal = Start THEN "found" ELSE "search"
     /\ route' = IF goal = Start THEN <<Start>> ELSE <<>>
     /\ UNCHANGED <<map, search, path>>

(* heapq: by priority, then by position. *)
Before(a, b) ==
  \/ a.priority < b.priority
  \/ /\ a.priority = b.priority
     /\ \/ a.hex[1] < b.hex[1]
        \/ a.hex[1] = b.hex[1] /\ a.hex[2] <= b.hex[2]

(* A faulty variant, for the mutant: a hex is costed once. *)
BetterFirst(h, here) == {n \in Nearby(h) : n \notin Known}

(* The neighbours that are new, or cheaper by way of h. *)
Better(h, here) ==
  {n \in Nearby(h) : n \notin Known \/ sofar[h] + cost[n] < here[n]}

Expand ==
  LET top == CHOOSE f \in frontier : \A g \in frontier : Before(f, g)
      h == top.hex
      better == Better(h, sofar)
      new(n) == sofar[h] + cost[n]
  IN /\ phase = "search" /\ frontier # {} /\ h # goal
     /\ frontier' = (frontier \ {top}) \cup
          {[priority |-> new(n) + 10 * Grid!Distance(n, goal), hex |-> n] :
             n \in better}
     /\ sofar' = [n \in Known \cup better |->
                    IF n \in better THEN new(n) ELSE sofar[n]]
     /\ came' = [n \in (Known \ {Start}) \cup better |->
                   IF n \in better THEN h ELSE came[n]]
     /\ UNCHANGED <<map, best, phase, path, route>>

(* The destination is the first of the heap, or the heap is empty. *)
EndSearch ==
  /\ phase = "search"
  /\ \/ frontier = {}
     \/ \E f \in frontier : f.hex = goal /\ \A g \in frontier : Before(f, g)
  /\ IF goal \in DOMAIN came
     THEN phase' = "trace" /\ path' = <<goal>>
     ELSE phase' = "none" /\ UNCHANGED path
  /\ UNCHANGED <<map, best, search, route>>

(* From the destination back; then path.reverse(). *)
Trace ==
  /\ phase = "trace"
  /\ IF Head(path) # Start
     THEN path' = <<came[Head(path)]>> \o path /\ UNCHANGED <<phase, route>>
     ELSE /\ UNCHANGED path
          /\ IF Len(path) <= 2
             THEN phase' = "found" /\ route' = path
             ELSE phase' = "leap" /\ route' = <<Start>>
  /\ UNCHANGED <<map, best, search>>

(* _simplify_path: the furthest of the hexes ahead that a jump reaches. *)
Leap ==
  LET i == CHOOSE k \in DOMAIN path : path[k] = route[Len(route)]
      last == Min({i + JumpRange, Len(path)})
      ahead == {j \in (i + 1)..last :
                  Grid!Distance(path[i], path[j]) <= JumpRange}
  IN /\ phase = "leap"
     /\ IF i = Len(path)
        THEN phase' = "found" /\ UNCHANGED route
        ELSE /\ route' = Append(route, path[Max({i + 1} \cup ahead)])
             /\ UNCHANGED phase
     /\ UNCHANGED <<map, best, search, path>>

Next == Measure \/ Expand \/ EndSearch \/ Trace \/ Leap

Spec == Init /\ [][Next]_vars

Spent(p) == LET total[i \in 1..Len(p)] ==
                  IF i = 1 THEN 0 ELSE total[i - 1] + cost[p[i]]
            IN total[Len(p)]

(* A route is found to every hex of the map and to no other; its jumps are *)
(* within the range and lead to the destination along hexes that cost what *)
(* the cheapest way does, although the search stops at the first sight of  *)
(* the destination, and reopens hexes whose predecessors it has noted.     *)
RoutesAreCheapest ==
  /\ phase = "none" => goal \notin Hexes
  /\ phase = "found" =>
       /\ goal \in Hexes /\ route[1] = Start /\ route[Len(route)] = goal
       /\ \A i \in 1..(Len(route) - 1) :
            Grid!Distance(route[i], route[i + 1]) <= JumpRange
       /\ goal # Start =>
            /\ \A i \in 1..(Len(path) - 1) :
                 path[i + 1] \in Grid!Neighbours(path[i])
            /\ Spent(path) = best[goal]
=============================================================================
