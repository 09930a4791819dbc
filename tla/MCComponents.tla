---------------------------- MODULE MCComponents ----------------------------
(* The components on small instances. *)
EXTENDS Components, TLC

(* Hexes: every line from the neighbourhood of a hex into its disc. *)
MCGrid == [origin |-> <<5, 0>>, reach |-> 4]

(* A map with every terrain, both ends of a wormhole, a person who knows a *)
(* second system and whose ship is slower than a pirate's, and fuel for a  *)
(* short trip.                                                             *)
Map ==
  <<5, 0>> :> "nebula" @@ <<6, 0>> :> "system" @@ <<6, -1>> :> "anomaly" @@
  <<5, -1>> :> "wormhole" @@ <<4, 0>> :> "asteroids" @@
  <<4, 1>> :> "wormhole" @@ <<7, -1>> :> "lair" @@ <<7, 0>> :> "derelict" @@
  <<3, 1>> :> "system"

MCFlight ==
  [humans |-> {"human"}, pirates |-> {"pirate"}, traders |-> {}, lair |-> "lair",
   noShip |-> "none", cells |-> DOMAIN Map, terrain |-> Map,
   gate |-> <<5, -1>> :> <<4, 1>> @@ <<4, 1>> :> <<5, -1>>,
   start |-> "human" :> <<6, 0>> @@ "pirate" :> <<6, 0>>,
   outposts |-> "human" :> {<<3, 1>>} @@ "pirate" :> {},
   speed |-> "human" :> 2 @@ "pirate" :> 3 @@ "lair" :> 3,
   jumpRange |-> 2, sensors |-> 1, maxFuel |-> 2, maxHull |-> 2, lowFuel |-> 1,
   lowHull |-> 2, rounds |-> 2]

(* Goods that fill a hold, one of them illegal in a system, and an event   *)
(* that two systems share.                                                 *)
MCMarket ==
  [humans |-> {"human"}, npcs |-> {"npc"}, goods |-> {"ore", "food"},
   systems |-> {"y1", "y2"}, illegal |-> {<<"ore", "y1">>},
   quantities |-> {2, 10}, capacity |-> 12, startCredits |-> 40, cushion |-> 4,
   basePrice |-> 2, terms |-> {2, 3}, maxEvents |-> 1, maxMoves |-> 3]

(* Three requests, so that a late answer has a later and a yet later wait  *)
(* to end, and a history that is trimmed within a round of two calls.      *)
MCChat ==
  [maxAsks |-> 3, maxHistory |-> 3, maxRounds |-> 1, maxCalls |-> 2,
   maxFaults |-> 1]

(* One agent whose tools run by themselves and one whose tools need a      *)
(* review, a tool that is always confirmed, one that is not.               *)
MCGate ==
  [agents |-> {"a1", "a2"}, autoInvoke |-> {"a1"}, tools |-> {"t1", "t2"},
   confirm |-> {"t2"}, noTool |-> "none", maxReviews |-> 2, maxEdits |-> 1,
   maxFaults |-> 1]

(* Two processes that may share the directory of a task. *)
MCSandbox ==
  [runners |-> {"r1", "r2"}, mortal |-> {"r1", "r2"}, tasks |-> {"t1"},
   paths |-> {"p1"}, noTask |-> "none", maxEdits |-> 1, maxRuns |-> 3, maxFaults |-> 1]

(* One process that never dies: only a command can outlive its gate. *)
MCSandboxAlone == [MCSandbox EXCEPT !.runners = {"r1"}, !.mortal = {}]

MCSouls == [maxEdits |-> 3]

(* A task with tools, two without that share a key, one of the other tier; *)
(* one failure sends a task to the next route.                             *)
MCGateway ==
  [tasks |-> {"t1", "t2", "t3", "t4"}, withTools |-> {"t1"}, premium |-> {"t4"},
   session |-> "chat", fallback |-> TRUE, maxRounds |-> 2, maxTurns |-> 1,
   maxFaults |-> 1]

(* Routes past four hexes whose terrain is any: across the map, to where   *)
(* the ship is, and off the map.                                           *)
MCRoute ==
  [origin |-> <<0, 0>>, radius |-> 2, start |-> <<-2, 0>>,
   goals |-> {<<2, 0>>, <<-2, 0>>, <<3, 0>>, <<2, -2>>, <<0, 2>>},
   rough |-> {<<-1, 0>>, <<-1, -1>>, <<0, 0>>, <<1, 0>>},
   jumpRange |-> 3]

(* Two controllers whose passes overlap, over sheets edited meanwhile, one *)
(* of which is read before the other; the first has a row.                 *)
MCRegistry ==
  [souls |-> {"s1", "s2"}, listing |-> <<"s1", "s2">>,
   controllers |-> {"c1", "c2"}, maxEdits |-> 1, maxFaults |-> 1]

(* A Go package of two files that may define one name, each even twice, two *)
(* ingestions and two embedding jobs.                                       *)
MCGraph ==
  [files |-> {"p1", "p2"}, scanned |-> <<"p1", "p2">>,
   owner |-> [f \in {"p1", "p2"} |-> "p"], names |-> {"d"}, runs |-> {"r1", "r2"},
   jobs |-> {"j1", "j2"}, limit |-> 2, batch |-> 1, maxCopies |-> 2,
   maxEdits |-> 1, maxFaults |-> 1]

(* Each part begins in all its ways only when it is the one that moves. *)
MCInit ==
  /\ Init
  /\ part # "routes" => goal = <<2, 0>> /\ \A h \in DOMAIN cost : cost[h] = 10
  /\ row["s1"] = 0
  /\ part # "registry" => row["s2"] = 0
  /\ part # "graph" => \A f \in DOMAIN code : code[f] = Graph!NoFile

MCSpec == MCInit /\ [][Next]_vars

(* One part only. *)
SandboxSpec == MCInit /\ part = "sandbox" /\ [][Next]_vars
GateSpec == MCInit /\ part = "tools" /\ [][Next]_vars
FlightSpec == MCInit /\ part = "flight" /\ [][Next]_vars
TradeSpec == MCInit /\ part = "trade" /\ [][Next]_vars
=============================================================================
