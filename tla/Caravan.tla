------------------------------ MODULE Caravan ------------------------------
(***************************************************************************)
(* A session of the caravaneer game: the human's calls between turns       *)
(* (caravaneer/game.py, gui/app.py), the phases of process_turn, the NPCs'  *)
(* decisions (ai_agent.py), trips cell by cell (travel.py), fights round   *)
(* by round (combat.py) and what ships see (map.py).  Everything is one    *)
(* thread: variables trip, fight and npc are the calls under way.          *)
(*                                                                         *)
(* Damage, shields and odds are a choice of the hull that remains; 0 is    *)
(* every hull is_destroyed is true of.  Credits and cargo are module       *)
(* CaravanTrade's; technologies only add modules no rule here looks at.    *)
(***************************************************************************)
EXTENDS Integers, Sequences, FiniteSets

CONSTANTS
  Humans, Pirates, Traders,  \* ships: humans', pirate NPCs', other NPCs'
  Lair,          \* the pirate a lair generates anew for each fight
  Cells,         \* the hexes of the map
  Terrain,       \* Terrain[c]
  Gate,          \* Gate[c]: where the wormhole of c leads
  Start,         \* Start[s]: the cell ship s starts at
  Outposts,      \* Outposts[s]: the other places its owner knows at first
  Speed,         \* Speed[s]
  JumpRange, Sensors, MaxFuel, MaxHull,
  LowFuel, LowHull,  \* an NPC with less than this flees
  Rounds,        \* rounds of a fight: 5 in the code
  NoShip         \* no ship

Npcs == Pirates \cup Traders
Ships == Humans \cup Npcs
Nowhere == <<>>

Grid == INSTANCE HexGrid WITH Origin <- <<0, 0>>, Reach <- 0,
                              from <- 0, to <- 0, radius <- 0

(* What generate_galaxy places; it never places a black hole. *)
TerrainTypes == {"system", "station", "empty", "nebula", "asteroids",
                 "anomaly", "wormhole", "lair", "derelict"}

(* What generate_player_starts gives a human: a system away from the       *)
(* center, and up to two others nearby that nobody else has.               *)
StartConstants ==
  LET has(h) == {Start[h]} \cup Outposts[h]
  IN \A h \in Humans :
       /\ Cardinality(Outposts[h]) <= 2
       /\ \A c \in has(h) :
            Terrain[c] = "system" /\ Grid!Distance(c, <<0, 0>>) > 3
       /\ \A c \in Outposts[h] : Grid!Distance(c, Start[h]) \in 2..5
       /\ \A g \in Humans \ {h} : has(g) \cap has(h) = {}

CaravanConstants ==
  /\ Cells \subseteq Grid!Hexes
  /\ Terrain \in [Cells -> TerrainTypes]
  /\ \A c \in Cells : Terrain[c] = "wormhole" =>
       Gate[c] \in Cells /\ Terrain[Gate[c]] = "wormhole" /\ Gate[Gate[c]] = c
  /\ Start \in [Ships -> Cells] /\ Outposts \in [Ships -> SUBSET Cells]
  /\ Speed \in [Ships \cup {Lair} -> Nat]
  /\ JumpRange \in Nat /\ Sensors \in Nat
  /\ MaxFuel \in Nat /\ MaxHull \in Nat \ {0} /\ Rounds \in Nat \ {0}
  /\ LowFuel \in Nat /\ LowHull \in Nat
  /\ Humans \cap Npcs = {}
  /\ NoShip \notin Ships /\ Lair \notin Ships \cup {NoShip}
  /\ StartConstants

VARIABLES
  pos, fuel, hull,  \* of each ship
  seen,    \* seen[s]: cells visible to the owner of s
  trip,    \* the travel() under way: ship, path, cells done, fuel cost
  fight,   \* the resolve() under way: attacker, defender, round, whose
           \* move it is, whether the defender may still try to flee
  phase,   \* of process_turn; "play" between turns
  human,   \* whose process_turn it is
  todo,    \* NPCs the loop of the phase has not looked at
  npc,     \* the take_turn under way: who, and where it is
  berth,   \* berth[s]: history, where its last completed trip took s
  stray,   \* ships whose last trip ended with their destruction
  grave    \* grave[n]: history, where n was a wreck at the end of a turn

ships == <<pos, fuel, hull, seen>>
turn == <<phase, human, todo>>
history == <<berth, stray, grave>>
vars == <<ships, trip, fight, turn, npc, history>>

NoTrip == [ship |-> NoShip, path |-> <<>>, at |-> 0, cost |-> 0]
NoFight == [a |-> NoShip, d |-> NoShip, round |-> 0, move |-> "first",
            flees |-> FALSE]
NoNpc == [who |-> NoShip, stage |-> "fuel"]
Stages == <<"fuel", "hull", "combat", "roam">>
Quiet == trip = NoTrip /\ fight = NoFight

TypeOK ==
  /\ pos \in [Ships -> Grid!Hexes]
  /\ fuel \in [Ships -> 0..MaxFuel]
  /\ hull \in [Ships \cup {Lair} -> 0..MaxHull]
  /\ seen \in [Ships -> SUBSET Cells]
  /\ trip.ship # NoShip => /\ trip.ship \in Ships
                           /\ trip.at \in 1..Len(trip.path)
                           /\ trip.cost <= fuel[trip.ship]
  /\ fight.a # NoShip => /\ {fight.a, fight.d} \subseteq Ships \cup {Lair}
                         /\ fight.round \in 1..Rounds
  /\ trip = NoTrip \/ fight = NoFight
  /\ phase \in {"play", "lair", "ambush", "npcs"}
  /\ human \in Humans \cup {NoShip}
  /\ todo \subseteq Npcs
  /\ npc.who \in Npcs \cup {NoShip} /\ npc.stage \in {Stages[i] : i \in 1..4}
  /\ npc.who # NoShip => phase = "npcs"
  /\ berth \in [Ships -> Grid!Hexes] /\ stray \subseteq Ships
  /\ grave \in [Npcs -> Grid!Hexes \cup {Nowhere}]

(* reveal. *)
InSight(c) == Grid!Within(c, Sensors) \cap Cells

(* add_player, add_npc_trader. *)
Init ==
  /\ pos = Start
  /\ fuel = [s \in Ships |-> MaxFuel]
  /\ hull = [s \in Ships \cup {Lair} |-> MaxHull]
  /\ seen = [s \in Ships |-> InSight(Start[s]) \cup
               UNION {Grid!Within(c, 1) \cap Cells : c \in Outposts[s]}]
  /\ trip = NoTrip /\ fight = NoFight
  /\ phase = "play" /\ human = NoShip /\ todo = {} /\ npc = NoNpc
  /\ berth = Start /\ stray = {} /\ grave = [n \in Npcs |-> Nowhere]

(***************************************************************************)
(* Trips.                                                                  *)
(***************************************************************************)

At(c) == IF c \in Cells THEN Terrain[c] ELSE "void"

(* _calculate_fuel_cost: a nebula counts twice, what is off the map not. *)
Toll(c) == IF At(c) = "void" THEN 0 ELSE IF At(c) = "nebula" THEN 2 ELSE 1
Cost(path) ==
  LET upto[i \in 0..(Len(path) - 1)] ==
        IF i = 0 THEN 0 ELSE upto[i - 1] + Toll(path[i + 1])
      total == upto[Len(path) - 1]
  IN IF total < 1 THEN 1 ELSE total

(* A faulty variant, for the mutant: the fuel is not looked at. *)
CanTravelOnEmpty(s, c) ==
  c # pos[s] /\ Grid!Distance(pos[s], c) <= JumpRange

CanTravel(s, c) ==
  /\ c # pos[s] /\ Grid!Distance(pos[s], c) <= JumpRange
  /\ fuel[s] >= Cost(Grid!LineTo(pos[s], c))

(* travel: up to the loop over the path, whose first cell is skipped. *)
Depart(s, c) ==
  LET path == Grid!LineTo(pos[s], c) IN
  trip' = [ship |-> s, path |-> path, at |-> 1, cost |-> Cost(path)]

(* What becomes of an NPC's turn when its trip ends: it fled, or roamed,   *)
(* and is done, or goes on to its next idea.                               *)
AfterTrip(success) ==
  npc' = IF npc.who = NoShip THEN npc
         ELSE IF success \/ npc.stage = "roam" THEN NoNpc
         ELSE [npc EXCEPT !.stage = IF @ = "fuel" THEN "hull" ELSE "combat"]

(* The next cell has been entered; a ship that is now destroyed stays      *)
(* where the events left it and has used no fuel.                          *)
Entered ==
  LET s == trip.ship IN
  IF hull'[s] = 0
  THEN /\ trip' = NoTrip
       /\ stray' = stray \cup {s}
       /\ AfterTrip(FALSE)
  ELSE /\ trip' = [trip EXCEPT !.at = @ + 1]
       /\ UNCHANGED <<stray, npc>>

Entering(terrains) ==
  /\ trip # NoTrip /\ trip.at < Len(trip.path)
  /\ At(trip.path[trip.at + 1]) \in terrains

Damaged(s) == \E h \in 0..hull[s] : hull' = [hull EXCEPT ![s] = h]
Refueled(s) == \E f \in fuel[s]..MaxFuel : fuel' = [fuel EXCEPT ![s] = f]

(* _process_cell, by terrain.  Off the map, where a nebula may push a ship, *)
(* the check for a destroyed ship is skipped as well.                      *)
CrossSpace ==
  /\ Entering({"system", "station", "empty", "void"})
  /\ UNCHANGED <<ships, fight, turn, berth, grave>>
  /\ IF At(trip.path[trip.at + 1]) = "void"
     THEN trip' = [trip EXCEPT !.at = @ + 1] /\ UNCHANGED <<stray, npc>>
     ELSE Entered

(* Asteroids, and a lair: a bounty, or damage, or neither. *)
TakeFire ==
  /\ Entering({"asteroids", "lair"})
  /\ Damaged(trip.ship)
  /\ UNCHANGED <<pos, fuel, seen, fight, turn, berth, grave>>
  /\ Entered

Drift ==
  /\ Entering({"nebula"})
  /\ \E c \in {pos[trip.ship]} \cup Grid!Neighbours(trip.path[trip.at + 1]) :
       pos' = [pos EXCEPT ![trip.ship] = c]
  /\ UNCHANGED <<fuel, hull, seen, fight, turn, berth, grave>>
  /\ Entered

RideWormhole ==
  /\ Entering({"wormhole"})
  /\ \/ Damaged(trip.ship) /\ UNCHANGED pos
     \/ /\ pos' = [pos EXCEPT ![trip.ship] = Gate[trip.path[trip.at + 1]]]
        /\ UNCHANGED hull
  /\ UNCHANGED <<fuel, seen, fight, turn, berth, grave>>
  /\ Entered

(* _derelict_event: credits or cargo, fuel, or an explosion. *)
Salvage ==
  /\ Entering({"derelict"})
  /\ \/ Refueled(trip.ship) /\ UNCHANGED hull
     \/ Damaged(trip.ship) /\ UNCHANGED fuel
  /\ UNCHANGED <<pos, seen, fight, turn, berth, grave>>
  /\ Entered

(* _anomaly_event: fuel, repair, damage, another system, or credits. *)
Anomaly ==
  LET s == trip.ship IN
  /\ Entering({"anomaly"})
  /\ \/ Refueled(s) /\ UNCHANGED <<pos, hull>>
     \/ /\ \E h \in hull[s]..MaxHull : hull' = [hull EXCEPT ![s] = h]
        /\ UNCHANGED <<pos, fuel>>
     \/ Damaged(s) /\ UNCHANGED <<pos, fuel>>
     \/ /\ \E c \in {x \in Cells : Terrain[x] = "system"} :
             pos' = [pos EXCEPT ![s] = c]
        /\ UNCHANGED <<fuel, hull>>
  /\ UNCHANGED <<seen, fight, turn, berth, grave>>
  /\ Entered

(* A faulty variant, for the mutant: the ship is where the events put it.  *)
ArriveAdrift ==
  LET s == trip.ship IN
  /\ trip # NoTrip /\ trip.at = Len(trip.path)
  /\ fuel' = [fuel EXCEPT ![s] = @ - trip.cost]
  /\ seen' = [seen EXCEPT ![s] = @ \cup InSight(pos[s])]
  /\ berth' = [berth EXCEPT ![s] = trip.path[trip.at]]
  /\ stray' = stray \ {s}
  /\ trip' = NoTrip
  /\ AfterTrip(TRUE)
  /\ UNCHANGED <<pos, hull, fight, turn, grave>>

(* travel: the end.  The destination is revealed, and with it marked as    *)
(* discovered, before _check_discovery asks, which so finds nothing ever.  *)
Arrive ==
  LET s == trip.ship  c == trip.path[trip.at] IN
  /\ trip # NoTrip /\ trip.at = Len(trip.path)
  /\ fuel' = [fuel EXCEPT ![s] = @ - trip.cost]
  /\ pos' = [pos EXCEPT ![s] = c]
  /\ seen' = [seen EXCEPT ![s] = @ \cup InSight(c)]
  /\ berth' = [berth EXCEPT ![s] = c]
  /\ stray' = stray \ {s}
  /\ trip' = NoTrip
  /\ AfterTrip(TRUE)
  /\ UNCHANGED <<hull, fight, turn, grave>>

(***************************************************************************)
(* Fights.  Attackers never want to flee, and a defender that moves first  *)
(* never gets to.                                                          *)
(***************************************************************************)

Fight(a, d, flees) ==
  fight' = [a |-> a, d |-> d, round |-> 1, move |-> "first", flees |-> flees]

First == IF Speed[fight.a] >= Speed[fight.d] THEN fight.a ELSE fight.d
Second == IF First = fight.a THEN fight.d ELSE fight.a

(* The end; what is looted is CaravanTrade's.  An NPC that attacked is     *)
(* done for this turn.                                                     *)
Disengage == fight' = NoFight /\ npc' = NoNpc

(* A wreck does not shoot, but may be shot at. *)
ShootFirst ==
  /\ fight # NoFight /\ fight.move = "first"
  /\ IF hull[First] > 0 THEN Damaged(Second) ELSE UNCHANGED hull
  /\ IF hull'[Second] = 0 THEN Disengage
     ELSE /\ fight' = [fight EXCEPT !.move =
                         IF Second = fight.d /\ fight.flees THEN "flee"
                         ELSE "second"]
          /\ UNCHANGED npc
  /\ UNCHANGED <<pos, fuel, seen, trip, turn, history>>

TryToFlee ==
  /\ fight # NoFight /\ fight.move = "flee"
  /\ \/ Disengage
     \/ fight' = [fight EXCEPT !.move = "second", !.flees = FALSE] /\ UNCHANGED npc
  /\ UNCHANGED <<ships, trip, turn, history>>

ShootBack ==
  /\ fight # NoFight /\ fight.move = "second"
  /\ Damaged(First)
  /\ IF hull'[First] = 0 \/ fight.round = Rounds THEN Disengage
     ELSE /\ fight' = [fight EXCEPT !.move = "first", !.round = @ + 1]
          /\ UNCHANGED npc
  /\ UNCHANGED <<pos, fuel, seen, trip, turn, history>>

(***************************************************************************)
(* The human, between turns.                                               *)
(***************************************************************************)

Playing == phase = "play" /\ Quiet

(* player_travel, to an option of get_valid_destinations. *)
PlayerTravel(s, c) ==
  /\ Playing
  /\ c \in seen[s] /\ CanTravel(s, c)
  /\ Depart(s, c)
  /\ UNCHANGED <<ships, fight, turn, npc, history>>

(* player_attack, of a wreck as well. *)
PlayerAttack(s, n) ==
  /\ Playing
  /\ pos[n] = pos[s]
  /\ Fight(s, n, TRUE)
  /\ UNCHANGED <<ships, trip, turn, npc, history>>

(* player_refuel and player_repair, for credits; a wreck is repaired too. *)
PlayerRefuel(s) ==
  /\ Playing /\ At(pos[s]) = "system" /\ fuel[s] < MaxFuel
  /\ fuel' = [fuel EXCEPT ![s] = MaxFuel]
  /\ UNCHANGED <<pos, hull, seen, trip, fight, turn, npc, history>>

PlayerRepair(s) ==
  /\ Playing /\ At(pos[s]) = "system" /\ hull[s] < MaxHull
  /\ hull' = [hull EXCEPT ![s] = MaxHull]
  /\ UNCHANGED <<pos, fuel, seen, trip, fight, turn, npc, history>>

(***************************************************************************)
(* process_turn.                                                           *)
(***************************************************************************)

EndTurn(s) ==
  /\ Playing
  /\ phase' = "lair" /\ human' = s
  /\ UNCHANGED <<ships, trip, fight, todo, npc, history>>

(* A lair's pirate waits for the human. *)
LairPhase ==
  /\ phase = "lair" /\ Quiet
  /\ phase' = "ambush" /\ todo' = Pirates
  /\ IF At(pos[human]) = "lair"
     THEN Fight(human, Lair, FALSE) /\ hull' = [hull EXCEPT ![Lair] = MaxHull]
     ELSE UNCHANGED <<fight, hull>>
  /\ UNCHANGED <<pos, fuel, seen, trip, human, npc, history>>

(* Pirates at the human's hex attack, even as wrecks. *)
Ambush(n) ==
  /\ phase = "ambush" /\ Quiet /\ n \in todo
  /\ todo' = todo \ {n}
  /\ IF pos[n] = pos[human] THEN Fight(n, human, TRUE) ELSE UNCHANGED fight
  /\ UNCHANGED <<ships, trip, phase, human, npc, history>>

NpcPhase ==
  /\ phase = "ambush" /\ Quiet /\ todo = {}
  /\ phase' = "npcs" /\ todo' = Npcs
  /\ UNCHANGED <<ships, trip, fight, human, npc, history>>

(* A faulty variant, for the mutant: wrecks have turns. *)
NpcTurnEvenWrecked(n) ==
  /\ phase = "npcs" /\ Quiet /\ npc = NoNpc /\ n \in todo
  /\ todo' = todo \ {n}
  /\ npc' = [who |-> n, stage |-> "fuel"]
  /\ UNCHANGED <<ships, trip, fight, phase, human, history>>

(* take_turn, of NPCs that are not wrecks. *)
NpcTurn(n) ==
  /\ phase = "npcs" /\ Quiet /\ npc = NoNpc /\ n \in todo
  /\ todo' = todo \ {n}
  /\ npc' = IF hull[n] = 0 THEN NoNpc ELSE [who |-> n, stage |-> "fuel"]
  /\ UNCHANGED <<ships, trip, fight, phase, human, history>>

Options(n) ==
  {c \in seen[n] \ {pos[n]} : Grid!Distance(pos[n], c) <= JumpRange}
Nearest(n, cs) ==
  {c \in cs : \A x \in cs : Grid!Distance(pos[n], c) <= Grid!Distance(pos[n], x)}

(* _find_nearest_safe_haven. *)
Havens(n) ==
  LET safe == {c \in Options(n) : Terrain[c] \notin {"asteroids", "nebula", "lair"}}
  IN Nearest(n, IF safe = {} THEN Options(n) ELSE safe)

(* _evaluate_threats: low on fuel, then low on hull. *)
NpcFlees(stage, low) ==
  /\ npc.who # NoShip /\ Quiet /\ npc.stage = stage
  /\ \/ /\ low
        /\ \E c \in Havens(npc.who) : CanTravel(npc.who, c) /\ Depart(npc.who, c)
        /\ UNCHANGED npc
     \/ /\ \/ ~low \/ Havens(npc.who) = {}
           \/ \E c \in Havens(npc.who) : ~CanTravel(npc.who, c)
        /\ AfterTrip(FALSE)
        /\ UNCHANGED trip
  /\ UNCHANGED <<ships, fight, turn, history>>

NpcLowOnFuel == NpcFlees("fuel", fuel[npc.who] < LowFuel)
NpcLowOnHull == NpcFlees("hull", hull[npc.who] < LowHull)

(* _evaluate_combat: a pirate attacks, if it thinks it is strong enough,   *)
(* the weakest ship at its hex by hull and shields, humans, NPCs and       *)
(* wrecks alike.  Nothing gives a mercenary its target.                    *)
NpcCombat ==
  LET n == npc.who IN
  /\ n # NoShip /\ Quiet /\ npc.stage = "combat"
  /\ \/ /\ n \in Pirates
        /\ \E s \in Ships \ {n} : pos[s] = pos[n] /\ Fight(n, s, TRUE)
        /\ UNCHANGED npc
     \/ npc' = [npc EXCEPT !.stage = "roam"] /\ UNCHANGED fight
  /\ UNCHANGED <<ships, trip, turn, history>>

(* _evaluate_opportunity: off to the destination with the best score. *)
NpcRoam ==
  LET n == npc.who IN
  /\ n # NoShip /\ Quiet /\ npc.stage = "roam"
  /\ \/ /\ \E c \in Options(n) : CanTravel(n, c) /\ Depart(n, c)
        /\ UNCHANGED npc
     \/ /\ Options(n) = {} \/ \E c \in Options(n) : ~CanTravel(n, c)
        /\ npc' = NoNpc /\ UNCHANGED trip
  /\ UNCHANGED <<ships, fight, turn, history>>

(* The end of the turn.  Only shields recover: no ship has repair drones.  *)
TurnEnds ==
  /\ phase = "npcs" /\ Quiet /\ npc = NoNpc /\ todo = {}
  /\ phase' = "play" /\ human' = NoShip
  /\ grave' = [n \in Npcs |-> IF hull[n] = 0 /\ grave[n] = Nowhere
                              THEN pos[n] ELSE grave[n]]
  /\ UNCHANGED <<ships, trip, fight, todo, npc, berth, stray>>

TripStep ==
  \/ CrossSpace \/ TakeFire \/ Drift \/ RideWormhole
  \/ Salvage \/ Anomaly \/ Arrive
FightStep == ShootFirst \/ TryToFlee \/ ShootBack
PlayStep ==
  \E s \in Humans :
    \/ \E c \in Cells : PlayerTravel(s, c)
    \/ \E n \in Npcs : PlayerAttack(s, n)
    \/ PlayerRefuel(s) \/ PlayerRepair(s) \/ EndTurn(s)
TurnStep ==
  \/ LairPhase \/ NpcPhase \/ TurnEnds
  \/ \E n \in Npcs : Ambush(n) \/ NpcTurn(n)
  \/ NpcLowOnFuel \/ NpcLowOnHull \/ NpcCombat \/ NpcRoam

Next == TripStep \/ FightStep \/ PlayStep \/ TurnStep

Spec == Init /\ [][Next]_vars

(* A ship is where its last completed trip, which it paid for, was to end, *)
(* and only a trip that destroys it may leave it elsewhere: nothing else   *)
(* moves a ship, and no trip moves it farther than its fuel was taken for. *)
(* It holds because the arrival writes the position last, over what drift, *)
(* wormholes and teleports made it; that the code means these to count is  *)
(* RideStands, which fails.                                                *)
ShipsMoveByPaying ==
  \A s \in Ships : trip.ship # s /\ s \notin stray => pos[s] = berth[s]

(* "Instant transit to paired wormhole": a trip to the wormhole next to    *)
(* the ship that carried it through ends at the other side.  It does not:  *)
(* the arrival puts the ship back on the cell it had entered.              *)
RideStands ==
  \A s \in Ships :
    LET c == trip.path[2] IN
    /\ trip.ship = s /\ Len(trip.path) = 2 /\ trip'.ship # s
    /\ At(c) = "wormhole" /\ pos[s] = Gate[c] /\ Gate[c] # trip.path[1]
    => pos'[s] = Gate[c]

(* An NPC that is a wreck when a turn ends is one for good, and stays put: *)
(* whatever fights it is still drawn into, no turn of its own lets it run  *)
(* into an anomaly that repairs or moves it, as a human's wreck may.       *)
NpcWrecksStay ==
  \A n \in Npcs : grave[n] # Nowhere => hull[n] = 0 /\ pos[n] = grave[n]
=============================================================================
