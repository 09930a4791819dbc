----------------------------- MODULE GameProofs -----------------------------
(***************************************************************************)
(* The ships and the markets of the caravaneer game, for any constants, and*)
(* the types of all the parts that module Components puts side by side.    *)
(*                                                                         *)
(* That ships move by paying, and wrecks not at all, needs LiveInv:        *)
(* neither a turn nor a trip is of an NPC that was a wreck when a turn     *)
(* ended.  Their types need Payable, that what an arrival will take from   *)
(* the tank has been there since the departure.                            *)
(*                                                                         *)
(* That goods are conserved is a sum over stacks that loops of the code    *)
(* split, merge, empty and remove: HeldAppended, HeldChanged and HeldTaken *)
(* say what one change of a stack does to the sum, the lemmas on the loops *)
(* what all of them do, and BooksInv that the books of every ship are then *)
(* right.  EventsInv says that an event that is felt has as many turns left*)
(* as were announced less those that have ended, or fewer.                 *)
(***************************************************************************)
EXTENDS GameMapProofs, ServicesProofs

(***************************************************************************)
(* Ships (Caravan).                                                        *)
(***************************************************************************)

\* The calls under way are of ships there are, and functions are of what they
\* should be.  Of the map nothing is needed.
FlightShape ==
  /\ pos = [s \in Flight!Ships |-> pos[s]]
  /\ hull \in [Flight!Ships \cup {InFlight.lair} -> 0..InFlight.maxHull]
  /\ trip = [ship |-> trip.ship, path |-> trip.path, at |-> trip.at,
             cost |-> trip.cost]
  /\ trip.ship \in Flight!Ships \cup {InFlight.noShip}
  /\ trip.ship = InFlight.noShip => trip = Flight!NoTrip
  /\ fight # Flight!NoFight =>
       {fight.a, fight.d} \subseteq Flight!Ships \cup {InFlight.lair}
  /\ fight = [a |-> fight.a, d |-> fight.d, round |-> fight.round,
              move |-> fight.move, flees |-> fight.flees]
  /\ phase \in {"lair", "ambush"} => human \in InFlight.humans
  /\ todo \subseteq Flight!Npcs
  /\ npc = [who |-> npc.who, stage |-> npc.stage]
  /\ npc.who \in Flight!Npcs \cup {InFlight.noShip}
  /\ berth = [s \in Flight!Ships |-> berth[s]]
  /\ grave = [n \in Flight!Npcs |-> grave[n]]

\* Neither a turn nor a trip is of an NPC that was a wreck when a turn ended.
LiveInv ==
  /\ npc.who # InFlight.noShip => grave[npc.who] = Flight!Nowhere
  /\ trip.ship \in Flight!Npcs => grave[trip.ship] = Flight!Nowhere

FlightInv ==
  FlightShape /\ LiveInv /\ Flight!ShipsMoveByPaying /\ Flight!NpcWrecksStay

\* The ships and their names.
LEMMA FlightNames ==
  /\ InFlight.humans \subseteq Flight!Ships /\ Flight!Npcs \subseteq Flight!Ships
  /\ InFlight.humans \cap Flight!Npcs = {}
  /\ InFlight.noShip \notin Flight!Ships /\ InFlight.lair \notin Flight!Ships
  /\ InFlight.maxHull \in Nat
<1>1. /\ InFlight.humans \cap Flight!Npcs = {}
      /\ InFlight.noShip \notin Flight!Ships
      /\ InFlight.lair \notin Flight!Ships \cup {InFlight.noShip}
      /\ InFlight.maxHull \in Nat \ {0}
  BY PartsAreSound, Zenon DEF Flight!CaravanConstants
<1> QED
  BY <1>1 DEF Flight!Ships

\* The game starts with ships that have not moved.
LEMMA FlightStarts ==
  Flight!Init => FlightInv
<1> SUFFICES ASSUME Flight!Init PROVE FlightInv
  OBVIOUS
<1>1. InFlight.maxHull \in 0..InFlight.maxHull
  BY FlightNames
<1>2. /\ trip = Flight!NoTrip /\ fight = Flight!NoFight /\ npc = Flight!NoNpc
      /\ phase = "play" /\ todo = {} /\ pos = InFlight.start
      /\ berth = InFlight.start /\ stray = {}
      /\ grave = [n \in Flight!Npcs |-> Flight!Nowhere]
      /\ hull = [s \in Flight!Ships \cup {InFlight.lair} |-> InFlight.maxHull]
  BY Zenon DEF Flight!Init
<1>3. InFlight.start = [s \in Flight!Ships |-> InFlight.start[s]]
  <2>1. InFlight.start \in [Flight!Ships -> InFlight.cells]
    BY PartsAreSound, Zenon DEF Flight!CaravanConstants
  <2> QED
    BY <2>1
<1>4. FlightShape
  BY <1>1, <1>2, <1>3, FlightNames
     DEF FlightShape, Flight!NoTrip, Flight!NoFight, Flight!NoNpc
<1>5. LiveInv
  BY <1>2, FlightNames DEF LiveInv, Flight!NoTrip, Flight!NoNpc
<1>6. Flight!ShipsMoveByPaying /\ Flight!NpcWrecksStay
  BY <1>2 DEF Flight!ShipsMoveByPaying, Flight!NpcWrecksStay
<1> QED
  BY <1>4, <1>5, <1>6 DEF FlightInv

\* Damage leaves a wreck a wreck.
LEMMA WrecksStayWrecks ==
  ASSUME FlightInv, NEW s \in Flight!Ships \cup {InFlight.lair},
         Flight!Damaged(s)
  PROVE  /\ hull' \in [Flight!Ships \cup {InFlight.lair} -> 0..InFlight.maxHull]
         /\ \A n \in Flight!Npcs : hull[n] = 0 => hull'[n] = 0
<1>1. PICK h \in 0..hull[s] : hull' = [hull EXCEPT ![s] = h]
  BY Zenon DEF Flight!Damaged
<1>2. hull \in [Flight!Ships \cup {InFlight.lair} -> 0..InFlight.maxHull]
  BY Zenon DEF FlightInv, FlightShape
<1>3. hull[s] \in 0..InFlight.maxHull /\ InFlight.maxHull \in Nat
  BY <1>2, FlightNames
<1>4. h \in 0..InFlight.maxHull /\ (hull[s] = 0 => h = 0)
  BY <1>3
<1> QED
  BY <1>1, <1>2, <1>4, FlightNames

\* Entering a cell: the ship on its way is the only one that moves or is hit.
LEMMA EnteringKeeps ==
  ASSUME FlightInv, NEW S, Flight!Entering(S),
         pos' = [s \in Flight!Ships |-> pos'[s]],
         \A s \in Flight!Ships \ {trip.ship} : pos'[s] = pos[s],
         hull' \in [Flight!Ships \cup {InFlight.lair} -> 0..InFlight.maxHull],
         \A s \in Flight!Ships \ {trip.ship} : hull'[s] = hull[s],
         UNCHANGED <<fight, phase, human, todo, berth, grave>>,
         Flight!Entered \/ (/\ trip' = [trip EXCEPT !.at = @ + 1]
                            /\ UNCHANGED <<stray, npc>>)
  PROVE  FlightInv'
<1>1. trip.ship \in Flight!Ships
  BY FlightNames DEF FlightInv, FlightShape, Flight!Entering
<1>2. /\ trip'.ship = trip.ship \/ trip' = Flight!NoTrip
      /\ trip'.ship # trip.ship => trip.ship \in stray'
      /\ stray' \subseteq stray \cup {trip.ship} /\ stray \subseteq stray'
      /\ trip' = [ship |-> trip'.ship, path |-> trip'.path, at |-> trip'.at,
                  cost |-> trip'.cost]
  <2>1. CASE trip' = [trip EXCEPT !.at = @ + 1] /\ UNCHANGED stray
    BY <2>1 DEF FlightInv, FlightShape
  <2>2. CASE trip' = Flight!NoTrip /\ stray' = stray \cup {trip.ship}
    BY <2>2 DEF Flight!NoTrip
  <2> QED
    BY <2>1, <2>2 DEF Flight!Entered
<1>3. /\ npc' = [who |-> npc'.who, stage |-> npc'.stage]
      /\ npc'.who = npc.who \/ npc'.who = InFlight.noShip
  <2>1. CASE npc' = npc
    BY <2>1 DEF FlightInv, FlightShape
  <2>2. CASE Flight!AfterTrip(FALSE)
    BY <2>2 DEF FlightInv, FlightShape, Flight!AfterTrip, Flight!NoNpc
  <2> QED
    BY <2>1, <2>2 DEF Flight!Entered
<1>4. FlightShape'
  BY <1>1, <1>2, <1>3, FlightNames DEF FlightInv, FlightShape, Flight!NoTrip
<1>5. trip.ship \in Flight!Npcs => grave[trip.ship] = Flight!Nowhere
  BY DEF FlightInv, LiveInv
<1>6. LiveInv'
  BY <1>2, <1>3, <1>5, FlightNames DEF FlightInv, LiveInv, Flight!NoTrip
<1>7. Flight!ShipsMoveByPaying'
  BY <1>1, <1>2 DEF FlightInv, Flight!ShipsMoveByPaying
<1>8. Flight!NpcWrecksStay'
  BY <1>5, FlightNames DEF FlightInv, Flight!NpcWrecksStay
<1> QED
  BY <1>4, <1>6, <1>7, <1>8 DEF FlightInv

\* A trip is paid for, or wrecks its ship on the way.
LEMMA TripKeeps ==
  ASSUME FlightInv, Flight!TripStep
  PROVE  FlightInv'
<1> USE DEF Flight!ships, Flight!turn, Flight!history
<1>1. /\ pos = [s \in Flight!Ships |-> pos[s]]
      /\ hull \in [Flight!Ships \cup {InFlight.lair} -> 0..InFlight.maxHull]
  BY Zenon DEF FlightInv, FlightShape
<1>2. ASSUME NEW S, Flight!Entering(S)
      PROVE  trip.ship \in Flight!Ships
  BY <1>2, FlightNames DEF FlightInv, FlightShape, Flight!Entering
<1>3. ASSUME NEW S, Flight!Entering(S), Flight!Damaged(trip.ship)
      PROVE  /\ hull' \in [Flight!Ships \cup {InFlight.lair} -> 0..InFlight.maxHull]
             /\ \A s \in Flight!Ships \ {trip.ship} : hull'[s] = hull[s]
  <2>1. trip.ship \in Flight!Ships \cup {InFlight.lair}
    BY <1>2, <1>3
  <2>2. hull' \in [Flight!Ships \cup {InFlight.lair} -> 0..InFlight.maxHull]
    BY <1>3, <2>1, WrecksStayWrecks
  <2>3. PICK h \in 0..hull[trip.ship] : hull' = [hull EXCEPT ![trip.ship] = h]
    BY <1>3, Zenon DEF Flight!Damaged
  <2> QED
    BY <1>1, <2>2, <2>3
<1>4. ASSUME NEW S, Flight!Entering(S), NEW c, pos' = [pos EXCEPT ![trip.ship] = c]
      PROVE  /\ pos' = [s \in Flight!Ships |-> pos'[s]]
             /\ \A s \in Flight!Ships \ {trip.ship} : pos'[s] = pos[s]
  BY <1>1, <1>4
<1>5. CASE Flight!CrossSpace
  <2>1. Flight!Entering({"system", "station", "empty", "void"})
    BY <1>5 DEF Flight!CrossSpace
  <2>2. Flight!Entered \/ (/\ trip' = [trip EXCEPT !.at = @ + 1]
                           /\ UNCHANGED <<stray, npc>>)
    BY <1>5, Zenon DEF Flight!CrossSpace
  <2>3. UNCHANGED <<pos, hull, fight, phase, human, todo, berth, grave>>
    BY <1>5, Zenon DEF Flight!CrossSpace
  <2> QED
    BY <1>1, <2>1, <2>2, <2>3, EnteringKeeps
<1>6. CASE Flight!TakeFire
  <2>1. /\ Flight!Entering({"asteroids", "lair"}) /\ Flight!Damaged(trip.ship)
        /\ Flight!Entered
        /\ UNCHANGED <<pos, fight, phase, human, todo, berth, grave>>
    BY <1>6, Zenon DEF Flight!TakeFire
  <2> QED
    BY <1>1, <1>3, <2>1, EnteringKeeps
<1>7. CASE Flight!Drift
  <2>1. /\ Flight!Entering({"nebula"}) /\ Flight!Entered
        /\ UNCHANGED <<hull, fight, phase, human, todo, berth, grave>>
    BY <1>7, Zenon DEF Flight!Drift
  <2>2. \E c : pos' = [pos EXCEPT ![trip.ship] = c]
    BY <1>7, Zenon DEF Flight!Drift
  <2> QED
    BY <1>1, <1>4, <2>1, <2>2, EnteringKeeps
<1>8. CASE Flight!RideWormhole
  <2>1. /\ Flight!Entering({"wormhole"}) /\ Flight!Entered
        /\ UNCHANGED <<fight, phase, human, todo, berth, grave>>
    BY <1>8, Zenon DEF Flight!RideWormhole
  <2>2. \/ Flight!Damaged(trip.ship) /\ UNCHANGED pos
        \/ /\ UNCHANGED hull
           /\ \E c : pos' = [pos EXCEPT ![trip.ship] = c]
    BY <1>8, Zenon DEF Flight!RideWormhole
  <2> QED
    BY <1>1, <1>3, <1>4, <2>1, <2>2, EnteringKeeps
<1>9. CASE Flight!Salvage
  <2>1. /\ Flight!Entering({"derelict"}) /\ Flight!Entered
        /\ UNCHANGED <<pos, fight, phase, human, todo, berth, grave>>
        /\ Flight!Damaged(trip.ship) \/ UNCHANGED hull
    BY <1>9, Zenon DEF Flight!Salvage
  <2> QED
    BY <1>1, <1>3, <2>1, EnteringKeeps
<1>10. CASE Flight!Anomaly
  <2>1. /\ Flight!Entering({"anomaly"}) /\ Flight!Entered
        /\ UNCHANGED <<fight, phase, human, todo, berth, grave>>
    BY <1>10, Zenon DEF Flight!Anomaly
  <2>2. \/ UNCHANGED <<pos, hull>>
        \/ /\ \E h \in hull[trip.ship]..InFlight.maxHull :
                hull' = [hull EXCEPT ![trip.ship] = h]
           /\ UNCHANGED pos
        \/ Flight!Damaged(trip.ship) /\ UNCHANGED pos
        \/ /\ UNCHANGED hull
           /\ \E c : pos' = [pos EXCEPT ![trip.ship] = c]
    BY <1>10, Zenon DEF Flight!Anomaly
  <2>3. ASSUME NEW h \in hull[trip.ship]..InFlight.maxHull,
               hull' = [hull EXCEPT ![trip.ship] = h]
        PROVE  /\ hull' \in [Flight!Ships \cup {InFlight.lair} -> 0..InFlight.maxHull]
               /\ \A s \in Flight!Ships \ {trip.ship} : hull'[s] = hull[s]
    <3>1. trip.ship \in Flight!Ships
      BY <1>2, <2>1
    <3>2. hull[trip.ship] \in 0..InFlight.maxHull /\ InFlight.maxHull \in Nat
      BY <1>1, <3>1, FlightNames
    <3>3. h \in 0..InFlight.maxHull
      BY <2>3, <3>2
    <3> QED
      BY <1>1, <2>3, <3>1, <3>3
  <2>4. CASE /\ \E h \in hull[trip.ship]..InFlight.maxHull :
                  hull' = [hull EXCEPT ![trip.ship] = h]
             /\ UNCHANGED pos
    BY <1>1, <2>1, <2>3, <2>4, EnteringKeeps
  <2>5. CASE Flight!Damaged(trip.ship) /\ UNCHANGED pos
    BY <1>1, <1>3, <2>1, <2>5, EnteringKeeps
  <2>6. CASE UNCHANGED <<pos, hull>>
    BY <1>1, <2>1, <2>6, EnteringKeeps
  <2>7. CASE UNCHANGED hull /\ \E c : pos' = [pos EXCEPT ![trip.ship] = c]
    BY <1>1, <1>4, <2>1, <2>7, EnteringKeeps
  <2> QED
    BY <2>2, <2>4, <2>5, <2>6, <2>7, Zenon
<1>11. CASE Flight!Arrive
  <2> DEFINE s == trip.ship
             c == trip.path[trip.at]
  <2>1. /\ trip # Flight!NoTrip /\ trip' = Flight!NoTrip
        /\ pos' = [pos EXCEPT ![s] = c] /\ berth' = [berth EXCEPT ![s] = c]
        /\ stray' = stray \ {s}
        /\ UNCHANGED <<hull, fight, phase, human, todo, grave>>
        /\ Flight!AfterTrip(TRUE)
    BY <1>11, Zenon DEF Flight!Arrive
  <2>2. s \in Flight!Ships
    BY <2>1 DEF FlightInv, FlightShape
  <2>3. /\ pos' = [t \in Flight!Ships |-> pos'[t]]
        /\ berth' = [t \in Flight!Ships |-> berth'[t]]
        /\ pos'[s] = berth'[s]
        /\ \A t \in Flight!Ships \ {s} : pos'[t] = pos[t] /\ berth'[t] = berth[t]
    BY <2>1, <2>2 DEF FlightInv, FlightShape
  <2>4. /\ npc' = [who |-> npc'.who, stage |-> npc'.stage]
        /\ npc'.who = npc.who \/ npc'.who = InFlight.noShip
    BY <2>1 DEF FlightInv, FlightShape, Flight!AfterTrip, Flight!NoNpc
  <2>5. FlightShape'
    BY <2>1, <2>3, <2>4, FlightNames DEF FlightInv, FlightShape, Flight!NoTrip
  <2>6. LiveInv'
    BY <2>1, <2>4, FlightNames DEF FlightInv, LiveInv, Flight!NoTrip
  <2>7. Flight!ShipsMoveByPaying'
    BY <2>1, <2>2, <2>3 DEF FlightInv, Flight!ShipsMoveByPaying, Flight!NoTrip
  <2>8. Flight!NpcWrecksStay'
    <3>1. s \in Flight!Npcs => grave[s] = Flight!Nowhere
      BY DEF FlightInv, LiveInv
    <3> QED
      BY <2>1, <2>3, <3>1, FlightNames DEF FlightInv, Flight!NpcWrecksStay
  <2> QED
    BY <2>5, <2>6, <2>7, <2>8 DEF FlightInv
<1> QED
  BY <1>5, <1>6, <1>7, <1>8, <1>9, <1>10, <1>11, Zenon DEF Flight!TripStep

\* What moves no ship: whoever is new on a trip or has a turn was no wreck
\* when a turn ended.
LEMMA StandingKeeps ==
  ASSUME FlightInv, FlightShape', LiveInv',
         UNCHANGED <<pos, berth, stray, grave>>,
         trip' = trip \/ trip.ship = InFlight.noShip,
         \A n \in Flight!Npcs : hull[n] = 0 => hull'[n] = 0
  PROVE  FlightInv'
<1>1. Flight!ShipsMoveByPaying'
  BY FlightNames DEF FlightInv, Flight!ShipsMoveByPaying
<1>2. Flight!NpcWrecksStay'
  BY DEF FlightInv, Flight!NpcWrecksStay
<1> QED
  BY <1>1, <1>2 DEF FlightInv

\* A fight moves no ship that lives.
LEMMA FightKeeps ==
  ASSUME FlightInv, Flight!FightStep
  PROVE  FlightInv'
<1> USE DEF Flight!ships, Flight!turn, Flight!history
<1>1. /\ UNCHANGED <<pos, berth, stray, grave, trip, phase, human, todo>>
      /\ fight # Flight!NoFight
  BY Zenon DEF Flight!FightStep, Flight!ShootFirst, Flight!TryToFlee,
               Flight!ShootBack
<1>2. /\ Flight!First \in Flight!Ships \cup {InFlight.lair}
      /\ Flight!Second \in Flight!Ships \cup {InFlight.lair}
  BY <1>1 DEF FlightInv, FlightShape, Flight!First, Flight!Second
<1>3. \/ UNCHANGED hull \/ Flight!Damaged(Flight!First)
      \/ Flight!Damaged(Flight!Second)
  BY Zenon DEF Flight!FightStep, Flight!ShootFirst, Flight!TryToFlee,
               Flight!ShootBack
<1>4. /\ hull' \in [Flight!Ships \cup {InFlight.lair} -> 0..InFlight.maxHull]
      /\ \A n \in Flight!Npcs : hull[n] = 0 => hull'[n] = 0
  BY <1>2, <1>3, WrecksStayWrecks DEF FlightInv, FlightShape
<1>5. npc' = npc \/ npc' = Flight!NoNpc
  BY Zenon DEF Flight!FightStep, Flight!ShootFirst, Flight!TryToFlee,
               Flight!ShootBack, Flight!Disengage
<1>6. \/ fight' = Flight!NoFight
      \/ \E m : fight' = [fight EXCEPT !.move = m]
      \/ \E m, f : fight' = [fight EXCEPT !.move = m, !.flees = f]
      \/ \E m : fight' = [fight EXCEPT !.move = m, !.round = @ + 1]
  BY DEF Flight!FightStep, Flight!ShootFirst, Flight!TryToFlee,
         Flight!ShootBack, Flight!Disengage
<1>7. /\ fight' = [a |-> fight'.a, d |-> fight'.d, round |-> fight'.round,
                   move |-> fight'.move, flees |-> fight'.flees]
      /\ fight' # Flight!NoFight => fight'.a = fight.a /\ fight'.d = fight.d
  <2>1. fight = [a |-> fight.a, d |-> fight.d, round |-> fight.round,
                 move |-> fight.move, flees |-> fight.flees]
    BY Zenon DEF FlightInv, FlightShape
  <2>2. CASE fight' = Flight!NoFight
    BY <2>2 DEF Flight!NoFight
  <2>3. CASE \E m : fight' = [fight EXCEPT !.move = m]
    BY <2>1, <2>3
  <2>4. CASE \E m, f : fight' = [fight EXCEPT !.move = m, !.flees = f]
    BY <2>1, <2>4
  <2>5. CASE \E m : fight' = [fight EXCEPT !.move = m, !.round = @ + 1]
    BY <2>1, <2>5
  <2> QED
    BY <1>6, <2>2, <2>3, <2>4, <2>5
<1>8. /\ npc' = [who |-> npc'.who, stage |-> npc'.stage]
      /\ npc'.who = npc.who \/ npc'.who = InFlight.noShip
  BY <1>5 DEF FlightInv, FlightShape, Flight!NoNpc
<1>9. FlightShape'
  BY <1>1, <1>4, <1>7, <1>8 DEF FlightInv, FlightShape
<1>10. LiveInv'
  BY <1>1, <1>8 DEF FlightInv, LiveInv
<1> QED
  BY <1>1, <1>4, <1>9, <1>10, StandingKeeps

\* A human travels, attacks, refuels, repairs or ends the turn.
LEMMA PlayKeeps ==
  ASSUME FlightInv, Flight!PlayStep
  PROVE  FlightInv'
<1> USE DEF Flight!ships, Flight!turn, Flight!history
<1> PICK s \in InFlight.humans :
      \/ \E c \in InFlight.cells : Flight!PlayerTravel(s, c)
      \/ \E n \in Flight!Npcs : Flight!PlayerAttack(s, n)
      \/ Flight!PlayerRefuel(s) \/ Flight!PlayerRepair(s) \/ Flight!EndTurn(s)
  BY Zenon DEF Flight!PlayStep
<1>1. s \in Flight!Ships /\ s \notin Flight!Npcs
  BY FlightNames
<1>2. /\ UNCHANGED <<pos, berth, stray, grave, npc, todo>>
      /\ trip = Flight!NoTrip /\ phase = "play"
  BY Zenon DEF Flight!PlayerTravel, Flight!PlayerAttack, Flight!PlayerRefuel,
               Flight!PlayerRepair, Flight!EndTurn, Flight!Playing, Flight!Quiet
<1>3. CASE \E c \in InFlight.cells : Flight!PlayerTravel(s, c)
  <2>1. /\ \E p, c : trip' = [ship |-> s, path |-> p, at |-> 1, cost |-> c]
        /\ UNCHANGED <<hull, fight, phase, human>>
    BY <1>3, Zenon DEF Flight!PlayerTravel, Flight!Depart
  <2>2. /\ trip' = [ship |-> trip'.ship, path |-> trip'.path, at |-> trip'.at,
                    cost |-> trip'.cost]
        /\ trip'.ship = s
    BY <2>1
  <2>3. FlightShape'
    BY <1>1, <1>2, <2>1, <2>2, FlightNames DEF FlightInv, FlightShape
  <2>4. LiveInv'
    BY <1>1, <1>2, <2>2 DEF FlightInv, LiveInv
  <2> QED
    BY <1>2, <2>1, <2>3, <2>4, StandingKeeps DEF Flight!NoTrip
<1>4. CASE \E n \in Flight!Npcs : Flight!PlayerAttack(s, n)
  <2>1. PICK n \in Flight!Npcs : Flight!PlayerAttack(s, n)
    BY <1>4
  <2>2. /\ fight' = [a |-> s, d |-> n, round |-> 1, move |-> "first",
                     flees |-> TRUE]
        /\ UNCHANGED <<trip, hull, phase, human>>
    BY <2>1, Zenon DEF Flight!PlayerAttack, Flight!Fight
  <2>3. FlightShape'
    BY <1>1, <1>2, <2>2, FlightNames DEF FlightInv, FlightShape
  <2>4. LiveInv'
    BY <1>2, <2>2 DEF FlightInv, LiveInv
  <2> QED
    BY <1>2, <2>2, <2>3, <2>4, StandingKeeps
<1>5. CASE Flight!PlayerRefuel(s) \/ Flight!PlayerRepair(s) \/ Flight!EndTurn(s)
  <2>1. /\ UNCHANGED <<trip, fight>>
        /\ hull' = hull \/ hull' = [hull EXCEPT ![s] = InFlight.maxHull]
        /\ UNCHANGED <<phase, human>> \/ human' = s
    BY <1>5, Zenon
       DEF Flight!PlayerRefuel, Flight!PlayerRepair, Flight!EndTurn
  <2>2. InFlight.maxHull \in 0..InFlight.maxHull
    BY FlightNames
  <2>3. /\ hull' \in [Flight!Ships \cup {InFlight.lair} -> 0..InFlight.maxHull]
        /\ \A n \in Flight!Npcs : hull'[n] = hull[n]
    BY <1>1, <2>1, <2>2, FlightNames DEF FlightInv, FlightShape
  <2>4. FlightShape'
    BY <1>2, <2>1, <2>3 DEF FlightInv, FlightShape
  <2>5. LiveInv'
    BY <1>2, <2>1 DEF FlightInv, LiveInv
  <2> QED
    BY <1>2, <2>1, <2>3, <2>4, <2>5, StandingKeeps
<1> QED
  BY <1>3, <1>4, <1>5

\* An NPC that goes on a trip, or has another idea.
LEMMA NpcKeeps ==
  ASSUME FlightInv,
         UNCHANGED <<pos, hull, fight, phase, human, todo, berth, stray, grave>>,
         trip = Flight!NoTrip, npc.who # InFlight.noShip,
         \/ /\ \E p, c : trip' = [ship |-> npc.who, path |-> p, at |-> 1,
                                  cost |-> c]
            /\ UNCHANGED npc
         \/ /\ UNCHANGED trip
            /\ Flight!AfterTrip(FALSE) \/ npc' = Flight!NoNpc
  PROVE  FlightInv'
<1>1. /\ npc.who \in Flight!Npcs /\ npc.who \in Flight!Ships
      /\ grave[npc.who] = Flight!Nowhere
  BY FlightNames DEF FlightInv, FlightShape, LiveInv
<1>2. /\ npc' = [who |-> npc'.who, stage |-> npc'.stage]
      /\ npc'.who = npc.who \/ npc'.who = InFlight.noShip
  BY DEF FlightInv, FlightShape, Flight!AfterTrip, Flight!NoNpc
<1>3. /\ trip' = [ship |-> trip'.ship, path |-> trip'.path, at |-> trip'.at,
                  cost |-> trip'.cost]
      /\ trip'.ship = npc.who \/ trip' = trip
  <2>1. CASE UNCHANGED trip
    BY <2>1, Zenon DEF FlightInv, FlightShape
  <2>2. ASSUME NEW p, NEW c,
               trip' = [ship |-> npc.who, path |-> p, at |-> 1, cost |-> c]
        PROVE  /\ trip' = [ship |-> trip'.ship, path |-> trip'.path,
                           at |-> trip'.at, cost |-> trip'.cost]
               /\ trip'.ship = npc.who
    BY <2>2
  <2> QED
    BY <2>1, <2>2, Zenon
<1>4. FlightShape'
  BY <1>1, <1>2, <1>3, FlightNames DEF FlightInv, FlightShape
<1>5. LiveInv'
  BY <1>1, <1>2, <1>3 DEF FlightInv, LiveInv
<1> QED
  BY <1>4, <1>5, StandingKeeps DEF Flight!NoTrip

\* The end of a turn moves, wrecks and replaces NPCs.
LEMMA TurnKeeps ==
  ASSUME FlightInv, Flight!TurnStep
  PROVE  FlightInv'
<1> USE DEF Flight!ships, Flight!turn, Flight!history
<1>1. CASE Flight!LairPhase
  <2>1. /\ UNCHANGED <<pos, berth, stray, grave, npc, trip, human>>
        /\ phase = "lair" /\ phase' = "ambush" /\ todo' = InFlight.pirates
        /\ \/ UNCHANGED <<fight, hull>>
           \/ /\ fight' = [a |-> human, d |-> InFlight.lair, round |-> 1,
                           move |-> "first", flees |-> FALSE]
              /\ hull' = [hull EXCEPT ![InFlight.lair] = InFlight.maxHull]
    BY <1>1, Zenon DEF Flight!LairPhase, Flight!Fight
  <2>2. /\ hull' \in [Flight!Ships \cup {InFlight.lair} -> 0..InFlight.maxHull]
        /\ \A n \in Flight!Npcs : hull'[n] = hull[n]
    <3>1. InFlight.maxHull \in 0..InFlight.maxHull
      BY FlightNames
    <3> QED
      BY <2>1, <3>1, FlightNames DEF FlightInv, FlightShape
  <2>3. human \in Flight!Ships
    BY <2>1, FlightNames DEF FlightInv, FlightShape
  <2>4. /\ fight' = [a |-> fight'.a, d |-> fight'.d, round |-> fight'.round,
                     move |-> fight'.move, flees |-> fight'.flees]
        /\ fight' # Flight!NoFight =>
             {fight'.a, fight'.d} \subseteq Flight!Ships \cup {InFlight.lair}
    BY <2>1, <2>3 DEF FlightInv, FlightShape
  <2>5. FlightShape'
    BY <2>1, <2>2, <2>4 DEF FlightInv, FlightShape, Flight!Npcs
  <2>6. LiveInv'
    BY <2>1 DEF FlightInv, LiveInv
  <2> QED
    BY <2>1, <2>2, <2>5, <2>6, StandingKeeps
<1>2. ASSUME NEW n \in Flight!Npcs, Flight!Ambush(n)
      PROVE  FlightInv'
  <2>1. /\ UNCHANGED <<pos, hull, berth, stray, grave, npc, trip, phase, human>>
        /\ phase = "ambush" /\ todo' = todo \ {n}
        /\ \/ UNCHANGED fight
           \/ fight' = [a |-> n, d |-> human, round |-> 1, move |-> "first",
                        flees |-> TRUE]
    BY <1>2, Zenon DEF Flight!Ambush, Flight!Fight
  <2>2. human \in Flight!Ships /\ n \in Flight!Ships
    BY <2>1, FlightNames DEF FlightInv, FlightShape
  <2>3. /\ fight' = [a |-> fight'.a, d |-> fight'.d, round |-> fight'.round,
                     move |-> fight'.move, flees |-> fight'.flees]
        /\ fight' # Flight!NoFight =>
             {fight'.a, fight'.d} \subseteq Flight!Ships \cup {InFlight.lair}
    BY <2>1, <2>2 DEF FlightInv, FlightShape
  <2>4. FlightShape'
    BY <2>1, <2>3 DEF FlightInv, FlightShape
  <2>5. LiveInv'
    BY <2>1 DEF FlightInv, LiveInv
  <2> QED
    BY <2>1, <2>4, <2>5, StandingKeeps
<1>3. CASE Flight!NpcPhase
  <2>1. /\ UNCHANGED <<pos, hull, berth, stray, grave, npc, trip, fight, human>>
        /\ phase' = "npcs" /\ todo' = Flight!Npcs
    BY <1>3, Zenon DEF Flight!NpcPhase
  <2>2. FlightShape'
    BY <2>1 DEF FlightInv, FlightShape
  <2>3. LiveInv'
    BY <2>1 DEF FlightInv, LiveInv
  <2> QED
    BY <2>1, <2>2, <2>3, StandingKeeps
<1>4. ASSUME NEW n \in Flight!Npcs, Flight!NpcTurn(n)
      PROVE  FlightInv'
  <2>1. /\ UNCHANGED <<pos, hull, berth, stray, grave, trip, fight, phase, human>>
        /\ todo' = todo \ {n}
        /\ npc' = IF hull[n] = 0 THEN Flight!NoNpc
                  ELSE [who |-> n, stage |-> "fuel"]
    BY <1>4, Zenon DEF Flight!NpcTurn
  <2>2. /\ npc' = [who |-> npc'.who, stage |-> npc'.stage]
        /\ \/ npc'.who = InFlight.noShip
           \/ npc'.who = n /\ hull[n] # 0
    BY <2>1 DEF Flight!NoNpc
  <2>3. FlightShape'
    BY <2>1, <2>2 DEF FlightInv, FlightShape
  <2>4. hull[n] # 0 => grave[n] = Flight!Nowhere
    BY DEF FlightInv, Flight!NpcWrecksStay
  <2>5. LiveInv'
    BY <2>1, <2>2, <2>4 DEF FlightInv, LiveInv
  <2> QED
    BY <2>1, <2>3, <2>5, StandingKeeps
<1>5. CASE Flight!NpcLowOnFuel \/ Flight!NpcLowOnHull \/ Flight!NpcRoam
  <2>1. /\ UNCHANGED <<pos, hull, fight, phase, human, todo, berth, stray, grave>>
        /\ trip = Flight!NoTrip /\ npc.who # InFlight.noShip
    BY <1>5, Zenon DEF Flight!NpcLowOnFuel, Flight!NpcLowOnHull,
                       Flight!NpcRoam, Flight!NpcFlees, Flight!Quiet
  <2>2. \/ /\ \E p, c : trip' = [ship |-> npc.who, path |-> p, at |-> 1,
                                 cost |-> c]
           /\ UNCHANGED npc
        \/ /\ UNCHANGED trip
           /\ Flight!AfterTrip(FALSE) \/ npc' = Flight!NoNpc
    BY <1>5, Zenon DEF Flight!NpcLowOnFuel, Flight!NpcLowOnHull,
                       Flight!NpcRoam, Flight!NpcFlees, Flight!Depart
  <2> QED
    BY <2>1, <2>2, NpcKeeps
<1>6. CASE Flight!NpcCombat
  <2>1. /\ UNCHANGED <<pos, hull, berth, stray, grave, trip, phase, human, todo>>
        /\ npc.who # InFlight.noShip
        /\ \/ /\ \E s \in Flight!Ships :
                   fight' = [a |-> npc.who, d |-> s, round |-> 1,
                             move |-> "first", flees |-> TRUE]
              /\ UNCHANGED npc
           \/ npc' = [npc EXCEPT !.stage = "roam"] /\ UNCHANGED fight
    BY <1>6, Zenon DEF Flight!NpcCombat, Flight!Fight
  <2>2. /\ npc' = [who |-> npc'.who, stage |-> npc'.stage]
        /\ npc'.who = npc.who
    BY <2>1 DEF FlightInv, FlightShape
  <2>3. npc.who \in Flight!Ships
    BY <2>1, FlightNames DEF FlightInv, FlightShape
  <2>4. /\ fight' = [a |-> fight'.a, d |-> fight'.d, round |-> fight'.round,
                     move |-> fight'.move, flees |-> fight'.flees]
        /\ fight' # Flight!NoFight =>
             {fight'.a, fight'.d} \subseteq Flight!Ships \cup {InFlight.lair}
    BY <2>1, <2>3 DEF FlightInv, FlightShape
  <2>5. FlightShape'
    BY <2>1, <2>2, <2>4 DEF FlightInv, FlightShape
  <2>6. LiveInv'
    BY <2>1, <2>2 DEF FlightInv, LiveInv
  <2> QED
    BY <2>1, <2>5, <2>6, StandingKeeps
<1>7. CASE Flight!TurnEnds
  <2>1. /\ UNCHANGED <<pos, hull, fuel, trip, fight, todo, npc, berth, stray>>
        /\ trip = Flight!NoTrip /\ npc = Flight!NoNpc /\ phase' = "play"
        /\ grave' = [n \in Flight!Npcs |->
                       IF hull[n] = 0 /\ grave[n] = Flight!Nowhere
                       THEN pos[n] ELSE grave[n]]
    BY <1>7, Zenon DEF Flight!TurnEnds, Flight!Quiet
  <2>2. FlightShape'
    BY <2>1 DEF FlightInv, FlightShape
  <2>3. LiveInv'
    BY <2>1, FlightNames DEF FlightInv, LiveInv, Flight!NoTrip, Flight!NoNpc
  <2>4. Flight!ShipsMoveByPaying'
    BY <2>1 DEF FlightInv, Flight!ShipsMoveByPaying
  <2>5. Flight!NpcWrecksStay'
    BY <2>1 DEF FlightInv, Flight!NpcWrecksStay
  <2> QED
    BY <2>2, <2>3, <2>4, <2>5 DEF FlightInv
<1> QED
  BY <1>1, <1>2, <1>3, <1>4, <1>5, <1>6, <1>7, Zenon DEF Flight!TurnStep

\* Every step of the game keeps its invariant.
LEMMA FlightKeeps ==
  ASSUME FlightInv, FlightStep
  PROVE  FlightInv'
<1>1. CASE UNCHANGED flight
  BY <1>1 DEF flight, FlightInv, FlightShape, LiveInv,
              Flight!ShipsMoveByPaying, Flight!NpcWrecksStay
<1>2. CASE Flight!Next
  BY <1>2, TripKeeps, FightKeeps, PlayKeeps, TurnKeeps, Zenon DEF Flight!Next
<1> QED
  BY <1>1, <1>2 DEF FlightStep

\* The map, and what the ships are given.
LEMMA FlightPlaces ==
  /\ InFlight.cells \subseteq Int \X Int
  /\ InFlight.start \in [Flight!Ships -> InFlight.cells]
  /\ InFlight.outposts \in [Flight!Ships -> SUBSET InFlight.cells]
  /\ InFlight.maxFuel \in Nat /\ InFlight.rounds \in Nat \ {0}
  /\ \A c \in InFlight.cells :
       InFlight.terrain[c] = "wormhole" => InFlight.gate[c] \in InFlight.cells
  /\ \A c : Flight!InSight(c) \subseteq InFlight.cells
<1>1. /\ InFlight.cells \subseteq Flight!Grid!Hexes
      /\ InFlight.start \in [Flight!Ships -> InFlight.cells]
      /\ InFlight.outposts \in [Flight!Ships -> SUBSET InFlight.cells]
      /\ InFlight.maxFuel \in Nat /\ InFlight.rounds \in Nat \ {0}
      /\ \A c \in InFlight.cells :
           InFlight.terrain[c] = "wormhole" => InFlight.gate[c] \in InFlight.cells
  BY PartsAreSound, Zenon DEF Flight!CaravanConstants
<1>2. \A c : Flight!InSight(c) \subseteq InFlight.cells
  BY DEF Flight!InSight
<1> QED
  BY <1>1, <1>2 DEF Flight!Grid!Hexes

\* A trip costs some fuel.
LEMMA TripsCost ==
  ASSUME NEW p, Len(p) \in Nat \ {0}
  PROVE  Flight!Cost(p) \in Nat
<1> DEFINE n == Len(p) - 1
           sum == CHOOSE f : f = [i \in 0..n |->
                    IF i = 0 THEN 0 ELSE f[i - 1] + Flight!Toll(p[i + 1])]
<1>1. n \in Nat
  OBVIOUS
<1>2. Flight!Cost(p) = IF sum[n] < 1 THEN 1 ELSE sum[n]
  BY DEF Flight!Cost
<1>3. \A c : Flight!Toll(c) \in Nat
  BY DEF Flight!Toll
<1>4. \E f : /\ f = [i \in 0..n |->
                       IF i = 0 THEN 0 ELSE f[i - 1] + Flight!Toll(p[i + 1])]
             /\ f[n] \in Nat
  <2> HIDE DEF n
  <2> DEFINE F == [x \in (1..n) \X Nat |-> x[2] + Flight!Toll(p[x[1] + 1])]
             S == [i \in 0..n |-> Nat]
  <2>1. PassesStay(n, S, F)
    BY <1>1, <1>3 DEF PassesStay
  <2>2. 0 \in S[0]
    BY <1>1
  <2>3. PICK f : Passes(f, n, S, 0, F)
    <3> HIDE DEF F, S
    <3> QED
      BY <1>1, <2>1, <2>2, LoopEnds
  <2>4. \A i \in 0..n : f[i] \in Nat
    BY <2>3 DEF Passes
  <2>5. \A i \in 0..n : i # 0 => i \in 1..n /\ i - 1 \in 0..n
    BY <1>1
  <2>6. \A i \in 1..n : F[<<i, f[i - 1]>>] = f[i - 1] + Flight!Toll(p[i + 1])
    BY <1>1, <2>4
  <2>7. \A i \in 0..n :
          f[i] = IF i = 0 THEN 0 ELSE f[i - 1] + Flight!Toll(p[i + 1])
    <3> HIDE DEF F, S
    <3> QED
      BY <2>3, <2>5, <2>6 DEF Passes
  <2>8. f = [i \in 0..n |-> f[i]]
    BY <2>3 DEF Passes
  <2>9. f = [i \in 0..n |->
               IF i = 0 THEN 0 ELSE f[i - 1] + Flight!Toll(p[i + 1])]
    BY <2>7, <2>8, Zenon
  <2>10. n \in 0..n
    BY <1>1
  <2> QED
    BY <2>4, <2>9, <2>10
<1>5. \A i \in 0..n : i # 0 => i - 1 \in 0..n
  BY <1>1
<1>6. sum = [i \in 0..n |->
               IF i = 0 THEN 0 ELSE sum[i - 1] + Flight!Toll(p[i + 1])]
  BY <1>4
<1>7. \A i \in 0..n : sum[i] \in Nat
  <2> HIDE DEF sum, n
  <2> DEFINE T == {i \in 0..n : sum[i] \in Nat}
  <2>1. 0 \in T
    BY <1>1, <1>6
  <2>2. \A i \in 1..n : i - 1 \in T => i \in T
    BY <1>1, <1>3, <1>6, SMTT(20)
  <2> HIDE DEF T
  <2>3. \A i \in 0..n : i \in T
    BY <1>1, <2>1, <2>2, Induction
  <2> QED
    BY <2>3 DEF T
<1>8. sum[n] \in Nat
  <2> HIDE DEF sum
  <2>1. n \in 0..n
    BY <1>1
  <2> QED
    BY <1>7, <2>1
<1> QED
  BY <1>2, <1>8

\* The line of a trip lies on the grid, and starts at its first hex.
LEMMA LinesLieOnGrid ==
  ASSUME NEW a \in Int \X Int, NEW b \in Int \X Int
  PROVE  /\ Len(Flight!Grid!LineTo(a, b)) \in Nat \ {0}
         /\ \A i \in 1..Len(Flight!Grid!LineTo(a, b)) :
              Flight!Grid!LineTo(a, b)[i] \in Int \X Int
<1>1. Flight!Grid!LineTo(a, b) = Grid!LineTo(a, b)
  BY SameGrid
<1>2. Grid!Distance(a, b) \in Nat
  BY DistanceIs
<1>3. /\ Len(Grid!LineTo(a, b)) = Grid!Distance(a, b) + 1
      /\ \A i \in 1..Len(Grid!LineTo(a, b)) : Grid!LineTo(a, b)[i] \in Int \X Int
  BY LineIsUnbroken
<1> QED
  BY <1>1, <1>2, <1>3

\* What the ships are like, on the map and in the history.
ShipTypes ==
  /\ pos \in [Flight!Ships -> Int \X Int]
  /\ fuel \in [Flight!Ships -> 0..InFlight.maxFuel]
  /\ seen \in [Flight!Ships -> SUBSET InFlight.cells]
  /\ berth \in [Flight!Ships -> Int \X Int] /\ stray \subseteq Flight!Ships
  /\ grave \in [Flight!Npcs -> (Int \X Int) \cup {Flight!Nowhere}]

\* A trip goes along hexes, and its ship has the fuel.
Payable(t, tank) ==
  t.ship # InFlight.noShip =>
    /\ Len(t.path) \in Nat
    /\ \A i \in 1..Len(t.path) : t.path[i] \in Int \X Int
    /\ t.at \in 1..Len(t.path) /\ t.cost \in 0..tank[t.ship]

\* The calls under way: no fight while a ship is on a trip, no NPC's turn but
\* in their phase.
FightTypes ==
  fight # Flight!NoFight =>
    trip = Flight!NoTrip /\ fight.round \in 1..InFlight.rounds
TurnTypes ==
  /\ phase \in {"play", "lair", "ambush", "npcs"}
  /\ human \in InFlight.humans \cup {InFlight.noShip}
  /\ npc.stage \in {"fuel", "hull", "combat", "roam"}
  /\ npc.who # InFlight.noShip => phase = "npcs"

FlightTypes == ShipTypes /\ Payable(trip, fuel) /\ FightTypes /\ TurnTypes

\* The types of the game follow.
LEMMA FlightTypesGive ==
  ASSUME FlightInv, FlightTypes
  PROVE  Flight!TypeOK
<1> USE DEF FlightTypes, ShipTypes
<1>1. /\ hull \in [Flight!Ships \cup {InFlight.lair} -> 0..InFlight.maxHull]
      /\ todo \subseteq Flight!Npcs /\ npc.who \in Flight!Npcs \cup {InFlight.noShip}
  BY Zenon DEF FlightInv, FlightShape
<1>2. trip.ship # InFlight.noShip =>
        /\ trip.ship \in Flight!Ships
        /\ trip.at \in 1..Len(trip.path)
        /\ trip.cost <= fuel[trip.ship]
  <2> SUFFICES ASSUME trip.ship # InFlight.noShip
               PROVE  /\ trip.ship \in Flight!Ships
                      /\ trip.at \in 1..Len(trip.path)
                      /\ trip.cost <= fuel[trip.ship]
    OBVIOUS
  <2>1. trip.ship \in Flight!Ships
    BY Zenon DEF FlightInv, FlightShape
  <2>2. fuel[trip.ship] \in Int
    BY <2>1
  <2> QED
    BY <2>1, <2>2 DEF Payable
<1>3. fight.a # InFlight.noShip =>
        /\ {fight.a, fight.d} \subseteq Flight!Ships \cup {InFlight.lair}
        /\ fight.round \in 1..InFlight.rounds
  BY DEF FlightInv, FlightShape, FightTypes, Flight!NoFight
<1>4. trip = Flight!NoTrip \/ fight = Flight!NoFight
  BY DEF FightTypes
<1>5. {"fuel", "hull", "combat", "roam"} = {Flight!Stages[i] : i \in 1..4}
  BY DEF Flight!Stages
<1> QED
  BY <1>1, <1>2, <1>3, <1>4, <1>5, Zenon
     DEF TurnTypes, Flight!TypeOK, Flight!Grid!Hexes

\* The game starts with the types.
LEMMA TypesStart ==
  ASSUME Flight!Init
  PROVE  FlightTypes
<1>1. /\ trip = Flight!NoTrip /\ fight = Flight!NoFight /\ npc = Flight!NoNpc
      /\ phase = "play" /\ human = InFlight.noShip /\ pos = InFlight.start
      /\ berth = InFlight.start /\ stray = {}
      /\ fuel = [s \in Flight!Ships |-> InFlight.maxFuel]
      /\ grave = [n \in Flight!Npcs |-> Flight!Nowhere]
      /\ seen = [s \in Flight!Ships |-> Flight!InSight(InFlight.start[s]) \cup
                   UNION {Flight!Grid!Within(c, 1) \cap InFlight.cells :
                            c \in InFlight.outposts[s]}]
  BY Zenon DEF Flight!Init
<1>2. ShipTypes
  <2>1. InFlight.maxFuel \in 0..InFlight.maxFuel
    BY FlightPlaces
  <2>2. \A s \in Flight!Ships :
          UNION {Flight!Grid!Within(c, 1) \cap InFlight.cells :
                   c \in InFlight.outposts[s]} \subseteq InFlight.cells
    OBVIOUS
  <2>3. seen \in [Flight!Ships -> SUBSET InFlight.cells]
    BY <1>1, <2>2, FlightPlaces
  <2>4. InFlight.start \in [Flight!Ships -> Int \X Int]
    BY FlightPlaces
  <2> QED
    BY <1>1, <2>1, <2>3, <2>4 DEF ShipTypes
<1>3. Payable(trip, fuel) /\ FightTypes /\ TurnTypes
  BY <1>1 DEF Payable, FightTypes, TurnTypes, Flight!NoTrip, Flight!NoNpc
<1> QED
  BY <1>2, <1>3 DEF FlightTypes

\* The end of a trip ends no turn but in its phase.
LEMMA TurnsGoOn ==
  ASSUME FlightInv, FlightTypes, phase' = phase, human' = human,
         \/ npc' = npc \/ npc' = Flight!NoNpc
         \/ \E b \in BOOLEAN : Flight!AfterTrip(b)
         \/ npc' = [npc EXCEPT !.stage = "roam"]
  PROVE  TurnTypes'
<1>1. npc = [who |-> npc.who, stage |-> npc.stage]
  BY Zenon DEF FlightInv, FlightShape
<1>2. TurnTypes
  BY DEF FlightTypes
<1>3. \/ npc' = npc \/ npc' = Flight!NoNpc
      \/ \E st \in {"hull", "combat", "roam"} : npc' = [npc EXCEPT !.stage = st]
  BY <1>1 DEF Flight!AfterTrip
<1>4. \/ npc' = npc \/ npc' = [who |-> InFlight.noShip, stage |-> "fuel"]
      \/ \E st \in {"hull", "combat", "roam"} : npc' = [who |-> npc.who, stage |-> st]
  BY <1>1, <1>3 DEF Flight!NoNpc
<1> QED
  BY <1>2, <1>4 DEF TurnTypes

\* Entering a cell: the ship stays on the grid, and loses no fuel.
LEMMA EnteringTypes ==
  ASSUME FlightInv, FlightTypes, NEW S, Flight!Entering(S),
         pos' \in [Flight!Ships -> Int \X Int],
         UNCHANGED fuel \/ Flight!Refueled(trip.ship),
         UNCHANGED <<seen, fight, phase, human, berth, grave>>,
         Flight!Entered \/ (/\ trip' = [trip EXCEPT !.at = @ + 1]
                            /\ UNCHANGED <<stray, npc>>)
  PROVE  FlightTypes'
<1> DEFINE s == trip.ship
<1>1. /\ s \in Flight!Ships /\ s # InFlight.noShip
      /\ trip = [ship |-> s, path |-> trip.path, at |-> trip.at, cost |-> trip.cost]
      /\ trip # Flight!NoTrip /\ trip.at < Len(trip.path)
  BY FlightNames DEF FlightInv, FlightShape, Flight!Entering
<1>2. /\ Len(trip.path) \in Nat
      /\ \A i \in 1..Len(trip.path) : trip.path[i] \in Int \X Int
      /\ trip.at \in 1..Len(trip.path) /\ trip.cost \in 0..fuel[s]
      /\ ShipTypes /\ FightTypes
  BY <1>1 DEF FlightTypes, Payable
<1>3. fuel[s] \in 0..InFlight.maxFuel
  BY <1>1, <1>2 DEF ShipTypes
<1>4. /\ fuel' \in [Flight!Ships -> 0..InFlight.maxFuel]
      /\ trip.cost \in 0..fuel'[s]
  <2>1. CASE UNCHANGED fuel
    BY <1>2, <2>1 DEF ShipTypes
  <2>2. CASE Flight!Refueled(trip.ship)
    <3>1. PICK f \in fuel[s]..InFlight.maxFuel : fuel' = [fuel EXCEPT ![s] = f]
      BY <2>2, Zenon DEF Flight!Refueled
    <3>2. f \in 0..InFlight.maxFuel /\ trip.cost \in 0..f
      BY <1>2, <1>3, <3>1, FlightPlaces
    <3> QED
      BY <1>1, <1>2, <3>1, <3>2 DEF ShipTypes
  <2> QED
    BY <2>1, <2>2
<1>5. \/ trip' = [trip EXCEPT !.at = @ + 1] /\ stray' = stray /\ npc' = npc
      \/ /\ trip' = Flight!NoTrip /\ stray' = stray \cup {s}
         /\ Flight!AfterTrip(FALSE)
  BY Zenon DEF Flight!Entered
<1>6. ShipTypes'
  <2>1. stray' \subseteq Flight!Ships
    BY <1>1, <1>2, <1>5 DEF ShipTypes
  <2> QED
    BY <1>2, <1>4, <2>1 DEF ShipTypes
<1>7. Payable(trip, fuel)'
  <2>1. CASE trip' = Flight!NoTrip
    BY <2>1 DEF Payable, Flight!NoTrip
  <2>2. CASE trip' = [trip EXCEPT !.at = @ + 1]
    <3>1. trip' = [ship |-> s, path |-> trip.path, at |-> trip.at + 1,
                   cost |-> trip.cost]
      BY <1>1, <2>2
    <3>2. trip.at + 1 \in 1..Len(trip.path)
      BY <1>1, <1>2
    <3> QED
      BY <1>2, <1>4, <3>1, <3>2 DEF Payable
  <2> QED
    BY <1>5, <2>1, <2>2
<1>8. FightTypes'
  BY <1>1, <1>2 DEF FightTypes
<1>9. TurnTypes'
  <2>1. npc' = npc \/ Flight!AfterTrip(FALSE)
    BY <1>5
  <2> QED
    BY <2>1, TurnsGoOn
<1> QED
  BY <1>6, <1>7, <1>8, <1>9, Zenon DEF FlightTypes

\* A trip keeps the types: a drift, a wormhole or an anomaly ends on the grid,
\* and what an arrival takes from the tank was there since the departure.
LEMMA TripKeepsTypes ==
  ASSUME FlightInv, FlightTypes, Flight!TripStep
  PROVE  FlightTypes'
<1> USE DEF Flight!ships, Flight!turn, Flight!history
<1>1. ASSUME NEW S, Flight!Entering(S)
      PROVE  /\ trip.ship \in Flight!Ships
             /\ trip.path[trip.at + 1] \in Int \X Int
  <2>1. /\ trip.ship \in Flight!Ships /\ trip.ship # InFlight.noShip
        /\ trip.at < Len(trip.path)
    BY <1>1, FlightNames DEF FlightInv, FlightShape, Flight!Entering
  <2>2. /\ Len(trip.path) \in Nat /\ trip.at \in 1..Len(trip.path)
        /\ \A i \in 1..Len(trip.path) : trip.path[i] \in Int \X Int
    BY <2>1 DEF FlightTypes, Payable
  <2>3. trip.at + 1 \in 1..Len(trip.path)
    BY <2>1, <2>2
  <2> QED
    BY <2>1, <2>2, <2>3
<1>2. pos \in [Flight!Ships -> Int \X Int]
  BY DEF FlightTypes, ShipTypes
<1>3. ASSUME NEW c \in Int \X Int, NEW S, Flight!Entering(S),
             pos' = [pos EXCEPT ![trip.ship] = c]
      PROVE  pos' \in [Flight!Ships -> Int \X Int]
  BY <1>1, <1>2, <1>3
<1>4. CASE Flight!CrossSpace
  <2>1. /\ Flight!Entering({"system", "station", "empty", "void"})
        /\ UNCHANGED <<pos, fuel, seen, fight, phase, human, berth, grave>>
        /\ Flight!Entered \/ (/\ trip' = [trip EXCEPT !.at = @ + 1]
                              /\ UNCHANGED <<stray, npc>>)
    BY <1>4, Zenon DEF Flight!CrossSpace
  <2> QED
    BY <1>2, <2>1, EnteringTypes
<1>5. CASE Flight!TakeFire
  <2>1. /\ Flight!Entering({"asteroids", "lair"}) /\ Flight!Entered
        /\ UNCHANGED <<pos, fuel, seen, fight, phase, human, berth, grave>>
    BY <1>5, Zenon DEF Flight!TakeFire
  <2> QED
    BY <1>2, <2>1, EnteringTypes
<1>6. CASE Flight!Drift
  <2> DEFINE c0 == trip.path[trip.at + 1]
  <2>1. /\ Flight!Entering({"nebula"}) /\ Flight!Entered
        /\ UNCHANGED <<fuel, seen, fight, phase, human, berth, grave>>
    BY <1>6, Zenon DEF Flight!Drift
  <2>2. PICK c \in {pos[trip.ship]} \cup Flight!Grid!Neighbours(c0) :
          pos' = [pos EXCEPT ![trip.ship] = c]
    BY <1>6, Zenon DEF Flight!Drift
  <2>3. trip.ship \in Flight!Ships /\ c0 \in Int \X Int
    BY <1>1, <2>1
  <2> HIDE DEF c0
  <2>4. Flight!Grid!Neighbours(c0) = Grid!Neighbours(c0)
    BY SameGrid
  <2>5. Grid!Neighbours(c0) = {h \in Int \X Int : Grid!Distance(c0, h) = 1}
    BY <2>3, NeighbourIs
  <2>6. pos[trip.ship] \in Int \X Int
    BY <1>2, <2>3
  <2>7. c \in Int \X Int
    BY <2>2, <2>4, <2>5, <2>6
  <2>8. pos' \in [Flight!Ships -> Int \X Int]
    BY <1>3, <2>1, <2>2, <2>7
  <2> QED
    BY <2>1, <2>8, EnteringTypes
<1>7. CASE Flight!RideWormhole
  <2>1. /\ Flight!Entering({"wormhole"}) /\ Flight!Entered
        /\ UNCHANGED <<fuel, seen, fight, phase, human, berth, grave>>
        /\ \/ UNCHANGED pos
           \/ pos' = [pos EXCEPT ![trip.ship] =
                        InFlight.gate[trip.path[trip.at + 1]]]
    BY <1>7, Zenon DEF Flight!RideWormhole
  <2>2. Flight!At(trip.path[trip.at + 1]) = "wormhole"
    BY <2>1 DEF Flight!Entering
  <2>3. InFlight.gate[trip.path[trip.at + 1]] \in Int \X Int
    BY <2>2, FlightPlaces DEF Flight!At
  <2>4. pos' \in [Flight!Ships -> Int \X Int]
    BY <1>2, <1>3, <2>1, <2>3
  <2> QED
    BY <2>1, <2>4, EnteringTypes
<1>8. CASE Flight!Salvage
  <2>1. /\ Flight!Entering({"derelict"}) /\ Flight!Entered
        /\ UNCHANGED <<pos, seen, fight, phase, human, berth, grave>>
        /\ UNCHANGED fuel \/ Flight!Refueled(trip.ship)
    BY <1>8, Zenon DEF Flight!Salvage
  <2> QED
    BY <1>2, <2>1, EnteringTypes
<1>9. CASE Flight!Anomaly
  <2>1. /\ Flight!Entering({"anomaly"}) /\ Flight!Entered
        /\ UNCHANGED <<seen, fight, phase, human, berth, grave>>
        /\ UNCHANGED fuel \/ Flight!Refueled(trip.ship)
        /\ \/ UNCHANGED pos
           \/ \E c \in InFlight.cells : pos' = [pos EXCEPT ![trip.ship] = c]
    BY <1>9, Zenon DEF Flight!Anomaly
  <2>2. pos' \in [Flight!Ships -> Int \X Int]
    BY <1>2, <1>3, <2>1, FlightPlaces
  <2> QED
    BY <2>1, <2>2, EnteringTypes
<1>10. CASE Flight!Arrive
  <2> DEFINE s == trip.ship
             c == trip.path[trip.at]
  <2>1. /\ trip # Flight!NoTrip /\ trip' = Flight!NoTrip
        /\ fuel' = [fuel EXCEPT ![s] = @ - trip.cost]
        /\ pos' = [pos EXCEPT ![s] = c] /\ berth' = [berth EXCEPT ![s] = c]
        /\ seen' = [seen EXCEPT ![s] = @ \cup Flight!InSight(c)]
        /\ stray' = stray \ {s}
        /\ UNCHANGED <<fight, phase, human, grave>>
        /\ Flight!AfterTrip(TRUE)
    BY <1>10, Zenon DEF Flight!Arrive
  <2>2. s \in Flight!Ships /\ s # InFlight.noShip
    BY <2>1, FlightNames DEF FlightInv, FlightShape
  <2>3. c \in Int \X Int /\ trip.cost \in 0..fuel[s] /\ ShipTypes /\ FightTypes
    BY <2>2 DEF FlightTypes, Payable
  <2> HIDE DEF s, c
  <2>4. /\ fuel[s] \in 0..InFlight.maxFuel /\ InFlight.maxFuel \in Nat
    BY <2>2, <2>3, FlightPlaces DEF ShipTypes
  <2>5. fuel[s] - trip.cost \in 0..InFlight.maxFuel
    BY <2>3, <2>4
  <2>6. ShipTypes'
    <3>1. fuel' \in [Flight!Ships -> 0..InFlight.maxFuel]
      BY <2>1, <2>2, <2>3, <2>5 DEF ShipTypes
    <3>2. /\ pos' \in [Flight!Ships -> Int \X Int]
          /\ berth' \in [Flight!Ships -> Int \X Int]
          /\ stray' \subseteq Flight!Ships
      BY <2>1, <2>2, <2>3 DEF ShipTypes
    <3>3. seen' \in [Flight!Ships -> SUBSET InFlight.cells]
      <4>1. Flight!InSight(c) \subseteq InFlight.cells
        BY FlightPlaces
      <4> QED
        BY <2>1, <2>2, <2>3, <4>1 DEF ShipTypes
    <3> QED
      BY <2>1, <2>3, <3>1, <3>2, <3>3 DEF ShipTypes
  <2>7. Payable(trip, fuel)'
    BY <2>1 DEF Payable, Flight!NoTrip
  <2>8. FightTypes'
    BY <2>1, <2>3 DEF FightTypes
  <2>9. TurnTypes'
    BY <2>1, TurnsGoOn
  <2> QED
    BY <2>6, <2>7, <2>8, <2>9, Zenon DEF FlightTypes
<1> QED
  BY <1>4, <1>5, <1>6, <1>7, <1>8, <1>9, <1>10, Zenon DEF Flight!TripStep

\* Whoever departs has the fuel for a line over the grid.
LEMMA DeparturesArePayable ==
  ASSUME FlightTypes, NEW s \in Flight!Ships, NEW c \in InFlight.cells,
         Flight!CanTravel(s, c), Flight!Depart(s, c), UNCHANGED fuel
  PROVE  Payable(trip, fuel)'
<1> DEFINE p == Flight!Grid!LineTo(pos[s], c)
<1>1. /\ trip' = [ship |-> s, path |-> p, at |-> 1, cost |-> Flight!Cost(p)]
      /\ fuel[s] >= Flight!Cost(p)
  BY Zenon DEF Flight!Depart, Flight!CanTravel
<1>2. pos[s] \in Int \X Int /\ c \in Int \X Int /\ fuel[s] \in Nat
  BY FlightPlaces DEF FlightTypes, ShipTypes
<1>3. /\ Len(p) \in Nat \ {0}
      /\ \A i \in 1..Len(p) : p[i] \in Int \X Int
  BY <1>2, LinesLieOnGrid
<1> HIDE DEF p
<1>4. Flight!Cost(p) \in Nat
  BY <1>3, TripsCost
<1>5. 1 \in 1..Len(p) /\ Flight!Cost(p) \in 0..fuel[s]
  BY <1>1, <1>2, <1>3, <1>4
<1> QED
  BY <1>1, <1>3, <1>5 DEF Payable

\* A round of a fight.
LEMMA FightKeepsTypes ==
  ASSUME FlightInv, FlightTypes, Flight!FightStep
  PROVE  FlightTypes'
<1> USE DEF Flight!ships, Flight!turn, Flight!history
<1>1. /\ UNCHANGED <<pos, fuel, seen, berth, stray, grave, trip, phase, human>>
      /\ fight # Flight!NoFight
  BY Zenon DEF Flight!FightStep, Flight!ShootFirst, Flight!TryToFlee,
               Flight!ShootBack
<1>2. npc' = npc \/ npc' = Flight!NoNpc
  BY Zenon DEF Flight!FightStep, Flight!ShootFirst, Flight!TryToFlee,
               Flight!ShootBack, Flight!Disengage
<1>3. /\ fight = [a |-> fight.a, d |-> fight.d, round |-> fight.round,
                  move |-> fight.move, flees |-> fight.flees]
      /\ trip = Flight!NoTrip /\ fight.round \in 1..InFlight.rounds
      /\ InFlight.rounds \in Nat
  BY <1>1, FlightPlaces DEF FlightInv, FlightShape, FlightTypes, FightTypes
<1>4. \/ fight' = Flight!NoFight
      \/ \E m : fight' = [fight EXCEPT !.move = m]
      \/ \E m, f : fight' = [fight EXCEPT !.move = m, !.flees = f]
      \/ /\ fight.round # InFlight.rounds
         /\ \E m : fight' = [fight EXCEPT !.move = m, !.round = @ + 1]
  BY DEF Flight!FightStep, Flight!ShootFirst, Flight!TryToFlee,
         Flight!ShootBack, Flight!Disengage
<1>5. \/ fight' = Flight!NoFight \/ fight'.round = fight.round
      \/ fight.round # InFlight.rounds /\ fight'.round = fight.round + 1
  <2>1. ASSUME NEW m, fight' = [fight EXCEPT !.move = m]
        PROVE  fight'.round = fight.round
    BY <1>3, <2>1
  <2>2. ASSUME NEW m, NEW f, fight' = [fight EXCEPT !.move = m, !.flees = f]
        PROVE  fight'.round = fight.round
    BY <1>3, <2>2
  <2>3. ASSUME NEW m, fight' = [fight EXCEPT !.move = m, !.round = @ + 1]
        PROVE  fight'.round = fight.round + 1
    BY <1>3, <2>3
  <2> QED
    BY <1>4, <2>1, <2>2, <2>3, Zenon
<1>6. FightTypes'
  BY <1>1, <1>3, <1>5 DEF FightTypes
<1>7. TurnTypes'
  BY <1>1, <1>2, TurnsGoOn
<1>8. ShipTypes' /\ Payable(trip, fuel)'
  BY <1>1 DEF FlightTypes, ShipTypes, Payable
<1> QED
  BY <1>6, <1>7, <1>8, Zenon DEF FlightTypes

\* What a fight begins with.
LEMMA FightsBegin ==
  ASSUME NEW a, NEW d, NEW f, Flight!Fight(a, d, f), trip' = Flight!NoTrip
  PROVE  FightTypes'
<1>1. fight' = [a |-> a, d |-> d, round |-> 1, move |-> "first", flees |-> f]
  BY Zenon DEF Flight!Fight
<1>2. fight'.round = 1
  BY <1>1
<1> QED
  BY <1>2, FlightPlaces DEF FightTypes

\* A human's call between turns.
LEMMA PlayKeepsTypes ==
  ASSUME FlightInv, FlightTypes, Flight!PlayStep
  PROVE  FlightTypes'
<1> USE DEF Flight!ships, Flight!turn, Flight!history
<1> PICK s \in InFlight.humans :
      \/ \E c \in InFlight.cells : Flight!PlayerTravel(s, c)
      \/ \E n \in Flight!Npcs : Flight!PlayerAttack(s, n)
      \/ Flight!PlayerRefuel(s) \/ Flight!PlayerRepair(s) \/ Flight!EndTurn(s)
  BY Zenon DEF Flight!PlayStep
<1>1. s \in Flight!Ships
  BY FlightNames
<1>2. /\ UNCHANGED <<pos, seen, berth, stray, grave, npc>>
      /\ trip = Flight!NoTrip /\ fight = Flight!NoFight /\ phase = "play"
  BY Zenon DEF Flight!PlayerTravel, Flight!PlayerAttack, Flight!PlayerRefuel,
               Flight!PlayerRepair, Flight!EndTurn, Flight!Playing, Flight!Quiet
<1>3. ShipTypes /\ TurnTypes
  BY DEF FlightTypes
<1>4. CASE \E c \in InFlight.cells : Flight!PlayerTravel(s, c)
  <2>1. PICK c \in InFlight.cells : Flight!PlayerTravel(s, c)
    BY <1>4
  <2>2. /\ Flight!CanTravel(s, c) /\ Flight!Depart(s, c)
        /\ UNCHANGED <<fuel, fight, phase, human>>
    BY <2>1, Zenon DEF Flight!PlayerTravel
  <2>3. Payable(trip, fuel)'
    BY <1>1, <2>2, DeparturesArePayable
  <2>4. ShipTypes' /\ FightTypes' /\ TurnTypes'
    BY <1>2, <1>3, <2>2 DEF ShipTypes, FightTypes, TurnTypes
  <2> QED
    BY <2>3, <2>4, Zenon DEF FlightTypes
<1>5. CASE \E n \in Flight!Npcs : Flight!PlayerAttack(s, n)
  <2>1. /\ \E n : Flight!Fight(s, n, TRUE)
        /\ UNCHANGED <<fuel, trip, phase, human>>
    BY <1>5, Zenon DEF Flight!PlayerAttack
  <2>2. FightTypes'
    BY <1>2, <2>1, FightsBegin
  <2>3. ShipTypes' /\ Payable(trip, fuel)' /\ TurnTypes'
    BY <1>2, <1>3, <2>1 DEF ShipTypes, Payable, TurnTypes, Flight!NoTrip
  <2> QED
    BY <2>2, <2>3, Zenon DEF FlightTypes
<1>6. CASE Flight!PlayerRefuel(s) \/ Flight!PlayerRepair(s) \/ Flight!EndTurn(s)
  <2>1. /\ UNCHANGED <<trip, fight>>
        /\ fuel' = fuel \/ fuel' = [fuel EXCEPT ![s] = InFlight.maxFuel]
        /\ \/ UNCHANGED <<phase, human>>
           \/ phase' = "lair" /\ human' = s
    BY <1>6, Zenon
       DEF Flight!PlayerRefuel, Flight!PlayerRepair, Flight!EndTurn
  <2>2. InFlight.maxFuel \in 0..InFlight.maxFuel
    BY FlightPlaces
  <2>3. fuel' \in [Flight!Ships -> 0..InFlight.maxFuel]
    BY <1>1, <1>3, <2>1, <2>2 DEF ShipTypes
  <2>4. ShipTypes' /\ FightTypes'
    BY <1>2, <1>3, <2>1, <2>3 DEF ShipTypes, FightTypes
  <2>5. Payable(trip, fuel)'
    BY <1>2, <2>1 DEF Payable, Flight!NoTrip
  <2>6. TurnTypes'
    BY <1>2, <1>3, <2>1 DEF TurnTypes
  <2> QED
    BY <2>4, <2>5, <2>6, Zenon DEF FlightTypes
<1> QED
  BY <1>4, <1>5, <1>6

\* A step of the turn.
LEMMA TurnKeepsTypes ==
  ASSUME FlightInv, FlightTypes, Flight!TurnStep
  PROVE  FlightTypes'
<1> USE DEF Flight!ships, Flight!turn, Flight!history
<1>1. /\ UNCHANGED <<pos, fuel, seen, berth, stray>>
      /\ trip = Flight!NoTrip /\ fight = Flight!NoFight
  BY Zenon DEF Flight!TurnStep, Flight!LairPhase, Flight!NpcPhase,
       Flight!TurnEnds, Flight!Ambush, Flight!NpcTurn, Flight!NpcLowOnFuel,
       Flight!NpcLowOnHull, Flight!NpcFlees, Flight!NpcCombat, Flight!NpcRoam,
       Flight!Quiet
<1>2. ShipTypes /\ TurnTypes
  BY DEF FlightTypes
<1>3. ASSUME grave' \in [Flight!Npcs -> (Int \X Int) \cup {Flight!Nowhere}]
      PROVE  ShipTypes'
  BY <1>1, <1>2, <1>3 DEF ShipTypes
<1>4. UNCHANGED grave => ShipTypes'
  BY <1>2, <1>3 DEF ShipTypes
<1>5. UNCHANGED trip => Payable(trip, fuel)'
  BY <1>1 DEF Payable, Flight!NoTrip
<1>6. /\ UNCHANGED fight => FightTypes'
      /\ UNCHANGED trip => \A a, d, f : Flight!Fight(a, d, f) => FightTypes'
  BY <1>1, FightsBegin DEF FightTypes
<1>7. CASE Flight!LairPhase
  <2>1. /\ UNCHANGED <<grave, npc, trip, human>>
        /\ phase = "lair" /\ phase' = "ambush"
        /\ UNCHANGED fight \/ \E a, d, f : Flight!Fight(a, d, f)
    BY <1>7, Zenon DEF Flight!LairPhase
  <2>2. TurnTypes'
    BY <1>2, <2>1 DEF TurnTypes
  <2> QED
    BY <1>4, <1>5, <1>6, <2>1, <2>2, Zenon DEF FlightTypes
<1>8. ASSUME NEW n \in Flight!Npcs, Flight!Ambush(n)
      PROVE  FlightTypes'
  <2>1. /\ UNCHANGED <<grave, npc, trip, phase, human>>
        /\ UNCHANGED fight \/ \E a, d, f : Flight!Fight(a, d, f)
    BY <1>8, Zenon DEF Flight!Ambush
  <2>2. TurnTypes'
    BY <1>2, <2>1 DEF TurnTypes
  <2> QED
    BY <1>4, <1>5, <1>6, <2>1, <2>2, Zenon DEF FlightTypes
<1>9. CASE Flight!NpcPhase
  <2>1. UNCHANGED <<grave, npc, trip, fight, human>> /\ phase' = "npcs"
    BY <1>9, Zenon DEF Flight!NpcPhase
  <2>2. TurnTypes'
    BY <1>2, <2>1 DEF TurnTypes
  <2> QED
    BY <1>4, <1>5, <1>6, <2>1, <2>2, Zenon DEF FlightTypes
<1>10. ASSUME NEW n \in Flight!Npcs, Flight!NpcTurn(n)
      PROVE  FlightTypes'
  <2>1. /\ UNCHANGED <<grave, trip, fight, phase, human>> /\ phase = "npcs"
        /\ npc' = Flight!NoNpc \/ npc' = [who |-> n, stage |-> "fuel"]
    BY <1>10, Zenon DEF Flight!NpcTurn
  <2>2. TurnTypes'
    BY <1>2, <2>1 DEF TurnTypes, Flight!NoNpc
  <2> QED
    BY <1>4, <1>5, <1>6, <2>1, <2>2, Zenon DEF FlightTypes
<1>11. CASE Flight!NpcLowOnFuel \/ Flight!NpcLowOnHull \/ Flight!NpcRoam
  <2>1. /\ UNCHANGED <<grave, fight, phase, human>>
        /\ npc.who # InFlight.noShip
        /\ \/ npc' = npc \/ npc' = Flight!NoNpc \/ Flight!AfterTrip(FALSE)
    BY <1>11, Zenon DEF Flight!NpcLowOnFuel, Flight!NpcLowOnHull,
                        Flight!NpcRoam, Flight!NpcFlees
  <2>2. npc.who \in Flight!Ships
    BY <2>1, FlightNames DEF FlightInv, FlightShape
  <2>3. \/ UNCHANGED trip
        \/ \E c \in Flight!Options(npc.who) :
             Flight!CanTravel(npc.who, c) /\ Flight!Depart(npc.who, c)
    <3>1. \A n, cs : Flight!Nearest(n, cs) \subseteq cs
      BY Zenon DEF Flight!Nearest
    <3>2. \A n : Flight!Havens(n) \subseteq Flight!Options(n)
      BY <3>1 DEF Flight!Havens
    <3> QED
      BY <1>11, <3>2, Zenon
         DEF Flight!NpcLowOnFuel, Flight!NpcLowOnHull, Flight!NpcRoam,
             Flight!NpcFlees
  <2>4. Flight!Options(npc.who) \subseteq InFlight.cells
    BY <1>2, <2>2 DEF Flight!Options, ShipTypes
  <2>5. Payable(trip, fuel)'
    BY <1>1, <1>5, <2>2, <2>3, <2>4, DeparturesArePayable
  <2>6. TurnTypes'
    BY <2>1, TurnsGoOn
  <2> QED
    BY <1>4, <1>6, <2>1, <2>5, <2>6, Zenon DEF FlightTypes
<1>12. CASE Flight!NpcCombat
  <2>1. /\ UNCHANGED <<grave, trip, phase, human>>
        /\ UNCHANGED fight \/ \E a, d, f : Flight!Fight(a, d, f)
        /\ npc' = npc \/ npc' = [npc EXCEPT !.stage = "roam"]
    BY <1>12, Zenon DEF Flight!NpcCombat
  <2>2. TurnTypes'
    BY <2>1, TurnsGoOn
  <2> QED
    BY <1>4, <1>5, <1>6, <2>1, <2>2, Zenon DEF FlightTypes
<1>13. CASE Flight!TurnEnds
  <2>1. /\ UNCHANGED <<trip, fight, npc>>
        /\ npc = Flight!NoNpc /\ phase' = "play" /\ human' = InFlight.noShip
        /\ grave' = [n \in Flight!Npcs |->
                       IF hull[n] = 0 /\ grave[n] = Flight!Nowhere
                       THEN pos[n] ELSE grave[n]]
    BY <1>13, Zenon DEF Flight!TurnEnds
  <2>2. grave' \in [Flight!Npcs -> (Int \X Int) \cup {Flight!Nowhere}]
    BY <1>2, <2>1, FlightNames DEF ShipTypes
  <2>3. TurnTypes'
    BY <2>1 DEF TurnTypes, Flight!NoNpc
  <2> QED
    BY <1>3, <1>5, <1>6, <2>1, <2>2, <2>3, Zenon DEF FlightTypes
<1> QED
  BY <1>7, <1>8, <1>9, <1>10, <1>11, <1>12, <1>13, Zenon DEF Flight!TurnStep

\* Every step of the game keeps its types.
LEMMA FlightKeepsTypes ==
  ASSUME FlightInv, FlightTypes, FlightStep
  PROVE  FlightTypes'
<1>1. CASE UNCHANGED flight
  BY <1>1 DEF flight, FlightTypes, ShipTypes, Payable, FightTypes, TurnTypes
<1>2. CASE Flight!Next
  BY <1>2, TripKeepsTypes, FightKeepsTypes, PlayKeepsTypes, TurnKeepsTypes,
     Zenon
     DEF Flight!Next
<1> QED
  BY <1>1, <1>2 DEF FlightStep

\* Caravan, ShipsMoveByPaying and NpcWrecksStay: a ship is where its last
\* completed and paid trip took it, unless it is on its way or was destroyed
\* on one; an NPC that is a wreck when a turn ends is one for good, and stays
\* where it is.
THEOREM GameShipsMoveByPaying == Spec => []ShipsMoveByPaying
<1> DEFINE I == part = "flight" => FlightInv
<1>1. Init => I
  BY FlightStarts DEF Init
<1>2. I /\ [Next]_vars => I'
  BY GameMoves, FlightKeeps
<1>3. I => ShipsMoveByPaying
  BY DEF FlightInv, ShipsMoveByPaying
<1> QED
  BY <1>1, <1>2, <1>3, PTL DEF Spec

\* Caravan, TypeOK: ships stay on the grid with a tank from empty to full and
\* know cells of the map, a ship on a trip has the fuel for it all along, a fight
\* has at most so many rounds, and neither a trip and a fight nor an NPC's turn
\* and a human's are under way at once (travel.py, combat.py, game.py).
THEOREM GameTypes == Spec => [](part = "flight" => Flight!TypeOK)
<1> DEFINE I == part = "flight" => FlightInv /\ FlightTypes
<1>1. Init => I
  BY FlightStarts, TypesStart DEF Init
<1>2. I /\ [Next]_vars => I'
  BY GameMoves, FlightKeeps, FlightKeepsTypes
<1>3. I => (part = "flight" => Flight!TypeOK)
  BY FlightTypesGive
<1> QED
  BY <1>1, <1>2, <1>3, PTL DEF Spec

(***************************************************************************)
(* Markets (CaravanTrade).                                                 *)
(***************************************************************************)

Worth(stack, some) == IF stack.good \in some THEN stack.qty ELSE 0

\* The sum over the stacks of a hold is what its recursion says.
LEMMA HeldIs ==
  ASSUME NEW h \in Seq(Trade!Stacks), NEW some
  PROVE  \E f \in [0..Len(h) -> Nat] :
           /\ f[0] = 0 /\ Trade!Held(h, some) = f[Len(h)]
           /\ \A i \in 1..Len(h) : f[i] = f[i - 1] + Worth(h[i], some)
<1> DEFINE sum == CHOOSE f : f = [i \in 0..Len(h) |->
                     IF i = 0 THEN 0
                     ELSE f[i - 1] + (IF h[i].good \in some THEN h[i].qty ELSE 0)]
<1>1. Trade!Held(h, some) = sum[Len(h)]
  BY DEF Trade!Held
<1>0. Len(h) \in Nat /\ \A i \in 1..Len(h) : h[i] \in Trade!Stacks /\ Worth(h[i], some) \in Nat
  <2>1. \A i \in 1..Len(h) : h[i] \in Trade!Stacks
    OBVIOUS
  <2>2. \A x \in Trade!Stacks : Worth(x, some) \in Nat
    BY DEF Trade!Stacks, Worth
  <2> QED
    BY <2>1, <2>2
<1>2. \E f : /\ f = [i \in 0..Len(h) |->
                     IF i = 0 THEN 0
                     ELSE f[i - 1] + (IF h[i].good \in some THEN h[i].qty ELSE 0)]
             /\ f \in [0..Len(h) -> Nat]
  <2> DEFINE F == [x \in (1..Len(h)) \X Nat |-> x[2] + Worth(h[x[1]], some)]
             S == [i \in 0..Len(h) |-> Nat]
  <2>1. PassesStay(Len(h), S, F)
    BY <1>0 DEF PassesStay
  <2>2. 0 \in S[0]
    BY <1>0
  <2>3. PICK f : Passes(f, Len(h), S, 0, F)
    <3> HIDE DEF F, S
    <3> QED
      BY <1>0, <2>1, <2>2, LoopEnds
  <2>4. \A i \in 0..Len(h) : f[i] \in Nat
    BY <2>3 DEF Passes
  <2>5. \A i \in 1..Len(h) : F[<<i, f[i - 1]>>] = f[i - 1] + Worth(h[i], some)
    BY <1>0, <2>4
  <2>6. f = [i \in 0..Len(h) |-> IF i = 0 THEN 0 ELSE f[i - 1] + Worth(h[i], some)]
    <3> HIDE DEF F, S
    <3> QED
      <4>1. \A i \in 0..Len(h) : i # 0 => i \in 1..Len(h)
        BY <1>0
      <4>2. \A i \in 0..Len(h) : f[i] = IF i = 0 THEN 0 ELSE f[i - 1] + Worth(h[i], some)
        BY <2>3, <2>5, <4>1 DEF Passes
      <4>3. f = [i \in 0..Len(h) |-> f[i]]
        BY <2>3 DEF Passes
      <4> QED
        BY <4>2, <4>3, Zenon
  <2> QED
    BY <2>4, <2>6 DEF Worth
<1>3. sum = [i \in 0..Len(h) |->
                     IF i = 0 THEN 0
                     ELSE sum[i - 1] + (IF h[i].good \in some THEN h[i].qty ELSE 0)]
  BY <1>2
<1> HIDE DEF sum
<1>4. /\ sum[0] = 0
      /\ \A i \in 1..Len(h) : sum[i] = sum[i - 1] + Worth(h[i], some)
  BY <1>0, <1>3 DEF Worth
<1>5. \A i \in 0..Len(h) : sum[i] \in Nat
  <2> DEFINE T == {i \in 0..Len(h) : sum[i] \in Nat}
  <2>1. 0 \in T /\ \A i \in 1..Len(h) : i - 1 \in T => i \in T
    BY <1>0, <1>4
  <2> HIDE DEF T
  <2>2. \A i \in 0..Len(h) : i \in T
    BY <1>0, <2>1, Induction
  <2> QED
    BY <2>2 DEF T
<1>6. sum \in [0..Len(h) -> Nat]
  BY <1>3, <1>5
<1> QED
  BY <1>1, <1>4, <1>6

\* A sum is a number.
LEMMA HeldIsNumber ==
  ASSUME NEW h \in Seq(Trade!Stacks), NEW some
  PROVE  Trade!Held(h, some) \in Nat
<1>1. PICK f \in [0..Len(h) -> Nat] : Trade!Held(h, some) = f[Len(h)]
  BY HeldIs
<1>2. Len(h) \in 0..Len(h)
  OBVIOUS
<1> QED
  BY <1>1, <1>2

\* What a sum is after one more stack, ...
LEMMA HeldAppended ==
  ASSUME NEW h \in Seq(Trade!Stacks), NEW k \in Trade!Stacks, NEW some
  PROVE  Trade!Held(Append(h, k), some) = Trade!Held(h, some) + Worth(k, some)
<1> DEFINE n == Len(h)
           kk == Append(h, k)
<1>1. n \in Nat /\ kk \in Seq(Trade!Stacks) /\ Len(kk) = n + 1
      /\ kk[n + 1] = k /\ \A i \in 1..n : kk[i] = h[i]
  OBVIOUS
<1> HIDE DEF kk
<1>2. PICK f \in [0..n -> Nat] :
        /\ f[0] = 0 /\ Trade!Held(h, some) = f[n]
        /\ \A i \in 1..n : f[i] = f[i - 1] + Worth(h[i], some)
  BY HeldIs
<1>3. PICK g \in [0..n + 1 -> Nat] :
        /\ g[0] = 0 /\ Trade!Held(kk, some) = g[n + 1]
        /\ \A i \in 1..n + 1 : g[i] = g[i - 1] + Worth(kk[i], some)
  BY <1>1, HeldIs
<1> HIDE DEF n
<1> DEFINE T == {i \in 0..n : g[i] = f[i]}
<1>4. 0 \in T
  BY <1>1, <1>2, <1>3
<1>5. ASSUME NEW i \in 1..n, i - 1 \in T
      PROVE  i \in T
  <2>1. i \in 1..n + 1 /\ i \in 0..n
    BY <1>1
  <2> QED
    BY <1>1, <1>2, <1>3, <1>5, <2>1
<1>6. n \in T
  <2> HIDE DEF T
  <2>1. n \in 0..n
    BY <1>1
  <2> QED
    BY <1>1, <1>4, <1>5, <2>1, Induction
<1>7. g[n + 1] = g[n] + Worth(k, some)
  <2>1. n + 1 \in 1..n + 1 /\ (n + 1) - 1 = n
    BY <1>1
  <2> QED
    BY <1>1, <1>3, <2>1
<1> QED
  BY <1>2, <1>3, <1>6, <1>7 DEF kk

\* ... after another quantity in a stack, ...
LEMMA HeldChanged ==
  ASSUME NEW h \in Seq(Trade!Stacks), NEW m \in DOMAIN h, NEW q \in Nat \ {0}, NEW some
  PROVE  /\ [h EXCEPT ![m].qty = q] \in Seq(Trade!Stacks)
         /\ Trade!Held([h EXCEPT ![m].qty = q], some) =
              Trade!Held(h, some) + (IF h[m].good \in some THEN q - h[m].qty ELSE 0)
<1> DEFINE n == Len(h)
           kk == [h EXCEPT ![m].qty = q]
           d == IF h[m].good \in some THEN q - h[m].qty ELSE 0
<1>1. n \in Nat /\ m \in 1..n /\ DOMAIN h = 1..n
  OBVIOUS
<1>2. /\ h[m] \in Trade!Stacks /\ [h[m] EXCEPT !.qty = q] \in Trade!Stacks
      /\ Worth([h[m] EXCEPT !.qty = q], some) =
           IF h[m].good \in some THEN q ELSE 0
      /\ Worth(h[m], some) = IF h[m].good \in some THEN h[m].qty ELSE 0
      /\ h[m].qty \in Nat
  <2>1. ASSUME NEW x \in Trade!Stacks
        PROVE  /\ [x EXCEPT !.qty = q] \in Trade!Stacks /\ x.qty \in Nat
               /\ Worth([x EXCEPT !.qty = q], some) =
                    IF x.good \in some THEN q ELSE 0
    BY <2>1 DEF Trade!Stacks, Worth
  <2>2. h[m] \in Trade!Stacks
    BY <1>1
  <2> QED
    BY <2>1, <2>2 DEF Worth
<1>3. kk \in Seq(Trade!Stacks) /\ Len(kk) = n
  BY <1>1, <1>2
<1>4. kk[m] = [h[m] EXCEPT !.qty = q] /\ \A i \in 1..n : i # m => kk[i] = h[i]
  BY <1>1
<1>5. d \in Int /\ Worth(kk[m], some) = Worth(h[m], some) + d
  BY <1>2, <1>4
<1> HIDE DEF kk, d
<1>6. PICK f \in [0..n -> Nat] :
        /\ f[0] = 0 /\ Trade!Held(h, some) = f[n]
        /\ \A i \in 1..n : f[i] = f[i - 1] + Worth(h[i], some)
  BY HeldIs
<1>7. PICK g \in [0..n -> Nat] :
        /\ g[0] = 0 /\ Trade!Held(kk, some) = g[n]
        /\ \A i \in 1..n : g[i] = g[i - 1] + Worth(kk[i], some)
  BY <1>3, HeldIs
<1> HIDE DEF n
<1>8. \A i \in 1..n : Worth(h[i], some) \in Nat
  <2>1. \A x \in Trade!Stacks : Worth(x, some) \in Nat
    BY DEF Worth, Trade!Stacks
  <2> QED
    BY <1>1, <2>1
<1> DEFINE T == {i \in 0..n : g[i] = f[i] + (IF i < m THEN 0 ELSE d)}
<1>9. 0 \in T
  BY <1>1, <1>6, <1>7
<1>10. ASSUME NEW i \in 1..n, i - 1 \in T
       PROVE  i \in T
  <2>1. i \in 0..n /\ i - 1 \in 0..n /\ f[i - 1] \in Nat
    BY <1>1, <1>6
  <2>2. g[i - 1] = f[i - 1] + (IF i - 1 < m THEN 0 ELSE d)
    BY <1>10
  <2>3. /\ g[i] = g[i - 1] + Worth(kk[i], some)
        /\ f[i] = f[i - 1] + Worth(h[i], some)
    BY <1>6, <1>7
  <2>4. CASE i = m
    BY <1>1, <1>5, <1>8, <2>1, <2>2, <2>3, <2>4, SMTT(20)
  <2>5. CASE i # m
    BY <1>1, <1>4, <1>5, <1>8, <2>1, <2>2, <2>3, <2>5, SMTT(20)
  <2> QED
    BY <2>4, <2>5
<1>11. n \in T
  <2> HIDE DEF T
  <2>1. n \in 0..n
    BY <1>1
  <2> QED
    BY <1>1, <1>9, <1>10, <2>1, Induction
<1>12. g[n] = f[n] + d
  BY <1>1, <1>11
<1> QED
  BY <1>3, <1>6, <1>7, <1>12 DEF kk, d

\* ... and after a stack less.
LEMMA HeldTaken ==
  ASSUME NEW h \in Seq(Trade!Stacks), NEW m \in DOMAIN h, NEW some
  PROVE  /\ Trade!RemoveAt(h, m) \in Seq(Trade!Stacks)
         /\ Len(Trade!RemoveAt(h, m)) = Len(h) - 1
         /\ \A i \in 1..Len(h) - 1 :
              Trade!RemoveAt(h, m)[i] = IF i < m THEN h[i] ELSE h[i + 1]
         /\ Trade!Held(h, some) =
              Trade!Held(Trade!RemoveAt(h, m), some) + Worth(h[m], some)
<1> DEFINE n == Len(h)
           kk == Trade!RemoveAt(h, m)
<1>1. n \in Nat /\ m \in 1..n /\ DOMAIN h = 1..n
  OBVIOUS
<1>2. kk = SubSeq(h, 1, m - 1) \o SubSeq(h, m + 1, n)
  BY DEF Trade!RemoveAt
<1>3. /\ SubSeq(h, 1, m - 1) \in Seq(Trade!Stacks)
      /\ Len(SubSeq(h, 1, m - 1)) = m - 1
      /\ \A i \in 1..m - 1 : SubSeq(h, 1, m - 1)[i] = h[i]
      /\ SubSeq(h, m + 1, n) \in Seq(Trade!Stacks)
      /\ Len(SubSeq(h, m + 1, n)) = n - m
      /\ \A i \in 1..n - m : SubSeq(h, m + 1, n)[i] = h[m + i]
  BY <1>1
<1>4. /\ kk \in Seq(Trade!Stacks) /\ Len(kk) = n - 1
      /\ \A i \in 1..n - 1 : kk[i] = IF i < m THEN h[i] ELSE h[i + 1]
  <2>1. \A a, b \in Seq(Trade!Stacks) :
          /\ a \o b \in Seq(Trade!Stacks) /\ Len(a \o b) = Len(a) + Len(b)
          /\ \A i \in 1..Len(a) + Len(b) :
               (a \o b)[i] = IF i <= Len(a) THEN a[i] ELSE b[i - Len(a)]
    OBVIOUS
  <2>2. /\ kk \in Seq(Trade!Stacks) /\ Len(kk) = (m - 1) + (n - m)
        /\ \A i \in 1..(m - 1) + (n - m) :
             kk[i] = IF i <= m - 1 THEN SubSeq(h, 1, m - 1)[i]
                     ELSE SubSeq(h, m + 1, n)[i - (m - 1)]
    <3> DEFINE aa == SubSeq(h, 1, m - 1)
               bb == SubSeq(h, m + 1, n)
    <3>1. /\ aa \in Seq(Trade!Stacks) /\ Len(aa) = m - 1
          /\ bb \in Seq(Trade!Stacks) /\ Len(bb) = n - m
      BY <1>3
    <3>2. kk = aa \o bb
      BY <1>2
    <3> HIDE DEF kk, n, aa, bb
    <3>3. /\ kk \in Seq(Trade!Stacks) /\ Len(kk) = (m - 1) + (n - m)
          /\ \A i \in 1..(m - 1) + (n - m) :
               kk[i] = IF i <= m - 1 THEN aa[i] ELSE bb[i - (m - 1)]
      BY <3>1, <3>2
    <3> QED
      BY <3>3 DEF aa, bb
  <2> HIDE DEF kk, n
  <2>3. (m - 1) + (n - m) = n - 1
    BY <1>1
  <2>4. ASSUME NEW i \in 1..n - 1
        PROVE  kk[i] = IF i < m THEN h[i] ELSE h[i + 1]
    <3>1. CASE i < m
      <4>1. i \in 1..m - 1 /\ i <= m - 1
        BY <1>1, <3>1
      <4> QED
        BY <1>3, <2>2, <2>3, <3>1, <4>1
    <3>2. CASE ~(i < m)
      <4>1. /\ i - (m - 1) \in 1..n - m /\ ~(i <= m - 1)
            /\ m + (i - (m - 1)) = i + 1
        BY <1>1, <3>2
      <4> QED
        BY <1>3, <2>2, <2>3, <3>2, <4>1
    <3> QED
      BY <3>1, <3>2
  <2> QED
    BY <2>2, <2>3, <2>4
<1> HIDE DEF kk
<1>5. PICK f \in [0..n -> Nat] :
        /\ f[0] = 0 /\ Trade!Held(h, some) = f[n]
        /\ \A i \in 1..n : f[i] = f[i - 1] + Worth(h[i], some)
  BY HeldIs
<1>6. PICK g \in [0..n - 1 -> Nat] :
        /\ g[0] = 0 /\ Trade!Held(kk, some) = g[n - 1]
        /\ \A i \in 1..n - 1 : g[i] = g[i - 1] + Worth(kk[i], some)
  <2>1. kk \in Seq(Trade!Stacks) /\ Len(kk) = n - 1
    BY <1>4
  <2>2. \E g \in [0..Len(kk) -> Nat] :
          /\ g[0] = 0 /\ Trade!Held(kk, some) = g[Len(kk)]
          /\ \A i \in 1..Len(kk) : g[i] = g[i - 1] + Worth(kk[i], some)
    BY <2>1, HeldIs
  <2> HIDE DEF n
  <2> QED
    BY <2>1, <2>2, Zenon
<1> HIDE DEF n
<1>7. \A i \in 1..n : Worth(h[i], some) \in Nat
  <2>1. \A x \in Trade!Stacks : Worth(x, some) \in Nat
    BY DEF Worth, Trade!Stacks
  <2> QED
    BY <1>1, <2>1
<1> DEFINE P(i) == /\ i < m => g[i] = f[i]
                   /\ ~(i < m) => g[i] = f[i + 1] - Worth(h[m], some)
           T == {i \in 0..n - 1 : P(i)}
<1>8. 0 \in T
  BY <1>1, <1>5, <1>6
<1>9. ASSUME NEW i \in 1..n - 1, i - 1 \in T
      PROVE  i \in T
  <2>1. /\ i \in 0..n - 1 /\ i - 1 \in 0..n /\ i \in 1..n /\ i + 1 \in 1..n
        /\ (i + 1) - 1 = i /\ (i - 1) + 1 = i /\ i \in 0..n /\ i + 1 \in 0..n
    BY <1>1
  <2>2. /\ f[i - 1] \in Nat /\ f[i] \in Nat /\ f[i + 1] \in Nat
        /\ Worth(h[i], some) \in Nat /\ Worth(h[i + 1], some) \in Nat
        /\ Worth(h[m], some) \in Nat
    BY <1>1, <1>5, <1>7, <2>1
  <2>3. /\ g[i] = g[i - 1] + Worth(kk[i], some)
        /\ f[i] = f[i - 1] + Worth(h[i], some)
        /\ f[i + 1] = f[i] + Worth(h[i + 1], some)
    BY <1>5, <1>6, <2>1
  <2>4. P(i - 1)
    BY <1>9
  <2>5. CASE i < m
    <3>1. i - 1 < m /\ kk[i] = h[i]
      BY <1>1, <1>4, <2>5
    <3>2. g[i] = f[i]
      BY <2>3, <2>4, <3>1
    <3> QED
      BY <2>1, <2>5, <3>2
  <2>6. CASE i = m
    <3>0. i - 1 < m /\ ~(i < m)
      BY <1>1, <2>6
    <3>1. i - 1 < m /\ kk[i] = h[i + 1] /\ ~(i < m)
      BY <1>4, <3>0, Zenon
    <3>2. g[i] = f[i - 1] + Worth(h[i + 1], some)
      BY <2>3, <2>4, <3>1
    <3>3. g[i] = f[i + 1] - Worth(h[m], some)
      BY <2>2, <2>3, <2>6, <3>2, SMTT(20)
    <3> QED
      BY <2>1, <3>1, <3>3
  <2>7. CASE i > m
    <3>1. ~(i - 1 < m) /\ kk[i] = h[i + 1] /\ ~(i < m)
      BY <1>1, <1>4, <2>7
    <3>2. g[i] = f[i] - Worth(h[m], some) + Worth(h[i + 1], some)
      BY <2>1, <2>3, <2>4, <3>1
    <3>3. g[i] = f[i + 1] - Worth(h[m], some)
      BY <2>2, <2>3, <3>2
    <3> QED
      BY <2>1, <3>1, <3>3
  <2> QED
    BY <1>1, <2>5, <2>6, <2>7
<1>10. n - 1 \in T
  <2> HIDE DEF T
  <2>1. n - 1 \in 0..n - 1 /\ n - 1 \in Nat
    BY <1>1
  <2> QED
    BY <1>1, <1>8, <1>9, <2>1, Induction
<1>11. g[n - 1] = f[n] - Worth(h[m], some)
  <2>1. CASE n = m
    <3>1. f[n] = f[n - 1] + Worth(h[n], some) /\ f[n - 1] \in Nat /\ Worth(h[n], some) \in Nat
      BY <1>1, <1>5, <1>7
    <3> QED
      BY <1>1, <1>10, <2>1, <3>1
  <2>2. CASE n # m
    <3>1. (n - 1) + 1 = n /\ ~(n - 1 < m)
      BY <1>1, <2>2
    <3> QED
      BY <1>10, <3>1
  <2> QED
    BY <2>1, <2>2
<1>12. f[n] \in Nat /\ Worth(h[m], some) \in Nat
  BY <1>1, <1>5, <1>7
<1> QED
  BY <1>4, <1>5, <1>6, <1>11, <1>12 DEF kk, n

\* The market counts as everybody does.
LEMMA MarketCounts ==
  ASSUME NEW S
  PROVE  /\ Trade!IsFiniteSet(S) <=> IsFiniteSet(S)
         /\ Trade!Cardinality(S) = Cardinality(S)
<1>1. Trade!IsFiniteSet(S) <=> IsFiniteSet(S)
  BY Zenon DEF Trade!IsFiniteSet, IsFiniteSet
<1>2. Trade!Cardinality(S) = Cardinality(S)
  BY Zenon DEF Trade!Cardinality, Cardinality, Trade!IsFiniteSet, IsFiniteSet
<1> QED
  BY <1>1, <1>2

\* The constants of the market.
LEMMA MarketFacts ==
  /\ AtMarket.goods # {} /\ IsFiniteSet(AtMarket.systems)
  /\ AtMarket.quantities \subseteq Nat \ {0}
  /\ AtMarket.capacity \in Nat /\ AtMarket.startCredits \in Nat
  /\ AtMarket.cushion \in Nat /\ AtMarket.basePrice \in Nat \ {0}
  /\ AtMarket.terms \subseteq Nat \ {0}
  /\ AtMarket.maxEvents \in Nat /\ AtMarket.maxMoves \in Nat
<1>1. Trade!TradeConstants
  BY PartsAreSound, Zenon
<1> QED
  BY <1>1, MarketCounts, Zenon DEF Trade!TradeConstants

\* The first of some places.
LEMMA FirstPlace ==
  ASSUME NEW S, S \subseteq Nat, S # {}
  PROVE  /\ Trade!Min(S) \in S /\ \A i \in S : Trade!Min(S) <= i
<1>1. \E x \in S : \A y \in S : x <= y
  BY LeastNumber
<1> QED
  BY <1>1 DEF Trade!Min

\* Everything has a price.
LEMMA PricesAreNumbers ==
  ASSUME NEW g, NEW y
  PROVE  Trade!Price(g, y) \in Nat \ {0}
<1>1. ASSUME NEW S \in SUBSET Trade!Events
      PROVE  2^Trade!Cardinality(S) \in Nat \ {0}
  <2>1. IsFiniteSet(Trade!Events)
    BY MarketFacts, FS_Interval DEF Trade!Events
  <2>2. IsFiniteSet(S)
    BY <2>1, FS_Subset
  <2>3. IsFiniteSet(SUBSET S) /\ Cardinality(SUBSET S) = 2^Cardinality(S)
    BY <2>2, FS_SUBSET
  <2>4. Cardinality(SUBSET S) \in Nat /\ Cardinality(SUBSET S) # 0
    BY <2>3, FS_CardinalityType, FS_EmptySet
  <2> QED
    BY <2>3, <2>4, MarketCounts
<1> DEFINE ups == {e \in Trade!Events : y \in felt[e] /\ factor[e] = <<g, 2>>}
           downs == {e \in Trade!Events : y \in felt[e] /\ factor[e] = <<g, -2>>}
           price == (AtMarket.basePrice * 2^Trade!Cardinality(ups)) \div 2^Trade!Cardinality(downs)
<1>2. 2^Trade!Cardinality(ups) \in Nat \ {0} /\ 2^Trade!Cardinality(downs) \in Nat \ {0}
  BY <1>1
<1>3. price \in Int
  <2> DEFINE u == 2^Trade!Cardinality(ups)
             d == 2^Trade!Cardinality(downs)
  <2>1. AtMarket.basePrice \in Nat /\ u \in Nat /\ d \in Nat \ {0}
    BY <1>2, MarketFacts
  <2> HIDE DEF u, d
  <2>2. AtMarket.basePrice * u \in Nat
    BY <2>1
  <2> DEFINE b == AtMarket.basePrice * u
  <2> HIDE DEF b
  <2>3. b \div d \in Int
    BY <2>1, <2>2 DEF b
  <2> QED
    BY <2>3 DEF b, u, d
<1>4. Trade!Price(g, y) = IF price < 1 THEN 1 ELSE price
  BY Zenon DEF Trade!Price
<1> HIDE DEF price
<1> QED
  BY <1>3, <1>4

\* What a purchase adds to a hold.
LEMMA HeldAdded ==
  ASSUME NEW h \in Seq(Trade!Stacks), NEW g \in AtMarket.goods,
         NEW q \in Nat \ {0}, NEW p \in Nat, NEW some
  PROVE  /\ Trade!Added(h, g, q, p) \in Seq(Trade!Stacks)
         /\ Trade!Held(Trade!Added(h, g, q, p), some) =
              Trade!Held(h, some) + (IF g \in some THEN q ELSE 0)
<1> DEFINE same == {i \in DOMAIN h : h[i].good = g /\ h[i].price = p}
           k == [good |-> g, qty |-> q, price |-> p]
           m == Trade!Min(same)
<1>1. k \in Trade!Stacks /\ Worth(k, some) = IF g \in some THEN q ELSE 0
  BY DEF Trade!Stacks, Worth
<1>2. CASE same = {}
  <2>1. Trade!Added(h, g, q, p) = Append(h, k)
    BY <1>2 DEF Trade!Added
  <2>2. Append(h, k) \in Seq(Trade!Stacks)
    BY <1>1
  <2> HIDE DEF k
  <2> QED
    BY <1>1, <2>1, <2>2, HeldAppended
<1>3. CASE same # {}
  <2>1. same \subseteq Nat
    OBVIOUS
  <2>2. m \in same
    BY <1>3, <2>1, FirstPlace
  <2>3. m \in DOMAIN h /\ h[m].good = g /\ h[m] \in Trade!Stacks
    BY <2>2
  <2>4. h[m].qty \in Nat /\ h[m].qty + q \in Nat \ {0} /\ (h[m].qty + q) - h[m].qty = q
    <3>1. h[m].qty \in Nat
      BY <2>3 DEF Trade!Stacks
    <3> QED
      BY <3>1
  <2>5. Trade!Added(h, g, q, p) = [h EXCEPT ![m].qty = h[m].qty + q]
    BY <1>3, <2>3 DEF Trade!Added
  <2> HIDE DEF m, same
  <2>6. Trade!Added(h, g, q, p) \in Seq(Trade!Stacks)
    BY <2>3, <2>4, <2>5, HeldChanged
  <2>7. Trade!Held(Trade!Added(h, g, q, p), some) =
          Trade!Held(h, some) + (IF g \in some THEN q ELSE 0)
    <3> DEFINE x == h[m].qty + q
    <3>1. x \in Nat \ {0} /\ x - h[m].qty = q
      BY <2>4
    <3> HIDE DEF x
    <3>2. Trade!Held([h EXCEPT ![m].qty = x], some) =
            Trade!Held(h, some) + (IF h[m].good \in some THEN x - h[m].qty ELSE 0)
      BY <2>3, <3>1, HeldChanged
    <3> QED
      BY <2>3, <2>5, <3>1, <3>2 DEF x
  <2> QED
    BY <2>6, <2>7
<1> QED
  BY <1>2, <1>3

\* What a removal takes from a hold, and from which stack.
LEMMA HeldRemoved ==
  ASSUME NEW h \in Seq(Trade!Stacks), NEW g, NEW q \in Nat \ {0},
         NEW m \in DOMAIN h, h[m].good = g, h[m].qty >= q
  PROVE  LET k == Trade!Removed(h, g, q) IN
         /\ k \in Seq(Trade!Stacks)
         /\ \A some : Trade!Held(h, some) =
                        Trade!Held(k, some) + (IF g \in some THEN q ELSE 0)
         /\ \/ Len(k) = Len(h) /\ \A i \in 1..Len(h) : i > m => k[i] = h[i]
            \/ Len(k) = Len(h) - 1 /\ \A i \in 1..Len(h) : i > m => k[i - 1] = h[i]
<1> DEFINE enough == {i \in DOMAIN h : h[i].good = g /\ h[i].qty >= q}
           l == Trade!Min(enough)
           k == Trade!Removed(h, g, q)
<1>1. m \in enough /\ enough \subseteq Nat
  OBVIOUS
<1>2. l \in enough /\ l <= m
  BY <1>1, FirstPlace
<1>3. /\ l \in DOMAIN h /\ h[l].good = g /\ h[l].qty >= q /\ h[l] \in Trade!Stacks
      /\ Len(h) \in Nat /\ DOMAIN h = 1..Len(h)
  BY <1>2
<1>4. h[l].qty \in Nat /\ \A some : Worth(h[l], some) = IF g \in some THEN h[l].qty ELSE 0
  BY <1>3 DEF Trade!Stacks, Worth
<1>5. k = IF h[l].qty = q THEN Trade!RemoveAt(h, l)
          ELSE [h EXCEPT ![l].qty = h[l].qty - q]
  BY <1>1, <1>3 DEF Trade!Removed
<1> HIDE DEF k, l, enough
<1>6. CASE h[l].qty = q
  <2>1. /\ k = Trade!RemoveAt(h, l)
        /\ k \in Seq(Trade!Stacks) /\ Len(k) = Len(h) - 1
        /\ \A i \in 1..Len(h) - 1 : k[i] = IF i < l THEN h[i] ELSE h[i + 1]
        /\ \A some : Trade!Held(h, some) = Trade!Held(k, some) + Worth(h[l], some)
    BY <1>3, <1>5, <1>6, HeldTaken
  <2>2. ASSUME NEW i \in 1..Len(h), i > m
        PROVE  k[i - 1] = h[i]
    <3>1. i - 1 \in 1..Len(h) - 1 /\ ~(i - 1 < l) /\ (i - 1) + 1 = i
      BY <1>2, <1>3, <2>2
    <3> QED
      BY <2>1, <3>1
  <2> QED
    BY <1>4, <1>6, <2>1, <2>2 DEF k
<1>7. CASE h[l].qty # q
  <2>1. /\ k = [h EXCEPT ![l].qty = h[l].qty - q]
        /\ h[l].qty - q \in Nat \ {0} /\ (h[l].qty - q) - h[l].qty = -q
    BY <1>3, <1>4, <1>5, <1>7
  <2>2. /\ k \in Seq(Trade!Stacks)
        /\ \A some : Trade!Held(k, some) =
             Trade!Held(h, some) + (IF g \in some THEN -q ELSE 0)
    <3> DEFINE x == h[l].qty - q
    <3>1. x \in Nat \ {0} /\ x - h[l].qty = -q /\ k = [h EXCEPT ![l].qty = x]
      BY <2>1
    <3> HIDE DEF x
    <3>2. /\ k \in Seq(Trade!Stacks)
          /\ \A some : Trade!Held(k, some) =
               Trade!Held(h, some) + (IF h[l].good \in some THEN x - h[l].qty ELSE 0)
      <4>1. k \in Seq(Trade!Stacks)
        BY <1>3, <3>1, HeldChanged
      <4>2. ASSUME NEW some
            PROVE  Trade!Held(k, some) =
                     Trade!Held(h, some) + (IF h[l].good \in some THEN x - h[l].qty ELSE 0)
        <5>1. Trade!Held([h EXCEPT ![l].qty = x], some) =
                Trade!Held(h, some) + (IF h[l].good \in some THEN x - h[l].qty ELSE 0)
          <6>1. l \in DOMAIN h /\ x \in Nat \ {0}
            BY <1>3, <3>1
          <6> QED
            BY <6>1, HeldChanged
        <5> QED
          BY <3>1, <5>1
      <4> QED
        BY <4>1, <4>2
    <3> QED
      BY <1>3, <3>1, <3>2
  <2>3. Len(k) = Len(h) /\ \A i \in 1..Len(h) : i > m => k[i] = h[i]
    BY <1>2, <1>3, <2>1
  <2>4. \A some : Trade!Held(h, some) \in Nat
    <3>1. ASSUME NEW some
          PROVE  Trade!Held(h, some) \in Nat
      BY <1>3, HeldIs
    <3> QED
      BY <3>1
  <2> QED
    BY <2>2, <2>3, <2>4 DEF k
<1> QED
  BY <1>6, <1>7

\* The books of a ship: what it holds is what came less what went.
Books ==
  {x \in [hold : Seq(Trade!Stacks), net : [AtMarket.goods -> Int]] :
     /\ Trade!Held(x.hold, AtMarket.goods) <= AtMarket.capacity
     /\ \A g \in AtMarket.goods : Trade!Units(x.hold, g) = x.net[g]}

\* A stack less in the hold, and its units less on record.
LEMMA BooksAfterRemoval ==
  ASSUME NEW h, NEW n, [hold |-> h, net |-> n] \in Books,
         NEW k \in Seq(Trade!Stacks), NEW g \in AtMarket.goods, NEW q \in Nat,
         \A some : Trade!Held(h, some) =
                     Trade!Held(k, some) + (IF g \in some THEN q ELSE 0)
  PROVE  [hold |-> k, net |-> [n EXCEPT ![g] = @ - q]] \in Books
<1>1. /\ h \in Seq(Trade!Stacks) /\ n \in [AtMarket.goods -> Int]
      /\ Trade!Held(h, AtMarket.goods) <= AtMarket.capacity
      /\ \A f \in AtMarket.goods : Trade!Held(h, {f}) = n[f]
  BY DEF Books, Trade!Units
<1>2. ASSUME NEW some
      PROVE  Trade!Held(h, some) \in Nat /\ Trade!Held(k, some) \in Nat
  BY <1>1, HeldIsNumber
<1>3. Trade!Held(k, AtMarket.goods) <= AtMarket.capacity
  <2>1. Trade!Held(h, AtMarket.goods) = Trade!Held(k, AtMarket.goods) + q
    BY Zenon
  <2>2. Trade!Held(h, AtMarket.goods) \in Nat /\ Trade!Held(k, AtMarket.goods) \in Nat
    BY <1>2
  <2> QED
    BY <1>1, <2>1, <2>2, MarketFacts
<1>4. ASSUME NEW f \in AtMarket.goods
      PROVE  Trade!Held(k, {f}) = [n EXCEPT ![g] = @ - q][f]
  <2>1. Trade!Held(h, {f}) \in Nat /\ Trade!Held(k, {f}) \in Nat /\ Trade!Held(h, {f}) = n[f]
    BY <1>1, <1>2
  <2>2. Trade!Held(h, {f}) = Trade!Held(k, {f}) + (IF g \in {f} THEN q ELSE 0)
    BY Zenon
  <2> QED
    BY <1>1, <2>1, <2>2
<1>5. [n EXCEPT ![g] = @ - q] \in [AtMarket.goods -> Int]
  BY <1>1
<1> QED
  BY <1>3, <1>4, <1>5 DEF Books, Trade!Units

\* Units more in the hold, and on record.
LEMMA BooksAfterAddition ==
  ASSUME NEW h, NEW n, [hold |-> h, net |-> n] \in Books,
         NEW g \in AtMarket.goods, NEW q \in Nat \ {0}, NEW p \in Nat,
         q <= Trade!Free(h)
  PROVE  [hold |-> Trade!Added(h, g, q, p), net |-> [n EXCEPT ![g] = @ + q]] \in Books
<1> DEFINE k == Trade!Added(h, g, q, p)
<1>1. /\ h \in Seq(Trade!Stacks) /\ n \in [AtMarket.goods -> Int]
      /\ Trade!Held(h, AtMarket.goods) <= AtMarket.capacity
      /\ \A f \in AtMarket.goods : Trade!Held(h, {f}) = n[f]
  BY DEF Books, Trade!Units
<1>2. /\ k \in Seq(Trade!Stacks)
      /\ \A some : Trade!Held(k, some) =
           Trade!Held(h, some) + (IF g \in some THEN q ELSE 0)
  <2>1. h \in Seq(Trade!Stacks)
    BY <1>1
  <2> SUFFICES ASSUME NEW some
               PROVE  /\ k \in Seq(Trade!Stacks)
                      /\ Trade!Held(k, some) =
                           Trade!Held(h, some) + (IF g \in some THEN q ELSE 0)
    OBVIOUS
  <2> QED
    BY <2>1, HeldAdded
<1> HIDE DEF k
<1>3. Trade!Held(h, AtMarket.goods) \in Nat
  BY <1>1, HeldIsNumber
<1>4. Trade!Held(k, AtMarket.goods) <= AtMarket.capacity
  <2>1. Trade!Held(k, AtMarket.goods) = Trade!Held(h, AtMarket.goods) + q
    BY <1>2, Zenon
  <2>2. q <= AtMarket.capacity - Trade!Held(h, AtMarket.goods)
    BY DEF Trade!Free
  <2> QED
    BY <1>3, <2>1, <2>2, MarketFacts
<1>5. ASSUME NEW f \in AtMarket.goods
      PROVE  Trade!Held(k, {f}) = [n EXCEPT ![g] = @ + q][f]
  <2>1. Trade!Held(h, {f}) = n[f]
    BY <1>1
  <2>2. Trade!Held(k, {f}) = Trade!Held(h, {f}) + (IF g \in {f} THEN q ELSE 0)
    BY <1>2, Zenon
  <2> QED
    BY <1>1, <2>1, <2>2
<1>6. [n EXCEPT ![g] = @ + q] \in [AtMarket.goods -> Int]
  BY <1>1
<1> QED
  BY <1>2, <1>4, <1>5, <1>6 DEF Books, Trade!Units, k

\* A sale of what CanSell allows.
LEMMA BooksAfterSale ==
  ASSUME NEW h, NEW n, [hold |-> h, net |-> n] \in Books,
         NEW g \in AtMarket.goods, NEW q \in Nat \ {0}, NEW y, Trade!CanSell(h, g, q, y)
  PROVE  [hold |-> Trade!Removed(h, g, q), net |-> [n EXCEPT ![g] = @ - q]] \in Books
<1> DEFINE any == {i \in DOMAIN h : h[i].good = g}
           m == Trade!Min(any)
           k == Trade!Removed(h, g, q)
<1>1. h \in Seq(Trade!Stacks)
  BY DEF Books
<1>2. any # {} /\ h[m].qty >= q /\ any \subseteq Nat
  BY <1>1 DEF Trade!CanSell
<1>3. m \in any
  BY <1>2, FirstPlace
<1>4. m \in DOMAIN h /\ h[m].good = g
  BY <1>3
<1> HIDE DEF m, any
<1>5. /\ k \in Seq(Trade!Stacks)
      /\ \A some : Trade!Held(h, some) =
                     Trade!Held(k, some) + (IF g \in some THEN q ELSE 0)
  <2>1. h[m].qty >= q /\ m \in DOMAIN h /\ h[m].good = g
    BY <1>2, <1>4
  <2>2. k \in Seq(Trade!Stacks)
    BY <1>1, <2>1, HeldRemoved
  <2>3. ASSUME NEW some
        PROVE  Trade!Held(h, some) =
                 Trade!Held(k, some) + (IF g \in some THEN q ELSE 0)
    BY <1>1, <2>1, HeldRemoved
  <2> QED
    BY <2>2, <2>3
<1> HIDE DEF k
<1>6. [hold |-> k, net |-> [n EXCEPT ![g] = @ - q]] \in Books
  BY <1>5, BooksAfterRemoval
<1> QED
  BY <1>6 DEF k

\* What an NPC has in hand while it sells.
Ledgers ==
  {x \in [hold : Seq(Trade!Stacks), credits : Nat, net : [AtMarket.goods -> Int]] :
     [hold |-> x.hold, net |-> x.net] \in Books}

\* A turn of the selling loop keeps the books.
LEMMA LedgerAfterSale ==
  ASSUME NEW x \in Ledgers, NEW k \in Trade!Stacks, NEW y
  PROVE  Trade!NpcSells(y, x, k) \in Ledgers
<1> DEFINE q == Trade!Least(k.qty, 3)
           r == Trade!Removed(x.hold, k.good, q)
           n == [x.net EXCEPT ![k.good] = @ - q]
           c == x.credits + q * Trade!Price(k.good, y)
           z == [hold |-> r, credits |-> c, net |-> n]
<1>1. q \in Nat \ {0} /\ k.good \in AtMarket.goods
  BY DEF Trade!Stacks, Trade!Least
<1>2. /\ x.hold \in Seq(Trade!Stacks) /\ x.net \in [AtMarket.goods -> Int]
      /\ x.credits \in Nat /\ [hold |-> x.hold, net |-> x.net] \in Books
  BY DEF Ledgers
<1>3. Trade!NpcSells(y, x, k) = x \/
        (Trade!CanSell(x.hold, k.good, q, y) /\ Trade!NpcSells(y, x, k) = z)
  BY Zenon DEF Trade!NpcSells
<1> HIDE DEF q
<1>4. c \in Nat
  <2>1. Trade!Price(k.good, y) \in Nat
    BY PricesAreNumbers
  <2> QED
    BY <1>1, <1>2, <2>1, SMTT(20)
<1>5. CASE Trade!CanSell(x.hold, k.good, q, y)
  <2>1. [hold |-> r, net |-> n] \in Books
    BY <1>1, <1>2, <1>5, BooksAfterSale
  <2>2. r \in Seq(Trade!Stacks) /\ n \in [AtMarket.goods -> Int]
    BY <2>1 DEF Books
  <2> HIDE DEF r, n, c
  <2>3. z \in Ledgers
    BY <1>4, <2>1, <2>2 DEF Ledgers
  <2> QED
    BY <1>3, <2>3
<1> QED
  BY <1>3, <1>5

\* The selling loop of an NPC.
SellingLoop(h, c, n, y) ==
  LET loop[i \in 0..Len(h)] ==
        IF i = 0 THEN [hold |-> h, credits |-> c, net |-> n]
        ELSE Trade!NpcSells(y, loop[i - 1], h[i])
  IN loop[Len(h)]

\* It keeps the books.
LEMMA SellingKeepsBooks ==
  ASSUME NEW h, NEW c \in Nat, NEW n, NEW y, [hold |-> h, net |-> n] \in Books
  PROVE  SellingLoop(h, c, n, y) \in Ledgers
<1> DEFINE ground == [hold |-> h, credits |-> c, net |-> n]
           loop == CHOOSE f : f = [i \in 0..Len(h) |->
                     IF i = 0 THEN ground ELSE Trade!NpcSells(y, f[i - 1], h[i])]
<1>1. SellingLoop(h, c, n, y) = loop[Len(h)]
  BY DEF SellingLoop
<1>2. h \in Seq(Trade!Stacks) /\ n \in [AtMarket.goods -> Int]
  BY DEF Books
<1>3. Len(h) \in Nat /\ \A i \in 1..Len(h) : h[i] \in Trade!Stacks
  BY <1>2
<1>4. ground \in Ledgers
  BY <1>2 DEF Ledgers
<1> HIDE DEF ground
<1>5. \E f : f = [i \in 0..Len(h) |->
                     IF i = 0 THEN ground ELSE Trade!NpcSells(y, f[i - 1], h[i])]
  <2> DEFINE F == [x \in (1..Len(h)) \X Ledgers |-> Trade!NpcSells(y, x[2], h[x[1]])]
             S == [i \in 0..Len(h) |-> Ledgers]
  <2>1. ASSUME NEW i \in 1..Len(h), NEW x \in Ledgers
        PROVE  /\ F[<<i, x>>] = Trade!NpcSells(y, x, h[i])
               /\ F[<<i, x>>] \in Ledgers
    <3>1. F[<<i, x>>] = Trade!NpcSells(y, x, h[i])
      OBVIOUS
    <3> QED
      BY <1>3, <3>1, LedgerAfterSale
  <2>2. \A i \in 0..Len(h) : S[i] = Ledgers
    OBVIOUS
  <2> HIDE DEF F, S
  <2>3. \A i \in 1..Len(h) : i \in 0..Len(h) /\ i - 1 \in 0..Len(h)
    BY <1>3
  <2>4. PassesStay(Len(h), S, F)
    BY <2>1, <2>2, <2>3 DEF PassesStay
  <2>5. ground \in S[0]
    BY <1>3, <1>4, <2>2
  <2>6. PICK f : Passes(f, Len(h), S, ground, F)
    BY <1>3, <2>4, <2>5, LoopEnds
  <2>7. \A i \in 0..Len(h) : i # 0 => i \in 1..Len(h)
    BY <1>3
  <2>8. \A i \in 0..Len(h) :
          f[i] = IF i = 0 THEN ground ELSE Trade!NpcSells(y, f[i - 1], h[i])
    BY <2>1, <2>2, <2>3, <2>6, <2>7 DEF Passes
  <2>9. f = [i \in 0..Len(h) |-> f[i]]
    BY <2>6 DEF Passes
  <2> QED
    BY <2>8, <2>9, Zenon
<1>6. loop = [i \in 0..Len(h) |->
                IF i = 0 THEN ground ELSE Trade!NpcSells(y, loop[i - 1], h[i])]
  BY <1>5
<1> HIDE DEF loop
<1> DEFINE T == {i \in 0..Len(h) : loop[i] \in Ledgers}
<1>7. 0 \in T
  BY <1>3, <1>4, <1>6
<1>8. ASSUME NEW i \in 1..Len(h), i - 1 \in T
      PROVE  i \in T
  <2>1. loop[i] = Trade!NpcSells(y, loop[i - 1], h[i]) /\ i \in 0..Len(h)
    BY <1>3, <1>6
  <2>2. loop[i - 1] \in Ledgers /\ h[i] \in Trade!Stacks
    BY <1>3, <1>8
  <2> QED
    BY <2>1, <2>2, LedgerAfterSale
<1>9. Len(h) \in T
  <2> HIDE DEF T
  <2>1. Len(h) \in 0..Len(h)
    BY <1>3
  <2> QED
    BY <1>3, <1>7, <1>8, <2>1, Induction
<1> QED
  BY <1>1, <1>9

\* The loop over the stacks pirates take.
RobbingLoop(h, n, pops) ==
  LET loop[i \in 0..Len(pops)] ==
        IF i = 0 THEN [hold |-> h, net |-> n]
        ELSE Trade!Popped(loop[i - 1], pops[i])
  IN loop[Len(pops)]

\* A stack popped is off the books.
LEMMA BooksAfterPop ==
  ASSUME NEW x \in Books, NEW m \in DOMAIN x.hold
  PROVE  /\ Trade!Popped(x, m) \in Books
         /\ Len(Trade!Popped(x, m).hold) = Len(x.hold) - 1
<1> DEFINE h == x.hold
           k == Trade!RemoveAt(h, m)
<1>1. /\ h \in Seq(Trade!Stacks) /\ x.net \in [AtMarket.goods -> Int]
      /\ [hold |-> h, net |-> x.net] \in Books
  BY DEF Books
<1> HIDE DEF k
<1>2. m \in DOMAIN h /\ h[m] \in Trade!Stacks
  BY <1>1
<1>3. h[m].good \in AtMarket.goods /\ h[m].qty \in Nat
  BY <1>2 DEF Trade!Stacks
<1> HIDE DEF h
<1>4. k \in Seq(Trade!Stacks) /\ Len(k) = Len(h) - 1
  <2> SUFFICES ASSUME NEW some PROVE k \in Seq(Trade!Stacks) /\ Len(k) = Len(h) - 1
    OBVIOUS
  <2> QED
    BY <1>1, <1>2, HeldTaken DEF k
<1>5. ASSUME NEW some
      PROVE  Trade!Held(h, some) =
               Trade!Held(k, some) + (IF h[m].good \in some THEN h[m].qty ELSE 0)
  BY <1>1, <1>2, HeldTaken DEF k, Worth
<1>6. [hold |-> k, net |-> [x.net EXCEPT ![h[m].good] = @ - h[m].qty]] \in Books
  BY <1>1, <1>3, <1>4, <1>5, BooksAfterRemoval
<1> QED
  BY <1>4, <1>6 DEF Trade!Popped, h, k

\* So is all that pirates take.
LEMMA RobbingKeepsBooks ==
  ASSUME NEW h, NEW n, [hold |-> h, net |-> n] \in Books,
         NEW k \in 0..3, NEW pops \in [1..k -> DOMAIN h],
         \A i \in DOMAIN pops : pops[i] <= Len(h) - i + 1
  PROVE  RobbingLoop(h, n, pops) \in Books
<1> DEFINE ground == [hold |-> h, net |-> n]
           loop == CHOOSE f : f = [i \in 0..Len(pops) |->
                     IF i = 0 THEN ground ELSE Trade!Popped(f[i - 1], pops[i])]
           Left(i) == {x \in Books : Len(x.hold) = Len(h) - i}
<1>1. RobbingLoop(h, n, pops) = loop[Len(pops)]
  BY DEF RobbingLoop
<1>2. h \in Seq(Trade!Stacks) /\ n \in [AtMarket.goods -> Int]
  BY DEF Books
<1>3. /\ Len(pops) = k /\ k \in Nat /\ Len(h) \in Nat
      /\ \A i \in 1..k : pops[i] \in 1..Len(h) - i + 1
  <2>1. Len(h) \in Nat /\ DOMAIN h = 1..Len(h)
    BY <1>2
  <2>2. DOMAIN pops = 1..k /\ k \in Nat
    OBVIOUS
  <2>3. Len(pops) = k
    BY <2>2
  <2>4. ASSUME NEW i \in 1..k
        PROVE  pops[i] \in 1..Len(h) - i + 1
    <3>1. pops[i] \in 1..Len(h) /\ pops[i] <= Len(h) - i + 1
      BY <2>1, <2>2
    <3> QED
      BY <2>1, <3>1
  <2> QED
    BY <2>1, <2>2, <2>3, <2>4
<1>4. ground \in Left(0)
  BY <1>2, <1>3
<1> HIDE DEF ground
<1>5. ASSUME NEW i \in 1..k, NEW x \in Left(i - 1)
      PROVE  Trade!Popped(x, pops[i]) \in Left(i)
  <2>1. x \in Books /\ Len(x.hold) = Len(h) - (i - 1) /\ x.hold \in Seq(Trade!Stacks)
    BY DEF Books
  <2>2. pops[i] \in DOMAIN x.hold
    BY <1>3, <2>1
  <2>3. Trade!Popped(x, pops[i]) \in Books /\
          Len(Trade!Popped(x, pops[i]).hold) = Len(x.hold) - 1
    BY <2>1, <2>2, BooksAfterPop
  <2> QED
    BY <1>3, <2>1, <2>3
<1>6. \E f : f = [i \in 0..k |->
                     IF i = 0 THEN ground ELSE Trade!Popped(f[i - 1], pops[i])]
  <2> DEFINE F == [x \in (1..k) \X Books |-> Trade!Popped(x[2], pops[x[1]])]
             S == [i \in 0..k |-> Left(i)]
  <2>1. ASSUME NEW i \in 1..k, NEW x \in Left(i - 1)
        PROVE  F[<<i, x>>] = Trade!Popped(x, pops[i])
    <3>1. x \in Books
      OBVIOUS
    <3> QED
      BY <3>1
  <2>2. \A i \in 0..k : S[i] = Left(i)
    OBVIOUS
  <2> HIDE DEF F, S, Left
  <2>3. \A i \in 1..k : i \in 0..k /\ i - 1 \in 0..k
    BY <1>3
  <2>4. PassesStay(k, S, F)
    <3> SUFFICES ASSUME NEW i \in 1..k, NEW x \in S[i - 1] PROVE F[<<i, x>>] \in S[i]
      BY DEF PassesStay
    <3>1. x \in Left(i - 1) /\ S[i] = Left(i)
      BY <2>2, <2>3
    <3> QED
      BY <1>5, <2>1, <3>1
  <2>5. ground \in S[0]
    BY <1>3, <1>4, <2>2
  <2>6. PICK f : Passes(f, k, S, ground, F)
    BY <1>3, <2>4, <2>5, LoopEnds
  <2>7. \A i \in 0..k : i # 0 => i \in 1..k
    BY <1>3
  <2>8. \A i \in 0..k :
          f[i] = IF i = 0 THEN ground ELSE Trade!Popped(f[i - 1], pops[i])
    BY <2>1, <2>2, <2>3, <2>6, <2>7 DEF Passes
  <2>9. f = [i \in 0..k |-> f[i]]
    BY <2>6 DEF Passes
  <2> QED
    BY <2>8, <2>9, Zenon
<1>7. loop = [i \in 0..k |->
                IF i = 0 THEN ground ELSE Trade!Popped(loop[i - 1], pops[i])]
  BY <1>3, <1>6
<1> HIDE DEF loop
<1> DEFINE T == {i \in 0..k : loop[i] \in Left(i)}
<1> HIDE DEF Left
<1>8. 0 \in T
  BY <1>3, <1>4, <1>7
<1>9. ASSUME NEW i \in 1..k, i - 1 \in T
      PROVE  i \in T
  <2>1. loop[i] = Trade!Popped(loop[i - 1], pops[i]) /\ i \in 0..k
    BY <1>3, <1>7
  <2>2. loop[i - 1] \in Left(i - 1)
    BY <1>9
  <2> QED
    BY <1>5, <2>1, <2>2
<1>10. k \in T
  <2> HIDE DEF T
  <2>1. k \in 0..k
    BY <1>3
  <2> QED
    BY <1>3, <1>8, <1>9, <2>1, Induction
<1> QED
  BY <1>1, <1>3, <1>10 DEF Left

\* The loop over the stacks of a loser.
LootingLoop(ha, hd) ==
  LET loop[i \in 0..Len(hd)] ==
        IF i = 0 THEN [winner |-> ha, loser |-> hd,
                       taken |-> [g \in AtMarket.goods |-> 0]]
        ELSE Trade!Plunder(loop[i - 1], hd[i])
  IN loop[Len(hd)]

\* What is left from place i on is what was there, moved down by some places.
Untouched(now, old, i) ==
  \E e \in 0..i : /\ Len(now) = Len(old) - e
                  /\ \A j \in i + 1..Len(old) : now[j - e] = old[j]

\* Winner and loser after i passes.
Shares(ha, hd, i) ==
  {x \in [winner : Seq(Trade!Stacks), loser : Seq(Trade!Stacks),
          taken : [AtMarket.goods -> Int]] :
     /\ Trade!Held(x.winner, AtMarket.goods) <= AtMarket.capacity
     /\ Trade!Held(x.loser, AtMarket.goods) <= AtMarket.capacity
     /\ \A g \in AtMarket.goods :
          /\ Trade!Held(x.winner, {g}) = Trade!Held(ha, {g}) + x.taken[g]
          /\ Trade!Held(x.loser, {g}) = Trade!Held(hd, {g}) - x.taken[g]
     /\ Untouched(x.loser, hd, i)}

\* A stack that is removed, or made smaller, leaves those behind it alone.
LEMMA StillUntouched ==
  ASSUME NEW now \in Seq(Trade!Stacks), NEW old \in Seq(Trade!Stacks),
         NEW k \in Seq(Trade!Stacks),
         NEW i \in 1..Len(old), NEW e \in 0..i - 1,
         Len(now) = Len(old) - e,
         \A j \in i..Len(old) : now[j - e] = old[j],
         \/ Len(k) = Len(now) /\ \A j \in 1..Len(now) : j > i - e => k[j] = now[j]
         \/ Len(k) = Len(now) - 1 /\ \A j \in 1..Len(now) : j > i - e => k[j - 1] = now[j]
  PROVE  Untouched(k, old, i)
<1>1. Len(now) \in Nat /\ Len(old) \in Nat
  OBVIOUS
<1>2. CASE Len(k) = Len(now) /\ \A j \in 1..Len(now) : j > i - e => k[j] = now[j]
  <2>1. e \in 0..i
    BY <1>1
  <2>2. ASSUME NEW j \in i + 1..Len(old)
        PROVE  k[j - e] = old[j]
    <3>1. j \in i..Len(old) /\ j - e \in 1..Len(now) /\ j - e > i - e
      BY <1>1
    <3> QED
      BY <1>2, <3>1
  <2> QED
    BY <1>2, <2>1, <2>2 DEF Untouched
<1>3. CASE Len(k) = Len(now) - 1 /\ \A j \in 1..Len(now) : j > i - e => k[j - 1] = now[j]
  <2>1. e + 1 \in 0..i /\ Len(k) = Len(old) - (e + 1)
    BY <1>1, <1>3
  <2>2. ASSUME NEW j \in i + 1..Len(old)
        PROVE  k[j - (e + 1)] = old[j]
    <3>1. j \in i..Len(old) /\ j - e \in 1..Len(now) /\ j - e > i - e
          /\ j - (e + 1) = (j - e) - 1
      BY <1>1
    <3>2. k[(j - e) - 1] = now[j - e] /\ now[j - e] = old[j]
      BY <1>3, <3>1
    <3> QED
      BY <3>1, <3>2
  <2> QED
    BY <2>1, <2>2 DEF Untouched
<1> QED
  BY <1>2, <1>3

\* The units that count among some goods.
Part(g, q, some) == IF g \in some THEN q ELSE 0

\* The addition again, quantified.
LEMMA AddedToAny ==
  \A some : \A h \in Seq(Trade!Stacks), g \in AtMarket.goods, q \in Nat \ {0}, p \in Nat :
    /\ Trade!Added(h, g, q, p) \in Seq(Trade!Stacks)
    /\ Trade!Held(Trade!Added(h, g, q, p), some) =
         Trade!Held(h, some) + Part(g, q, some)
BY HeldAdded DEF Part

\* Some units from one hold to another.
LEMMA UnitsMove ==
  ASSUME NEW w, NEW xw, NEW l, NEW xl, NEW ha, NEW hd, NEW some,
         NEW u \in Int, NEW d \in Nat,
         Trade!Held(l, some) \in Nat,
         Trade!Held(ha, some) \in Nat, Trade!Held(hd, some) \in Nat,
         Trade!Held(w, some) = Trade!Held(xw, some) + d,
         Trade!Held(xl, some) = Trade!Held(l, some) + d,
         Trade!Held(xw, some) = Trade!Held(ha, some) + u,
         Trade!Held(xl, some) = Trade!Held(hd, some) - u
  PROVE  /\ Trade!Held(w, some) = Trade!Held(ha, some) + (u + d)
         /\ Trade!Held(l, some) = Trade!Held(hd, some) - (u + d)
OBVIOUS

\* A pass of the loop moves what it takes from the one to the other.
LEMMA SharesAfterPlunder ==
  ASSUME NEW ha \in Seq(Trade!Stacks), NEW hd \in Seq(Trade!Stacks),
         NEW i \in 1..Len(hd), NEW x \in Shares(ha, hd, i - 1)
  PROVE  Trade!Plunder(x, hd[i]) \in Shares(ha, hd, i)
<1> DEFINE item == hd[i]
           g == item.good
           q == IF item.qty \div 5 > 1 THEN item.qty \div 5 ELSE 1
           w == Trade!Added(x.winner, g, q, item.price)
           l == Trade!Removed(x.loser, g, q)
           t == [x.taken EXCEPT ![g] = @ + q]
           z == [winner |-> w, loser |-> l, taken |-> t]
<1>1. item \in Trade!Stacks /\ Len(hd) \in Nat
  OBVIOUS
<1>2. /\ g \in AtMarket.goods /\ q \in Nat \ {0} /\ q <= item.qty
      /\ item.price \in Nat
  <2>1. /\ item.qty \in Nat \ {0} /\ item.good \in AtMarket.goods
        /\ item.price \in Nat
    BY <1>1 DEF Trade!Stacks
  <2> HIDE DEF item
  <2>2. item.qty \div 5 \in Nat /\ item.qty \div 5 <= item.qty
    BY <2>1
  <2> QED
    BY <2>1, <2>2
<1>3. /\ x.winner \in Seq(Trade!Stacks) /\ x.loser \in Seq(Trade!Stacks)
      /\ x.taken \in [AtMarket.goods -> Int]
      /\ Trade!Held(x.winner, AtMarket.goods) <= AtMarket.capacity
      /\ Trade!Held(x.loser, AtMarket.goods) <= AtMarket.capacity
      /\ \A f \in AtMarket.goods :
           /\ Trade!Held(x.winner, {f}) = Trade!Held(ha, {f}) + x.taken[f]
           /\ Trade!Held(x.loser, {f}) = Trade!Held(hd, {f}) - x.taken[f]
      /\ Untouched(x.loser, hd, i - 1)
  BY DEF Shares
<1>4. PICK e \in 0..i - 1 :
        /\ Len(x.loser) = Len(hd) - e
        /\ \A j \in (i - 1) + 1..Len(hd) : x.loser[j - e] = hd[j]
  BY <1>3 DEF Untouched
<1>5. \A j \in i..Len(hd) : x.loser[j - e] = hd[j]
  BY <1>1, <1>4
<1>6. Trade!Plunder(x, item) = IF q > Trade!Free(x.winner) THEN x ELSE z
  BY Zenon DEF Trade!Plunder
<1>7. x \in Shares(ha, hd, i)
  <2>1. Untouched(x.loser, hd, i)
    <3>1. e \in 0..i /\ \A j \in i + 1..Len(hd) : j \in i..Len(hd)
      BY <1>1
    <3> QED
      BY <1>4, <1>5, <3>1 DEF Untouched
  <2> QED
    BY <2>1 DEF Shares
<1>8. CASE q <= Trade!Free(x.winner)
  <2>1. i - e \in DOMAIN x.loser /\ x.loser[i - e] = item
    <3>1. i - e \in 1..Len(x.loser) /\ i \in i..Len(hd)
      BY <1>1, <1>4
    <3> QED
      BY <1>3, <1>5, <3>1
  <2>2. x.loser[i - e].good = g /\ x.loser[i - e].qty >= q
    BY <1>2, <2>1
  <2> HIDE DEF item, g, q
  <2>3. /\ l \in Seq(Trade!Stacks)
        /\ \A some : Trade!Held(x.loser, some) =
                       Trade!Held(l, some) + Part(g, q, some)
        /\ \/ Len(l) = Len(x.loser)
              /\ \A j \in 1..Len(x.loser) : j > i - e => l[j] = x.loser[j]
           \/ Len(l) = Len(x.loser) - 1
              /\ \A j \in 1..Len(x.loser) : j > i - e => l[j - 1] = x.loser[j]
    <3>1. /\ x.loser \in Seq(Trade!Stacks) /\ i - e \in DOMAIN x.loser
          /\ x.loser[i - e].good = g /\ x.loser[i - e].qty >= q /\ q \in Nat \ {0}
      BY <1>2, <1>3, <2>1, <2>2
    <3> DEFINE h == x.loser
               m == i - e
    <3>2. h \in Seq(Trade!Stacks) /\ m \in DOMAIN h /\ h[m].good = g /\ h[m].qty >= q
      BY <3>1
    <3> HIDE DEF h, m
    <3>3. Trade!Removed(h, g, q) \in Seq(Trade!Stacks)
      BY <3>1, <3>2, HeldRemoved
    <3>4. ASSUME NEW some
          PROVE  Trade!Held(h, some) =
                   Trade!Held(Trade!Removed(h, g, q), some) + Part(g, q, some)
      BY <3>1, <3>2, HeldRemoved DEF Part
    <3>5. LET r == Trade!Removed(h, g, q) IN
          \/ Len(r) = Len(h) /\ \A j \in 1..Len(h) : j > m => r[j] = h[j]
          \/ Len(r) = Len(h) - 1 /\ \A j \in 1..Len(h) : j > m => r[j - 1] = h[j]
      BY <3>1, <3>2, HeldRemoved, SMTT(20)
    <3> QED
      BY <3>3, <3>4, <3>5 DEF h, m
  <2>4. Untouched(l, hd, i)
    <3> HIDE DEF l
    <3> QED
      BY <1>3, <1>4, <1>5, <2>3, StillUntouched
  <2>5. ASSUME NEW some
        PROVE  /\ w \in Seq(Trade!Stacks)
               /\ Trade!Held(w, some) = Trade!Held(x.winner, some) + Part(g, q, some)
    <3>1. item.price \in Nat /\ x.winner \in Seq(Trade!Stacks)
      BY <1>2, <1>3
    <3>2. g \in AtMarket.goods /\ q \in Nat \ {0}
      BY <1>2
    <3> QED
      BY <3>1, <3>2, AddedToAny, Zenon
  <2> HIDE DEF w, l
  <2>6. /\ \A some : Trade!Held(x.winner, some) \in Nat
        /\ \A some : Trade!Held(x.loser, some) \in Nat
        /\ \A some : Trade!Held(l, some) \in Nat
        /\ \A some : Trade!Held(ha, some) \in Nat
        /\ \A some : Trade!Held(hd, some) \in Nat
    <3> SUFFICES ASSUME NEW some
                 PROVE  /\ Trade!Held(x.winner, some) \in Nat
                        /\ Trade!Held(x.loser, some) \in Nat
                        /\ Trade!Held(l, some) \in Nat
                        /\ Trade!Held(ha, some) \in Nat
                        /\ Trade!Held(hd, some) \in Nat
      OBVIOUS
    <3> QED
      BY <1>3, <2>3, HeldIsNumber
  <2>7. Trade!Held(w, AtMarket.goods) <= AtMarket.capacity
    <3>1. Trade!Held(w, AtMarket.goods) = Trade!Held(x.winner, AtMarket.goods) + q
      BY <1>2, <2>5, Zenon DEF Part
    <3>2. q <= AtMarket.capacity - Trade!Held(x.winner, AtMarket.goods)
      BY <1>8 DEF Trade!Free
    <3>3. Trade!Held(x.winner, AtMarket.goods) \in Nat
      BY <2>6
    <3> QED
      BY <1>2, <3>1, <3>2, <3>3, MarketFacts
  <2>8. Trade!Held(l, AtMarket.goods) <= AtMarket.capacity
    <3>1. Trade!Held(x.loser, AtMarket.goods) = Trade!Held(l, AtMarket.goods) + q
      BY <1>2, <2>3, Zenon DEF Part
    <3>2. Trade!Held(x.loser, AtMarket.goods) \in Nat /\ Trade!Held(l, AtMarket.goods) \in Nat
      BY <2>6
    <3> QED
      BY <1>2, <1>3, <3>1, <3>2, MarketFacts
  <2>9. t \in [AtMarket.goods -> Int] /\ \A f \in AtMarket.goods :
          t[f] = x.taken[f] + Part(g, q, {f})
    BY <1>2, <1>3 DEF Part
  <2> HIDE DEF t
  <2>10. ASSUME NEW f \in AtMarket.goods
         PROVE  /\ Trade!Held(w, {f}) = Trade!Held(ha, {f}) + t[f]
                /\ Trade!Held(l, {f}) = Trade!Held(hd, {f}) - t[f]
    <3>1. /\ Trade!Held(x.winner, {f}) = Trade!Held(ha, {f}) + x.taken[f]
          /\ Trade!Held(x.loser, {f}) = Trade!Held(hd, {f}) - x.taken[f]
          /\ x.taken[f] \in Int
      BY <1>3
    <3>2. Trade!Held(w, {f}) = Trade!Held(x.winner, {f}) + Part(g, q, {f})
      BY <2>5
    <3>3. Trade!Held(x.loser, {f}) = Trade!Held(l, {f}) + Part(g, q, {f})
      BY <2>3, Zenon
    <3>4. /\ Trade!Held(l, {f}) \in Nat
          /\ Trade!Held(ha, {f}) \in Nat /\ Trade!Held(hd, {f}) \in Nat
      BY <2>6
    <3>5. Part(g, q, {f}) \in Nat
      BY <1>2 DEF Part
    <3>6. /\ Trade!Held(w, {f}) = Trade!Held(ha, {f}) + (x.taken[f] + Part(g, q, {f}))
          /\ Trade!Held(l, {f}) = Trade!Held(hd, {f}) - (x.taken[f] + Part(g, q, {f}))
      BY <3>1, <3>2, <3>3, <3>4, <3>5, UnitsMove, SMTT(20)
    <3> QED
      BY <2>9, <3>6, Zenon
  <2>11. z \in Shares(ha, hd, i)
    BY <2>3, <2>4, <2>5, <2>7, <2>8, <2>9, <2>10 DEF Shares
  <2>12. ~(q > Trade!Free(x.winner))
    <3>1. Trade!Free(x.winner) \in Int
      <4>1. Trade!Held(x.winner, AtMarket.goods) \in Nat
        BY <2>6
      <4> QED
        BY <4>1, MarketFacts DEF Trade!Free
    <3> QED
      BY <1>2, <1>8, <3>1
  <2> QED
    BY <1>6, <2>11, <2>12 DEF item
<1>9. CASE ~(q <= Trade!Free(x.winner))
  <2>1. Trade!Free(x.winner) \in Int
    <3>1. Trade!Held(x.winner, AtMarket.goods) \in Nat
      BY <1>3, HeldIsNumber
    <3> QED
      BY <3>1, MarketFacts DEF Trade!Free
  <2> HIDE DEF q, item, z
  <2>2. q > Trade!Free(x.winner)
    BY <1>2, <1>9, <2>1
  <2> QED
    BY <1>6, <1>7, <2>2 DEF item
<1> QED
  BY <1>8, <1>9

\* So does the loop.
LEMMA LootingMovesUnits ==
  ASSUME NEW ha \in Seq(Trade!Stacks), NEW hd \in Seq(Trade!Stacks),
         Trade!Held(ha, AtMarket.goods) <= AtMarket.capacity,
         Trade!Held(hd, AtMarket.goods) <= AtMarket.capacity
  PROVE  LootingLoop(ha, hd) \in Shares(ha, hd, Len(hd))
<1> DEFINE ground == [winner |-> ha, loser |-> hd,
                    taken |-> [g \in AtMarket.goods |-> 0]]
           k == Len(hd)
           loop == CHOOSE f : f = [i \in 0..k |->
                     IF i = 0 THEN ground ELSE Trade!Plunder(f[i - 1], hd[i])]
           All == UNION {Shares(ha, hd, i) : i \in 0..k}
<1>1. LootingLoop(ha, hd) = loop[k]
  BY DEF LootingLoop
<1>3. k \in Nat
  OBVIOUS
<1>4. ground \in Shares(ha, hd, 0)
  <2>1. Untouched(hd, hd, 0)
    <3>1. 0 \in 0..0 /\ Len(hd) = Len(hd) - 0 /\ \A j \in 0 + 1..Len(hd) : hd[j - 0] = hd[j]
      OBVIOUS
    <3> QED
      BY <3>1 DEF Untouched
  <2>2. ASSUME NEW f \in AtMarket.goods
        PROVE  /\ Trade!Held(ha, {f}) = Trade!Held(ha, {f}) + ground.taken[f]
               /\ Trade!Held(hd, {f}) = Trade!Held(hd, {f}) - ground.taken[f]
    <3>1. Trade!Held(ha, {f}) \in Nat /\ Trade!Held(hd, {f}) \in Nat
      BY HeldIsNumber
    <3> QED
      BY <3>1
  <2>3. ground \in [winner : Seq(Trade!Stacks), loser : Seq(Trade!Stacks),
                  taken : [AtMarket.goods -> Int]]
    OBVIOUS
  <2>4. ground.winner = ha /\ ground.loser = hd
    OBVIOUS
  <2> HIDE DEF ground
  <2> QED
    BY <2>1, <2>2, <2>3, <2>4 DEF Shares
<1> HIDE DEF ground
<1>6. \E f : f = [i \in 0..k |->
                     IF i = 0 THEN ground ELSE Trade!Plunder(f[i - 1], hd[i])]
  <2> DEFINE F == [x \in (1..k) \X All |-> Trade!Plunder(x[2], hd[x[1]])]
             S == [i \in 0..k |-> Shares(ha, hd, i)]
  <2>1. ASSUME NEW i \in 1..k, NEW x \in Shares(ha, hd, i - 1)
        PROVE  F[<<i, x>>] = Trade!Plunder(x, hd[i])
    <3>1. i - 1 \in 0..k
      BY <1>3
    <3>2. x \in All
      BY <3>1
    <3> QED
      BY <3>2
  <2>2. \A i \in 0..k : S[i] = Shares(ha, hd, i)
    OBVIOUS
  <2> HIDE DEF F, S, k
  <2>3. \A i \in 1..k : i \in 0..k /\ i - 1 \in 0..k
    BY <1>3
  <2>4. PassesStay(k, S, F)
    <3> SUFFICES ASSUME NEW i \in 1..k, NEW x \in S[i - 1] PROVE F[<<i, x>>] \in S[i]
      BY DEF PassesStay
    <3>1. x \in Shares(ha, hd, i - 1) /\ S[i] = Shares(ha, hd, i)
      BY <2>2, <2>3
    <3>2. Trade!Plunder(x, hd[i]) \in Shares(ha, hd, i)
      BY <3>1, SharesAfterPlunder DEF k
    <3> QED
      BY <2>1, <3>1, <3>2
  <2>5. ground \in S[0]
    BY <1>3, <1>4, <2>2
  <2>6. PICK f : Passes(f, k, S, ground, F)
    BY <1>3, <2>4, <2>5, LoopEnds
  <2>7. \A i \in 0..k : i # 0 => i \in 1..k
    BY <1>3
  <2>8. \A i \in 0..k :
          f[i] = IF i = 0 THEN ground ELSE Trade!Plunder(f[i - 1], hd[i])
    BY <2>1, <2>2, <2>3, <2>6, <2>7 DEF Passes
  <2>9. f = [i \in 0..k |-> f[i]]
    BY <2>6 DEF Passes
  <2> QED
    BY <2>8, <2>9, Zenon
<1> HIDE DEF k
<1>7. loop = [i \in 0..k |->
                IF i = 0 THEN ground ELSE Trade!Plunder(loop[i - 1], hd[i])]
  BY <1>6
<1> HIDE DEF loop
<1> DEFINE T == {i \in 0..k : loop[i] \in Shares(ha, hd, i)}
<1>8. 0 \in T
  BY <1>3, <1>4, <1>7
<1>9. ASSUME NEW i \in 1..k, i - 1 \in T
      PROVE  i \in T
  <2>1. loop[i] = Trade!Plunder(loop[i - 1], hd[i]) /\ i \in 0..k
    BY <1>3, <1>7
  <2>2. loop[i - 1] \in Shares(ha, hd, i - 1)
    BY <1>9
  <2> QED
    BY <2>1, <2>2, SharesAfterPlunder DEF k
<1>10. k \in T
  <2> HIDE DEF T
  <2>1. k \in 0..k
    BY <1>3
  <2> QED
    BY <1>3, <1>8, <1>9, <2>1, Induction
<1> QED
  BY <1>1, <1>10 DEF k

\* The books of every ship.
BooksInv ==
  /\ hold = [s \in Trade!Ships |-> hold[s]]
  /\ net = [s \in Trade!Ships |-> net[s]]
  /\ \A s \in Trade!Ships : [hold |-> hold[s], net |-> net[s]] \in Books
  /\ credits \in [Trade!Ships -> Nat]

\* An event that is felt anywhere has as many turns to go as were announced
\* and are not over, or less; once it has none, the last one is going on.
EventsInv ==
  /\ events \in 0..AtMarket.maxEvents
  /\ left \in [Trade!Events -> Int] /\ term \in [Trade!Events -> Nat]
  /\ age \in [Trade!Events -> Nat]
  /\ factor \in [Trade!Events -> AtMarket.goods \X {2, -2}]
  /\ felt \in [Trade!Events -> SUBSET AtMarket.systems]
  /\ \A e \in Trade!Events : e > events => felt[e] = {} /\ age[e] = 0
  /\ \A e \in Trade!Events :
       felt[e] # {} => IF left[e] >= 1 THEN left[e] + age[e] <= term[e]
                       ELSE age[e] + 1 <= term[e]

TradeInv == BooksInv /\ EventsInv /\ moves \in 0..AtMarket.maxMoves

\* What the invariant gives.
LEMMA TradeInvGives ==
  ASSUME TradeInv
  PROVE  Trade!TypeOK /\ Trade!GoodsConserved /\ Trade!EventsEndInTime
<1>1. \A s \in Trade!Ships :
        /\ hold[s] \in Seq(Trade!Stacks) /\ net[s] \in [AtMarket.goods -> Int]
        /\ Trade!Held(hold[s], AtMarket.goods) <= AtMarket.capacity
        /\ \A g \in AtMarket.goods : Trade!Units(hold[s], g) = net[s][g]
  <2> SUFFICES ASSUME NEW s \in Trade!Ships
               PROVE  /\ hold[s] \in Seq(Trade!Stacks)
                      /\ net[s] \in [AtMarket.goods -> Int]
                      /\ Trade!Held(hold[s], AtMarket.goods) <= AtMarket.capacity
                      /\ \A g \in AtMarket.goods : Trade!Units(hold[s], g) = net[s][g]
    OBVIOUS
  <2>1. [hold |-> hold[s], net |-> net[s]] \in Books
    BY Zenon DEF TradeInv, BooksInv
  <2> QED
    BY <2>1 DEF Books
<1>2. /\ hold \in [Trade!Ships -> Seq(Trade!Stacks)]
      /\ net \in [Trade!Ships -> [AtMarket.goods -> Int]]
  <2>1. hold = [s \in Trade!Ships |-> hold[s]] /\ net = [s \in Trade!Ships |-> net[s]]
    BY Zenon DEF TradeInv, BooksInv
  <2> QED
    BY <1>1, <2>1, Zenon
<1>3. Trade!TypeOK
  BY <1>1, <1>2, Zenon DEF TradeInv, BooksInv, EventsInv, Trade!TypeOK
<1>4. Trade!GoodsConserved
  BY <1>1, Zenon DEF Trade!GoodsConserved
<1>5. Trade!EventsEndInTime
  BY DEF TradeInv, EventsInv, Trade!EventsEndInTime
<1> QED
  BY <1>3, <1>4, <1>5

\* The market opens with empty holds and no events.
LEMMA TradeStarts ==
  ASSUME Trade!Init
  PROVE  TradeInv
<1>1. <<>> \in Seq(Trade!Stacks) /\ Len(<<>>) = 0
  OBVIOUS
<1>2. ASSUME NEW some
      PROVE  Trade!Held(<<>>, some) = 0
  <2> DEFINE h == <<>>
  <2>1. h \in Seq(Trade!Stacks) /\ Len(h) = 0
    OBVIOUS
  <2> HIDE DEF h
  <2>2. PICK f \in [0..Len(h) -> Nat] : f[0] = 0 /\ Trade!Held(h, some) = f[Len(h)]
    BY <2>1, HeldIs
  <2> QED
    BY <2>1, <2>2 DEF h
<1> DEFINE none == [g \in AtMarket.goods |-> 0]
           empty == <<>>
<1>3. [hold |-> empty, net |-> none] \in Books
  <2>1. empty \in Seq(Trade!Stacks) /\ none \in [AtMarket.goods -> Int]
    OBVIOUS
  <2>2. /\ \A some : Trade!Held(empty, some) = 0
        /\ \A g \in AtMarket.goods : none[g] = 0
    BY <1>2
  <2> HIDE DEF empty, none
  <2> QED
    BY <2>1, <2>2, MarketFacts DEF Books, Trade!Units
<1> HIDE DEF none, empty
<1>4. BooksInv
  <2>1. /\ hold = [s \in Trade!Ships |-> empty]
        /\ net = [s \in Trade!Ships |-> none]
        /\ credits = [s \in Trade!Ships |-> AtMarket.startCredits]
    BY Zenon DEF Trade!Init, none, empty
  <2>2. \A s \in Trade!Ships : hold[s] = empty /\ net[s] = none
    BY <2>1
  <2> QED
    BY <1>3, <2>1, <2>2, MarketFacts DEF BooksInv
<1>5. EventsInv
  <2>1. (CHOOSE g \in AtMarket.goods : TRUE) \in AtMarket.goods
    BY MarketFacts
  <2> DEFINE g == CHOOSE x \in AtMarket.goods : TRUE
  <2>2. /\ events = 0 /\ left = [e \in Trade!Events |-> 0]
        /\ term = [e \in Trade!Events |-> 0] /\ age = [e \in Trade!Events |-> 0]
        /\ factor = [e \in Trade!Events |-> <<g, 2>>]
        /\ felt = [e \in Trade!Events |-> {}]
    BY Zenon DEF Trade!Init
  <2>3. g \in AtMarket.goods
    BY <2>1
  <2> HIDE DEF g
  <2> QED
    BY <2>2, <2>3, MarketFacts DEF EventsInv
<1>6. moves \in 0..AtMarket.maxMoves
  BY MarketFacts DEF Trade!Init
<1> QED
  BY <1>4, <1>5, <1>6 DEF TradeInv

\* A step that changes the hold of a ship, by the books.
LEMMA BooksOfOne ==
  ASSUME BooksInv, NEW s \in Trade!Ships, NEW k, NEW n,
         [hold |-> k, net |-> n] \in Books,
         hold' = [hold EXCEPT ![s] = k], net' = [net EXCEPT ![s] = n],
         credits' \in [Trade!Ships -> Nat]
  PROVE  BooksInv'
<1>1. /\ hold' = [t \in Trade!Ships |-> IF t = s THEN k ELSE hold[t]]
      /\ net' = [t \in Trade!Ships |-> IF t = s THEN n ELSE net[t]]
  BY Zenon DEF BooksInv
<1>2. ASSUME NEW t \in Trade!Ships
      PROVE  [hold |-> hold'[t], net |-> net'[t]] \in Books
  <2>1. CASE t = s
    <3>1. hold'[t] = k /\ net'[t] = n
      BY <1>1, <2>1
    <3> QED
      BY <3>1
  <2>2. CASE t # s
    <3>1. hold'[t] = hold[t] /\ net'[t] = net[t]
      BY <1>1, <2>2
    <3>2. [hold |-> hold[t], net |-> net[t]] \in Books
      BY Zenon DEF BooksInv
    <3> QED
      BY <3>1, <3>2
  <2> QED
    BY <2>1, <2>2
<1>3. hold' = [t \in Trade!Ships |-> hold'[t]] /\ net' = [t \in Trade!Ships |-> net'[t]]
  BY <1>1
<1>4. Books' = Books /\ Trade!Ships' = Trade!Ships
  BY DEF Books, Trade!Ships
<1> QED
  BY <1>2, <1>3, <1>4, Zenon DEF BooksInv

\* The books of a ship, one by one.
LEMMA BookOf ==
  ASSUME BooksInv, NEW s \in Trade!Ships
  PROVE  /\ [hold |-> hold[s], net |-> net[s]] \in Books
         /\ hold[s] \in Seq(Trade!Stacks) /\ net[s] \in [AtMarket.goods -> Int]
         /\ Trade!Held(hold[s], AtMarket.goods) <= AtMarket.capacity
         /\ \A g \in AtMarket.goods : Trade!Held(hold[s], {g}) = net[s][g]
         /\ credits[s] \in Nat
<1>1. [hold |-> hold[s], net |-> net[s]] \in Books
  BY Zenon DEF BooksInv
<1>2. credits[s] \in Nat
  BY DEF BooksInv
<1> QED
  BY <1>1, <1>2 DEF Books, Trade!Units

\* A human's purchase and sale, and a find.
LEMMA HumanKeepsBooks ==
  ASSUME TradeInv, NEW s \in AtMarket.humans, NEW g \in AtMarket.goods,
         NEW y \in AtMarket.systems, NEW q,
         \/ q \in AtMarket.quantities /\ Trade!HumanBuy(s, g, q, y)
         \/ q \in Trade!Offers(hold[s], g) /\ Trade!HumanSell(s, g, q, y)
  PROVE  BooksInv'
<1> DEFINE p == Trade!Price(g, y)
<1>1. s \in Trade!Ships /\ BooksInv
  BY DEF Trade!Ships, TradeInv
<1>2. p \in Nat \ {0}
  BY PricesAreNumbers
<1> HIDE DEF p
<1>3. /\ [hold |-> hold[s], net |-> net[s]] \in Books /\ hold[s] \in Seq(Trade!Stacks)
      /\ credits[s] \in Nat /\ net = [t \in Trade!Ships |-> net[t]]
      /\ credits \in [Trade!Ships -> Nat] /\ net[s] \in [AtMarket.goods -> Int]
  <2>1. net = [t \in Trade!Ships |-> net[t]] /\ credits \in [Trade!Ships -> Nat]
    BY <1>1 DEF BooksInv
  <2> QED
    BY <1>1, <2>1, BookOf
<1>4. CASE q \in AtMarket.quantities /\ Trade!HumanBuy(s, g, q, y)
  <2>1. /\ Trade!CanBuy(hold[s], credits[s], g, q, y)
        /\ credits' = [credits EXCEPT ![s] = @ - q * p]
        /\ hold' = [hold EXCEPT ![s] = Trade!Added(@, g, q, p)]
        /\ net' = [net EXCEPT ![s][g] = @ + q]
    BY <1>4, Zenon DEF Trade!HumanBuy, p
  <2>2. q \in Nat \ {0} /\ q <= Trade!Free(hold[s]) /\ credits[s] >= q * p
    BY <1>4, <2>1, MarketFacts DEF Trade!CanBuy, p
  <2>3. [hold |-> Trade!Added(hold[s], g, q, p),
         net |-> [net[s] EXCEPT ![g] = @ + q]] \in Books
    BY <1>2, <1>3, <2>2, BooksAfterAddition
  <2>4. credits' \in [Trade!Ships -> Nat]
    <3>1. q * p \in Nat
      BY <1>2, <2>2
    <3> DEFINE c == q * p
    <3> HIDE DEF c
    <3>2. credits[s] - c \in Nat
      BY <1>3, <2>2, <3>1 DEF c
    <3>3. credits' = [credits EXCEPT ![s] = credits[s] - c]
      BY <2>1 DEF c
    <3> QED
      BY <1>3, <3>2, <3>3
  <2>5. net' = [net EXCEPT ![s] = [net[s] EXCEPT ![g] = @ + q]]
    BY <2>1
  <2>6. hold' = [hold EXCEPT ![s] = Trade!Added(hold[s], g, q, p)]
    BY <2>1
  <2> QED
    BY <1>1, <2>3, <2>4, <2>5, <2>6, BooksOfOne
<1>5. CASE q \in Trade!Offers(hold[s], g) /\ Trade!HumanSell(s, g, q, y)
  <2>1. /\ Trade!CanSell(hold[s], g, q, y)
        /\ credits' = [credits EXCEPT ![s] = @ + q * p]
        /\ hold' = [hold EXCEPT ![s] = Trade!Removed(@, g, q)]
        /\ net' = [net EXCEPT ![s][g] = @ - q]
    BY <1>5, Zenon DEF Trade!HumanSell, p
  <2>2. q \in Nat \ {0}
    <3> DEFINE some == {i \in DOMAIN hold[s] : hold[s][i].good = g}
    <3>1. CASE some = {}
      <4>1. q \in AtMarket.quantities
        BY <1>5, <3>1 DEF Trade!Offers
      <4> QED
        BY <4>1, MarketFacts
    <3>2. CASE some # {}
      <4>1. some \subseteq Nat
        BY <1>3
      <4>2. Trade!Min(some) \in some
        <5> HIDE DEF some
        <5> QED
          BY <3>2, <4>1, FirstPlace
      <4>3. hold[s][Trade!Min(some)] \in Trade!Stacks
        <5>1. Trade!Min(some) \in DOMAIN hold[s]
          BY <4>2
        <5>2. \A h \in Seq(Trade!Stacks) : \A i \in DOMAIN h : h[i] \in Trade!Stacks
          OBVIOUS
        <5> QED
          BY <1>3, <5>1, <5>2, Zenon
      <4>4. hold[s][Trade!Min(some)].qty \in Nat \ {0}
        <5> DEFINE x == hold[s][Trade!Min(some)]
        <5>1. x \in Trade!Stacks
          BY <4>3
        <5> HIDE DEF x
        <5>2. x.qty \in Nat \ {0}
          BY <5>1 DEF Trade!Stacks
        <5> QED
          BY <5>2 DEF x
      <4>5. q \in AtMarket.quantities \/ q = hold[s][Trade!Min(some)].qty
        BY <1>5, <3>2 DEF Trade!Offers
      <4> QED
        BY <4>4, <4>5, MarketFacts
    <3> QED
      BY <3>1, <3>2
  <2>3. [hold |-> Trade!Removed(hold[s], g, q),
         net |-> [net[s] EXCEPT ![g] = @ - q]] \in Books
    BY <1>3, <2>1, <2>2, BooksAfterSale
  <2>4. credits' \in [Trade!Ships -> Nat]
    <3>1. q * p \in Nat
      BY <1>2, <2>2
    <3> DEFINE c == q * p
    <3> HIDE DEF c
    <3>2. credits[s] + c \in Nat
      BY <1>3, <3>1 DEF c
    <3>3. credits' = [credits EXCEPT ![s] = credits[s] + c]
      BY <2>1 DEF c
    <3> QED
      BY <1>3, <3>2, <3>3
  <2>5. net' = [net EXCEPT ![s] = [net[s] EXCEPT ![g] = @ - q]]
    BY <2>1
  <2>6. hold' = [hold EXCEPT ![s] = Trade!Removed(hold[s], g, q)]
    BY <2>1
  <2> QED
    BY <1>1, <2>3, <2>4, <2>5, <2>6, BooksOfOne
<1> QED
  BY <1>4, <1>5

\* What there is room for.
LEMMA RoomIsNumber ==
  ASSUME NEW h, NEW n, [hold |-> h, net |-> n] \in Books
  PROVE  Trade!Free(h) \in Nat
<1>1. h \in Seq(Trade!Stacks) /\ Trade!Held(h, AtMarket.goods) <= AtMarket.capacity
  BY DEF Books
<1>2. Trade!Held(h, AtMarket.goods) \in Nat
  BY <1>1, HeldIsNumber
<1> QED
  BY <1>1, <1>2, MarketFacts DEF Trade!Free

\* An NPC's turn at the market.
LEMMA NpcKeepsBooks ==
  ASSUME TradeInv, NEW s \in AtMarket.npcs, NEW y \in AtMarket.systems,
         Trade!NpcTrade(s, y)
  PROVE  BooksInv'
<1> DEFINE sold == SellingLoop(hold[s], credits[s], net[s], y)
           q == Trade!Least(5, Trade!Free(sold.hold))
           Bought(g) == /\ sold.credits > AtMarket.cushion /\ q > 0
                        /\ Trade!CanBuy(sold.hold, sold.credits, g, q, y)
           k(g) == Trade!Added(sold.hold, g, q, Trade!Price(g, y))
           n(g) == [sold.net EXCEPT ![g] = @ + q]
           c(g) == sold.credits - q * Trade!Price(g, y)
<1>1. s \in Trade!Ships /\ BooksInv
  BY DEF Trade!Ships, TradeInv
<1>2. /\ [hold |-> hold[s], net |-> net[s]] \in Books /\ credits[s] \in Nat
      /\ credits \in [Trade!Ships -> Nat]
  <2>1. credits \in [Trade!Ships -> Nat]
    BY <1>1 DEF BooksInv
  <2> QED
    BY <1>1, <2>1, BookOf
<1>3. \E g \in AtMarket.goods :
        \/ /\ hold' = [hold EXCEPT ![s] = sold.hold]
           /\ credits' = [credits EXCEPT ![s] = sold.credits]
           /\ net' = [net EXCEPT ![s] = sold.net]
        \/ /\ Bought(g)
           /\ hold' = [hold EXCEPT ![s] = k(g)]
           /\ credits' = [credits EXCEPT ![s] = c(g)]
           /\ net' = [net EXCEPT ![s] = n(g)]
  <2> DEFINE cheap == {g \in AtMarket.goods : /\ <<g, y>> \notin AtMarket.illegal
                              /\ Trade!Price(g, y) <= AtMarket.basePrice}
             bought(g) == /\ g \in cheap /\ sold.credits > AtMarket.cushion /\ q > 0
                          /\ Trade!CanBuy(sold.hold, sold.credits, g, q, y)
  <2>1. \E g \in (IF cheap = {} THEN AtMarket.goods ELSE cheap) :
          /\ hold' = [hold EXCEPT ![s] = IF bought(g) THEN k(g) ELSE sold.hold]
          /\ credits' = [credits EXCEPT ![s] = IF bought(g) THEN c(g) ELSE sold.credits]
          /\ net' = [net EXCEPT ![s] = IF bought(g) THEN n(g) ELSE sold.net]
    BY Zenon DEF Trade!NpcTrade, SellingLoop
  <2>2. (IF cheap = {} THEN AtMarket.goods ELSE cheap) \subseteq AtMarket.goods
    OBVIOUS
  <2>3. \A g : bought(g) => Bought(g)
    OBVIOUS
  <2> HIDE DEF cheap, bought, Bought, k, n, c, sold, q
  <2>4. PICK g \in AtMarket.goods :
          /\ hold' = [hold EXCEPT ![s] = IF bought(g) THEN k(g) ELSE sold.hold]
          /\ credits' = [credits EXCEPT ![s] = IF bought(g) THEN c(g) ELSE sold.credits]
          /\ net' = [net EXCEPT ![s] = IF bought(g) THEN n(g) ELSE sold.net]
    BY <2>1, <2>2, Zenon
  <2>5. CASE bought(g)
    BY <2>3, <2>4, <2>5, Zenon
  <2>6. CASE ~bought(g)
    BY <2>4, <2>6, Zenon
  <2> QED
    BY <2>5, <2>6
<1>4. sold \in Ledgers
  BY <1>2, SellingKeepsBooks
<1> HIDE DEF sold
<1>5. /\ [hold |-> sold.hold, net |-> sold.net] \in Books /\ sold.credits \in Nat
  BY <1>4 DEF Ledgers
<1>6. PICK g \in AtMarket.goods :
        \/ /\ hold' = [hold EXCEPT ![s] = sold.hold]
           /\ credits' = [credits EXCEPT ![s] = sold.credits]
           /\ net' = [net EXCEPT ![s] = sold.net]
        \/ /\ Bought(g)
           /\ hold' = [hold EXCEPT ![s] = k(g)]
           /\ credits' = [credits EXCEPT ![s] = c(g)]
           /\ net' = [net EXCEPT ![s] = n(g)]
  BY <1>3
<1>7. CASE /\ hold' = [hold EXCEPT ![s] = sold.hold]
           /\ credits' = [credits EXCEPT ![s] = sold.credits]
           /\ net' = [net EXCEPT ![s] = sold.net]
  <2>1. credits' \in [Trade!Ships -> Nat]
    BY <1>2, <1>5, <1>7
  <2> QED
    BY <1>1, <1>5, <1>7, <2>1, BooksOfOne
<1>8. CASE /\ Bought(g)
           /\ hold' = [hold EXCEPT ![s] = k(g)]
           /\ credits' = [credits EXCEPT ![s] = c(g)]
           /\ net' = [net EXCEPT ![s] = n(g)]
  <2>1. Trade!Free(sold.hold) \in Nat
    BY <1>5, RoomIsNumber
  <2>2. q \in Nat \ {0} /\ q <= Trade!Free(sold.hold)
    BY <1>8, <2>1 DEF Trade!Least
  <2>3. Trade!Price(g, y) \in Nat \ {0}
    BY PricesAreNumbers
  <2>4. sold.credits >= q * Trade!Price(g, y)
    BY <1>8 DEF Trade!CanBuy
  <2> DEFINE p == Trade!Price(g, y)
  <2> HIDE DEF q, p
  <2>5. [hold |-> k(g), net |-> n(g)] \in Books
    <3>1. p \in Nat
      BY <2>3 DEF p
    <3>2. [hold |-> Trade!Added(sold.hold, g, q, p),
           net |-> [sold.net EXCEPT ![g] = @ + q]] \in Books
      BY <1>5, <2>2, <3>1, BooksAfterAddition
    <3> QED
      BY <3>2 DEF p
  <2>6. c(g) \in Nat
    <3>1. q * p \in Nat /\ sold.credits >= q * p
      BY <2>2, <2>3, <2>4 DEF p
    <3>2. sold.credits - q * p \in Nat
      <4> DEFINE x == q * p
      <4>1. x \in Nat /\ sold.credits >= x
        BY <3>1
      <4> HIDE DEF x
      <4>2. sold.credits - x \in Nat
        BY <1>5, <4>1
      <4> QED
        BY <4>2 DEF x
    <3> QED
      BY <3>2 DEF p
  <2> HIDE DEF k, c, n
  <2>7. credits' \in [Trade!Ships -> Nat]
    BY <1>2, <1>8, <2>6
  <2> QED
    BY <1>1, <1>8, <2>5, <2>7, BooksOfOne
<1> QED
  BY <1>6, <1>7, <1>8

\* A find.
LEMMA FindKeepsBooks ==
  ASSUME TradeInv, NEW s \in Trade!Ships, NEW g \in AtMarket.goods,
         NEW q \in {1, 3}, Trade!Find(s, g, q)
  PROVE  BooksInv'
<1>1. BooksInv
  BY DEF TradeInv
<1>2. [hold |-> hold[s], net |-> net[s]] \in Books /\ credits \in [Trade!Ships -> Nat]
      /\ net[s] \in [AtMarket.goods -> Int]
  <2>1. credits \in [Trade!Ships -> Nat]
    BY <1>1 DEF BooksInv
  <2> QED
    BY <1>1, <2>1, BookOf
<1>3. /\ q <= Trade!Free(hold[s]) /\ credits' = credits
      /\ hold' = [hold EXCEPT ![s] = Trade!Added(hold[s], g, q, 0)]
      /\ net' = [net EXCEPT ![s] = [net[s] EXCEPT ![g] = @ + q]]
  BY DEF Trade!Find
<1>4. q \in Nat \ {0} /\ 0 \in Nat
  OBVIOUS
<1>5. [hold |-> Trade!Added(hold[s], g, q, 0),
       net |-> [net[s] EXCEPT ![g] = @ + q]] \in Books
  BY <1>2, <1>3, <1>4, BooksAfterAddition
<1> QED
  BY <1>1, <1>2, <1>3, <1>5, BooksOfOne

\* Pirates.
LEMMA RobbedKeepsBooks ==
  ASSUME TradeInv, NEW s \in Trade!Ships, NEW k \in 1..3,
         NEW pops \in [1..k -> DOMAIN hold[s]], Trade!Robbed(s, pops)
  PROVE  BooksInv'
<1> DEFINE after == RobbingLoop(hold[s], net[s], pops)
<1>1. BooksInv
  BY DEF TradeInv
<1>2. [hold |-> hold[s], net |-> net[s]] \in Books /\ credits \in [Trade!Ships -> Nat]
  <2>1. credits \in [Trade!Ships -> Nat]
    BY <1>1 DEF BooksInv
  <2> QED
    BY <1>1, <2>1, BookOf
<1>3. /\ \A i \in DOMAIN pops : pops[i] <= Len(hold[s]) - i + 1
      /\ hold' = [hold EXCEPT ![s] = after.hold]
      /\ net' = [net EXCEPT ![s] = after.net]
      /\ credits' = credits
  BY Zenon DEF Trade!Robbed, RobbingLoop
<1>4. after \in Books
  <2>1. k \in 0..3
    OBVIOUS
  <2> HIDE DEF after
  <2> QED
    BY <1>2, <1>3, <2>1, RobbingKeepsBooks DEF after
<1> HIDE DEF after
<1>5. [hold |-> after.hold, net |-> after.net] \in Books
  BY <1>4 DEF Books
<1> QED
  BY <1>1, <1>2, <1>3, <1>5, BooksOfOne

\* A fight's loot, from hold to hold.
LEMMA LootKeepsBooks ==
  ASSUME TradeInv, NEW a \in Trade!Ships, NEW d \in Trade!Ships, Trade!Loot(a, d)
  PROVE  BooksInv'
<1> DEFINE after == LootingLoop(hold[a], hold[d])
           na == [g \in AtMarket.goods |-> net[a][g] + after.taken[g]]
           nd == [g \in AtMarket.goods |-> net[d][g] - after.taken[g]]
           coins == credits[d] \div 5
<1>1. BooksInv
  BY DEF TradeInv
<1>2. /\ hold[a] \in Seq(Trade!Stacks) /\ hold[d] \in Seq(Trade!Stacks)
      /\ net[a] \in [AtMarket.goods -> Int] /\ net[d] \in [AtMarket.goods -> Int]
      /\ Trade!Held(hold[a], AtMarket.goods) <= AtMarket.capacity
      /\ Trade!Held(hold[d], AtMarket.goods) <= AtMarket.capacity
      /\ \A g \in AtMarket.goods : /\ Trade!Held(hold[a], {g}) = net[a][g]
                                   /\ Trade!Held(hold[d], {g}) = net[d][g]
      /\ credits[a] \in Nat /\ credits[d] \in Nat
  BY <1>1, BookOf
<1>3. a # d /\ hold' = [hold EXCEPT ![a] = after.winner, ![d] = after.loser]
      /\ credits' = [credits EXCEPT ![a] = @ + coins, ![d] = @ - coins]
      /\ net' = [net EXCEPT ![a] = [g \in AtMarket.goods |-> @[g] + after.taken[g]],
                            ![d] = [g \in AtMarket.goods |-> @[g] - after.taken[g]]]
  BY Zenon DEF Trade!Loot, LootingLoop
<1>4. after \in Shares(hold[a], hold[d], Len(hold[d]))
  BY <1>2, LootingMovesUnits
<1> HIDE DEF after
<1>5. /\ after.winner \in Seq(Trade!Stacks) /\ after.loser \in Seq(Trade!Stacks)
      /\ after.taken \in [AtMarket.goods -> Int]
      /\ Trade!Held(after.winner, AtMarket.goods) <= AtMarket.capacity
      /\ Trade!Held(after.loser, AtMarket.goods) <= AtMarket.capacity
      /\ \A g \in AtMarket.goods :
           /\ Trade!Held(after.winner, {g}) = Trade!Held(hold[a], {g}) + after.taken[g]
           /\ Trade!Held(after.loser, {g}) = Trade!Held(hold[d], {g}) - after.taken[g]
  BY <1>4 DEF Shares
<1>6. [hold |-> after.winner, net |-> na] \in Books
  <2>1. na \in [AtMarket.goods -> Int]
    BY <1>2, <1>5
  <2>2. \A g \in AtMarket.goods : Trade!Held(after.winner, {g}) = na[g]
    BY <1>2, <1>5
  <2> HIDE DEF na
  <2> QED
    BY <1>5, <2>1, <2>2 DEF Books, Trade!Units
<1>7. [hold |-> after.loser, net |-> nd] \in Books
  <2>1. nd \in [AtMarket.goods -> Int]
    BY <1>2, <1>5
  <2>2. \A g \in AtMarket.goods : Trade!Held(after.loser, {g}) = nd[g]
    BY <1>2, <1>5
  <2> HIDE DEF nd
  <2> QED
    BY <1>5, <2>1, <2>2 DEF Books, Trade!Units
<1>8. credits' \in [Trade!Ships -> Nat]
  <2>1. credits \in [Trade!Ships -> Nat]
    BY <1>1 DEF BooksInv
  <2>2. coins \in Nat /\ coins <= credits[d]
    BY <1>2
  <2> HIDE DEF coins
  <2>3. credits[a] + coins \in Nat /\ credits[d] - coins \in Nat
    BY <1>2, <2>2
  <2> QED
    BY <1>3, <2>1, <2>3
<1>9. /\ hold' = [t \in Trade!Ships |-> IF t = a THEN after.winner
                                        ELSE IF t = d THEN after.loser ELSE hold[t]]
      /\ net' = [t \in Trade!Ships |-> IF t = a THEN na ELSE IF t = d THEN nd ELSE net[t]]
  <2>1. hold = [t \in Trade!Ships |-> hold[t]] /\ net = [t \in Trade!Ships |-> net[t]]
    BY <1>1 DEF BooksInv
  <2>2. net' = [net EXCEPT ![a] = na, ![d] = nd]
    BY <1>3, <2>1
  <2> HIDE DEF na, nd
  <2> QED
    BY <1>3, <2>1, <2>2
<1> HIDE DEF na, nd, coins
<1>10. ASSUME NEW t \in Trade!Ships
       PROVE  [hold |-> hold'[t], net |-> net'[t]] \in Books
  <2>1. CASE t = a
    <3>1. hold'[t] = after.winner /\ net'[t] = na
      BY <1>9, <2>1
    <3> QED
      BY <1>6, <3>1
  <2>2. CASE t = d
    <3>1. hold'[t] = after.loser /\ net'[t] = nd
      BY <1>3, <1>9, <2>2
    <3> QED
      BY <1>7, <3>1
  <2>3. CASE t # a /\ t # d
    <3>1. hold'[t] = hold[t] /\ net'[t] = net[t]
      BY <1>9, <2>3
    <3>2. [hold |-> hold[t], net |-> net[t]] \in Books
      BY <1>1, BookOf
    <3> QED
      BY <3>1, <3>2
  <2> QED
    BY <2>1, <2>2, <2>3
<1>11. hold' = [t \in Trade!Ships |-> hold'[t]] /\ net' = [t \in Trade!Ships |-> net'[t]]
  BY <1>9
<1>12. Books' = Books /\ Trade!Ships' = Trade!Ships
  BY DEF Books, Trade!Ships
<1> QED
  BY <1>8, <1>10, <1>11, <1>12, Zenon DEF BooksInv

\* What no trade touches.
LEMMA EventsStay ==
  ASSUME EventsInv, UNCHANGED Trade!market
  PROVE  EventsInv'
BY DEF EventsInv, Trade!market, Trade!Events

\* A new event.
LEMMA AnnounceKeepsEvents ==
  ASSUME EventsInv, NEW n \in AtMarket.terms, NEW f \in AtMarket.goods \X {2, -2},
         NEW where \in SUBSET AtMarket.systems, Trade!Announce(n, f, where)
  PROVE  EventsInv'
<1> DEFINE k == events + 1
<1>1. /\ events < AtMarket.maxEvents /\ events' = k /\ age' = age
      /\ left' = [left EXCEPT ![k] = n] /\ term' = [term EXCEPT ![k] = n]
      /\ factor' = [factor EXCEPT ![k] = f] /\ felt' = [felt EXCEPT ![k] = where]
  BY DEF Trade!Announce
<1>2. /\ k \in Trade!Events /\ n \in Nat \ {0} /\ k \in 0..AtMarket.maxEvents
      /\ events \in Nat /\ k > events
  BY <1>1, MarketFacts DEF EventsInv, Trade!Events
<1>3. \A e \in Trade!Events : e # k => (e > k <=> e > events) /\ e \in Nat
  BY <1>2 DEF Trade!Events
<1> HIDE DEF k
<1>4. /\ left' \in [Trade!Events -> Int] /\ term' \in [Trade!Events -> Nat]
      /\ age' \in [Trade!Events -> Nat]
      /\ factor' \in [Trade!Events -> AtMarket.goods \X {2, -2}]
      /\ felt' \in [Trade!Events -> SUBSET AtMarket.systems]
  BY <1>1, <1>2 DEF EventsInv
<1>5. age[k] = 0 /\ felt[k] = {}
  BY <1>2 DEF EventsInv
<1>6. ASSUME NEW e \in Trade!Events
      PROVE  /\ e > k => felt'[e] = {} /\ age'[e] = 0
             /\ felt'[e] # {} => IF left'[e] >= 1 THEN left'[e] + age'[e] <= term'[e]
                                 ELSE age'[e] + 1 <= term'[e]
  <2>1. CASE e = k
    <3>1. left'[e] = n /\ term'[e] = n /\ age'[e] = 0 /\ felt'[e] = where
      BY <1>1, <1>2, <1>5, <2>1 DEF EventsInv
    <3> QED
      BY <1>2, <2>1, <3>1
  <2>2. CASE e # k
    <3>1. left'[e] = left[e] /\ term'[e] = term[e] /\ age'[e] = age[e] /\ felt'[e] = felt[e]
      BY <1>1, <1>2, <2>2 DEF EventsInv
    <3> QED
      BY <1>3, <2>2, <3>1 DEF EventsInv
  <2> QED
    BY <2>1, <2>2
<1>7. Trade!Events' = Trade!Events
  BY DEF Trade!Events
<1> QED
  BY <1>1, <1>2, <1>4, <1>6, <1>7, Zenon DEF EventsInv

\* The end of a turn, for one event.
LEMMA TickOne ==
  ASSUME EventsInv, NEW e \in Trade!Events, NEW now \in SUBSET felt[e],
         felt[e] # {}, now # {},
         Trade!Cardinality(now) = Trade!Cardinality(felt[e]) - Trade!Dropped(e),
         NEW l, l = left[e] - Trade!Cardinality(felt[e])
  PROVE  IF l >= 1 THEN l + (age[e] + 1) <= term[e]
         ELSE (age[e] + 1) + 1 <= term[e]
<1> DEFINE k == Cardinality(felt[e])
<1>1. /\ IsFiniteSet(felt[e]) /\ k \in Nat /\ k # 0
      /\ IsFiniteSet(now) /\ Cardinality(now) \in Nat /\ Cardinality(now) # 0
  <2>1. felt[e] \in SUBSET AtMarket.systems
    BY DEF EventsInv
  <2>2. IsFiniteSet(felt[e])
    BY <2>1, MarketFacts, FS_Subset
  <2>3. IsFiniteSet(now)
    BY <2>2, FS_Subset
  <2> QED
    BY <2>2, <2>3, FS_CardinalityType, FS_EmptySet
<1>2. Cardinality(now) = k - Trade!Dropped(e) /\ l = left[e] - k
  BY MarketCounts
<1>3. Trade!Dropped(e) = IF left[e] < 1 THEN k
                         ELSE IF left[e] > k THEN 0 ELSE k - left[e] + 1
  BY MarketCounts DEF Trade!Dropped
<1>4. /\ left[e] \in Int /\ term[e] \in Nat /\ age[e] \in Nat
      /\ IF left[e] >= 1 THEN left[e] + age[e] <= term[e] ELSE age[e] + 1 <= term[e]
  BY DEF EventsInv
<1> DEFINE c == Cardinality(now)
           d == Trade!Dropped(e)
           m == left[e]
<1> HIDE DEF k, c, d, m
<1>5. /\ k \in Nat /\ c \in Nat /\ c # 0 /\ c = k - d /\ l = m - k
      /\ d = IF m < 1 THEN k ELSE IF m > k THEN 0 ELSE k - m + 1
      /\ m \in Int /\ IF m >= 1 THEN m + age[e] <= term[e] ELSE age[e] + 1 <= term[e]
      /\ term[e] \in Nat /\ age[e] \in Nat /\ k # 0
  BY <1>1, <1>2, <1>3, <1>4 DEF c, d, m
<1> QED
  BY <1>5

\* The end of a turn.
LEMMA TickKeepsEvents ==
  ASSUME EventsInv, Trade!TickEvents
  PROVE  EventsInv'
<1>1. /\ felt' \in [Trade!Events -> SUBSET AtMarket.systems]
      /\ \A e \in Trade!Events :
           /\ felt'[e] \subseteq felt[e]
           /\ Trade!Cardinality(felt'[e]) = Trade!Cardinality(felt[e]) - Trade!Dropped(e)
      /\ left' = [e \in Trade!Events |-> left[e] - Trade!Cardinality(felt[e])]
      /\ age' = [e \in Trade!Events |-> IF felt[e] = {} THEN age[e] ELSE age[e] + 1]
      /\ events' = events /\ term' = term /\ factor' = factor
  BY DEF Trade!TickEvents
<1>2. ASSUME NEW e \in Trade!Events
      PROVE  Trade!Cardinality(felt[e]) \in Nat
  <2>1. felt[e] \in SUBSET AtMarket.systems
    BY DEF EventsInv
  <2>2. IsFiniteSet(felt[e])
    BY <2>1, MarketFacts, FS_Subset
  <2> QED
    BY <2>2, FS_CardinalityType, MarketCounts
<1>3. left' \in [Trade!Events -> Int] /\ age' \in [Trade!Events -> Nat]
  BY <1>1, <1>2 DEF EventsInv
<1>4. ASSUME NEW e \in Trade!Events
      PROVE  /\ e > events => felt'[e] = {} /\ age'[e] = 0
             /\ felt'[e] # {} => IF left'[e] >= 1 THEN left'[e] + age'[e] <= term'[e]
                                 ELSE age'[e] + 1 <= term'[e]
  <2>1. CASE felt[e] = {}
    <3>1. felt'[e] = {} /\ age'[e] = age[e]
      BY <1>1, <2>1
    <3> QED
      BY <3>1 DEF EventsInv
  <2>2. CASE felt[e] # {}
    <3>1. ~(e > events) /\ age'[e] = age[e] + 1 /\ term'[e] = term[e]
          /\ left'[e] = left[e] - Trade!Cardinality(felt[e])
      BY <1>1, <2>2 DEF EventsInv
    <3>2. ASSUME felt'[e] # {}
          PROVE  IF left'[e] >= 1 THEN left'[e] + (age[e] + 1) <= term[e]
                 ELSE (age[e] + 1) + 1 <= term[e]
      <4>1. felt'[e] \in SUBSET felt[e]
        BY <1>1
      <4>2. Trade!Cardinality(felt'[e]) = Trade!Cardinality(felt[e]) - Trade!Dropped(e)
        BY <1>1
      <4> QED
        BY <2>2, <3>1, <3>2, <4>1, <4>2, TickOne
    <3> QED
      BY <3>1, <3>2
  <2> QED
    BY <2>1, <2>2
<1>5. Trade!Events' = Trade!Events
  BY DEF Trade!Events
<1> QED
  BY <1>1, <1>3, <1>4, <1>5, Zenon DEF EventsInv

\* A step of the game at the market keeps it all.
LEMMA TradeKeeps ==
  ASSUME TradeInv, TradeStep
  PROVE  TradeInv'
<1>1. BooksInv /\ EventsInv /\ moves \in 0..AtMarket.maxMoves
  BY DEF TradeInv
<1>2. ASSUME Trade!Move
      PROVE  (moves \in 0..AtMarket.maxMoves)'
  BY <1>1, <1>2, MarketFacts DEF Trade!Move
<1>3. ASSUME UNCHANGED <<hold, credits, net>>
      PROVE  BooksInv'
  BY <1>1, <1>3
     DEF BooksInv, Books, Trade!Ships, Trade!Stacks, Trade!Units, Trade!Held
<1>4. CASE UNCHANGED trade
  <2>1. UNCHANGED <<hold, credits, net>> /\ UNCHANGED Trade!market /\ moves' = moves
    BY <1>4 DEF trade, Trade!market
  <2> QED
    BY <1>1, <1>3, <2>1, EventsStay DEF TradeInv
<1>5. ASSUME NEW s \in AtMarket.humans, NEW g \in AtMarket.goods,
             NEW y \in AtMarket.systems, NEW q,
             \/ q \in AtMarket.quantities /\ Trade!HumanBuy(s, g, q, y)
             \/ q \in Trade!Offers(hold[s], g) /\ Trade!HumanSell(s, g, q, y)
      PROVE  TradeInv'
  <2>1. UNCHANGED Trade!market /\ Trade!Move
    BY <1>5 DEF Trade!HumanBuy, Trade!HumanSell
  <2>2. BooksInv'
    BY <1>5, HumanKeepsBooks
  <2> QED
    BY <1>1, <1>2, <2>1, <2>2, EventsStay DEF TradeInv
<1>6. ASSUME NEW s \in AtMarket.npcs, NEW y \in AtMarket.systems, Trade!NpcTrade(s, y)
      PROVE  TradeInv'
  <2>1. UNCHANGED Trade!market /\ Trade!Move
    BY <1>6, Zenon DEF Trade!NpcTrade
  <2>2. BooksInv'
    BY <1>6, NpcKeepsBooks
  <2> QED
    BY <1>1, <1>2, <2>1, <2>2, EventsStay DEF TradeInv
<1>7. ASSUME NEW a \in Trade!Ships, NEW d \in Trade!Ships, Trade!Loot(a, d)
      PROVE  TradeInv'
  <2>1. UNCHANGED Trade!market /\ Trade!Move
    BY <1>7, Zenon DEF Trade!Loot
  <2>2. BooksInv'
    BY <1>7, LootKeepsBooks
  <2> QED
    BY <1>1, <1>2, <2>1, <2>2, EventsStay DEF TradeInv
<1>8. ASSUME NEW s \in Trade!Ships, NEW g \in AtMarket.goods, NEW q \in {1, 3},
             Trade!Find(s, g, q)
      PROVE  TradeInv'
  <2>1. UNCHANGED Trade!market /\ Trade!Move
    BY <1>8 DEF Trade!Find, Trade!market
  <2>2. BooksInv'
    BY <1>8, FindKeepsBooks
  <2> QED
    BY <1>1, <1>2, <2>1, <2>2, EventsStay DEF TradeInv
<1>9. ASSUME NEW s \in Trade!Ships, NEW k \in 1..3, NEW pops \in [1..k -> DOMAIN hold[s]],
             Trade!Robbed(s, pops)
      PROVE  TradeInv'
  <2>1. UNCHANGED Trade!market /\ Trade!Move
    <3>1. UNCHANGED <<credits, Trade!market>> /\ Trade!Move
      BY <1>9, Zenon DEF Trade!Robbed
    <3> QED
      BY <3>1
  <2>2. BooksInv'
    BY <1>9, RobbedKeepsBooks
  <2> QED
    BY <1>1, <1>2, <2>1, <2>2, EventsStay DEF TradeInv
<1>10. ASSUME NEW n \in AtMarket.terms, NEW f \in AtMarket.goods \X {2, -2},
              NEW where \in SUBSET AtMarket.systems, Trade!Announce(n, f, where)
       PROVE  TradeInv'
  <2>1. EventsInv'
    BY <1>1, <1>10, AnnounceKeepsEvents
  <2>2. UNCHANGED <<hold, credits, net>> /\ moves' = moves
    BY <1>10 DEF Trade!Announce, Trade!trade
  <2> QED
    BY <1>1, <1>3, <2>1, <2>2 DEF TradeInv
<1>11. CASE Trade!TickEvents
  <2>1. EventsInv'
    BY <1>1, <1>11, TickKeepsEvents
  <2>2. UNCHANGED <<hold, credits, net>> /\ moves' = moves
    BY <1>11 DEF Trade!TickEvents, Trade!trade
  <2> QED
    BY <1>1, <1>3, <2>1, <2>2 DEF TradeInv
<1> QED
  BY <1>4, <1>5, <1>6, <1>7, <1>8, <1>9, <1>10, <1>11, Zenon
     DEF TradeStep, Trade!Next

\* CaravanTrade, TypeOK: a hold is stacks of some units each and never over
\* capacity, and nobody is in debt (caravaneer/player.py, economy.py).
THEOREM TradeTypes == Spec => [](part = "trade" => Trade!TypeOK)
<1> DEFINE I == part = "trade" => TradeInv
<1>1. Init => I
  BY TradeStarts DEF Init
<1>2. I /\ [Next]_vars => I'
  BY GameMoves, TradeKeeps
<1>3. I => (part = "trade" => Trade!TypeOK)
  BY TradeInvGives
<1> QED
  BY <1>1, <1>2, <1>3, PTL DEF Spec

\* CaravanTrade, GoodsConserved and EventsEndInTime: no trade, fight, robbery or
\* find makes or loses a unit of any good, whatever the stacks it is spread over
\* (caravaneer/player.py, combat.py, travel.py); and an event of a market is
\* felt for the turns that were announced at most, although all the systems
\* count down one object (economy.py).
THEOREM GameTradeIsSound == Spec => []TradeIsSound
<1> DEFINE I == part = "trade" => TradeInv
<1>1. Init => I
  BY TradeStarts DEF Init
<1>2. I /\ [Next]_vars => I'
  BY GameMoves, TradeKeeps
<1>3. I => TradeIsSound
  BY TradeInvGives DEF TradeIsSound
<1> QED
  BY <1>1, <1>2, <1>3, PTL DEF Spec

(***************************************************************************)
(* All the parts.                                                          *)
(***************************************************************************)

\* TypeOK of every part, whichever moves: the types of the game's parts and of
\* those of RASA together.
THEOREM PartTypes == Spec => []TypeOK
<1> DEFINE A == /\ part = "grid" => Grid!TypeOK
                /\ part = "flight" => Flight!TypeOK
                /\ part = "trade" => Trade!TypeOK
                /\ part = "routes" => Routes!TypeOK
           B == /\ part = "tools" => Tools!TypeOK
                /\ part = "sandbox" => Sandbox!TypeOK
                /\ part = "gateway" => Gateway!TypeOK
                /\ part = "chat" => Chat!TypeOK
           C == /\ part = "souls" => Loader!TypeOK
                /\ part = "registry" => Registry!TypeOK
                /\ part = "graph" => Graph!TypeOK
<1>1. Spec => []A
  BY GridTypes, GameTypes, TradeTypes, RouteTypes, PTL
<1>2. Spec => []B
  BY GateTypes, SandboxTypes, GatewayTypes, ChatTypes, PTL
<1>3. Spec => []C
  BY LoaderTypes, RegistryTypes, GraphTypes, PTL
<1>4. A /\ B /\ C => TypeOK
  BY DEF TypeOK
<1> QED
  BY <1>1, <1>2, <1>3, <1>4, PTL
=============================================================================
