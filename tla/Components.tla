----------------------------- MODULE Components -----------------------------
(***************************************************************************)
(* The components that keep their state to themselves, side by side: a     *)
(* behaviour is one of one part, and the others stay as they begin.  They  *)
(* share no variable and no step, so that nothing is to be interleaved.    *)
(* What is given to a part, its constants, are the fields of a record.     *)
(***************************************************************************)
EXTENDS Integers, Sequences, FiniteSets

CONSTANTS
  OnGrid, InFlight, AtMarket, InChat, AtGate, InSandbox, OfSouls, AtGateway,
  OnRoute, InRegistry, OfGraph

VARIABLES
  part,
  from, to, radius,
  pos, fuel, hull, seen, trip, fight, phase, human, todo, npc, berth, stray,
  grave,
  hold, credits, events, left, term, age, factor, felt, moves, net,
  asked, waits, ready, last, got, known, up, inbox, resets, outbox, serving,
  run, rounds, pending, messages, overran, slips,
  denied, longOut, cache, young, blind, pc, tool, ticket, answer, asker,
  dropped, ran, slipped, edits, mishaps,
  tree, made, box, strays, gate, task, clean, visited, written, crowded, odd, taken,
  errors,
  sheet, base, sound, mtime, step, reading, soul, stamp, missed,
  cached, call, result, turns, ended, spoken, faults,
  cost, best, goal, leg, frontier, sofar, came, path, route,
  file, form, row, at, queue, held, active, doomed, began, steady, absent,
  hitch, failed,
  code, changes, node, edges, chunks, progress, found, wiped, job, rest, fresh,
  met, together, refused

grid == <<from, to, radius>>
flight == <<pos, fuel, hull, seen, trip, fight, phase, human, todo, npc, berth,
            stray, grave>>
trade == <<hold, credits, events, left, term, age, factor, felt, moves, net>>
chat == <<asked, waits, ready, last, got, known, up, inbox, resets, outbox,
          serving, run, rounds, pending, messages, overran, slips>>
tools == <<denied, longOut, cache, young, blind, pc, tool, ticket, answer,
           asker, dropped, ran, slipped, edits, mishaps>>
sandbox == <<tree, made, box, strays, gate, task, clean, visited, written,
             crowded, odd, taken, errors>>
souls == <<sheet, base, sound, mtime, step, reading, soul, stamp, missed>>
gateway == <<cached, call, result, turns, ended, spoken, faults>>
routes == <<cost, best, goal, leg, frontier, sofar, came, path, route>>
registry == <<file, form, row, at, queue, held, active, doomed, began,
              steady, absent, hitch, failed>>
graph == <<code, changes, node, edges, chunks, progress, found, wiped, job,
           rest, fresh, met, together, refused>>
vars == <<part, grid, flight, trade, chat, tools, sandbox, souls, gateway,
          routes, registry, graph>>

Grid == INSTANCE HexGrid WITH
  Origin <- OnGrid.origin, Reach <- OnGrid.reach

Flight == INSTANCE Caravan WITH
  Humans <- InFlight.humans, Pirates <- InFlight.pirates,
  Traders <- InFlight.traders, Lair <- InFlight.lair, NoShip <- InFlight.noShip,
  Cells <- InFlight.cells, Terrain <- InFlight.terrain, Gate <- InFlight.gate,
  Start <- InFlight.start, Outposts <- InFlight.outposts,
  Speed <- InFlight.speed, JumpRange <- InFlight.jumpRange,
  Sensors <- InFlight.sensors, MaxFuel <- InFlight.maxFuel,
  MaxHull <- InFlight.maxHull, LowFuel <- InFlight.lowFuel,
  LowHull <- InFlight.lowHull, Rounds <- InFlight.rounds

Trade == INSTANCE CaravanTrade WITH
  Humans <- AtMarket.humans, Npcs <- AtMarket.npcs, Goods <- AtMarket.goods,
  Systems <- AtMarket.systems, Illegal <- AtMarket.illegal,
  Quantities <- AtMarket.quantities, Capacity <- AtMarket.capacity,
  StartCredits <- AtMarket.startCredits, Cushion <- AtMarket.cushion,
  BasePrice <- AtMarket.basePrice, Terms <- AtMarket.terms,
  MaxEvents <- AtMarket.maxEvents, MaxMoves <- AtMarket.maxMoves

Chat == INSTANCE OrchChat WITH
  MaxAsks <- InChat.maxAsks, MaxHistory <- InChat.maxHistory,
  MaxRounds <- InChat.maxRounds, MaxCalls <- InChat.maxCalls,
  MaxFaults <- InChat.maxFaults

Tools == INSTANCE ToolGate WITH
  Agents <- AtGate.agents, AutoInvoke <- AtGate.autoInvoke,
  Tools <- AtGate.tools, Confirm <- AtGate.confirm, NoTool <- AtGate.noTool,
  MaxReviews <- AtGate.maxReviews, MaxEdits <- AtGate.maxEdits,
  MaxFaults <- AtGate.maxFaults

Sandbox == INSTANCE SandboxPipeline WITH
  Runners <- InSandbox.runners, Mortal <- InSandbox.mortal,
  Tasks <- InSandbox.tasks,
  Paths <- InSandbox.paths, NoTask <- InSandbox.noTask,
  MaxEdits <- InSandbox.maxEdits, MaxRuns <- InSandbox.maxRuns,
  MaxFaults <- InSandbox.maxFaults

Loader == INSTANCE SoulLoader WITH MaxEdits <- OfSouls.maxEdits

Gateway == INSTANCE LLMGateway WITH
  Tasks <- AtGateway.tasks, WithTools <- AtGateway.withTools,
  Premium <- AtGateway.premium, Session <- AtGateway.session,
  Fallback <- AtGateway.fallback, MaxRounds <- AtGateway.maxRounds,
  MaxTurns <- AtGateway.maxTurns, MaxFaults <- AtGateway.maxFaults

Routes == INSTANCE HexRoute WITH
  Origin <- OnRoute.origin, Radius <- OnRoute.radius, Start <- OnRoute.start,
  Goals <- OnRoute.goals, Rough <- OnRoute.rough,
  JumpRange <- OnRoute.jumpRange, phase <- leg

Registry == INSTANCE Capabilities WITH
  Souls <- InRegistry.souls, Listing <- InRegistry.listing,
  Controllers <- InRegistry.controllers, MaxEdits <- InRegistry.maxEdits,
  MaxFaults <- InRegistry.maxFaults,
  sheet <- file, step <- at, todo <- queue, faults <- failed

Graph == INSTANCE CanonicalModel WITH
  Files <- OfGraph.files, Scanned <- OfGraph.scanned, Owner <- OfGraph.owner,
  Names <- OfGraph.names, Runs <- OfGraph.runs, Jobs <- OfGraph.jobs,
  Limit <- OfGraph.limit, Batch <- OfGraph.batch, MaxEdits <- OfGraph.maxEdits,
  MaxFaults <- OfGraph.maxFaults, MaxCopies <- OfGraph.maxCopies,
  edits <- changes, at <- progress, todo <- rest, faults <- refused

ASSUME PartsAreSound ==
  /\ Grid!HexConstants /\ Flight!CaravanConstants /\ Trade!TradeConstants
  /\ Chat!ChatConstants /\ Tools!GateConstants /\ Sandbox!SandboxConstants
  /\ Loader!SoulConstants /\ Gateway!GatewayConstants
  /\ Routes!RouteConstants /\ Registry!CapabilityConstants
  /\ Graph!ModelConstants

Init ==
  /\ part \in {"grid", "flight", "trade", "chat", "tools", "sandbox", "souls",
               "gateway", "routes", "registry", "graph"}
  /\ Grid!Init /\ Flight!Init /\ Trade!Init /\ Chat!Init /\ Tools!Init
  /\ Sandbox!Init /\ Loader!Init /\ Gateway!Init
  /\ Routes!Init /\ Registry!Init /\ Graph!Init

OtherThan(p) ==
  /\ part = p /\ UNCHANGED part
  /\ IF p = "grid" THEN TRUE ELSE UNCHANGED grid
  /\ IF p = "flight" THEN TRUE ELSE UNCHANGED flight
  /\ IF p = "trade" THEN TRUE ELSE UNCHANGED trade
  /\ IF p = "chat" THEN TRUE ELSE UNCHANGED chat
  /\ IF p = "tools" THEN TRUE ELSE UNCHANGED tools
  /\ IF p = "sandbox" THEN TRUE ELSE UNCHANGED sandbox
  /\ IF p = "souls" THEN TRUE ELSE UNCHANGED souls
  /\ IF p = "gateway" THEN TRUE ELSE UNCHANGED gateway
  /\ IF p = "routes" THEN TRUE ELSE UNCHANGED routes
  /\ IF p = "registry" THEN TRUE ELSE UNCHANGED registry
  /\ IF p = "graph" THEN TRUE ELSE UNCHANGED graph

Next ==
  \/ OtherThan("grid") /\ Grid!Next
  \/ OtherThan("flight") /\ Flight!Next
  \/ OtherThan("trade") /\ Trade!Next
  \/ OtherThan("chat") /\ Chat!Next
  \/ OtherThan("tools") /\ Tools!Next
  \/ OtherThan("sandbox") /\ Sandbox!Next
  \/ OtherThan("souls") /\ Loader!Next
  \/ OtherThan("gateway") /\ Gateway!Next
  \/ OtherThan("routes") /\ Routes!Next
  \/ OtherThan("registry") /\ Registry!Next
  \/ OtherThan("graph") /\ Graph!Next

Spec == Init /\ [][Next]_vars

(* The types of the part that moves. *)
TypeOK ==
  /\ part = "grid" => Grid!TypeOK
  /\ part = "flight" => Flight!TypeOK
  /\ part = "trade" => Trade!TypeOK
  /\ part = "chat" => Chat!TypeOK
  /\ part = "tools" => Tools!TypeOK
  /\ part = "sandbox" => Sandbox!TypeOK
  /\ part = "souls" => Loader!TypeOK
  /\ part = "gateway" => Gateway!TypeOK
  /\ part = "routes" => Routes!TypeOK
  /\ part = "registry" => Registry!TypeOK
  /\ part = "graph" => Graph!TypeOK

(* The properties of the parts, stated in their modules. *)
GridIsSound ==
  /\ part = "grid" => Grid!GridIsSound
  /\ part = "routes" => Routes!RoutesAreCheapest
ShipsMoveByPaying ==
  part = "flight" => Flight!ShipsMoveByPaying /\ Flight!NpcWrecksStay
TradeIsSound ==
  part = "trade" => Trade!GoodsConserved /\ Trade!EventsEndInTime
RoundsAreWhole == part = "chat" => Chat!RoundsAreWhole
AnswersComeForward == part = "chat" => Chat!AnswersComeForward
GateHolds == part = "tools" => Tools!GateHolds
PromotedWasScanned == part = "sandbox" => Sandbox!PromotedWasScanned
OldSoulsAreStale == part = "souls" => Loader!OldSoulsAreStale
AnswersFitTheirCalls == part = "gateway" => Gateway!AnswersFitTheirCalls
RowsFollowSheets == part = "registry" => Registry!RowsFollowSheets
GraphIsWhole == part = "graph" => Graph!GraphIsWhole /\ Graph!EmbeddedOnce

(* What documents, comments and messages say of the parts, and the code    *)
(* does not do.                                                            *)
TimeoutsKill == part = "sandbox" => Sandbox!TimeoutsKill
GuardrailsBind == part = "tools" => Tools!GuardrailsBind
RidesStand == [][part = "flight" => Flight!RideStands]_vars
EventsLast == part = "trade" => Trade!EventsLast
=============================================================================
