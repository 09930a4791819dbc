SPECIFICATION TradeSpec
CONSTANTS
  OnGrid <- MCGrid
  InFlight <- MCFlight
  AtMarket <- MCMarket
  InChat <- MCChat
  AtGate <- MCGate
  InSandbox <- MCSandbox
  OfSouls <- MCSouls
  AtGateway <- MCGateway
  OnRoute <- MCRoute
  InRegistry <- MCRegistry
  OfGraph <- MCGraph
INVARIANT
  EventsLast
CHECK_DEADLOCK FALSE
