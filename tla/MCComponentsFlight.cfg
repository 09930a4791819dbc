SPECIFICATION FlightSpec
CONSTANTS
  OnGrid <- MCGrid
  InFlight <- MCFlight
  AtMarket <- MCMarket
  InChat <- MCChat
  AtGate <- MCGate
  InSandbox <- MCSandbox
  OfSouls <- MCSouls
  AtGateway <- MCGateway
  OnRoute <- MCRoute
  InRegistry <- MCRegistry
  OfGraph <- MCGraph
PROPERTY
  RidesStand
CHECK_DEADLOCK FALSE
