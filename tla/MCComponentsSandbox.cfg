SPECIFICATION SandboxSpec
CONSTANTS
  OnGrid <- MCGrid
  InFlight <- MCFlight
  AtMarket <- MCMarket
  InChat <- MCChat
  AtGate <- MCGate
  InSandbox <- MCSandboxAlone
  OfSouls <- MCSouls
  AtGateway <- MCGateway
  OnRoute <- MCRoute
  InRegistry <- MCRegistry
  OfGraph <- MCGraph
INVARIANT
  TimeoutsKill
CHECK_DEADLOCK FALSE
