SPECIFICATION GateSpec
CONSTANTS
  OnGrid <- MCGrid
  InFlight <- MCFlight
  AtMarket <- MCMarket
  InChat <- MCChat
  AtGate <- MCGate
  InSandbox <- MCSandbox
  OfSouls <- MCSouls
  AtGateway <- MCGateway
  OnRoute <- MCRoute
  InRegistry <- MCRegistry
  OfGraph <- MCGraph
INVARIANT
  GuardrailsBind
CHECK_DEADLOCK FALSE
