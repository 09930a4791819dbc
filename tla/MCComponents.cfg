SPECIFICATION MCSpec
CONSTANTS
  OnGrid <- MCGrid
  InFlight <- MCFlight
  AtMarket <- MCMarket
  InChat <- MCChat
  AtGate <- MCGate
  InSandbox <- MCSandbox
  OfSouls <- MCSouls
  AtGateway <- MCGateway
  OnRoute <- MCRoute
  InRegistry <- MCRegistry
  OfGraph <- MCGraph
INVARIANTS
  TypeOK
  GridIsSound
  ShipsMoveByPaying
  TradeIsSound
  RoundsAreWhole
  AnswersComeForward
  GateHolds
  PromotedWasScanned
  OldSoulsAreStale
  AnswersFitTheirCalls
  RowsFollowSheets
  GraphIsWhole
CHECK_DEADLOCK FALSE
