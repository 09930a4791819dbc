SPECIFICATION FairSpec
CONSTANTS
  Agents = {a1, a2}
  Souls = {s1, s2}
  BeatStates <- MCBeatStates
  MaxInbox = 1
  MaxFaults = 1
INVARIANTS
  TypeOK
  IndexAgrees
  NothingIsLeftBehind
PROPERTIES
  BeatingAgentReadsLive
