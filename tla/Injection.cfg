SPECIFICATION FairSpec
CONSTANTS
  WaitMax = 2
  ListenerMax = 3
  Config <- OneSwitchTurned
INVARIANTS TypeOK  CancelledIsClean NothingRunsEarly DepositsCanBePlaced
PROPERTIES InjectionEnds WineEndsActive
