CONSTANTS
  Items <- ThreeItems
  Base = "base"
  Parent <- FInD
  None = None
  Sources <- OneSource
  Destinations <- SomeDestinations
  Clock <- TwoTimes
  MaxStreams = 1
  Faults <- EveryFault
  MaxFailed = 2
SPECIFICATION Spec
INVARIANTS AskedIsKnown ParentThere NextRunIdle Released
PROPERTY Settles
