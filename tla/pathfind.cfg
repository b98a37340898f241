CONSTANTS
  NoRoute = NoRoute
  Width = 4
  Height = 3
  MaxWalls = 3
  Starts <- MCStarts
  Crowds <- MCCrowds
SPECIFICATION Spec
INVARIANTS ShortestAnswer ClosedIsFinal
PROPERTIES Terminates
CHECK_DEADLOCK FALSE
