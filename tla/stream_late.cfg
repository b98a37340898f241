CONSTANTS
  Nothing = Nothing
  Client = {client}
  Editor = {client}
  Tile = {t1, t2}
  Home = t1
  Capacity = 2
  SocketRoom = 1
  MaxTicks = 2
  MaxEdits = 1
  MaxFaults = 1
SPECIFICATION Spec
INVARIANTS FreezeTogether
