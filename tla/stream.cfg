CONSTANTS
  Nothing = Nothing
  Client = {client}
  Editor = {client, other}
  Tile = {t1, t2}
  Home = t1
  Capacity = 2
  SocketRoom = 1
  MaxTicks = 1
  MaxEdits = 2
  MaxFaults = 1
SPECIFICATION FairSpec
INVARIANTS TypeOK WatchersInStep OwnEditsShow
PROPERTIES WatchersCatchUp
