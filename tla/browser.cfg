CONSTANTS
  Maps = {1, 2, 3}
  Layouts = {1, 2}
  Looks = {0, 1, 2}
  Plain = 0
  Places = {0, 1}
  Seed <- MCSeed
  Room = 2
  MaxEdits = 3
  MaxSaves = 2
  MaxFaults = 1
  None = None
  Scenes <- AllMCScenes
SPECIFICATION Spec
INVARIANTS TypeOK CacheIsOneMap EditorLeavesNoTrace DraftsStayPrivate LooksSettle
PROPERTIES MapCatchesUp
