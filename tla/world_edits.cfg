CONSTANTS
  Agent <- MCAgent
  Maps <- AllMaps
  Layouts <- AllLayouts
  DeskId <- MCDeskId
  InitialName <- MCInitialName
  Names = {1, 2, 3}
  Specialist <- MCSpecialist
  GradeSec <- MCGradeSec
  FirstSpecialistSec = 3
  StaggerSec = 1
  StartPos <- MCStartPos
  DaySecs = 12
  KickoffSec = 2
  SecPerTick = 1
  RerouteAfterTicks = 2
  StuckRerouteStreak = 2
  MinSize = 5
  MaxSize = 6
  Speeds = {1}
  DayCap = 2
  MaxMapRev = 2
  NoRoute = NoRoute
  Route <- MCRoute
SPECIFICATION Spec
INVARIANTS TypeOK NoSharedTile OccupiedExact PathsLeadHome DerivedIsCurrent NobodyVanishes ClientInStep
PROPERTIES NoTeleport FloorClearsOnlyByReset IsAnOffice
