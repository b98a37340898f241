CONSTANTS
  Agent <- MCAgent
  Maps <- DoorwayMaps
  Layouts <- DoorwayLayouts
  DeskId <- MCDeskId
  InitialName <- MCInitialName
  Names = {1, 2, 3}
  Specialist <- MCSpecialist
  GradeSec <- MCGradeSec
  FirstSpecialistSec = 3
  StaggerSec = 1
  StartPos <- MCStartPos
  DaySecs = 12
  KickoffSec = 2
  SecPerTick = 1
  RerouteAfterTicks = 2
  StuckRerouteStreak = 2
  MinSize = 5
  MaxSize = 6
  Speeds = {1}
  DayCap = 2
  MaxMapRev = 1
  NoRoute = NoRoute
  Route <- MCRoute
SPECIFICATION FairSpec
PROPERTIES StuckIsLoud
