CONSTANTS
  Agent <- TwoAgents
  Maps <- DayMaps
  Layouts <- DayLayouts
  DeskId <- TwoDeskId
  InitialName <- TwoInitialName
  Names = {1, 2, 3}
  Specialist <- TwoSpecialists
  GradeSec <- TwoGradeSec
  FirstSpecialistSec = 1
  StaggerSec = 1
  StartPos <- TwoStartPos
  DaySecs = 4
  KickoffSec = 0
  SecPerTick = 2
  RerouteAfterTicks = 2
  StuckRerouteStreak = 2
  MinSize = 5
  MaxSize = 6
  Speeds = {1}
  DayCap = 1
  MaxMapRev = 2
  NoRoute = NoRoute
  Route <- MCRoute
SPECIFICATION FairSpec
PROPERTIES EveryoneArrives StuckIsLoud
