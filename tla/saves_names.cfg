CONSTANTS
  Handler = {h1}
  Agent <- MCAgent
  Names <- MCNames
  MayTake <- AnyNames
  Maps <- MCMaps
  Layouts <- MCLayouts
  Fits <- MCFits
  Desk <- MCDesk
  KeyOf <- MCKeyOf
  SeatOf <- MCSeatOf
  SeedMap = "wide"
  SeedLayout = "loose"
  SeedName <- MCSeedName
  Deployments = {"fixture"}
  MaxEdits = 3
SPECIFICATION Spec
INVARIANTS AnsweredIsDurable
