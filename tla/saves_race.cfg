CONSTANTS
  Handler = {h1, h2}
  Agent <- MCAgent
  Names <- MCNames
  MayTake <- NewNames
  Maps <- MCMaps
  Layouts <- MCLayouts
  Fits <- MCFits
  Desk <- MCDesk
  KeyOf <- MCKeyOf
  SeatOf <- MCSeatOf
  SeedMap = "wide"
  SeedLayout = "loose"
  SeedName <- MCSeedName
  Deployments = {"fixture"}
  MaxEdits = 2
SYMMETRY Alike
SPECIFICATION Spec
INVARIANTS AnsweredIsDurable
