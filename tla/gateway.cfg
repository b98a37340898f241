CONSTANTS
  NotObject = NotObject
  NotText = NotText
  Null = Null
  Absent = Absent
  Profiles <- MCProfiles
  Appearances <- MCAppearances
  Seed <- MCSeed
  Sources = {"fixture", "db"}
  Envs <- MCEnvs
  Requests <- MCRequests
SPECIFICATION Spec
INVARIANTS TypeOK OnlyValidServed SavedDataReturns MockIsSealed L0StaysLocal CallsGoWhereTold RetriesFollowPolicy HealthIsHonest NothingSaidIsLost
PROPERTIES EveryCallEnds
