SPECIFICATION FairSpec
CONSTANTS
  Releases = {1, 2, 3, 4, 6, 9}
  MaxLogs = 1
  MaxInterventions = 4
CHECK_DEADLOCK FALSE
INVARIANTS
  RevisionsAreSound
  SchemaFollowsRevision
  LatestFitsModels
  LogsSurvive
  ErrorsAreForeseen
PROPERTIES
  Boots
