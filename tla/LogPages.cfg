SPECIFICATION Spec
CONSTANTS
  Logs = {1, 2, 3, 4, 5}
  TimeOf <- MCTimeOf
  ActionOf <- MCActionOf
  Ties <- MCTies
  Batches <- MCBatches
  Absent = Absent
  Text = Text
  Queries <- MCQueries
  DEFAULT_LIMIT = 2
  MAX_LIMIT = 3
CHECK_DEADLOCK FALSE
INVARIANTS
  NothingIsSkipped
  RepeatsHaveAReason
