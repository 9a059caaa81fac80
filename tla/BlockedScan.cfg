SPECIFICATION Spec
CONSTANTS
  ip1 = ip1  ip2 = ip2  ip3 = ip3
  IPs = {ip1, ip2, ip3}
  NoIP = NoIP
  MaxScore = 2
  NoScore = NoScore
  NoSettings = NoSettings
  Batches <- MCBatches
CHECK_DEADLOCK FALSE
INVARIANTS
  BestLogWins
  OrderIsFirstBlocked
