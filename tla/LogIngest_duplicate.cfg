SPECIFICATION Spec
CONSTANTS
  r1 = r1  r2 = r2  r3 = r3  r4 = r4  r5 = r5
  u1 = u1  u2 = u2
  ip1 = ip1  ip2 = ip2  ip3 = ip3
  NoIP = NoIP
  MaxScore = 2
  NoScore = NoScore
  NoSettings = NoSettings
  InitSettings <- MCSettings
  Requests = {r1, r2, r3}
  Users = {u1}
  UserOf <- OneUser
  IPs = {ip1, ip2}
  Batches <- MCBatches
  Thresholds <- MCThresholds
  MayFail = FALSE
SYMMETRY MCSymmetry
PROPERTY DuplicateIs409
