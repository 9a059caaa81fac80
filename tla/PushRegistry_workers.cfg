SPECIFICATION Spec
CONSTANTS
  w1 = w1  w2 = w2
  u1 = u1  u2 = u2
  s1 = s1  s2 = s2  s3 = s3
  p1 = p1  p2 = p2
  Rest = Rest
  Workers = {w1, w2}
  Users = {u1, u2}
  Sockets = {s1, s2, s3}
  Pushes = {p1, p2}
  OwnerOf <- Owners
  WorkerOf <- TwoWorkers
  HandlerOf <- FirstHandler
  BUFFER = 1
INVARIANT ClientsAreNotified
