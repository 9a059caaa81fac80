SPECIFICATION AllSpec
CONSTANTS
  a0 = a0
  r1 = r1  r2 = r2  r3 = r3
  e0 = e0  e1 = e1
  n0 = n0  n1 = n1  n2 = n2
  p0 = p0  p1 = p1  p2 = p2  short = short
  Nothing = Nothing
  fraction = fraction  text = text  null = null
  Requests = {r1, r2, r3}
  Emails = {e0, e1}
  Names = {n0, n1, n2}
  Passwords = {p0, p1, p2, short}
  Short = {short}
  Registrations <- MCRegistrations
  Credentials <- MCCredentials
  Updates <- MCUpdates
  InitUsers <- MCInitUsers
  InitSettings <- MCInitSettings
  Defaults <- MCDefaults
  Fields <- MCFields
  Checked = {"block_threshold", "flood_pkt_per_sec"}
  InRange <- MCInRange
  Incomparable = {text, null}
  Column <- MCColumn
  Bodies <- MCBodies
  MayFail = TRUE
SYMMETRY MCSymmetry
CHECK_DEADLOCK FALSE
INVARIANTS
  UniqueAccounts
  AccountsAreComplete
  HandedOutIsStored
  RowIsAllowed
PROPERTIES
  NoRefreshAfterLogout
  OnlyRequestedChanges
  PartialUpdate
