SPECIFICATION Spec
CONSTANTS
  a1 = a1
  a2 = a2
  Admins = {a1, a2}
  Rosters <- NobodyOrAll
  s1 = s1
  s2 = s2
  Sessions = {s1, s2}
  r1 = r1
  r2 = r2
  Requests = {r1, r2}
  none = none
  None = none
  ip = ip
  noip = noip
  Ips = {ip}
  NoIp = noip
  GrantedRoles <- Rotations
  MaxFailed = 2
  MaxIpAttempts = 3
  Days <- BusyDays
  plan = plan
  Plans = {plan}
  block = block
  Blocks = {block}
  tutor = tutor
  Personas = {tutor}
  Switches = {"verifier"}
  route = route
  Routes = {route}
  Prices = {"low", "high"}
  document = document
  Documents = {document}
  Shelved <- InUse
  MaxVersions = 3
SYMMETRY Symmetry
INVARIANTS
  TypeOK
  SuperAdminRemains
  RevokedRightsEndWithTheRequest
  RevokedSessionsStayDead
  WrongGuessesLock
  OneActiveVersion
  AuditTrailIsConnected
CHECK_DEADLOCK FALSE
