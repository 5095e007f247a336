SPECIFICATION PartsSpec
CONSTANTS
  DeviceIds = {x1, x2}
  Installs = {i1, bridge}
  BridgeInstall = bridge
  NoInstall = NoInstall
  Users = {y1, y2}
  NoUser = NoUser
  Peers = {l1}
  Handshakes = {z1, z2}
  NoSlot = NoSlot
  MaxActive = 1
  MaxPending = 1
  MaxResponses = 1
  MaxRevocations = 1
  PendingTTL = 2
  RevocationTTL = 1
  MaxNow = 3
  CodeTTL = 2
  ArmTTL = 1
  HandshakeTTL = 1
  NoticeTTL = 1
  MaxHandshakes = 2
  MaxSlots = 2
  Tokens = {t1, t2}
  None = None
  MaxBoots = 4
  MaxCorruptions = 2
  Sends = {x1, x2}
  Collects = {y1, y2}
  Conns = {z1, z2}
  NoConn = NoConn
  MaxEvents = 2
  RatePeers = {x1, x2, p3}
  PeerLimit = 2
  GlobalLimit = 3
  PeerWindow = 2
  GlobalWindow = 3
  MaxTracked = 2
  RateMaxNow = 5
INVARIANTS
  CutStays
  TokenNeverLost
  OneTrueConnection
  BudgetsHold
  MintsOnceInTime
  PairsAsMeant
  RetriedFinishGetsItsReply
SYMMETRY Symmetry
CHECK_DEADLOCK FALSE
