SPECIFICATION Spec
CONSTANTS
  d1 = d1
  d2 = d2
  d3 = d3
  i1 = i1
  i2 = i2
  bridge = bridge
  b1 = b1
  b2 = b2
  k1 = k1
  k2 = k2
  k3 = k3
  DeviceIds <- MCDeviceIds
  Installs <- MCInstalls
  BridgeInstall = bridge
  NoInstall = NoInstall
  Bindings <- MCBindings
  NoBinding = NoBinding
  Keys <- MCKeys
  MaxActive = 2
  MaxPending = 2
  MaxResponses = 2
  MaxRevocations = 1
  PendingTTL = 2
  RevocationTTL = 2
  MaxNow = 3
SYMMETRY Symmetry
CHECK_DEADLOCK FALSE
INVARIANTS
  OneActivePerInstall
  CapsKeepReplies
  RevokeRetrySucceeds
PROPERTIES
  BindingNeverMoves
  ImplementsAccessLifecycle
