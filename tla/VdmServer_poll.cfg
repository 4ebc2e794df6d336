SPECIFICATION Spec
CONSTANTS
  MAX_CLIENTS = 3
  MAX_WINDOWS = 1
  Pids = {p1, p2, p3, p4}
  NoPid = NoPid
  Places = {0}
  Signals = {"SIGINT"}
  HasLibinput = TRUE
  RequestKinds = {"MSG_CREATE_WINDOW", "unknown"}
  SockCap = 1
  InputKinds = {}
  InputCap = 0
  MaxCreates = 1
SYMMETRY Symmetry
INVARIANTS EntriesMatch
PROPERTIES DisconnectDeserved
