SPECIFICATION Spec
CONSTANTS
  MAX_CLIENTS = 2
  MAX_WINDOWS = 2
  Pids = {p1, p2}
  NoPid = NoPid
  Places = {0}
  Signals = {"SIGTERM"}
  HasLibinput = TRUE
  RequestKinds = {"MSG_CREATE_WINDOW", "MSG_COMMIT_BUFFER", "MSG_DESTROY_WINDOW",
                  "MSG_MOVE_WINDOW"}
  SockCap = 1
  InputKinds = {"key", "move"}
  InputCap = 1
  MaxCreates = 2
SYMMETRY Symmetry
INVARIANTS IInv
PROPERTIES OnlyOwnerChanges KeysToFocusedOwner
