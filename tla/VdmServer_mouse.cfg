SPECIFICATION FairSpec
CONSTANTS
  MAX_CLIENTS = 1
  MAX_WINDOWS = 1
  Pids = {p1}
  NoPid = NoPid
  Places = {0}
  Signals = {}
  HasLibinput = TRUE
  RequestKinds = {"MSG_CREATE_WINDOW", "MSG_COMMIT_BUFFER", "MSG_DESTROY_WINDOW",
                  "MSG_MOVE_WINDOW", "unknown"}
  SockCap = 1
  InputKinds = {"move"}
  InputCap = 1
  MaxCreates = 1
PROPERTIES MotionReported
