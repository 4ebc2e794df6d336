SPECIFICATION FairSpec
CONSTANTS
  MAX_CLIENTS = 2
  MAX_WINDOWS = 1
  Pids = {p1, p2, p3}
  NoPid = NoPid
  Places = {0}
  Signals = {"SIGTERM"}
  HasLibinput = TRUE
  RequestKinds = {"MSG_CREATE_WINDOW"}
  SockCap = 1
  InputKinds = {"exit"}
  InputCap = 1
  MaxCreates = 1
PROPERTIES WindowsReaped RequestsServed ExitHonoured
