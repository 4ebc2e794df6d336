SPECIFICATION Spec
CONSTANTS
  VfsFile <- MCVfsFile
  VfsDir <- MCVfsDir
  CRITICAL_PATHS <- MCCritical
  Args <- FileArgs
  UserNames = {}
  GroupNames = {}
  Pkgs = {}
  NetLogs = {}
  Texts = {"text"}
  MEMFS_MAX = 5
  DELETED_MAX = 2
  MAX_U = 3
  MAX_G = 4
  GROUP_HEAD = 2
  RPK_INSTALLED_CMDS = 2
INVARIANTS TablesSound LsAgrees
PROPERTIES DeletedStays MessagesTrue OnlyNamedChange RefinesStore
