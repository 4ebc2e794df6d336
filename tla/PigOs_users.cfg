SPECIFICATION Spec
CONSTANTS
  VfsFile <- MCVfsFile
  VfsDir <- MCVfsDir
  CRITICAL_PATHS <- MCCritical
  Args <- RcArgs
  UserNames = {"bob"}
  GroupNames = {"wheel"}
  Pkgs = {}
  NetLogs = {}
  Texts = {}
  MEMFS_MAX = 7
  DELETED_MAX = 1
  MAX_U = 2
  MAX_G = 3
  GROUP_HEAD = 2
  RPK_INSTALLED_CMDS = 2
INVARIANTS GroupsTrue
PROPERTIES HomeComplete RefinesStore
