SPECIFICATION Spec
CONSTANTS
  VfsFile <- MCVfsFile
  VfsDir <- MCVfsDir
  CRITICAL_PATHS <- MCCritical
  Args <- CfgArgs
  UserNames = {}
  GroupNames = {"staff"}
  Pkgs = {"git", "jq"}
  NetLogs = {"log", "more log"}
  Texts = {}
  MEMFS_MAX = 4
  DELETED_MAX = 1
  MAX_U = 1
  MAX_G = 4
  GROUP_HEAD = 2
  RPK_INSTALLED_CMDS = 2
INVARIANTS CmdsAreInstalled GroupsTrue ResolvesAsMeant
PROPERTIES CdUpLeaves OnlyNamedChange
