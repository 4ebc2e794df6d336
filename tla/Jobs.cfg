SPECIFICATION FairSpec
CONSTANTS
  Pids = {p1, p2, p3}
  MaxJobs = 3
INVARIANTS JobTableSound NeverForgotten
PROPERTIES ShellReturns EndNoticed
