\* A runfiles tree that is made, over three builds and two changes.
SPECIFICATION CacheSpec
CONSTANTS
  s = s  list = list  MANIFEST = MANIFEST  dir = dir  w = w
  manifest = manifest  symlinks = symlinks  runfiles = runfiles  test = test
  Absent = Absent  Partial = Partial
  Sources = {s}
  Actions = {manifest, symlinks, runfiles, test}
  Ins <- MCIns
  Outs <- MCOuts
  Makes <- MCMakes
  Dirs = {dir}
  Trees = {}
  Links = {MANIFEST}
  Dangling = {}
  Defs <- MCDefs
  Values = {0, 1}
  Contents = {0, 1, 2, Absent, Partial}
  Make <- MCMake
  MaxBuilds = 3
  MaxChanges = 2
CHECK_DEADLOCK FALSE
INVARIANTS
  NullBuildRunsUntold
