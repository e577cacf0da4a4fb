\* Three builds, two changes between them, any faults.
SPECIFICATION CacheSpec
CONSTANTS
  s = s  src = src  g = g  dir = dir  x = x  tree = tree  link = link
  gone = gone  nodir = nodir  w = w
  gen = gen  compile = compile  expand = expand  ln = ln  read = read
  runfiles = runfiles  test = test
  Absent = Absent  Partial = Partial
  Sources = {s, src}
  Actions = {gen, compile, expand, ln, read, runfiles, test}
  Ins <- MCIns
  Outs <- MCOuts
  Makes <- MCMakes
  Dirs = {src, dir, tree, link, nodir}
  Trees = {dir, tree}
  Links = {link, gone}
  Dangling = {gone}
  Defs <- MCDefs
  Values = {0}
  Contents = {0, 1, 2, Absent, Partial}
  Make <- MCMake
  MaxBuilds = 3
  MaxChanges = 2
CHECK_DEADLOCK FALSE
INVARIANTS
  CacheTypeOK FilesAreRight DirsAreRight MemoIsCurrent NullBuildRunsUntold
