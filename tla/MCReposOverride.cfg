\* One thread; m is made, overridden and no longer overridden.
SPECIFICATION ReposSpec
CONSTANTS
  t1 = t1  t2 = t2  t3 = t3  m = m  g = g  p = p  q = q  e = e
  None = None
  Threads = {t2}
  Repositories = {m}
  Extensions = {}
  Generator <- MCGenerator
  Loads <- MCLoads
  Reads <- MCReads
  Asks <- MCAsks
  MayFail = {}
  Local = {}
  Overridable = {m}
  Values <- MCValues
  MaxCommands = 2
CHECK_DEADLOCK FALSE
INVARIANTS TakenIsCurrent
