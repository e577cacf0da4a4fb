\* One thread; m changes, and g, which reads it, is asked for first.
SPECIFICATION ReposSpec
CONSTANTS
  t1 = t1  t2 = t2  t3 = t3  m = m  g = g  p = p  q = q  e = e
  None = None
  Threads = {t3}
  Repositories = {m, g}
  Extensions = {}
  Generator <- MCGenerator
  Loads <- MCLoads
  Reads <- MCReads
  Asks <- MCAsks
  MayFail = {}
  Local = {}
  Overridable = {}
  Values <- MCValues
  MaxCommands = 1
CHECK_DEADLOCK FALSE
INVARIANTS TakenIsCurrent
