\* Two threads; two restarts, each a kill or an end; m may fail, change and be overridden.
SPECIFICATION ReposFairSpec
CONSTANTS
  t1 = t1  t2 = t2  t3 = t3  m = m  g = g  p = p  q = q  e = e
  None = None
  Threads = {t1, t2}
  Repositories = {m, g, p, q}
  Extensions = {e}
  Generator <- MCGenerator
  Loads <- MCLoads
  Reads <- MCReads
  Asks <- MCAsks
  MayFail = {m}
  Local = {p}
  Overridable = {m}
  Values <- MCValues
  MaxCommands = 2
CHECK_DEADLOCK FALSE
INVARIANTS ReposTypeOK MarkerIsTrue TakenIsWhole
PROPERTIES TakenStays FetchesEnd
