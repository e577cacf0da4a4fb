\* Two threads that enter the cycle of p and q from both sides.  That they are stuck
\* is what FetchesEnd reports, not a deadlock of the whole.
SPECIFICATION ReposFairSpec
CONSTANTS
  t1 = t1  t2 = t2  t3 = t3  m = m  g = g  p = p  q = q  e = e
  None = None
  Threads = {t1, t2}
  Repositories = {p, q}
  Extensions = {}
  Generator <- MCGenerator
  Loads <- MCLoads
  Reads <- MCReads
  Asks <- MCAsksBoth
  MayFail = {}
  Local = {p}
  Overridable = {}
  Values <- MCValues
  MaxCommands = 0
CHECK_DEADLOCK FALSE
PROPERTIES FetchesEnd
