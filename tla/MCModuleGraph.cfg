\* Every choice of dependencies among the listed ones; six sets of overrides.
SPECIFICATION GraphSpec
CONSTANTS
  b = b  c = c  e = e  r = r  None = None
  Names = {b, c, e, r}
  RootName = r
  MaxVersion = 3
  FileSets <- MCFileSets
  OverrideSets <- MCOverrideSets
CHECK_DEADLOCK FALSE
INVARIANTS
  GraphTypeOK DiscoveryIsLeast SelectionIsMinimal OneVersionIsSelected SecondWalkSucceeds
PROPERTIES
  ResolutionEnds
