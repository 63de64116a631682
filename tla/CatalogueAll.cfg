\* Two operations of every classification, curated tools of every kind, and the
\* environments; each server is called once, then it has no more to do.
CONSTANTS
  o1 = o1
  o2 = o2
  n1 = n1
  n2 = n2
  show = show
  more = more
  halt = halt
  None = None
  Operations <- MCOperations
  Sorted <- MCSorted
  Names = {n1, n2}
  Forms = {show, more, halt}
  Sdks <- MCSdks
  Curations <- MCCurations
  Envs <- MCEnvs
  Released <- MCReleased
  Dual <- MCDual
  Unlinked = {}
  Forbidden = {halt}

SPECIFICATION Spec
CHECK_DEADLOCK FALSE
INVARIANTS
  CatalogueTypeOK
  WritesAreApproved
  EveryOperationHasTool
  ToolsRun
