SPECIFICATION Spec
CONSTANTS
  i1 = i1
  i2 = i2
  n1 = n1
  n2 = n2
  plain = plain
  atN1 = atN1
  movedN1 = movedN1
  bad = bad
  Names = {n1}
  NoName = NoName
  Sources = {atN1, movedN1}
  NoSource = NoSource
  Supported = {atN1, movedN1}
  LinksTo <- Links
  Ids = {i1}
  NewIds = {i1}
  NoId = NoId
  NoCamera = NoCamera
  Generated <- NameOf
  Requests = {r1}
  Boot = Boot
  Bodies <- MovingBodies
  Backups = {}
  ApiNames = {}
  ApiSources = {}
  DbFails = FALSE
  MaxCrashes = 0
CHECK_DEADLOCK FALSE
INVARIANTS
  SourceFollows
