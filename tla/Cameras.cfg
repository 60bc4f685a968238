SPECIFICATION FairSpec
CONSTANTS
  i1 = i1
  i2 = i2
  n1 = n1
  n2 = n2
  plain = plain
  atN1 = atN1
  movedN1 = movedN1
  bad = bad
  Names = {n1, n2}
  NoName = NoName
  Sources = {atN1, bad}
  NoSource = NoSource
  Supported = {atN1}
  LinksTo <- Links
  Ids = {i1, i2}
  NewIds = {i1}
  NoId = NoId
  NoCamera = NoCamera
  Generated <- NameOf
  Requests = {r1, r2}
  Boot = Boot
  Bodies <- SomeBodies
  Backups <- SomeBackups
  ApiNames = {n2}
  ApiSources = {atN1}
  DbFails = TRUE
  MaxCrashes = 1
INVARIANTS
  Registered
PROPERTIES
  DeletedStaysDeleted
  PinsPlay
