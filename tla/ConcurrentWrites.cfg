SPECIFICATION Spec
CONSTANTS
  Requests = {r1, r2}
  rule = rule
  other = other
  note = note
  Marks = {other}
  Loose <- McLoose
  Typed <- McTyped
  Defaults <- McDefaults
  Missing = Missing
  NoTag = NoTag
  None = None
  Kinds = {"put", "patch", "csv", "restore", "restart"}
  InitContents <- Existing
  Puts <- Contents
  Wants <- NoTags
  Applies = {TRUE}
  Serial = FALSE
INVARIANTS
  ErrorsWriteNothing
  AuditTellsTheTruth
  AppliedIsLoaded
