SPECIFICATION Spec
CONSTANTS
  Requests = {r1, r2}
  rule = rule
  other = other
  note = note
  Marks = {rule, other}
  Loose <- McLoose
  Typed <- McTyped
  Defaults <- McDefaults
  Missing = Missing
  NoTag = NoTag
  None = None
  Kinds = {"put"}
  InitContents <- Existing
  Puts <- Contents
  Wants <- FreshTags
  Applies = {FALSE}
  Serial = FALSE
PROPERTY
  CheckedWrite
