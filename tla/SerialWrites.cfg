SPECIFICATION Spec
CONSTANTS
  Requests = {r1, r2}
  rule = rule
  other = other
  note = note
  Marks = {rule, other, note}
  Loose <- McLoose
  Typed <- McTyped
  Defaults <- McDefaults
  Missing = Missing
  NoTag = NoTag
  None = None
  Kinds = {"get", "put", "patch", "merge", "order", "text", "csv", "restore", "backup"}
  InitContents <- AnyStart
  Puts <- FewPuts
  Wants <- SomeTags
  Applies = {FALSE}
  Serial = TRUE
SYMMETRY Symmetry
INVARIANT
  TagNamesContent
PROPERTY
  CheckedWrite
  NarrowWrite
  ReplacedIsSaved
  RestoreBringsBack
