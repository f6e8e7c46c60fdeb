SPECIFICATION Spec
CONSTANTS
  a = a
  A = A
  g = g
  D = D
  F = F
  G = G
  Comments = {x, y}
  NoComment = NoComment
  DomainLines = 3
  CidrLines = 4
  MaxRequests = 1
  Targets <- McTargets
  Values <- McValues
  Tags <- McTags
  Lower <- McLower
  Pasted <- McPasted
  InitTexts <- McInitTexts
SYMMETRY Symmetry
CHECK_DEADLOCK FALSE
PROPERTIES
  PatchesTouchOnlyTheRule
  UnrelatedLinesStay
  AddThenDelete
  RetryChangesNothing
  PatchesKeepRulesUnique
  RewritesKeepRules
  ExportKeepsView
