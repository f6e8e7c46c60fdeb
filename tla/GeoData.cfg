SPECIFICATION Spec
CONSTANTS
  Requests = {r1, r2}
  Kinds = {"upload", "download", "list"}
  Paths = {p1, p2}
  GeoKinds = {"geoip", "geosite"}
  InitConfs <- AnyStart
  Replacements <- AnyChange
  Empty = Empty
  Missing = Missing
SYMMETRY Symmetry
INVARIANTS
  ListedIsStored
  ListedOnce
  ReportIsCurrent
PROPERTY
  AddsItsLine
