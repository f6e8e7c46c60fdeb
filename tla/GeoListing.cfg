SPECIFICATION Spec
CONSTANTS
  Requests = {r1, r2}
  Kinds = {"upload", "list"}
  Paths = {p1}
  GeoKinds = {"geoip"}
  InitConfs <- AnyStart
  Replacements <- NoChange
  Empty = Empty
  Missing = Missing
SYMMETRY Symmetry
INVARIANT
  ListingAnswers
