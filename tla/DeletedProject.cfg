CONSTANTS
  Requests = {r1, r2}
  Versions = {v1, v2}
  MaxEdits = 1
  Kinds = {"pin", "delete"}
  LocalFile = FALSE
  Files = {page}
  r1 = r1
  r2 = r2
  v1 = v1
  v2 = v2
  page = page
  NoVersion = NoVersion
  NoZip = NoZip
  Missing = Missing
  Torn = Torn
SPECIFICATION Spec
SYMMETRY Symmetry
INVARIANTS DeletedStaysDeleted
