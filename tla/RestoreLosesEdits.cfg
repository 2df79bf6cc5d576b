CONSTANTS
  Requests = {r1}
  Versions = {v1, v2}
  MaxEdits = 2
  Kinds = {"save", "restore"}
  LocalFile = FALSE
  Files = {page}
  r1 = r1
  v1 = v1
  v2 = v2
  page = page
  NoVersion = NoVersion
  NoZip = NoZip
  Missing = Missing
  Torn = Torn
SPECIFICATION Spec
PROPERTIES RestoreKeepsEdits
