CONSTANTS
  Requests = {r1}
  Versions = {v1, v2}
  MaxEdits = 0
  Kinds = {"save", "build"}
  LocalFile = FALSE
  Files = {page, script}
  r1 = r1
  v1 = v1
  v2 = v2
  page = page
  script = script
  NoVersion = NoVersion
  NoZip = NoZip
  Missing = Missing
  Torn = Torn
SPECIFICATION Spec
SYMMETRY Symmetry
INVARIANTS SuccessIsComplete
