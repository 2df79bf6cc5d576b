CONSTANTS
  Requests = {r1}
  Versions = {v1, v2}
  MaxEdits = 1
  Kinds = {"pin"}
  LocalFile = TRUE
  Files = {page}
  r1 = r1
  v1 = v1
  v2 = v2
  page = page
  NoVersion = NoVersion
  NoZip = NoZip
  Missing = Missing
  Torn = Torn
SPECIFICATION Spec
SYMMETRY Symmetry
INVARIANTS ListingSurvives
