CONSTANTS
  r1 = r1
  r2 = r2
  Uids = {1, 2}
  LayerUids = {1, 2}
  Rules <- MCRules
  Sizes = {1, 2}
  MaxList = 2
  MaxPages = 4

SPECIFICATION Spec

INVARIANTS
  TypeOK
  KeepsMostComplete
