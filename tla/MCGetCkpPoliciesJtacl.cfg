CONSTANTS
  layersq = layersq
  rb1 = rb1
  rb2 = rb2
  hosts = hosts
  groups = groups
  LayersQ <- layersq
  RulebaseQ <- MCRulebaseQ
  ObjectQs <- MCObjectQs
  Listing <- MCListing
  RuleDict <- MCRuleDict
  NbObjects <- MCNbObjects
  MaxJob = 2

SPECIFICATION Spec

INVARIANTS
  TypeOK
  ExportIsComplete
