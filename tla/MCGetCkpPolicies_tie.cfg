CONSTANTS
  login = login
  logout = logout
  layersq = layersq
  rb1 = rb1
  rb2 = rb2
  hosts = hosts
  groups = groups
  LoginQ <- login
  LogoutQ <- logout
  LayersQ <- layersq
  RulebaseQ <- MCRulebaseQ
  ObjectQs <- MCObjectQs
  GroupQs <- MCGroupQs
  Listing <- MCListing
  RuleDict <- MCRuleDict
  NbObjects <- MCNbObjectsTie
  MaxJob = 2

SPECIFICATION Spec

INVARIANT
  ExportDeterministic
