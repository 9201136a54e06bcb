CONSTANTS
  q1 = q1
  q2 = q2
  Seeds <- MCSeeds
  NbObjects <- MCNbObjects
  Totals <- MCTotals
  Paged <- MCPaged
  MaxJob = 2

SPECIFICATION Spec

PROPERTY
  AbortsOnlyOnTimeout
