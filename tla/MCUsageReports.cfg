SPECIFICATION ReportsSpec
CONSTANTS
  Requests = {q1, q2}
  Calls <- MCCalls
  Times = {1, 2}
  Filters <- MCFilters
  Width <- MCWidth
  EvidenceCap = 2
  RankLimit = 2
  DefaultPage = 1
  MaxPage = 2
  MaxChanges = 1
  NoText = NoText
  NoRow = NoRow
SYMMETRY Alike
INVARIANTS ReportsTypeOK ReportsReconcile SectionsBracketed
