SPECIFICATION Spec
CONSTANTS
  l1 = l1
  l2 = l2
  e1 = e1
  e2 = e2
  None = None
  Students = {u1, u2}
  Links = {l1, l2}
  Entries = {e1, e2}
  LinkOf <- MCLinkOf
  Weight <- MCWeight
  Batch <- MCBatch
  Times = {1, 2, 3}
  MaxSubs = 1
  MaxMoves = 2
INVARIANT TypeOK
INVARIANT CellsShowLatest
INVARIANT ListFiguresAgree
INVARIANT TaskFiguresAgree
INVARIANT ShownWithinCall
SYMMETRY StudentSymmetry
CHECK_DEADLOCK FALSE
