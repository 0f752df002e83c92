SPECIFICATION Spec
CONSTANTS
  t1 = t1
  ct1 = ct1
  limited = limited
  legacy = legacy
  e1 = e1
  e2 = e2
  Students = {s1}
  Tasks = {t1}
  Links = {ct1}
  Lists = {limited, legacy}
  Entries = {e1, e2}
  TaskOf <- MCTaskOf
  LinkOf <- MCLinkOf
  ListOf <- MCListOf
  LegacyLists = {legacy}
  MaxLimit = 1
  NoLimit = NoLimit
  Slots = {k1, k2}
  Deleters = {d1, d2}
  None = None
  MaxSubs = 3
SYMMETRY SlotSymmetry
INVARIANT TypeOK
INVARIANT RefsExist
INVARIANT OvershootBounded
INVARIANT DeletionTrail
PROPERTY LateSubmissionsOnly
