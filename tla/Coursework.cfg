SPECIFICATION Spec
CONSTANTS
  p1 = p1
  p2 = p2
  adm = adm
  c1 = c1
  c2 = c2
  t1 = t1
  t2 = t2
  None = None
  Users = {p1, p2}
  Admins = {}
  Classes = {c1, c2}
  Owner <- MCOwner
  Tasks = {t1}
  Creator <- MCCreator
  LinkIds = {1, 2}
  ListIds = {1}
  EntryIds = {1}
  Slots = {s1, s2}
  Ops = {"createTask", "updateTask", "linkTask", "createList", "deleteList", "addEntry", "deleteClass"}
  Patches <- PrivatePublic
INVARIANT TypeOK
INVARIANT EntriesWithinClass
PROPERTY LinksByManagers
PROPERTY PrivateTasksStayPrivate
PROPERTY LinksRemovedByRight
SYMMETRY SlotSymmetry
