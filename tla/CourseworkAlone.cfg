SPECIFICATION Spec
CONSTANTS
  p1 = p1
  p2 = p2
  adm = adm
  c1 = c1
  c2 = c2
  t1 = t1
  t2 = t2
  None = None
  Users = {p1, p2, adm}
  Admins = {adm}
  Classes = {c1, c2}
  Owner <- MCOwner
  Tasks = {t1, t2}
  Creator <- MCCreator
  LinkIds = {1, 2}
  ListIds = {1, 2}
  EntryIds = {1, 2, 3}
  Slots = {s1}
  Ops = {"createTask", "updateTask", "linkTask", "unlinkTask", "createList", "removeEntry", "deleteTask"}
  Patches <- PublicOnly
INVARIANT UpdateReconciles
PROPERTY TasksAddedAreInTheList
PROPERTY DuplicatesAreUnoffered
