SPECIFICATION Spec
CONSTANTS
  adm = adm
  usr = usr
  new = new
  x = x
  y = y
  z = z
  r1 = r1
  None = None
  Users = {adm, usr, new}
  Role0 <- MCRole0
  Emails = {x, y, z}
  Email0 <- MCEmail0
  Requests = {r1}
  PersonalEmail <- MCPersonalEmail
  Subs = {f1}
  Teacher <- MCTeacher
  Tasks = {t1}
  Creator <- MCCreator
  Comments = {good, bad}
  Ops = {"signup", "email", "verify", "status", "deactivate", "respond", "feedback", "visibility"}
  Racing = {"signup", "email", "verify", "respond"}
  Slots = {s1, s2}
  MaxEvents = 3
INVARIANT TypeOK
INVARIANT EmailsUnique
PROPERTY TrailExact
PROPERTY RoleTrailExact
SYMMETRY SlotSymmetry
CHECK_DEADLOCK FALSE
