SPECIFICATION ESpec
CONSTANTS
  Prof = Prof
  OtherProf = OtherProf
  Admin = Admin
  Student = Student
  Users <- MCUsers
  Students = {Student}
  Classes = {c1}
  Role <- MCRole
  Owner <- MCOwner
  Slots = {k1, k2}
  NoCall = NoCall
  MaxTrail = 3
SYMMETRY SlotSymmetry
INVARIANT TypeOK
INVARIANT RowsBelongToLiveClasses
INVARIANT TrailReplaysToRoster
PROPERTY Spec
PROPERTY WithdrawalsAuthorised
