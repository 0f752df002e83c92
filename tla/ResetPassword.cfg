SPECIFICATION ResetSpec
CONSTANTS
  Users = {u1, u2}
  Orders = {o1, o2}
  Passwords = {p1, p2}
  Handlers = {s1, s2}
  Nil = Nil
  MaxSets = 2
INVARIANT ResetTypeOK
INVARIANT SpentOrdersStaySpent
PROPERTY OrdersLeaveAfterUse
