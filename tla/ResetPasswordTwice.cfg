SPECIFICATION ResetSpec
CONSTANTS
  Users = {u1}
  Orders = {o1}
  Passwords = {p1, p2}
  Handlers = {s1, s2}
  Nil = Nil
  MaxSets = 2
INVARIANT OrdersSetOnce
