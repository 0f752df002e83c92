SPECIFICATION Spec
CONSTANTS
  Codes = {c1, c2, c3}
  MaxAttempts = 2
  Limit = 2
  MaxClasses = 3
  Slots = {s1, s2}
  None = None
INVARIANTS
  TypeOK
  CodesLeadToTheirClass
  NothingSkipped
