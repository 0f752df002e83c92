SPECIFICATION FairSpec
CONSTANTS
  Contents = {a, b}
  Urls = {1, 2, 3, 4}
  Addresses = {m}
  MaxScreenshots = 2
  MaxRows = 2
  Statuses = {"OPEN", "CLOSED"}
  Severities = {"LOW"}
  Slots = {s1, s2}
  None = None
INVARIANT TypeOK
INVARIANT RowsLeadToTheirFiles
INVARIANT OrphansAreOfErrors
PROPERTY EveryCallAnswered
CHECK_DEADLOCK FALSE
