SPECIFICATION FairSpec
CONSTANTS
  Envelopes = {e1}
  TTL = 2
  MaxDelay = 2
  MaxRetries = 2
  MaxLosses = 1
  Horizon = 6
  Slots = {s1, s2}
  None = None
INVARIANT TypeOK
PROPERTY EnvelopesUsedOncePerLife
PROPERTY EveryCopyAnswered
CHECK_DEADLOCK FALSE
