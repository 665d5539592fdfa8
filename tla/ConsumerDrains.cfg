\* An inventory-service with the smallest pool, which makes the distributor wait after
\* one lost connection; any two faults.  It stops when both messages are dealt with.
SPECIFICATION FairSpec
CONSTANTS
  NoDelivery = NoDelivery
  Msgs = {m1, m2}
  Poison = {m2}
  Silent = {}
  Workers = {w1}
  Prefetch = 2
  MaxRetries = 1
  DialAttempts = 1
  PublishAttempts = 2
  ReopenAttempts = 2
  Budget <- Faults
  MaxDrop = 1
  MaxDial = 1
  MaxConfirm = 1
  MaxConsume = 1
  MaxError = 1
  MaxCrash = 1
  MaxStop = 1
  MaxAny = 2
PROPERTY QueueDrains
CHECK_DEADLOCK FALSE
