\* A payment-service: a command and a message that does not parse, two workers, any
\* two faults.  The system stops when both messages are dealt with.
SPECIFICATION Spec
SYMMETRY Symmetry
CONSTANTS
  NoDelivery = NoDelivery
  Msgs = {m1, m2}
  Poison = {m2}
  Silent = {m1}
  Workers = {w1, w2}
  Prefetch = 2
  MaxRetries = 1
  DialAttempts = 2
  PublishAttempts = 2
  ReopenAttempts = 2
  Budget <- Faults
  MaxDrop = 2
  MaxDial = 2
  MaxConfirm = 1
  MaxConsume = 1
  MaxError = 2
  MaxCrash = 1
  MaxStop = 1
  MaxAny = 2
INVARIANTS ConsumerTypeOK NothingLost NoLeak NeverStarved ExactlyOnce  DownOnlyAfterOutage
PROPERTY KeepsPromise
CHECK_DEADLOCK FALSE
