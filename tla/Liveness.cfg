\* Two event workers; one disturbance: a fault, a recovery run amid messages, or a
\* request before the two other services are started for the first time.
SPECIFICATION FairSpec
CONSTANTS
  DeclaredBefore = {"order.events"}
  NoMessage = NoMessage
  Orders = {o1}
  Products = {p1}
  ProductOf <- SameProduct
  QtyOf <- OneEach
  SeedStock <- OneUnit
  Seeded = {p1}
  InvWorkers = {i1}
  PayWorkers = {y1}
  EventWorkers = {e1, e2}
  Replicas = {r1}
  Outcomes = {"SUCCESS", "FAILED"}
  ExternalPayments = {}
  PutQtys = {}
  MaxPuts = 0
  MaxRetries = 0
  MaxFaults = 1
  ReserveMaxRetries = 2
  MaxRepublish = 2
  MaxDisturbed = 1
INVARIANT DisagreesOnlyAstray
PROPERTIES SagaEnds DecidedIsSettled StraysOnlyOnStaleSnapshot
