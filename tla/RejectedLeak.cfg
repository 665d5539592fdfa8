\* A reserve command published twice, one inventory worker, stock added in between, no
\* fault.
SPECIFICATION Spec
CONSTANTS
  DeclaredBefore = {"inventory.commands", "payment.commands", "order.events"}
  NoMessage = NoMessage
  Orders = {o1}
  Products = {p1}
  ProductOf <- SameProduct
  QtyOf <- OneEach
  SeedStock <- NoUnit
  Seeded = {p1}
  InvWorkers = {i1}
  PayWorkers = {y1}
  EventWorkers = {e1}
  Replicas = {r1}
  Outcomes = {"SUCCESS", "FAILED"}
  ExternalPayments = {}
  PutQtys = {1}
  MaxPuts = 1
  MaxRetries = 0
  MaxFaults = 0
  ReserveMaxRetries = 2
  MaxRepublish = 1
INVARIANT FailedHoldsNoStock
