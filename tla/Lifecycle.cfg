\* One order for a product whose row an operator may create at any time, a payment-
\* service that may be started late; one event at a time, two faults.
SPECIFICATION Spec
SYMMETRY WorkerSymmetry
CONSTANTS
  DeclaredBefore = {"inventory.commands", "order.events"}
  NoMessage = NoMessage
  Orders = {o1}
  Products = {p1}
  ProductOf <- SameProduct
  QtyOf <- OneEach
  SeedStock <- OneUnit
  Seeded = {}
  InvWorkers = {i1, i2}
  PayWorkers = {y1}
  EventWorkers = {e1}
  Replicas = {r1}
  Outcomes = {"SUCCESS", "FAILED"}
  ExternalPayments = {}
  PutQtys = {1}
  MaxPuts = 1
  MaxRetries = 1
  MaxFaults = 2
  ReserveMaxRetries = 2
  MaxRepublish = 1
INVARIANTS OrderMatchesSaga UnknownProductWaits
PROPERTY SagaLifecycle
