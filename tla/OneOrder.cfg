\* One order, whose client may also POST a payment; every pool concurrent, one
\* fault, one re-published command.
SPECIFICATION Spec
SYMMETRY WorkerSymmetry
CONSTANTS
  DeclaredBefore = {"inventory.commands", "payment.commands", "order.events"}
  NoMessage = NoMessage
  Orders = {o1}
  Products = {p1}
  ProductOf <- SameProduct
  QtyOf <- OneEach
  SeedStock <- OneUnit
  Seeded = {p1}
  InvWorkers = {i1, i2}
  PayWorkers = {y1, y2}
  EventWorkers = {e1, e2}
  Replicas = {r1}
  Outcomes = {"SUCCESS", "FAILED"}
  ExternalPayments = {o1}
  PutQtys = {}
  MaxPuts = 0
  MaxRetries = 0
  MaxFaults = 1
  ReserveMaxRetries = 2
  MaxRepublish = 1
INVARIANTS TypeOK ChargedKeepsStock ReleasedOnlyUnpaid StatusIsTrue PaymentAnswersAgree Causality
PROPERTY ImplementsContract
