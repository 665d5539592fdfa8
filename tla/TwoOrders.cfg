\* Two orders for one unit of stock, two replicas whose recovery loops list the same
\* sagas, and a re-published command.
SPECIFICATION Spec
SYMMETRY WorkerSymmetry
CONSTANTS
  DeclaredBefore = {"inventory.commands", "payment.commands", "order.events"}
  NoMessage = NoMessage
  Orders = {o1, o2}
  Products = {p1}
  ProductOf <- SameProduct
  QtyOf <- OneEach
  SeedStock <- OneUnit
  Seeded = {p1}
  InvWorkers = {i1, i2}
  PayWorkers = {y1}
  EventWorkers = {e1}
  Replicas = {r1, r2}
  Outcomes = {"SUCCESS", "FAILED"}
  ExternalPayments = {}
  PutQtys = {}
  MaxPuts = 0
  MaxRetries = 0
  MaxFaults = 0
  ReserveMaxRetries = 2
  MaxRepublish = 1
INVARIANT NoOversell
