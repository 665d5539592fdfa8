\* Two event workers, a recovery run amid messages, one fault.
SPECIFICATION FairSpec
CONSTANTS
  DeclaredBefore = {"inventory.commands", "payment.commands", "order.events"}
  NoMessage = NoMessage
  Orders = {o1}
  Products = {p1}
  ProductOf <- SameProduct
  QtyOf <- OneEach
  SeedStock <- OneUnit
  Seeded = {p1}
  InvWorkers = {i1}
  PayWorkers = {y1}
  EventWorkers = {e1, e2}
  Replicas = {r1}
  Outcomes = {"SUCCESS", "FAILED"}
  ExternalPayments = {}
  PutQtys = {}
  MaxPuts = 0
  MaxRetries = 0
  MaxFaults = 1
  ReserveMaxRetries = 2
  MaxRepublish = 6
  MaxDisturbed = 2
PROPERTY EverySagaEnds
