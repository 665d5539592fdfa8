\* Two orders and three workers on one row, which an operator creates and may
\* overwrite; duplicated commands of both kinds, a fault.  The bounds end: the
\* system stops when the commands are used up.
SPECIFICATION Spec
SYMMETRY WorkerSymmetry
CONSTANTS
  DeclaredBefore = {"inventory.commands", "payment.commands", "order.events"}
  NoMessage = NoMessage
  o1 = o1
  Orders = {o1, o2}
  Products = {p1}
  ProductOf <- SameProduct
  QtyOf <- OneAndTwo
  SeedStock <- ThreeUnits
  Seeded = {}
  InvWorkers = {i1, i2, i3}
  PutQtys = {1, 3}
  MaxPuts = 2
  MaxRetries = 0
  MaxFaults = 1
  ReserveMaxRetries = 7
  MaxCommands = 2
INVARIANTS ServiceTypeOK ReservedIsHeld ReportedIsReserved
PROPERTIES StockConserved RejectedOnlyWhenShort
CHECK_DEADLOCK FALSE
