\* Three receipts, the first of them not confirmed and two rows a query; an
\* installation is replaced by the next.  Two concurrent hooks and later
\* ones, and one failure anywhere.
SPECIFICATION SourcesFairSpec
CONSTANTS
  Row = {1, 2, 3}
  Confirmed = {2, 3}
  Inst = {1, 2}
  Limit = 2
  InOrder = TRUE
  MaxChanges = 1
  MaxStops = 1
  MaxEvents = 4
  Event = {e1, e2}
  Passes = 3
  Later = TRUE
  MaxAccounts = 2
  MaxFaults = 1
INVARIANTS
  ReceiptsExact
  EventKept
PROPERTIES
  InventoryReported
  ReceiptsTold
  Delivered
