\* One page in each of two browsers, two operations, a payment received, one fault, fairness.
SPECIFICATION Spec
CONSTANTS
  Page = {"page", "app"}
  Browser = {"laptop", "phone"}
  BrowserOf <- Apart
  First = "laptop"
  Receipts = {"r1"}
  MaxOps = 2
  MaxFaults = 1
  None = None
INVARIANTS CopiesFollowLedger FundsReachable CursorIsSaved
PROPERTIES PendingIsResolved SendsReachReceivers
CHECK_DEADLOCK FALSE
