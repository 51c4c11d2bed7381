SPECIFICATION Spec
CONSTANTS
  Callers = {c1, c2}
  Requests <- CoreRequests
  Remote <- SetpointRemote
  LineEvents = {"noFrame", "otherDevice", "powerCycle", "errorBit", "crash"}
  Owners = {}
SYMMETRY CallerSymmetry
INVARIANTS HandshakeInv ClaimInv ReadyImpliesMerged UpdateReachesUnit UpdateReportsOwnValues UnsentChangeHasWaiter
PROPERTIES ImplementsWriteBack ErrorQueryEndsExchange
