SPECIFICATION FairSpec
CONSTANTS
  Callers = {c1, c2}
  Requests <- OneRequest
  Remote <- ModeRemote
  LineEvents = {"noFrame", "otherDevice","replyLost", "powerCycle", "crash"}
  Owners = {}
PROPERTIES ImplementsExchange ImplementsWriteBack CopyConverges UnitRegistersController CallsReturn
