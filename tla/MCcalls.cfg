SPECIFICATION ThreadSpec
CONSTANTS
  Callers = {c1, c2}
  Requests <- ClientRequestsWithFan
  Remote <- NoRemote
  LineEvents = {"noFrame", "otherDevice", "crash"}
  Owners = {o1, o2}
INVARIANT TypeOK
PROPERTIES UnsetFieldsKept NoLoginOnceRegistered QuietAfterJoin ShutdownReturns
