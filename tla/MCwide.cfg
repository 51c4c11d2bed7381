SPECIFICATION Spec
CONSTANTS
  Callers = {c1}
  Requests <- WideRequests
  Remote <- NoRemote
  LineEvents = {}
  Owners = {}
INVARIANT UpdateChangesSetpoint
