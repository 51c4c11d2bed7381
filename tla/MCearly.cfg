SPECIFICATION Spec
CONSTANTS
  Callers = {c1}
  Requests <- ClientRequests
  Remote <- NoRemote
  LineEvents = {}
  Owners = {}
PROPERTY UnsetFieldsKeptFromStart
