SPECIFICATION Spec
CONSTANTS
  Callers = {c1}
  Requests <- ClientRequestsWithFan
  Remote <- NoRemote
  LineEvents = {}
  Owners = {}
PROPERTY UnsetFieldsKeptInFan
