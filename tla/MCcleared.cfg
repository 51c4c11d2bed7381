SPECIFICATION Spec
CONSTANTS
  Callers = {}
  Requests = {}
  Remote <- NoRemote
  LineEvents = {"errorBit", "powerCycle"}
  Owners = {}
PROPERTY ErrorReadOnlyWhenSet
