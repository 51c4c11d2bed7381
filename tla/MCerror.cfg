SPECIFICATION FairSpec
CONSTANTS
  Callers = {c1}
  Requests <- OneRequest
  Remote <- NoRemote
  LineEvents = {"errorBit"}
  Owners = {}
PROPERTY CallsReturn
