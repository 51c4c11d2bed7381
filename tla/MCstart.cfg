SPECIFICATION FairSpec
CONSTANTS
  service = service
  byHand = byHand
  simulated = simulated
  Procs = {service, byHand, simulated}
  Service = service
  Sim = {simulated}
  MaxEvents = 5
INVARIANTS OneMaster ReadsConfigured
CHECK_DEADLOCK FALSE
PROPERTY ServiceComesBack
