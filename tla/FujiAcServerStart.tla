-------------------------- MODULE FujiAcServerStart ---------------------------
(***************************************************************************)
(* controller/fuji_ac_server.cc from main to Wait, with the tty set up by  *)
(* FujiAcSerialReader::Build, for several processes on one machine: the    *)
(* service systemd keeps alive, and servers somebody starts by hand, with  *)
(* or without --sim.  FujiAcController takes from here that one loop, on a *)
(* blocking raw tty at 500 bps, talks to the unit.                         *)
(***************************************************************************)
EXTENDS Naturals, FiniteSets

CONSTANTS
  Procs,     \* the server processes
  Service,   \* the one of debian/fuji-ac.service
  Sim,       \* those with --sim: they leave the tty alone
  MaxEvents  \* bound: starts by hand, crashes and other programs on the tty

ASSUME ProcsAssumption ==
  Sim \subseteq Procs /\ Service \in Procs \ Sim /\ MaxEvents \in Nat

VARIABLES
  pc,         \* the next step of each process
  locked,     \* the processes whose open tty carries the exclusive flock
  attributes, \* the tty is raw, VMIN = 0, VTIME = 3: shared by all who open it
  speed,      \* its speed is 500 bps: shared as well
  blocking,   \* of each process's own open tty: O_NONBLOCK is off
  events      \* bound: what happened so far

vars == <<pc, locked, attributes, speed, blocking, events>>

Steps == {"down", "open", "lock", "attributes", "speed", "blocking",
          "controller", "bind", "serve"}

StartTypeOK ==
  /\ pc \in [Procs -> Steps] /\ locked \subseteq Procs
  /\ attributes \in BOOLEAN /\ speed \in BOOLEAN
  /\ blocking \in [Procs -> BOOLEAN]
  /\ events \in 0..MaxEvents

Init ==
  /\ pc = [p \in Procs |-> "down"] /\ locked = {}
  /\ attributes = FALSE /\ speed = FALSE
  /\ blocking = [p \in Procs |-> FALSE]
  /\ events = 0

Open == {p \in Procs \ Sim : pc[p] \notin {"down", "open"}}

\* The processes whose loop thread reads and writes the tty.
Looping == {p \in Procs \ Sim : pc[p] \in {"bind", "serve"}}

At(p, step) == pc[p] = step
Goto(p, step) == pc' = [pc EXCEPT ![p] = step]

Event == events < MaxEvents /\ events' = events + 1

-----------------------------------------------------------------------------
\* Plausible bug: the service without Restart=always.
Start_ByHandOnly(p) ==
  /\ At(p, "down")
  /\ Event
  /\ Goto(p, IF p \in Sim THEN "controller" ELSE "open")
  /\ UNCHANGED <<locked, attributes, speed, blocking>>

\* systemd starts the service whenever it is down.
Start(p) ==
  /\ At(p, "down")
  /\ IF p = Service THEN UNCHANGED events ELSE Event
  /\ Goto(p, IF p \in Sim THEN "controller" ELSE "open")
  /\ UNCHANGED <<locked, attributes, speed, blocking>>

OpenTty(p) ==
  /\ At(p, "open")
  /\ Goto(p, "lock")
  /\ blocking' = [blocking EXCEPT ![p] = FALSE]
  /\ UNCHANGED <<locked, attributes, speed, events>>

\* Plausible bug: a lock that somebody else holds is no reason to stop.
Lock_Shared(p) ==
  /\ At(p, "lock")
  /\ Goto(p, "attributes")
  /\ locked' = locked \cup {p}
  /\ UNCHANGED <<attributes, speed, blocking, events>>

Lock(p) ==
  /\ At(p, "lock") /\ locked = {}
  /\ Goto(p, "attributes")
  /\ locked' = {p}
  /\ UNCHANGED <<attributes, speed, blocking, events>>

SetAttributes(p) ==
  /\ At(p, "attributes")
  /\ Goto(p, "speed")
  /\ attributes' = TRUE
  /\ UNCHANGED <<locked, speed, blocking, events>>

\* Plausible bug: the structure is not read before it is set.
SetSpeed_NotRead(p) ==
  /\ At(p, "speed")
  /\ Goto(p, "blocking")
  /\ speed' = TRUE /\ attributes' = FALSE
  /\ UNCHANGED <<locked, blocking, events>>

SetSpeed(p) ==
  /\ At(p, "speed")
  /\ Goto(p, "blocking")
  /\ speed' = TRUE
  /\ UNCHANGED <<locked, attributes, blocking, events>>

SetBlocking(p) ==
  /\ At(p, "blocking")
  /\ Goto(p, "controller")
  /\ blocking' = [blocking EXCEPT ![p] = TRUE]
  /\ UNCHANGED <<locked, attributes, speed, events>>

\* MakeFujiAcController: the loop thread starts before there is a port.
StartController(p) ==
  /\ At(p, "controller")
  /\ Goto(p, "bind")
  /\ UNCHANGED <<locked, attributes, speed, blocking, events>>

\* Where another server has the port, gRPC may share it or refuse.
BuildAndStart(p) ==
  /\ At(p, "bind")
  /\ Goto(p, "serve")
  /\ UNCHANGED <<locked, attributes, speed, blocking, events>>

-----------------------------------------------------------------------------
\* The process ends, and with it its open tty and the lock on it.
Ends(p) ==
  /\ Goto(p, "down")
  /\ locked' = locked \ {p}
  /\ UNCHANGED <<attributes, speed, blocking>>

\* The two LOG(FATAL) another server can cause.
LockFails(p) ==
  /\ At(p, "lock") /\ locked # {}
  /\ Ends(p)
  /\ UNCHANGED events

BuildFails(p) ==
  /\ At(p, "bind") /\ \E q \in Procs \ {p} : At(q, "serve")
  /\ Ends(p)
  /\ UNCHANGED events

\* Every other PLOG(FATAL): a failed call while the tty is set up, a failed
\* read or write of the loop.
Crash(p) ==
  /\ ~At(p, "down")
  /\ Event
  /\ Ends(p)

\* Who started a server by hand stops it.
Stop(p) ==
  /\ p # Service /\ ~At(p, "down")
  /\ Ends(p)
  /\ UNCHANGED events

\* Another program leaves its own settings on a tty no server has open.
OtherProgram ==
  /\ Open = {}
  /\ Event
  /\ attributes' = FALSE /\ speed' = FALSE
  /\ UNCHANGED <<pc, locked, blocking>>

Step(p) ==
  \/ Start(p) \/ OpenTty(p) \/ Lock(p) \/ LockFails(p)
  \/ SetAttributes(p) \/ SetSpeed(p) \/ SetBlocking(p)
  \/ StartController(p) \/ BuildAndStart(p) \/ BuildFails(p)

Next == OtherProgram \/ \E p \in Procs : Step(p) \/ Crash(p) \/ Stop(p)

Spec == Init /\ [][Next]_vars

\* systemd and the kernel run the service; nobody keeps another one for ever.
FairSpec ==
  /\ Spec
  /\ WF_vars(Step(Service))
  /\ \A p \in Procs \ {Service} : WF_vars(Stop(p))

-----------------------------------------------------------------------------
\* The lock of serial_reader.cc:61: however the starts of several servers
\* interleave, with crashes in between, one loop at most talks to the unit.
OneMaster == \A p, q \in Looping : p = q

\* A loop reads a tty that is set up as Build says, as long as it runs: no
\* server that comes later, and fails, changes what the tty's users share.
ReadsConfigured ==
  \A p \in Looping : attributes /\ speed /\ blocking[p]

\* Restart=always (fuji-ac.service:7): whatever ended the service, or held its
\* tty or its port, in the end it serves, and goes on serving.
ServiceComesBack == <>[]At(Service, "serve")
==============================================================================
