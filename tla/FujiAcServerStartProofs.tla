----------------------- MODULE FujiAcServerStartProofs ------------------------
(***************************************************************************)
(* For any set of servers, started, stopped and crashing in any order and  *)
(* any number: one loop at most is on the tty, and the tty it reads is set *)
(* up.  The inductive invariant says who must hold the lock, that one      *)
(* process does, and what each step of Build leaves behind.                *)
(***************************************************************************)
EXTENDS FujiAcServerStart, TLAPS

Unlocked == {"down", "open", "lock"}

\* A server with --sim skips Build.
SimInv == \A p \in Sim : pc[p] \in {"down", "controller", "bind", "serve"}

LockInv ==
  /\ \A p \in Procs \ Sim : pc[p] \notin Unlocked => p \in locked
  /\ \A p, q \in locked : p = q

SetUpInv ==
  \A p \in Procs \ Sim :
    /\ pc[p] \in {"speed", "blocking", "controller", "bind", "serve"}
         => attributes
    /\ pc[p] \in {"blocking", "controller", "bind", "serve"} => speed
    /\ pc[p] \in {"controller", "bind", "serve"} => blocking[p]

StartInv == StartTypeOK /\ SimInv /\ LockInv /\ SetUpInv

\* No server runs at the start, so the lock is free.
LEMMA StartInvInit == Init => StartInv
<1> SUFFICES ASSUME Init PROVE StartInv
  OBVIOUS
<1> USE ProcsAssumption DEF ProcsAssumption, Init
<1>1. StartTypeOK
  <2>1. events \in 0..MaxEvents
    OBVIOUS
  <2>2. pc \in [Procs -> Steps] /\ blocking \in [Procs -> BOOLEAN]
    BY DEF Steps
  <2>3. locked \subseteq Procs /\ attributes \in BOOLEAN /\ speed \in BOOLEAN
    BY Zenon
  <2> QED BY <2>1, <2>2, <2>3 DEF StartTypeOK
<1>2. SimInv
  BY DEF SimInv
<1>3. LockInv
  BY DEF LockInv, Unlocked
<1>4. SetUpInv
  BY DEF SetUpInv
<1> QED BY <1>1, <1>2, <1>3, <1>4 DEF StartInv

\* Types and locks, whatever a process does.
LEMMA StepKeepsTypes ==
  ASSUME NEW p \in Procs, StartInv, Step(p) \/ Crash(p) \/ Stop(p)
  PROVE StartTypeOK' /\ SimInv'
<1> USE ProcsAssumption
        DEF ProcsAssumption, StartInv, StartTypeOK, Steps, At, Goto, Event
<1>1. CASE Start(p)
  BY <1>1 DEF Start, SimInv
<1>2. CASE OpenTty(p)
  BY <1>2 DEF OpenTty, SimInv
<1>3. CASE Lock(p)
  BY <1>3 DEF Lock, SimInv
<1>4. CASE LockFails(p)
  BY <1>4 DEF LockFails, Ends, SimInv
<1>5. CASE SetAttributes(p)
  BY <1>5 DEF SetAttributes, SimInv
<1>6. CASE SetSpeed(p)
  BY <1>6 DEF SetSpeed, SimInv
<1>7. CASE SetBlocking(p)
  BY <1>7 DEF SetBlocking, SimInv
<1>8. CASE StartController(p)
  BY <1>8 DEF StartController, SimInv
<1>9. CASE BuildAndStart(p)
  BY <1>9 DEF BuildAndStart, SimInv
<1>10. CASE BuildFails(p)
  BY <1>10 DEF BuildFails, Ends, SimInv
<1>11. CASE Crash(p)
  BY <1>11 DEF Crash, Ends, SimInv
<1>12. CASE Stop(p)
  BY <1>12 DEF Stop, Ends, SimInv
<1> QED BY <1>1, <1>2, <1>3, <1>4, <1>5, <1>6, <1>7, <1>8,
           <1>9, <1>10, <1>11, <1>12
        DEF Step

\* The lock on the tty stays with the one server that took it.
LEMMA StepKeepsLock ==
  ASSUME NEW p \in Procs, StartInv, Step(p) \/ Crash(p) \/ Stop(p)
  PROVE LockInv'
<1> USE ProcsAssumption
        DEF ProcsAssumption, StartInv, StartTypeOK, Steps, At, Goto, Event
<1>1. CASE Start(p)
  BY <1>1 DEF Start, SimInv, LockInv, Unlocked
<1>2. CASE OpenTty(p)
  BY <1>2 DEF OpenTty, SimInv, LockInv, Unlocked
<1>3. CASE Lock(p)
  BY <1>3 DEF Lock, SimInv, LockInv, Unlocked
<1>4. CASE LockFails(p)
  BY <1>4 DEF LockFails, Ends, SimInv, LockInv, Unlocked
<1>5. CASE SetAttributes(p)
  BY <1>5 DEF SetAttributes, SimInv, LockInv, Unlocked
<1>6. CASE SetSpeed(p)
  BY <1>6 DEF SetSpeed, SimInv, LockInv, Unlocked
<1>7. CASE SetBlocking(p)
  BY <1>7 DEF SetBlocking, SimInv, LockInv, Unlocked
<1>8. CASE StartController(p)
  BY <1>8 DEF StartController, SimInv, LockInv, Unlocked
<1>9. CASE BuildAndStart(p)
  BY <1>9 DEF BuildAndStart, SimInv, LockInv, Unlocked
<1>10. CASE BuildFails(p)
  BY <1>10 DEF BuildFails, Ends, SimInv, LockInv, Unlocked
<1>11. CASE Crash(p)
  BY <1>11 DEF Crash, Ends, SimInv, LockInv, Unlocked
<1>12. CASE Stop(p)
  BY <1>12 DEF Stop, Ends, SimInv, LockInv, Unlocked
<1> QED BY <1>1, <1>2, <1>3, <1>4, <1>5, <1>6, <1>7, <1>8,
           <1>9, <1>10, <1>11, <1>12
        DEF Step

\* A server past the set-up has set up the tty it reads.
LEMMA StepKeepsSetUp ==
  ASSUME NEW p \in Procs, StartInv, Step(p) \/ Crash(p) \/ Stop(p)
  PROVE SetUpInv'
<1> USE ProcsAssumption
        DEF ProcsAssumption, StartInv, StartTypeOK, Steps, At, Goto, Event
<1>1. CASE Start(p)
  BY <1>1 DEF Start, SimInv, SetUpInv
<1>2. CASE OpenTty(p)
  BY <1>2 DEF OpenTty, SimInv, SetUpInv
<1>3. CASE Lock(p)
  BY <1>3 DEF Lock, SimInv, SetUpInv
<1>4. CASE LockFails(p)
  BY <1>4 DEF LockFails, Ends, SimInv, SetUpInv
<1>5. CASE SetAttributes(p)
  BY <1>5 DEF SetAttributes, SimInv, SetUpInv
<1>6. CASE SetSpeed(p)
  BY <1>6 DEF SetSpeed, SimInv, SetUpInv
<1>7. CASE SetBlocking(p)
  BY <1>7 DEF SetBlocking, SimInv, SetUpInv
<1>8. CASE StartController(p)
  BY <1>8 DEF StartController, SimInv, SetUpInv
<1>9. CASE BuildAndStart(p)
  BY <1>9 DEF BuildAndStart, SimInv, SetUpInv
<1>10. CASE BuildFails(p)
  BY <1>10 DEF BuildFails, Ends, SimInv, SetUpInv
<1>11. CASE Crash(p)
  BY <1>11 DEF Crash, Ends, SimInv, SetUpInv
<1>12. CASE Stop(p)
  BY <1>12 DEF Stop, Ends, SimInv, SetUpInv
<1> QED BY <1>1, <1>2, <1>3, <1>4, <1>5, <1>6, <1>7, <1>8,
           <1>9, <1>10, <1>11, <1>12
        DEF Step

\* Every step of a server keeps the invariant.
LEMMA StartInvStep == StartInv /\ [Next]_vars => StartInv'
<1> SUFFICES ASSUME StartInv, [Next]_vars PROVE StartInv'
  OBVIOUS
<1>1. CASE UNCHANGED vars
  BY <1>1 DEF vars, StartInv, StartTypeOK, SimInv, LockInv, SetUpInv
<1>2. CASE OtherProgram
  <2>1. StartTypeOK'
    <3>1. events' \in 0..MaxEvents
      BY <1>2, ProcsAssumption
         DEF ProcsAssumption, OtherProgram, Event, StartInv, StartTypeOK
    <3>2. attributes' \in BOOLEAN /\ speed' \in BOOLEAN
      BY <1>2, Zenon DEF OtherProgram
    <3> QED
      BY <1>2, <3>1, <3>2 DEF OtherProgram, StartInv, StartTypeOK, Steps
  <2>3. SimInv' /\ LockInv'
    BY <1>2 DEF OtherProgram, StartInv, SimInv, LockInv
  <2>2. SetUpInv'
    BY <1>2 DEF OtherProgram, Open, StartInv, SetUpInv
  <2> QED BY <2>1, <2>2, <2>3 DEF StartInv
<1>3. ASSUME NEW p \in Procs, Step(p) \/ Crash(p) \/ Stop(p)
      PROVE StartInv'
  BY <1>3, StepKeepsTypes, StepKeepsLock, StepKeepsSetUp DEF StartInv
<1> QED BY <1>1, <1>2, <1>3 DEF Next

\* The invariant holds of every start, crash and stop.
LEMMA StartInvHolds == Spec => []StartInv
BY StartInvInit, StartInvStep, PTL DEF Spec

\* Two servers never talk to the unit at once (the lock of Build).
THEOREM OneMasterOnTheWire == Spec => []OneMaster
<1>1. StartInv => OneMaster
  BY DEF StartInv, LockInv, OneMaster, Looping, Unlocked
<1> QED BY <1>1, StartInvHolds, PTL

\* A running loop's tty is raw, at 500 bps and blocking: nobody changes it
\* under the loop.
THEOREM LoopReadsConfiguredTty == Spec => []ReadsConfigured
<1>1. StartInv => ReadsConfigured
  BY DEF StartInv, SetUpInv, ReadsConfigured, Looping
<1> QED BY <1>1, StartInvHolds, PTL
==============================================================================
