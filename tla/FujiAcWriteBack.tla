--------------------------- MODULE FujiAcWriteBack ---------------------------
(***************************************************************************)
(* What the controller promises its callers, without frames, queries,      *)
(* ready_ and threads: the copy is a write-back cache of the unit's        *)
(* settings.  A change waits in the copy until one write carries the whole *)
(* copy to the unit; only then is its caller released.  What was seen of   *)
(* the unit before that write is never fetched after it.  A lossy line may *)
(* lose the write and release a caller early, and nothing worse.           *)
(***************************************************************************)
EXTENDS FujiTypes

CONSTANTS
  Callers,    \* threads that ask for changes
  Requests,   \* what they may ask for
  Lossy       \* a write may be lost on its way to the unit

VARIABLES
  unit,       \* the settings of the AC unit
  copy,       \* the controller's copy of them
  unsent,     \* the copy holds a change that was not written
  seen,       \* what a frame in hand says of the unit: none or one value
  waiting     \* the callers whose change is not done yet

vars == <<unit, copy, unsent, seen, waiting>>

UnitSettings ==
  [enabled : BOOLEAN, mode : Modes, fan : Fans, economy : BOOLEAN,
   temperature : Temperatures, swing : BOOLEAN]

Defaults ==
  [enabled |-> FALSE, mode |-> "AUTO", fan |-> "AUTO", economy |-> FALSE,
   temperature |-> 20, swing |-> FALSE]

\* The settings s with what request r asks for; unset fields keep their value.
Asked(s, r) ==
  [enabled |-> IF r.mode = "UNKNOWN" THEN s.enabled ELSE r.mode # "OFF",
   mode |-> IF r.mode \in {"UNKNOWN", "OFF"} THEN s.mode ELSE r.mode,
   fan |-> IF r.fan = "UNKNOWN" THEN s.fan ELSE r.fan, economy |-> s.economy,
   temperature |-> IF r.setpoint = 0 THEN s.temperature ELSE r.setpoint % 256,
   swing |-> s.swing]

AsksNothing(r) == r.mode = "UNKNOWN" /\ r.fan = "UNKNOWN" /\ r.setpoint = 0

\* What the unit holds after a write of s: FAN mode has no economy and runs at
\* 18 degrees; seven bits carry the temperature, the eighth is the economy bit.
Taken(s) ==
  [enabled |-> s.enabled, mode |-> s.mode, fan |-> s.fan,
   economy |-> s.mode # "FAN" /\ (s.economy \/ s.temperature > 127),
   temperature |-> IF s.mode = "FAN" THEN 18 ELSE s.temperature % 128,
   swing |-> s.swing]

Init ==
  /\ unit \in UnitSettings
  /\ copy = Defaults
  /\ unsent = FALSE
  /\ seen = {}
  /\ waiting = {}

-----------------------------------------------------------------------------
Change(c, r) ==
  /\ c \notin waiting
  /\ copy' = Asked(copy, r)
  /\ unsent' = (unsent \/ ~AsksNothing(r))
  /\ waiting' = waiting \cup {c}
  /\ UNCHANGED <<unit, seen>>

\* Lost queries look like a stable state to the one who counts equal replies.
Release(c) ==
  /\ c \in waiting /\ (unsent => Lossy)
  /\ waiting' = waiting \ {c}
  /\ UNCHANGED <<unit, copy, unsent, seen>>

See ==
  /\ seen' = {unit}
  /\ UNCHANGED <<unit, copy, unsent, waiting>>

\* Only a copy without unsent change takes the unit's settings.
Fetch ==
  /\ ~unsent
  /\ \E s \in seen : copy' = s
  /\ seen' = {}
  /\ UNCHANGED <<unit, unsent, waiting>>

\* A query goes first: the frame in hand is answered with it.
Discard ==
  /\ unsent
  /\ seen' = {}
  /\ UNCHANGED <<unit, copy, unsent, waiting>>

\* The whole copy, in one step, in answer to a frame in hand.
WriteBack ==
  /\ unsent /\ seen # {}
  /\ unit' = Taken(copy)
  /\ unsent' = FALSE
  /\ seen' = {}
  /\ UNCHANGED <<copy, waiting>>

\* The write is lost: the copy takes it for sent.
LoseWrite ==
  /\ Lossy /\ unsent /\ seen # {}
  /\ unsent' = FALSE
  /\ seen' = {}
  /\ UNCHANGED <<unit, copy, waiting>>

\* The remote, a power cycle.
UnitStep ==
  /\ unit' \in UnitSettings
  /\ UNCHANGED <<copy, unsent, seen, waiting>>

\* The controller starts over: its changes and its callers are gone.
Restart ==
  /\ copy' = Defaults
  /\ unsent' = FALSE
  /\ seen' = {}
  /\ waiting' = {}
  /\ UNCHANGED unit

Next ==
  \/ \E c \in Callers : Release(c) \/ \E r \in Requests : Change(c, r)
  \/ See \/ Fetch \/ Discard \/ WriteBack \/ LoseWrite
  \/ UnitStep \/ Restart

Spec == Init /\ [][Next]_vars
==============================================================================
