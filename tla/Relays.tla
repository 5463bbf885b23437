------------------------------- MODULE Relays -------------------------------
(***************************************************************************)
(* The relay driver of drivers/relays/relays.c.  One process runs          *)
(* warden_relay_available, _get and _set, one call at a time, against the  *)
(* four relay_io primitives; every primitive is a step of its own.  The    *)
(* process may crash between any two of them and start again, while the    *)
(* gpio lines keep their export, direction and level.  Reads report their  *)
(* failures; writes are best-effort and fail silently.                     *)
(***************************************************************************)
EXTENDS Integers

CONSTANTS
  COUNT,          \* WARDEN_RELAY_COUNT
  ValueReadFails  \* whether reading a line's value may fail

ASSUME RelaysAssumption ==
  /\ COUNT \in Nat \ {0}
  /\ ValueReadFails \in BOOLEAN

Relay == 0 .. COUNT - 1       \* s_gpio maps these to distinct lines
Idx   == 0 .. COUNT           \* a caller's index, the last one out of range

VARIABLES
  exported, direction, level,   \* the gpio lines (sysfs and hardware)
  op, idx, arg,                 \* the call in progress
  pc, cur,                      \* where it is; ensure_ready's local
  result,                       \* what the last call returned
  write_failed                  \* history: the I/O of a write of this call failed

lines == <<exported, direction, level>>
call  == <<op, idx, arg>>
vars  == <<lines, call, pc, cur, result, write_failed>>

TypeOK ==
  /\ exported \in [Relay -> BOOLEAN]
  /\ direction \in [Relay -> {"in", "out"}]
  /\ level \in [Relay -> BOOLEAN]
  /\ op \in {"available", "get", "set"} /\ idx \in Idx /\ arg \in BOOLEAN
  /\ pc \in {"idle", "start", "export", "recheck", "direction", "value",
             "restore", "drive", "read"}
  /\ cur \in BOOLEAN /\ result \in BOOLEAN /\ write_failed \in BOOLEAN

-----------------------------------------------------------------------------
(* The relay_io primitives (external: sysfs and the gpio hardware) *)

\* A write that reaches the kernel, or is lost without a word.
Lands ==
  /\ UNCHANGED write_failed
Lost ==
  /\ write_failed' = TRUE
  /\ UNCHANGED lines

WriteExport(g) ==
  \/ /\ exported' = [exported EXCEPT ![g] = TRUE]
     /\ UNCHANGED <<direction, level>> /\ Lands
  \/ Lost

\* "high" and "low" set the direction and the level in one step.
WriteDirection(g, high) ==
  \/ /\ direction' = [direction EXCEPT ![g] = "out"]
     /\ level' = [level EXCEPT ![g] = high]
     /\ UNCHANGED exported /\ Lands
  \/ Lost

\* The kernel refuses to drive a line whose direction is in: nothing fails that
\* the driver's best-effort write would have had to survive, and nothing moves.
WriteValue(g, on) ==
  \/ /\ level' = IF direction[g] = "out" THEN [level EXCEPT ![g] = on] ELSE level
     /\ UNCHANGED <<exported, direction>> /\ Lands
  \/ Lost

-----------------------------------------------------------------------------
(* The driver *)

Goto(label) == pc' = label /\ UNCHANGED <<call, cur, result>>

Return(r) ==
  /\ pc' = "idle"
  /\ result' = r
  /\ UNCHANGED <<call, cur>>

\* A caller enters one of the three functions.
Call(o, i, on) ==
  /\ pc = "idle"
  /\ op' = o /\ idx' = i /\ arg' = on
  /\ pc' = "start"
  /\ write_failed' = FALSE
  /\ UNCHANGED <<lines, cur, result>>

\* The index check, then exported(): get only reads an exported line, the
\* other two go through ensure_ready.
Start ==
  /\ pc = "start"
  /\ IF idx >= COUNT THEN Return(FALSE)
     ELSE IF op = "get"
          THEN IF exported[idx] THEN Goto("read") ELSE Return(FALSE)
          ELSE IF exported[idx] THEN Goto("direction") ELSE Goto("export")
  /\ UNCHANGED <<lines, write_failed>>

Export ==
  /\ pc = "export"
  /\ WriteExport(idx)
  /\ Goto("recheck")

Recheck ==
  /\ pc = "recheck"
  /\ IF exported[idx] THEN Goto("direction") ELSE Return(FALSE)
  /\ UNCHANGED <<lines, write_failed>>

\* ensure_ready has succeeded: available returns, set goes on to drive.
Ready == IF op = "set" THEN Goto("drive") ELSE Return(TRUE)

\* MUTANT of ReadDirection: an exported line is taken for a configured one.
ReadDirectionSkipped ==
  /\ pc = "direction"
  /\ Ready
  /\ UNCHANGED <<lines, write_failed>>

\* Reading the direction fails, or tells whether the line is an output.
ReadDirection ==
  /\ pc = "direction"
  /\ \/ Return(FALSE)
     \/ direction[idx] = "out" /\ Ready
     \/ direction[idx] # "out" /\ Goto("value")
  /\ UNCHANGED <<lines, write_failed>>

\* MUTANT of ReadLevel: "out" is requested without reading the level first.
ReadLevelSkipped ==
  /\ pc = "value"
  /\ cur' = FALSE
  /\ pc' = "restore"
  /\ UNCHANGED <<lines, call, result, write_failed>>

\* The current level, or 0 when it cannot be read.
ReadLevel ==
  /\ pc = "value"
  /\ \/ cur' = level[idx]
     \/ ValueReadFails /\ cur' = FALSE
  /\ pc' = "restore"
  /\ UNCHANGED <<lines, call, result, write_failed>>

Restore ==
  /\ pc = "restore"
  /\ WriteDirection(idx, cur)
  /\ Ready

Drive ==
  /\ pc = "drive"
  /\ WriteValue(idx, arg)
  /\ Return(TRUE)

\* warden_relay_get: the value, or false when it cannot be read.
ReadValue ==
  /\ pc = "read"
  /\ \/ Return(level[idx])
     \/ ValueReadFails /\ Return(FALSE)
  /\ UNCHANGED <<lines, write_failed>>

\* The process dies and a new one starts: the lines keep their state.
Crash ==
  /\ pc # "idle"
  /\ pc' = "idle"
  /\ result' = FALSE
  /\ UNCHANGED <<lines, call, cur, write_failed>>

\* At power-up nothing is exported; a line may already be driven, and a relay
\* may already be closed.
Init ==
  /\ exported = [g \in Relay |-> FALSE]
  /\ direction \in [Relay -> {"in", "out"}]
  /\ level \in [Relay -> BOOLEAN]
  /\ op = "get" /\ idx = 0 /\ arg = FALSE
  /\ pc = "idle" /\ cur = FALSE /\ result = FALSE
  /\ write_failed = FALSE

Next ==
  \/ \E o \in {"available", "get", "set"}, i \in Idx, on \in BOOLEAN : Call(o, i, on)
  \/ Start \/ Export \/ Recheck \/ ReadDirection \/ ReadLevel \/ Restore
  \/ Drive \/ ReadValue \/ Crash

Spec == Init /\ [][Next]_vars

-----------------------------------------------------------------------------
(* Properties *)

\* "driven without disturbing a held contact" (docs/workflows/relay-drive.md):
\* a contact moves only when set asks for it, to what set asked, and only the
\* contact of the relay named; opening the page, exporting, crashing half-way
\* and starting over move none.
OnlySetMovesContacts ==
  [][\A g \in Relay : level'[g] # level[g] =>
       op = "set" /\ idx = g /\ level'[g] = arg]_vars

\* A set that got as far as driving the line, with no failing I/O, has put the
\* contact where it was asked to: it never drives a line that is still an input,
\* which the kernel would refuse without a word. An earlier process may have died
\* between its export and its direction, or lost the write of the direction.
SetReachesContact ==
  pc = "idle" /\ op = "set" /\ result /\ ~write_failed => level[idx] = arg
=============================================================================
