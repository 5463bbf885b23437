---------------------------- MODULE RelaysProofs ----------------------------
(***************************************************************************)
(* Proofs about Relays, for any number of relays, calls, lost writes and   *)
(* crashes.                                                                *)
(***************************************************************************)
EXTENDS Relays, TLAPS

\* The type invariant and, for a call past the index check, an index that
\* names a relay and the function that brought it there.
RelaysType ==
  /\ TypeOK
  /\ pc \notin {"idle", "start"} => idx \in Relay
  /\ pc = "read" => op = "get"
  /\ pc \in {"export", "recheck", "direction", "value", "restore"} => op # "get"
  /\ pc = "drive" => op = "set"

\* What ensure_ready knows when it gives the line its direction: the level it
\* will write is the level the line has. It is what keeps a held contact still.
LevelIsHeld == pc = "restore" /\ ~ ValueReadFails => cur = level[idx]

\* A set none of whose writes failed so far has an output to drive, so that the
\* kernel does not refuse it; and one that returned has driven it.
SetIsReady ==
  /\ pc = "drive" /\ ~ write_failed => direction[idx] = "out"
  /\ SetReachesContact

RelaysInv == RelaysType /\ LevelIsHeld

\* A relay_io write changes nothing but the line it names.
LEMMA WritesAreTyped ==
  ASSUME TypeOK, NEW g \in Relay, NEW b \in BOOLEAN,
         \/ WriteExport(g) \/ WriteDirection(g, b) \/ WriteValue(g, b)
  PROVE  /\ exported' \in [Relay -> BOOLEAN]
         /\ direction' \in [Relay -> {"in", "out"}]
         /\ level' \in [Relay -> BOOLEAN]
         /\ write_failed' \in BOOLEAN
BY DEF TypeOK, WriteExport, WriteDirection, WriteValue, Lands, Lost, lines

\* An index is checked by one comparison with the number of relays.
LEMMA IndexCheck ==
  /\ 0 \in Idx
  /\ \A i \in Idx : ~ (i >= COUNT) => i \in Relay
BY RelaysAssumption DEF Idx, Relay

\* Before any call the lines are at rest and no index is in use.
LEMMA TypeInit == Init => RelaysInv
<1> SUFFICES ASSUME Init PROVE RelaysInv
  OBVIOUS
<1>1. idx \in Idx
  BY IndexCheck DEF Init
<1> QED
  BY <1>1 DEF Init, RelaysInv, RelaysType, LevelIsHeld, TypeOK

\* Every access of a call keeps the types, and each is reached with an index
\* that relay_available, relay_get or relay_set has checked.
LEMMA TypeNext == RelaysType /\ [Next]_vars => RelaysType'
<1> SUFFICES ASSUME RelaysType, [Next]_vars PROVE RelaysType'
  OBVIOUS
<1> USE DEF RelaysType, TypeOK, call
<1>1. ASSUME NEW o \in {"available", "get", "set"}, NEW i \in Idx, NEW on \in BOOLEAN,
             Call(o, i, on)
      PROVE  RelaysType'
  BY <1>1 DEF Call, lines
<1>2. CASE Start
  <2>1. CASE idx >= COUNT
    BY <1>2, <2>1 DEF Start, Return, lines
  <2>2. CASE ~ (idx >= COUNT)
    <3>1. idx \in Relay
      BY <2>2, IndexCheck
    <3> QED
      BY <1>2, <2>2, <3>1 DEF Start, Goto, Return, lines
  <2> QED
    BY <2>1, <2>2
<1>3. CASE Export
  <2>1. idx \in Relay /\ WriteExport(idx)
    BY <1>3 DEF Export
  <2> QED
    BY <1>3, <2>1, WritesAreTyped DEF Export, Goto
<1>4. CASE Recheck
  BY <1>4 DEF Recheck, Goto, Return, lines
<1>5. CASE ReadDirection
  BY <1>5 DEF ReadDirection, Ready, Goto, Return, lines
<1>6. CASE ReadLevel
  BY <1>6 DEF ReadLevel, lines
<1>7. CASE Restore
  <2>1. idx \in Relay /\ WriteDirection(idx, cur)
    BY <1>7 DEF Restore
  <2> QED
    BY <1>7, <2>1, WritesAreTyped DEF Restore, Ready, Goto, Return
<1>8. CASE Drive
  <2>1. idx \in Relay /\ WriteValue(idx, arg)
    BY <1>8 DEF Drive
  <2> QED
    BY <1>8, <2>1, WritesAreTyped DEF Drive, Return
<1>9. CASE ReadValue
  BY <1>9 DEF ReadValue, Return, lines
<1>10. CASE Crash
  BY <1>10 DEF Crash, lines
<1>11. CASE UNCHANGED vars
  BY <1>11 DEF vars, lines
<1> QED
  BY <1>1, <1>2, <1>3, <1>4, <1>5, <1>6, <1>7, <1>8, <1>9, <1>10, <1>11 DEF Next

\* Only ReadLevel brings a call to Restore, and the single caller leaves the
\* level alone in between.
LEMMA HeldNext == RelaysInv /\ [Next]_vars => LevelIsHeld'
<1> SUFFICES ASSUME RelaysInv, [Next]_vars PROVE LevelIsHeld'
  OBVIOUS
<1> USE DEF RelaysInv, RelaysType, TypeOK, LevelIsHeld
<1>1. ASSUME NEW o \in {"available", "get", "set"}, NEW i \in Idx, NEW on \in BOOLEAN,
             Call(o, i, on)
      PROVE  LevelIsHeld'
  BY <1>1 DEF Call
<1>2. CASE ReadLevel
  BY <1>2 DEF ReadLevel, call, lines
<1>3. CASE Start \/ Recheck \/ ReadDirection \/ ReadValue \/ Crash
  BY <1>3 DEF Start, Recheck, ReadDirection, ReadValue, Crash, Ready, Goto, Return
<1>4. CASE Export \/ Restore \/ Drive
  BY <1>4 DEF Export, Restore, Drive, Ready, Goto, Return
<1>5. CASE UNCHANGED vars
  BY <1>5 DEF vars, call, lines
<1> QED
  BY <1>1, <1>2, <1>3, <1>4, <1>5 DEF Next

\* So both parts hold in every reachable state.
LEMMA Invariance == Spec => []RelaysInv
<1>1. RelaysInv /\ [Next]_vars => RelaysInv'
  BY TypeNext, HeldNext DEF RelaysInv
<1> QED
  BY TypeInit, <1>1, PTL DEF Spec

\* Every way of ensure_ready into Drive passes a direction that reads "out",
\* or a write of it that landed or is counted as failed.
LEMMA ReadyNext == RelaysInv /\ SetIsReady /\ [Next]_vars => SetIsReady'
<1> SUFFICES ASSUME RelaysInv, SetIsReady, [Next]_vars PROVE SetIsReady'
  OBVIOUS
<1> USE DEF RelaysInv, RelaysType, TypeOK, SetIsReady, SetReachesContact
<1>1. ASSUME NEW o \in {"available", "get", "set"}, NEW i \in Idx, NEW on \in BOOLEAN,
             Call(o, i, on)
      PROVE  SetIsReady'
  BY <1>1 DEF Call
<1>2. CASE Start
  BY <1>2 DEF Start, Goto, Return
<1>3. CASE Export
  BY <1>3 DEF Export, Goto
<1>4. CASE Recheck
  BY <1>4 DEF Recheck, Goto, Return
<1>5. CASE ReadDirection
  BY <1>5 DEF ReadDirection, Ready, Goto, Return, call, lines
<1>6. CASE ReadLevel
  BY <1>6 DEF ReadLevel
<1>7. CASE Restore
  <2>1. CASE Lost
    BY <1>7, <2>1 DEF Restore, Ready, Lost, Goto, Return
  <2>2. CASE direction' = [direction EXCEPT ![idx] = "out"]
    BY <1>7, <2>2 DEF Restore, Ready, Goto, Return, call
  <2> QED
    BY <1>7, <2>1, <2>2 DEF Restore, WriteDirection
<1>8. CASE Drive
  <2>1. CASE Lost
    BY <1>8, <2>1 DEF Drive, Lost, Return
  <2>2. CASE direction[idx] = "out" /\ level' = [level EXCEPT ![idx] = arg]
    BY <1>8, <2>2 DEF Drive, Return, call
  <2>3. CASE direction[idx] # "out" /\ Lands
    BY <1>8, <2>3 DEF Drive, Lands, Return
  <2> QED
    BY <1>8, <2>1, <2>2, <2>3 DEF Drive, WriteValue
<1>9. CASE ReadValue
  BY <1>9 DEF ReadValue, Return, call
<1>10. CASE Crash
  BY <1>10 DEF Crash
<1>11. CASE UNCHANGED vars
  BY <1>11 DEF vars, call, lines
<1> QED
  BY <1>1, <1>2, <1>3, <1>4, <1>5, <1>6, <1>7, <1>8, <1>9, <1>10, <1>11 DEF Next

-----------------------------------------------------------------------------
\* A set that drove its line with no failing I/O has put the contact where it was
\* asked to, and so drove an output, for any number of relays, whatever earlier
\* calls, lost writes and crashes left behind, and whether or not levels can be
\* read.
THEOREM SetReaches == Spec => []SetReachesContact
<1>1. Init => SetIsReady
  BY DEF Init, SetIsReady, SetReachesContact
<1>2. SetIsReady => SetReachesContact
  BY DEF SetIsReady
<1> QED
  BY <1>1, <1>2, Invariance, ReadyNext, PTL DEF Spec

\* Where levels can be read, no call but a set moves a contact, and a set only
\* its own, to what it was asked: not when a line is exported and made an
\* output, not after a crash between two accesses.
THEOREM ContactsAreHeld == ~ ValueReadFails => (Spec => OnlySetMovesContacts)
<1> SUFFICES ASSUME ~ ValueReadFails PROVE Spec => OnlySetMovesContacts
  OBVIOUS
<1> DEFINE Held == \A g \in Relay : level'[g] # level[g] =>
                      op = "set" /\ idx = g /\ level'[g] = arg
<1>1. RelaysInv /\ [Next]_vars => [Held]_vars
  <2> SUFFICES ASSUME RelaysInv, Next, NEW g \in Relay, level'[g] # level[g]
               PROVE  op = "set" /\ idx = g /\ level'[g] = arg
    OBVIOUS
  <2> USE DEF RelaysInv, RelaysType, TypeOK
  <2>1. CASE Restore
    <3>1. level' = [level EXCEPT ![idx] = cur] \/ level' = level
      BY <2>1 DEF Restore, WriteDirection, Lost, lines
    <3>2. cur = level[idx]
      BY <2>1 DEF Restore, LevelIsHeld
    <3> QED
      BY <3>1, <3>2
  <2>2. CASE Drive
    <3>1. level' = [level EXCEPT ![idx] = arg] \/ level' = level
      BY <2>2 DEF Drive, WriteValue, Lost, lines
    <3> QED
      BY <2>2, <3>1 DEF Drive
  <2>3. CASE Export
    BY <2>3 DEF Export, WriteExport, Lost, lines
  <2>4. CASE Start \/ Recheck \/ ReadDirection \/ ReadLevel \/ ReadValue \/ Crash
    BY <2>4 DEF Start, Recheck, ReadDirection, ReadLevel, ReadValue, Crash, lines
  <2>5. ASSUME NEW o \in {"available", "get", "set"}, NEW i \in Idx, NEW on \in BOOLEAN,
               Call(o, i, on)
        PROVE  FALSE
    BY <2>5 DEF Call, lines
  <2> QED
    BY <2>1, <2>2, <2>3, <2>4, <2>5 DEF Next
<1> QED
  BY <1>1, Invariance, PTL DEF Spec, OnlySetMovesContacts
=============================================================================
