---------------------------- MODULE FieldDevice ----------------------------
(***************************************************************************)
(* What a Modbus field device promises its master, without frames, bytes or *)
(* packing: four banks of cells and an identity; a request names a bank and *)
(* a range of it and is served in one step, completely or not at all; an   *)
(* injected fault silences the device or makes it refuse.                  *)
(***************************************************************************)
EXTENDS Integers, Sequences

CONSTANTS
  MaxRead, MaxWrite, \* per bank: the most cells one request may name
  MaxId              \* the longest identity a reply can announce the length of

VARIABLES
  banks,     \* the cells: a function from 0 .. size - 1 for each bank
  id,        \* what the device reports itself to be
  fault,     \* "none", "drop" or "nak"
  exchange   \* the last request and what the master made of the reply

vars == <<banks, id, fault, exchange>>

Silent  == [outcome |-> "silent", values |-> <<>>]
Refused == [outcome |-> "refused", values |-> <<>>]
Done    == [outcome |-> "done", values |-> <<>>]
Garbled == [outcome |-> "garbled", values |-> <<>>]
Data(s) == [outcome |-> "data", values |-> s]

Cells(r) == r.first .. r.first + r.n - 1

\* A request the device must serve.
Legal(r) ==
  \/ r.kind = "identify"
  \/ /\ r.kind \in {"read", "write"}
     /\ r.n > 0
     /\ r.n <= (IF r.kind = "read" THEN MaxRead[r.bank] ELSE MaxWrite[r.bank])
     /\ Cells(r) \subseteq DOMAIN banks[r.bank]

Read(r) == [i \in 1 .. r.n |-> banks[r.bank][r.first + i - 1]]

Written(r) == [banks EXCEPT ![r.bank] =
  [a \in DOMAIN @ |-> IF a \in Cells(r) THEN r.values[a - r.first + 1] ELSE @[a]]]

Ignored(r) == fault = "drop" \/ r.kind = "none"

\* The identity, if the master can make it out.
Identity == IF Len(id) <= MaxId THEN Data(id) ELSE Garbled

\* The four ways a request ends.
Ignore(r) ==
  /\ Ignored(r)
  /\ exchange' = [ask |-> r, answer |-> Silent]
  /\ fault' \in (IF fault = "drop" THEN {"drop", "none", "nak"} ELSE {fault})
  /\ UNCHANGED <<banks, id>>

Refuse(r) ==
  /\ ~Ignored(r)
  /\ fault = "nak" \/ ~Legal(r)
  /\ exchange' = [ask |-> r, answer |-> Refused]
  /\ UNCHANGED <<banks, id, fault>>

Answer(r) ==
  /\ fault = "none" /\ Legal(r) /\ r.kind # "write"
  /\ exchange' = [ask |-> r,
                  answer |-> IF r.kind = "identify" THEN Identity ELSE Data(Read(r))]
  /\ UNCHANGED <<banks, id, fault>>

Obey(r) ==
  /\ fault = "none" /\ Legal(r) /\ r.kind = "write"
  /\ banks' = Written(r)
  /\ exchange' = [ask |-> r, answer |-> Done]
  /\ UNCHANGED <<id, fault>>

\* The test harness rewrites one cell or the identity, or injects a fault.
Seed ==
  /\ \E b \in DOMAIN banks : \E a \in DOMAIN banks[b] :
       \A c \in DOMAIN banks : \A k \in DOMAIN banks[c] :
         <<c, k>> # <<b, a>> => banks'[c][k] = banks[c][k]
  /\ UNCHANGED <<id, fault, exchange>>

Identify == UNCHANGED <<banks, fault, exchange>>

Inject ==
  /\ fault' \in {"none", "drop", "nak"}
  /\ UNCHANGED <<banks, id, exchange>>

Next ==
  \/ LET r == exchange'.ask IN Ignore(r) \/ Refuse(r) \/ Answer(r) \/ Obey(r)
  \/ Seed \/ Identify \/ Inject

Spec == fault = "none" /\ [][Next]_vars
=============================================================================
