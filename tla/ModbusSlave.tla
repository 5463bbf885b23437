---------------------------- MODULE ModbusSlave ----------------------------
(***************************************************************************)
(* The Modbus RTU slave of sim/src/modbus.rs.  handle_frame is the operator *)
(* Handle, from a device and a request frame to the device it leaves and   *)
(* the reply frame (or Silence); the state machine of this module calls it *)
(* on any frame and lets a test harness seed cells and inject faults in    *)
(* between.                                                                *)
(*                                                                         *)
(* A frame is its decoded layout.  `sound` says that it has at least four  *)
(* bytes and a matching CRC (module Crc16 is about that), `to` whether its  *)
(* address is this slave's ("me"), 0 ("all") or another.  A PDU is two     *)
(* big-endian words `a` and `b`, for the two multiple writes followed by a *)
(* byte count and data bytes; `form` tells a PDU of the four bytes of two  *)
(* words from a longer and from a shorter one, whose words nothing reads.  *)
(***************************************************************************)
EXTENDS Integers, Sequences, FiniteSets

CONSTANTS
  NRegs, NBits,               \* the sizes the slave is created with
  BITS,                       \* bits in a byte (8)
  MAX_READ_REGS,  MAX_READ_BITS,    \* 125, 2000
  MAX_WRITE_REGS, MAX_WRITE_BITS,   \* 123, 1968
  COIL_ON,                    \* the word 0xFF00
  Requests,                   \* the request frames considered
  Seeds, SeedAddrs,           \* the register values a harness seeds, and where
  Ids, Drops, Codes           \* the identities, drop counts, exception codes

Byte == 0 .. 2^BITS - 1
Word == 0 .. 2^(2 * BITS) - 1

ILLEGAL_FUNCTION     == 1
ILLEGAL_DATA_ADDRESS == 2
ILLEGAL_DATA_VALUE   == 3

ASSUME SlaveAssumption ==
  /\ NRegs \in Nat /\ NBits \in Nat /\ BITS \in Nat \ {0}
  /\ COIL_ON \in Word \ {0}
  /\ Seeds \subseteq Word
  /\ SeedAddrs \subseteq (0 .. NRegs - 1) \cap (0 .. NBits - 1)
  /\ Drops \subseteq Nat

\* The byte counts of the longest replies fit in a byte.
ASSUME CountAssumption ==
  /\ 2 * MAX_READ_REGS \in Byte
  /\ (MAX_READ_BITS + BITS - 1) \div BITS \in Byte

VARIABLES
  dev,   \* struct ModbusSlave
  last   \* history: the last request and its reply

vars == <<dev, last>>

None    == -1                  \* force_exception: None
Silence == [kind |-> "silence"]
NoFrame == [kind |-> "noframe"]

\* ModbusSlave::new
New == [holding  |-> [i \in 0 .. NRegs - 1 |-> 0],
        input    |-> [i \in 0 .. NRegs - 1 |-> 0],
        coils    |-> [i \in 0 .. NBits - 1 |-> FALSE],
        discrete |-> [i \in 0 .. NBits - 1 |-> FALSE],
        slave_id |-> <<2^BITS - 1, 2^BITS - 1>>,
        drop_next |-> 0, force_exception |-> None]

-----------------------------------------------------------------------------
(* Bytes *)

ToBeBytes(w)        == <<w \div 2^BITS, w % 2^BITS>>
FromBeBytes(hi, lo) == hi * 2^BITS + lo
DivCeil(n)          == (n + BITS - 1) \div BITS
Bit(byte, i)        == (byte \div 2^i) % 2 = 1

\* The byte whose bits `ones` are set.
ByteOf(ones) ==
  LET sum[i \in 0 .. BITS] ==
        IF i = 0 THEN 0 ELSE sum[i - 1] + (IF i - 1 \in ones THEN 2^(i - 1) ELSE 0)
  IN sum[BITS]

-----------------------------------------------------------------------------
(* The functions of the data plane: [err], or [data, dev] when served *)

Err(code)    == [ok |-> FALSE, code |-> code]
Ok(data, d)  == [ok |-> TRUE, data |-> data, dev |-> d]

\* MUTANT of ReadRegs: the low byte goes first.
ReadRegsLittleEndian(d, p, bank) ==
  IF p.form # "two_words" \/ p.b = 0 \/ p.b > MAX_READ_REGS
  THEN Err(ILLEGAL_DATA_VALUE)
  ELSE IF p.a + p.b > NRegs THEN Err(ILLEGAL_DATA_ADDRESS)
  ELSE Ok(<<(2 * p.b) % 2^BITS>> \o
          [i \in 1 .. 2 * p.b |-> ToBeBytes(bank[p.a + (i - 1) \div 2])[2 - ((i - 1) % 2)]],
          d)

ReadRegs(d, p, bank) ==
  IF p.form # "two_words" \/ p.b = 0 \/ p.b > MAX_READ_REGS
  THEN Err(ILLEGAL_DATA_VALUE)
  ELSE IF p.a + p.b > NRegs THEN Err(ILLEGAL_DATA_ADDRESS)
  ELSE Ok(<<(2 * p.b) % 2^BITS>> \o
          [i \in 1 .. 2 * p.b |-> ToBeBytes(bank[p.a + (i - 1) \div 2])[1 + ((i - 1) % 2)]],
          d)

ReadBits(d, p, bank) ==
  IF p.form # "two_words" \/ p.b = 0 \/ p.b > MAX_READ_BITS
  THEN Err(ILLEGAL_DATA_VALUE)
  ELSE IF p.a + p.b > NBits THEN Err(ILLEGAL_DATA_ADDRESS)
  ELSE Ok(<<DivCeil(p.b) % 2^BITS>> \o
          [k \in 1 .. DivCeil(p.b) |->
             ByteOf({i \in 0 .. BITS - 1 : LET n == (k - 1) * BITS + i IN
                                            n < p.b /\ bank[p.a + n]})],
          d)

WriteSingleReg(d, p) ==
  IF p.form # "two_words" THEN Err(ILLEGAL_DATA_VALUE)
  ELSE IF p.a >= NRegs THEN Err(ILLEGAL_DATA_ADDRESS)
  ELSE Ok(ToBeBytes(p.a) \o ToBeBytes(p.b), [d EXCEPT !.holding[p.a] = p.b])

WriteSingleCoil(d, p) ==
  IF p.form # "two_words" \/ p.b \notin {0, COIL_ON} THEN Err(ILLEGAL_DATA_VALUE)
  ELSE IF p.a >= NBits THEN Err(ILLEGAL_DATA_ADDRESS)
  ELSE Ok(ToBeBytes(p.a) \o ToBeBytes(p.b), [d EXCEPT !.coils[p.a] = (p.b = COIL_ON)])

WriteMultiRegs(d, p) ==
  IF \/ p.form # "counted" \/ p.b = 0 \/ p.b > MAX_WRITE_REGS
     \/ p.bytecount # 2 * p.b \/ Len(p.data) # p.bytecount
  THEN Err(ILLEGAL_DATA_VALUE)
  ELSE IF p.a + p.b > NRegs THEN Err(ILLEGAL_DATA_ADDRESS)
  ELSE Ok(ToBeBytes(p.a) \o ToBeBytes(p.b),
          [d EXCEPT !.holding = [k \in DOMAIN @ |->
             LET i == k - p.a IN
             IF i \in 0 .. p.b - 1
             THEN FromBeBytes(p.data[2 * i + 1], p.data[2 * i + 2]) ELSE @[k]]])

WriteMultiCoils(d, p) ==
  IF \/ p.form # "counted" \/ p.b = 0 \/ p.b > MAX_WRITE_BITS
     \/ p.bytecount # DivCeil(p.b) \/ Len(p.data) # p.bytecount
  THEN Err(ILLEGAL_DATA_VALUE)
  ELSE IF p.a + p.b > NBits THEN Err(ILLEGAL_DATA_ADDRESS)
  ELSE Ok(ToBeBytes(p.a) \o ToBeBytes(p.b),
          [d EXCEPT !.coils = [k \in DOMAIN @ |->
             LET i == k - p.a IN
             IF i \in 0 .. p.b - 1
             THEN Bit(p.data[i \div BITS + 1], i % BITS) ELSE @[k]]])

\* The identity's length goes into one byte, whatever set_slave_id was given.
ReportSlaveId(d) == Ok(<<Len(d.slave_id) % 2^BITS>> \o d.slave_id, d)

Dispatch(d, fc, p) ==
  CASE fc = 1  -> ReadBits(d, p, d.coils)
    [] fc = 2  -> ReadBits(d, p, d.discrete)
    [] fc = 3  -> ReadRegs(d, p, d.holding)
    [] fc = 4  -> ReadRegs(d, p, d.input)
    [] fc = 5  -> WriteSingleCoil(d, p)
    [] fc = 6  -> WriteSingleReg(d, p)
    [] fc = 15 -> WriteMultiCoils(d, p)
    [] fc = 16 -> WriteMultiRegs(d, p)
    [] fc = 17 -> ReportSlaveId(d)
    [] OTHER   -> Err(ILLEGAL_FUNCTION)

Reply(fc, data) == [kind |-> "reply", exception |-> FALSE, fc |-> fc, data |-> data]
Nak(fc, code)   == [kind |-> "reply", exception |-> TRUE, fc |-> fc, data |-> <<code>>]

\* handle_frame: an injected drop is counted before the frame is looked at.
Handle(d, f) ==
  LET served == IF d.force_exception # None THEN Err(d.force_exception)
                ELSE Dispatch(d, f.fc, f.pdu)
  IN CASE d.drop_next > 0 -> [dev |-> [d EXCEPT !.drop_next = @ - 1], reply |-> Silence]
       [] d.drop_next = 0 /\ (~f.sound \/ f.to # "me") -> [dev |-> d, reply |-> Silence]
       [] OTHER -> IF served.ok
                   THEN [dev |-> served.dev, reply |-> Reply(f.fc, served.data)]
                   ELSE [dev |-> d, reply |-> Nak(f.fc, served.code)]

-----------------------------------------------------------------------------
(* The state machine *)

HandleFrame(f) ==
  /\ dev' = Handle(dev, f).dev
  /\ last' = [req |-> f, reply |-> Handle(dev, f).reply]

Seeded(bank, a, v) == dev' = [dev EXCEPT ![bank][a] = v]

SetRegister(bank, a, v) == Seeded(bank, a, v) /\ UNCHANGED last
SetBit(bank, a, v)      == Seeded(bank, a, v) /\ UNCHANGED last
SetSlaveId(id)          == dev' = [dev EXCEPT !.slave_id = id] /\ UNCHANGED last

DropNext(n)        == dev' = [dev EXCEPT !.drop_next = n] /\ UNCHANGED last
ForceException(c)  == dev' = [dev EXCEPT !.force_exception = c] /\ UNCHANGED last
ClearFaults ==
  /\ dev' = [dev EXCEPT !.drop_next = 0, !.force_exception = None]
  /\ UNCHANGED last

Init ==
  /\ dev = New
  /\ last = [req |-> NoFrame, reply |-> Silence]

Next ==
  \/ \E f \in Requests : HandleFrame(f)
  \/ \E b \in {"holding", "input"}, a \in SeedAddrs, v \in Seeds : SetRegister(b, a, v)
  \/ \E b \in {"coils", "discrete"}, a \in SeedAddrs, v \in BOOLEAN : SetBit(b, a, v)
  \/ \E id \in Ids : SetSlaveId(id)
  \/ \E n \in Drops : DropNext(n)
  \/ \E c \in Codes : ForceException(c)
  \/ ClearFaults

Spec == Init /\ [][Next]_vars

-----------------------------------------------------------------------------
(* Properties *)

\* A byte string as the number whose byte k weighs 2^(BITS * (k - 1)): bit i
\* of a Modbus bit string is bit i of this number.
LittleEndian(data) ==
  LET sum[k \in 0 .. Len(data)] ==
        IF k = 0 THEN 0 ELSE sum[k - 1] + data[k] * 2^(BITS * (k - 1))
  IN sum[Len(data)]

RegsIn(data, n) == [i \in 1 .. n |-> data[2 * i - 1] * 2^BITS + data[2 * i]]
BitsIn(data, n) == [i \in 1 .. n |-> Bit(LittleEndian(data), i - 1)]

BankOf(fc) == CASE fc \in {1, 5, 15} -> "coils" [] fc = 2 -> "discrete"
                [] fc \in {3, 6, 16} -> "holding" [] fc = 4 -> "input"

\* What the master asked with a frame: n = 0 for a request it may not make.
Ask(f) ==
  LET p == f.pdu
      pair == f.pdu.form = "two_words"
      counted(bytes) == p.form = "counted" /\ p.bytecount = bytes /\ Len(p.data) = bytes
      read(n)   == [kind |-> "read", bank |-> BankOf(f.fc), first |-> p.a, n |-> n]
      write(s)  == [kind |-> "write", bank |-> BankOf(f.fc), first |-> p.a,
                    n |-> Len(s), values |-> s]
  IN IF f = NoFrame \/ (f # NoFrame /\ (~f.sound \/ f.to # "me")) THEN [kind |-> "none"]
     ELSE CASE f.fc \in 1 .. 4 -> read(IF pair THEN p.b ELSE 0)
            [] f.fc = 5  -> write(IF pair /\ p.b \in {0, COIL_ON}
                                  THEN <<p.b = COIL_ON>> ELSE <<>>)
            [] f.fc = 6  -> write(IF pair THEN <<p.b>> ELSE <<>>)
            [] f.fc = 15 -> write(IF counted(DivCeil(p.b)) THEN BitsIn(p.data, p.b) ELSE <<>>)
            [] f.fc = 16 -> write(IF counted(2 * p.b) THEN RegsIn(p.data, p.b) ELSE <<>>)
            [] f.fc = 17 -> [kind |-> "identify"]
            [] OTHER     -> [kind |-> "unknown"]

\* What the master makes of the reply: a byte count that is not the length of
\* the data, or an echo that is not the request's, is garbled.
Answer(f, r) ==
  LET payload == Tail(r.data)
      bytes   == CASE f.fc = 17 -> Len(payload)
                   [] f.fc \in {3, 4} -> 2 * f.pdu.b
                   [] OTHER -> DivCeil(f.pdu.b)
      result(o, s) == [outcome |-> o, values |-> s]
  IN CASE r = Silence -> result("silent", <<>>)
       [] r # Silence /\ r.exception -> result("refused", <<>>)
       [] r # Silence /\ ~r.exception /\ f.fc \in {5, 6, 15, 16} ->
            result(IF r.data = ToBeBytes(f.pdu.a) \o ToBeBytes(f.pdu.b)
                   THEN "done" ELSE "garbled", <<>>)
       [] OTHER ->
            IF Head(r.data) # Len(payload) \/ bytes # Len(payload)
            THEN result("garbled", <<>>)
            ELSE result("data", CASE f.fc = 17 -> payload
                                  [] f.fc \in {3, 4} -> RegsIn(payload, f.pdu.b)
                                  [] OTHER -> BitsIn(payload, f.pdu.b))

Device == INSTANCE FieldDevice WITH
  MaxRead  <- [holding |-> MAX_READ_REGS, input |-> MAX_READ_REGS,
               coils |-> MAX_READ_BITS, discrete |-> MAX_READ_BITS],
  MaxWrite <- [holding |-> MAX_WRITE_REGS, coils |-> MAX_WRITE_BITS],
  MaxId    <- 2^BITS - 1,
  banks    <- [holding |-> dev.holding, input |-> dev.input,
               coils |-> dev.coils, discrete |-> dev.discrete],
  id       <- dev.slave_id,
  fault    <- IF dev.drop_next > 0 THEN "drop"
              ELSE IF dev.force_exception # None THEN "nak" ELSE "none",
  exchange <- [ask |-> Ask(last.req), answer |-> Answer(last.req, last.reply)]

\* The slave is a field device: over frames and bytes it serves each request
\* completely or not at all, with the cells the request names, whatever was
\* seeded or injected before it.
ImplementsDevice == Device!Spec

\* "addr == mine or broadcast?" (docs/workflows/modbus-read-holding.md:9-13): a
\* frame to address 0 gets past the address check like one to the slave's own, so
\* that a legal register write sent to all is carried out. handle_frame returns
\* before it looks at the function code.
BroadcastIsServed ==
  [][\A f \in Requests :
       /\ HandleFrame(f)
       /\ f.sound /\ f.to = "all"
       /\ f.fc = 6 /\ f.pdu.form = "two_words" /\ f.pdu.a < NRegs
       /\ dev.drop_next = 0 /\ dev.force_exception = None
       => dev'.holding[f.pdu.a] = f.pdu.b]_vars

TypeOK ==
  /\ dev.holding \in [0 .. NRegs - 1 -> Word] /\ dev.input \in [0 .. NRegs - 1 -> Word]
  /\ dev.coils \in [0 .. NBits - 1 -> BOOLEAN]
  /\ dev.discrete \in [0 .. NBits - 1 -> BOOLEAN]
  /\ dev.slave_id \in Seq(Byte)
  /\ dev.drop_next \in Nat /\ dev.force_exception \in Byte \cup {None}
  /\ last.reply # Silence => last.reply.data \in Seq(Byte)
=============================================================================
