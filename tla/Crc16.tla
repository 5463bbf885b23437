------------------------------- MODULE Crc16 -------------------------------
(***************************************************************************)
(* The framing of sim/src/modbus.rs: crc16, append_crc, crc_ok and the     *)
(* test at the head of handle_frame, over real bytes.  A master's request  *)
(* (request, read_holding) crosses a wire and a socket that may flip bits, *)
(* split it at a pause, or run it together with the next one; handle_frame *)
(* looks at what the bridge made of it.                                    *)
(***************************************************************************)
EXTENDS Integers, Sequences, FiniteSets, Bitwise

CONSTANTS
  Addresses, Starts, Counts,  \* the read_holding requests considered
  MaxBurst,                   \* bits of the longest run of flips, at most 16
  MaxLength                   \* bytes compared with the polynomial remainder

Byte == 0 .. 255

ASSUME CrcAssumption ==
  /\ Addresses \subseteq Byte
  /\ Starts \subseteq 0 .. 65535 /\ Counts \subseteq 0 .. 65535
  /\ MaxBurst \in 1 .. 16 /\ MaxLength \in Nat

VARIABLES sent, received
vars == <<sent, received>>

-----------------------------------------------------------------------------
(* The code *)

\* MUTANT of ShiftOne: the polynomial is not reflected.
ShiftOneUnreflected(crc) ==
  IF crc % 2 = 1 THEN (crc \div 2) ^^ 32773 ELSE crc \div 2

\* One bit of the inner loop: the polynomial 0xA001, low bit first.
ShiftOne(crc) == IF crc % 2 = 1 THEN (crc \div 2) ^^ 40961 ELSE crc \div 2

\* One byte of the outer loop.
OneByte(crc, byte) ==
  LET loop[i \in 0 .. 8] == IF i = 0 THEN crc ^^ byte ELSE ShiftOne(loop[i - 1])
  IN loop[8]

\* The bound on crc holds of any u16; it has TLC evaluate one byte at a time.
crc16(bytes) ==
  LET loop[i \in 0 .. Len(bytes)] ==
        IF i = 0 THEN 65535
        ELSE LET crc == loop[i - 1] IN CASE crc < 65536 -> OneByte(crc, bytes[i])
  IN loop[Len(bytes)]

append_crc(frame) == LET c == crc16(frame) IN frame \o <<c % 256, c \div 256>>

\* MUTANT of crc_ok: only the low byte is compared.
crc_ok_low(frame) ==
  /\ Len(frame) >= 3
  /\ frame[Len(frame) - 1] = crc16(SubSeq(frame, 1, Len(frame) - 2)) % 256

crc_ok(frame) ==
  /\ Len(frame) >= 3
  /\ LET c == crc16(SubSeq(frame, 1, Len(frame) - 2)) IN
     SubSeq(frame, Len(frame) - 1, Len(frame)) = <<c % 256, c \div 256>>

\* The frames handle_frame looks into.
Accepted(frame) == Len(frame) >= 4 /\ crc_ok(frame)

request(address, pdu) == append_crc(<<address>> \o pdu)

read_holding(address, start, count) ==
  request(address, <<3, start \div 256, start % 256, count \div 256, count % 256>>)

-----------------------------------------------------------------------------
(* The wire *)

\* Bit n of a frame, counted in the order of the line (low bit first).
Flip(frame, bits) ==
  [i \in 1 .. Len(frame) |->
     LET mask[b \in 0 .. 8] ==
           IF b = 0 THEN 0
           ELSE mask[b - 1] + (IF 8 * (i - 1) + b - 1 \in bits THEN 2^(b - 1) ELSE 0)
     IN frame[i] ^^ mask[8]]

Whole == received = sent

\* Two bits anywhere, or one when they coincide.
FlipTwo ==
  /\ Whole
  /\ \E m, n \in 0 .. 8 * Len(sent) - 1 : m <= n /\ received' = Flip(sent, {m, n})
  /\ UNCHANGED sent

\* A run of noise: every bit of an interval, or all but one of them.
FlipBurst ==
  /\ Whole
  /\ \E n \in 0 .. 8 * Len(sent) - MaxBurst, m \in 0 .. MaxBurst - 1 :
       \/ received' = Flip(sent, n .. n + m)
       \/ \E k \in n + 1 .. n + m - 1 : received' = Flip(sent, (n .. n + m) \ {k})
  /\ UNCHANGED sent

\* The bridge takes a pause inside the frame for the gap between two.
Split ==
  /\ Whole
  /\ \E k \in 1 .. Len(sent) - 1 :
       received' \in {SubSeq(sent, 1, k), SubSeq(sent, k + 1, Len(sent))}
  /\ UNCHANGED sent

\* A retry that follows with no gap.
Merge ==
  /\ Whole
  /\ received' = sent \o sent
  /\ UNCHANGED sent

Init ==
  /\ \E a \in Addresses, s \in Starts, c \in Counts : sent = read_holding(a, s, c)
  /\ received = sent

Next == FlipTwo \/ FlipBurst \/ Split \/ Merge

Spec == Init /\ [][Next]_vars

-----------------------------------------------------------------------------
(* Properties *)

\* Noise on the line (up to two flipped bits, or a burst) and a retry that
\* runs into the request never reach the slave's functions; the request does.
NoiseIsRejected ==
  Len(received) >= Len(sent) => (Accepted(received) <=> received = sent)

\* "A mis-split frame fails CRC inside `handle_frame`, which answers `None`"
\* (qemu/rs485-bridge/src/lib.rs:7-8).
MisSplitFailsCrc == Len(received) < Len(sent) => ~Accepted(received)

\* x^k modulo x^16 + x^15 + x^2 + 1; bit j is the coefficient of x^j.
XPow ==
  LET f[k \in 0 .. 8 * MaxLength + 15] ==
        IF k = 0 THEN 1
        ELSE LET p == f[k - 1] IN
             IF p >= 32768 THEN (2 * p - 65536) ^^ 32773 ELSE 2 * p
  IN [k \in 0 .. 8 * MaxLength + 15 |-> f[k]]

\* The coefficient of x^j in the remainder of the message: its bits in line
\* order are the coefficients from the highest down, the first sixteen of them
\* complemented, and the whole is shifted up by x^16.
Coefficient(bytes, j) ==
  LET n == 8 * Len(bytes)
      bit(i) == (bytes[i \div 8 + 1] \div 2^(i % 8)) % 2
      ones == {i \in 0 .. n - 1 : bit(i) = IF i < 16 THEN 0 ELSE 1}
  IN Cardinality({i \in ones : (XPow[n + 15 - i] \div 2^j) % 2 = 1}) % 2

\* The shift register computes the CRC of the Modbus polynomial by definition:
\* its low bit is the highest coefficient of the remainder.
CrcIsRemainder ==
  Len(received) \in 2 .. MaxLength =>
    LET c == crc16(received) IN
    \A j \in 0 .. 15 : Coefficient(received, 15 - j) = (c \div 2^j) % 2
=============================================================================
