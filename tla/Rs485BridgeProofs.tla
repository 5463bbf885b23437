------------------------- MODULE Rs485BridgeProofs -------------------------
(***************************************************************************)
(* Proofs about Rs485Bridge, for any requests, control lines, noise, cuts  *)
(* of the stream, buffer cap and timing.                                   *)
(***************************************************************************)
EXTENDS Rs485Bridge, WellFoundedInduction, TLAPS

\* What travels on the wire.
Pieces == [id : 0 .. MaxRequests, part : {"noise", "whole", "head", "tail"}]

\* All the pump has not disposed of, in the order the master wrote it.
Wire == buf \o sock

\* The piece that completes a request.
Completes(p) == p.part \in {"whole", "tail"}

\* The types of what the proofs reason about.
BridgeType ==
  /\ TypeOK
  /\ buf \in Seq(Pieces) /\ sock \in Seq(Pieces)
  /\ requests \in Seq(Asks) /\ Len(requests) <= MaxRequests
  /\ applied \in [1 .. MaxRequests -> Nat]
  /\ met \in 0 .. Len(requests)

\* Where the pump is in its last dispatch, and that the mutex is never
\* poisoned: the control thread checks an address against the bank it indexes.
PumpInv ==
  /\ ~ poisoned
  /\ pc = "fatal" => ~ open
  /\ pc \in {"final", "last write", "eof"} => ~ open /\ sock = <<>>
  /\ pc \in {"dispatch", "final"} => buf # <<>>
  /\ pc \in {"last write", "eof"} => buf = <<>>

\* A piece is noise or of a request made; the piece that completes a request
\* is on the wire once, and only before the request is served; a request the
\* master is still writing is neither.
WireInv ==
  /\ \A k \in 1 .. Len(Wire) :
       /\ Wire[k].id \in 0 .. Len(requests)
       /\ Wire[k].id = 0 => Wire[k].part = "noise"
       /\ Completes(Wire[k]) => Wire[k].id # 0 /\ applied[Wire[k].id] = 0
  /\ \A j, k \in 1 .. Len(Wire) :
       Completes(Wire[j]) /\ Completes(Wire[k]) /\ Wire[j].id = Wire[k].id => j = k
  /\ master = "sending" =>
       /\ asked \in 1 .. Len(requests) /\ applied[asked] = 0
       /\ \A k \in 1 .. Len(Wire) : Completes(Wire[k]) => Wire[k].id # asked
  /\ \A n \in 1 .. MaxRequests : n > Len(requests) => applied[n] = 0
  /\ ServedOnce

\* A request made is on the wire, or no newer than one disposed of.
MetInv ==
  \A n \in 1 .. Len(requests) :
    n <= met \/ \E k \in 1 .. Len(Wire) : Wire[k].id = n

BridgeInv == BridgeType /\ PumpInv /\ WireInv /\ MetInv

-----------------------------------------------------------------------------
(* Sequences and maxima *)

\* Every non-empty set of naturals has a least element.
LEMMA LeastElement ==
  ASSUME NEW T \in SUBSET Nat, T # {}
  PROVE  \E x \in T : \A y \in T : x <= y
<1> DEFINE Less == OpToRel(<, Nat)
<1>1. IsWellFoundedOn(Less, Nat)
  BY NatLessThanWellFounded
<1>2. \A x, y \in Nat : y < x => <<y, x>> \in Less
  BY DEF OpToRel
<1> HIDE DEF Less
<1>3. PICK x \in T : \A y \in T : ~ (<<y, x>> \in Less)
  BY <1>1, WFMin
<1>4. \A y \in T : ~ (y < x)
  BY <1>2, <1>3
<1>5. \A y \in T : x <= y
  BY <1>4
<1> QED
  BY <1>5

\* A bounded, non-empty set of naturals has a greatest element.
LEMMA MaxOfBounded ==
  ASSUME NEW N \in Nat, NEW S \in SUBSET (0 .. N), S # {}
  PROVE  Max(S) \in S /\ \A x \in S : x <= Max(S)
<1> DEFINE T == {N - x : x \in S}
<1>1. T \in SUBSET Nat /\ T # {}
  OBVIOUS
<1>2. PICK t \in T : \A y \in T : t <= y
  BY <1>1, LeastElement
<1>3. PICK m \in S : t = N - m
  OBVIOUS
<1>4. \A x \in S : N - x \in T
  OBVIOUS
<1> HIDE DEF T
<1>5. \A x \in S : x \in Int /\ N - m <= N - x
  BY <1>2, <1>3, <1>4
<1>6. m \in Int /\ \A x \in S : m >= x
  BY <1>5
<1>7. Max(S) \in S /\ \A x \in S : Max(S) >= x
  BY <1>6 DEF Max
<1> QED
  BY <1>7

\* The newest request among the pieces of a buffer and those already met.
LEMMA NewestIsMax ==
  ASSUME NEW N \in Nat, NEW b \in Seq(Pieces), met \in 0 .. N,
         \A k \in 1 .. Len(b) : b[k].id \in 0 .. N
  PROVE  /\ Newest(b) \in 0 .. N
         /\ met <= Newest(b)
         /\ \A k \in 1 .. Len(b) : b[k].id <= Newest(b)
<1> DEFINE S == {b[k].id : k \in DOMAIN b} \cup {met}
<1>1. DOMAIN b = 1 .. Len(b)
  OBVIOUS
<1>2. S \in SUBSET (0 .. N) /\ S # {} /\ met \in S
  BY <1>1
<1>3. \A k \in 1 .. Len(b) : b[k].id \in S
  BY <1>1
<1> HIDE DEF S
<1>4. Max(S) \in S /\ \A x \in S : x <= Max(S)
  BY <1>2, MaxOfBounded
<1>5. Newest(b) = Max(S)
  BY DEF Newest, S
<1> QED
  BY <1>2, <1>3, <1>4, <1>5

\* The first k pieces of the wire are gone.
Shift(k) ==
  /\ Len(Wire') = Len(Wire) - k
  /\ \A i \in 1 .. Len(Wire') : Wire'[i] = Wire[i + k]

\* A piece is added at the end of the wire.
Grows(p) ==
  /\ Len(Wire') = Len(Wire) + 1
  /\ \A i \in 1 .. Len(Wire) : Wire'[i] = Wire[i]
  /\ Wire'[Len(Wire) + 1] = p

\* The wire, piece by piece.
LEMMA WireType ==
  ASSUME NEW b \in Seq(Pieces), NEW s \in Seq(Pieces)
  PROVE  /\ b \o s \in Seq(Pieces) /\ Len(b \o s) = Len(b) + Len(s)
         /\ Len(b) \in Nat /\ Len(s) \in Nat
         /\ \A i \in 1 .. Len(b) : (b \o s)[i] = b[i]
         /\ \A i \in 1 .. Len(s) : (b \o s)[Len(b) + i] = s[i]
OBVIOUS

\* A buffer cleared, with n pieces of the socket, shifts the wire.
LEMMA ClearShifts ==
  ASSUME buf \in Seq(Pieces), sock \in Seq(Pieces), NEW n \in 0 .. Len(sock),
         buf' = <<>>, sock' = SubSeq(sock, n + 1, Len(sock))
  PROVE  Shift(Len(buf) + n) /\ sock' \in Seq(Pieces)
<1>1. sock' \in Seq(Pieces) /\ Len(sock') = Len(sock) - n
  OBVIOUS
<1>2. \A i \in 1 .. Len(sock') : sock'[i] = sock[i + n]
  OBVIOUS
<1>3. Len(Wire) = Len(buf) + Len(sock)
  BY WireType DEF Wire
<1>4. <<>> \in Seq(Pieces) /\ Len(<<>>) = 0
  OBVIOUS
<1>5. Len(Wire') = Len(sock') /\ \A i \in 1 .. Len(sock') : Wire'[i] = sock'[i]
  BY <1>1, <1>4, WireType DEF Wire
<1>6. \A i \in 1 .. Len(sock') : Wire[i + (Len(buf) + n)] = sock[i + n]
  <2> SUFFICES ASSUME NEW i \in 1 .. Len(sock')
               PROVE  Wire[i + (Len(buf) + n)] = sock[i + n]
    OBVIOUS
  <2>1. i + n \in 1 .. Len(sock) /\ Len(buf) + (i + n) = i + (Len(buf) + n)
    BY <1>1, WireType
  <2> QED
    BY <2>1, WireType DEF Wire
<1>7. /\ Len(buf) \in Nat /\ Len(sock) \in Nat /\ n \in Nat
      /\ Len(Wire') = Len(Wire) - (Len(buf) + n)
  BY <1>1, <1>3, <1>5
<1>8. \A i \in 1 .. Len(Wire') : Wire'[i] = Wire[i + (Len(buf) + n)]
  BY <1>2, <1>5, <1>6
<1> QED
  BY <1>1, <1>7, <1>8 DEF Shift

\* s cut at n, its first part put behind b: the whole is b and s as before.
JoinsAgain(b, s, n) ==
  LET c == b \o SubSeq(s, 1, n)
      t == SubSeq(s, n + 1, Len(s)) IN
  /\ c \in Seq(Pieces) /\ t \in Seq(Pieces) /\ Len(c) = Len(b) + n
  /\ Len(c \o t) = Len(b) + Len(s) /\ Len(b \o s) = Len(b) + Len(s)
  /\ \A i \in 1 .. Len(b) + Len(s) : (c \o t)[i] = (b \o s)[i]

\* That holds wherever s is cut.
LEMMA ConcatSplit ==
  ASSUME NEW b \in Seq(Pieces), NEW s \in Seq(Pieces), NEW n \in 0 .. Len(s)
  PROVE  JoinsAgain(b, s, n)
<1> DEFINE h == SubSeq(s, 1, n)
           t == SubSeq(s, n + 1, Len(s))
<1>1. /\ h \in Seq(Pieces) /\ t \in Seq(Pieces) /\ Len(h) = n /\ Len(t) = Len(s) - n
      /\ Len(s) \in Nat /\ Len(b) \in Nat /\ n \in Nat
  OBVIOUS
<1>2. \A i \in 1 .. n : h[i] = s[i]
  OBVIOUS
<1>3. \A i \in 1 .. Len(s) - n : t[i] = s[i + n]
  OBVIOUS
<1> HIDE DEF h, t
<1> DEFINE c == b \o h
<1>4. /\ c \in Seq(Pieces) /\ Len(c) = Len(b) + n
      /\ \A i \in 1 .. Len(b) : c[i] = b[i]
      /\ \A i \in Len(b) + 1 .. Len(b) + n : c[i] = h[i - Len(b)]
  BY SMTT(30), <1>1
<1> HIDE DEF c
<1>5. Len(c \o t) = Len(b) + Len(s) /\ Len(b \o s) = Len(b) + Len(s)
  <2>0. c \in Seq(Pieces) /\ t \in Seq(Pieces)
    BY <1>1, <1>4
  <2>1. Len(c \o t) = Len(c) + Len(t)
    BY <2>0
  <2>2. Len(b \o s) = Len(b) + Len(s)
    OBVIOUS
  <2> QED
    BY <1>1, <1>4, <2>1, <2>2
<1>6. ASSUME NEW i \in 1 .. Len(b) + Len(s)
      PROVE  (c \o t)[i] = (b \o s)[i]
  <2>1. CASE i <= Len(b)
    <3>1. (c \o t)[i] = c[i] /\ (b \o s)[i] = b[i]
      BY <1>1, <1>4, <2>1
    <3> QED
      BY <1>1, <1>4, <2>1, <3>1
  <2>2. CASE i > Len(b) /\ i <= Len(b) + n
    <3>1. (c \o t)[i] = c[i] /\ (b \o s)[i] = s[i - Len(b)]
      BY <1>1, <1>4, <2>2
    <3>2. i - Len(b) \in 1 .. n /\ i \in Len(b) + 1 .. Len(b) + n
      BY <1>1, <2>2
    <3> QED
      BY <1>2, <1>4, <3>1, <3>2
  <2>3. CASE i > Len(b) + n
    <3>1. (c \o t)[i] = t[i - (Len(b) + n)] /\ (b \o s)[i] = s[i - Len(b)]
      BY <1>1, <1>4, <2>3
    <3>2. i - (Len(b) + n) \in 1 .. Len(s) - n /\ (i - (Len(b) + n)) + n = i - Len(b)
      BY <1>1, <2>3
    <3> QED
      BY <1>3, <3>1, <3>2
  <2>4. i \in Int
    BY <1>1
  <2>5. i <= Len(b) \/ (i > Len(b) /\ i <= Len(b) + n) \/ i > Len(b) + n
    BY <1>1, <2>4
  <2> QED
    BY <2>1, <2>2, <2>3, <2>5
<1>7. \A i \in 1 .. Len(b) + Len(s) : (c \o t)[i] = (b \o s)[i]
  BY <1>6
<1> QED
  BY <1>1, <1>4, <1>5, <1>7 DEF c, h, t, JoinsAgain

\* Pieces moved from the socket to the buffer stay on the wire.
LEMMA ReadKeepsWire ==
  ASSUME buf \in Seq(Pieces), sock \in Seq(Pieces), NEW n \in 0 .. Len(sock),
         buf' = buf \o SubSeq(sock, 1, n), sock' = SubSeq(sock, n + 1, Len(sock))
  PROVE  Shift(0) /\ buf' \in Seq(Pieces) /\ sock' \in Seq(Pieces)
<1>1. /\ buf' \in Seq(Pieces) /\ sock' \in Seq(Pieces)
      /\ Len(buf' \o sock') = Len(buf) + Len(sock)
      /\ Len(buf \o sock) = Len(buf) + Len(sock)
      /\ \A i \in 1 .. Len(buf) + Len(sock) : (buf' \o sock')[i] = (buf \o sock)[i]
  <2> DEFINE c == buf \o SubSeq(sock, 1, n)
             t == SubSeq(sock, n + 1, Len(sock))
  <2>1. /\ c \in Seq(Pieces) /\ t \in Seq(Pieces)
        /\ Len(c \o t) = Len(buf) + Len(sock)
        /\ Len(buf \o sock) = Len(buf) + Len(sock)
        /\ \A i \in 1 .. Len(buf) + Len(sock) : (c \o t)[i] = (buf \o sock)[i]
    <3>1. JoinsAgain(buf, sock, n)
      BY ConcatSplit
    <3> QED
      BY <3>1, Zenon DEF JoinsAgain
  <2>2. buf' = c /\ sock' = t
    OBVIOUS
  <2> HIDE DEF c, t
  <2> QED
    BY <2>1, <2>2, Zenon
<1>2. Len(buf) + Len(sock) \in Nat
  OBVIOUS
<1>3. \A L \in Nat : L - 0 = L /\ \A i \in 1 .. L : i + 0 = i
  OBVIOUS
<1> QED
  BY <1>1, <1>2, <1>3 DEF Shift, Wire

\* A piece the master writes is at the end of the wire.
LEMMA WriteGrows ==
  ASSUME buf \in Seq(Pieces), sock \in Seq(Pieces), NEW p \in Pieces,
         buf' = buf, sock' = Append(sock, p)
  PROVE  Grows(p) /\ sock' \in Seq(Pieces)
<1>1. /\ sock' \in Seq(Pieces) /\ Len(sock') = Len(sock) + 1
      /\ sock'[Len(sock) + 1] = p
      /\ \A i \in 1 .. Len(sock) : sock'[i] = sock[i]
  OBVIOUS
<1>2. /\ Len(Wire) = Len(buf) + Len(sock) /\ Len(Wire') = Len(buf) + Len(sock')
      /\ \A i \in 1 .. Len(buf) : Wire'[i] = buf[i]
      /\ \A i \in 1 .. Len(sock') : Wire'[Len(buf) + i] = sock'[i]
      /\ \A i \in 1 .. Len(buf) : Wire[i] = buf[i]
      /\ \A i \in 1 .. Len(sock) : Wire[Len(buf) + i] = sock[i]
      /\ Len(buf) \in Nat /\ Len(sock) \in Nat
  BY <1>1, WireType DEF Wire
<1>3. ASSUME NEW i \in 1 .. Len(Wire) PROVE Wire'[i] = Wire[i]
  <2>0. i \in Nat /\ 1 <= i /\ i <= Len(buf) + Len(sock)
    BY <1>2
  <2>1. CASE i <= Len(buf)
    BY <1>2, <2>0, <2>1
  <2>2. CASE i > Len(buf)
    <3>0. i - Len(buf) \in 1 .. Len(sock) /\ i = Len(buf) + (i - Len(buf))
      BY <1>2, <2>0, <2>2
    <3>1. PICK j \in 1 .. Len(sock) : i = Len(buf) + j
      BY <3>0
    <3>2. j \in 1 .. Len(sock')
      BY <1>1, <1>2
    <3> QED
      BY <1>1, <1>2, <3>1, <3>2
  <2> QED
    BY <1>2, <2>0, <2>1, <2>2
<1>4. Wire'[Len(Wire) + 1] = p
  <2>1. Len(sock) + 1 \in 1 .. Len(sock') /\ Len(Wire) + 1 = Len(buf) + (Len(sock) + 1)
    BY <1>1, <1>2
  <2> QED
    BY <1>1, <1>2, <2>1
<1> QED
  BY <1>1, <1>2, <1>3, <1>4 DEF Grows

-----------------------------------------------------------------------------
(* What happens to the wire *)

\* The wire is a sequence of pieces.
LEMMA WireIsTyped ==
  BridgeType => Wire \in Seq(Pieces) /\ Len(Wire) \in Nat /\ Len(Wire) = Len(buf) + Len(sock)
BY WireType DEF BridgeType, Wire

\* A piece that leaves the wire may have completed the request it serves; no
\* other piece completes that one, and no request is served again.
LEMMA ShiftKeepsWire ==
  ASSUME BridgeType, WireInv, NEW k \in 0 .. Len(Wire), Shift(k),
         UNCHANGED <<requests, asked>>, master' = "sending" => master = "sending",
         \/ applied' = applied
         \/ \E j \in 1 .. k : /\ Completes(Wire[j])
                              /\ applied' = [applied EXCEPT ![Wire[j].id] = @ + 1]
  PROVE  WireInv'
<1>1. /\ Len(Wire) \in Nat /\ Len(Wire') \in Nat /\ k \in Nat
      /\ \A i \in 1 .. Len(Wire') : i + k \in 1 .. Len(Wire) /\ Wire'[i] = Wire[i + k]
  BY WireIsTyped DEF Shift
<1>2. Len(requests) \in Nat /\ Len(requests) <= MaxRequests /\ MaxRequests \in Nat
  BY BridgeAssumption DEF BridgeType
<1>3. \A i \in 1 .. Len(Wire') : Completes(Wire'[i]) =>
        Wire'[i].id # 0 /\ applied[Wire'[i].id] = 0
  BY <1>1 DEF WireInv, Completes
<1>4. CASE applied' = applied
  <2>1. \A i \in 1 .. Len(Wire') :
          /\ Wire'[i].id \in 0 .. Len(requests')
          /\ Wire'[i].id = 0 => Wire'[i].part = "noise"
          /\ Completes(Wire'[i]) => Wire'[i].id # 0 /\ applied'[Wire'[i].id] = 0
    BY <1>1, <1>3, <1>4 DEF WireInv, Completes
  <2>2. \A i, j \in 1 .. Len(Wire') :
          Completes(Wire'[i]) /\ Completes(Wire'[j]) /\ Wire'[i].id = Wire'[j].id => i = j
    <3> SUFFICES ASSUME NEW i \in 1 .. Len(Wire'), NEW j \in 1 .. Len(Wire'),
                        Completes(Wire'[i]), Completes(Wire'[j]), Wire'[i].id = Wire'[j].id
                 PROVE  i = j
      OBVIOUS
    <3>1. /\ i + k \in 1 .. Len(Wire) /\ Wire'[i] = Wire[i + k]
          /\ j + k \in 1 .. Len(Wire) /\ Wire'[j] = Wire[j + k]
      BY <1>1
    <3>2. i + k = j + k
      BY <3>1 DEF WireInv, Completes
    <3> QED
      BY <1>1, <3>2
  <2>3. master' = "sending" =>
          /\ asked' \in 1 .. Len(requests') /\ applied'[asked'] = 0
          /\ \A i \in 1 .. Len(Wire') : Completes(Wire'[i]) => Wire'[i].id # asked'
    BY <1>1, <1>4 DEF WireInv
  <2>4. /\ \A n \in 1 .. MaxRequests : n > Len(requests') => applied'[n] = 0
        /\ ServedOnce'
    BY <1>4 DEF WireInv, ServedOnce
  <2> QED
    BY <2>1, <2>2, <2>3, <2>4 DEF WireInv, Completes
<1>5. ASSUME NEW m \in 1 .. k, Completes(Wire[m]),
             applied' = [applied EXCEPT ![Wire[m].id] = @ + 1]
      PROVE  WireInv'
  <2> DEFINE n == Wire[m].id
  <2>1. m \in 1 .. Len(Wire)
    BY <1>1
  <2>2. n \in 1 .. Len(requests) /\ n \in 1 .. MaxRequests /\ applied[n] = 0
    BY <1>2, <1>5, <2>1 DEF WireInv
  <2>3. /\ applied'[n] = 1
        /\ \A j \in 1 .. MaxRequests : j # n => applied'[j] = applied[j]
    BY <1>5, <2>2 DEF BridgeType
  <2>4. ASSUME NEW i \in 1 .. Len(Wire'), Completes(Wire'[i]) PROVE Wire'[i].id # n
    <3>1. i + k # m /\ i + k \in 1 .. Len(Wire) /\ Completes(Wire[i + k])
      BY <1>1, <2>1, <2>4
    <3>2. Wire[i + k].id # n
      BY <1>5, <2>1, <3>1 DEF WireInv
    <3> QED
      BY <1>1, <3>2
  <2>5. \A i \in 1 .. Len(Wire') :
          /\ Wire'[i].id \in 0 .. Len(requests')
          /\ Wire'[i].id = 0 => Wire'[i].part = "noise"
    BY <1>1 DEF WireInv
  <2>6. \A i \in 1 .. Len(Wire') :
          Completes(Wire'[i]) => Wire'[i].id # 0 /\ applied'[Wire'[i].id] = 0
    <3> SUFFICES ASSUME NEW i \in 1 .. Len(Wire'), Completes(Wire'[i])
                 PROVE  Wire'[i].id # 0 /\ applied'[Wire'[i].id] = 0
      OBVIOUS
    <3>1. Wire'[i].id # 0 /\ applied[Wire'[i].id] = 0
      BY <1>3
    <3>2. Wire'[i].id \in 1 .. MaxRequests /\ Wire'[i].id # n
      BY <1>2, <2>4, <2>5, <3>1
    <3> QED
      BY <2>3, <3>1, <3>2
  <2>7. \A i, j \in 1 .. Len(Wire') :
          Completes(Wire'[i]) /\ Completes(Wire'[j]) /\ Wire'[i].id = Wire'[j].id => i = j
    <3> SUFFICES ASSUME NEW i \in 1 .. Len(Wire'), NEW j \in 1 .. Len(Wire'),
                        Completes(Wire'[i]), Completes(Wire'[j]), Wire'[i].id = Wire'[j].id
                 PROVE  i = j
      OBVIOUS
    <3>1. /\ i + k \in 1 .. Len(Wire) /\ Wire'[i] = Wire[i + k]
          /\ j + k \in 1 .. Len(Wire) /\ Wire'[j] = Wire[j + k]
      BY <1>1
    <3>2. i + k = j + k
      BY <3>1 DEF WireInv, Completes
    <3> QED
      BY <1>1, <3>2
  <2>8. ASSUME master' = "sending"
        PROVE  /\ asked' \in 1 .. Len(requests') /\ applied'[asked'] = 0
               /\ \A i \in 1 .. Len(Wire') : Completes(Wire'[i]) => Wire'[i].id # asked'
    <3>1. /\ asked \in 1 .. Len(requests) /\ applied[asked] = 0
          /\ \A i \in 1 .. Len(Wire) : Completes(Wire[i]) => Wire[i].id # asked
      BY <2>8 DEF WireInv
    <3>2. asked # n /\ asked \in 1 .. MaxRequests
      BY <1>2, <1>5, <2>1, <3>1
    <3>3. applied'[asked'] = 0
      BY <2>3, <3>1, <3>2
    <3>4. \A i \in 1 .. Len(Wire') : Completes(Wire'[i]) => Wire'[i].id # asked
      BY <1>1, <3>1 DEF Completes
    <3> QED
      BY <3>1, <3>3, <3>4
  <2>9. \A j \in 1 .. MaxRequests : j > Len(requests') => applied'[j] = 0
    <3> SUFFICES ASSUME NEW j \in 1 .. MaxRequests, j > Len(requests) PROVE applied'[j] = 0
      OBVIOUS
    <3>1. j # n /\ applied[j] = 0
      BY <1>2, <2>2 DEF WireInv
    <3> QED
      BY <2>3, <3>1
  <2>10. ServedOnce'
    <3> SUFFICES ASSUME NEW j \in 1 .. MaxRequests PROVE applied'[j] <= 1
      BY DEF ServedOnce
    <3> QED
      BY <2>3 DEF WireInv, ServedOnce
  <2> QED
    BY <2>5, <2>6, <2>7, <2>8, <2>9, <2>10 DEF WireInv, Completes
<1> QED
  BY <1>4, <1>5

\* What leaves the wire is met.
LEMMA ShiftKeepsMet ==
  ASSUME BridgeType, MetInv, NEW k \in 0 .. Len(Wire), Shift(k), UNCHANGED requests,
         met' \in Nat, met <= met', \A j \in 1 .. k : Wire[j].id <= met'
  PROVE  MetInv'
<1>1. Len(Wire) \in Nat /\ Len(Wire') = Len(Wire) - k /\ k \in Nat
  BY WireIsTyped DEF Shift
<1> SUFFICES ASSUME NEW n \in 1 .. Len(requests)
             PROVE  n <= met' \/ \E i \in 1 .. Len(Wire') : Wire'[i].id = n
  BY DEF MetInv
<1>2. n \in Nat /\ met \in Nat
  BY DEF BridgeType
<1>3. CASE n <= met
  BY <1>2, <1>3
<1>4. CASE \E i \in 1 .. Len(Wire) : Wire[i].id = n
  <2>1. PICK i \in 1 .. Len(Wire) : Wire[i].id = n
    BY <1>4
  <2>2. CASE i <= k
    <3>1. i \in 1 .. k
      BY <1>1, <2>2
    <3> QED
      BY <2>1, <3>1
  <2>3. CASE i > k
    <3>1. i - k \in 1 .. Len(Wire') /\ (i - k) + k = i
      BY <1>1, <2>3
    <3>2. Wire'[i - k] = Wire[i]
      BY <3>1 DEF Shift
    <3> QED
      BY <2>1, <3>1, <3>2
  <2> QED
    BY <1>1, <2>2, <2>3
<1> QED
  BY <1>3, <1>4 DEF MetInv

\* Nothing left the wire and nothing was met.
LEMMA WireStays ==
  ASSUME BridgeType, WireInv, MetInv,
         UNCHANGED <<buf, sock, requests, asked, applied, met>>,
         master' = "sending" => master = "sending"
  PROVE  WireInv' /\ MetInv'
<1>1. Wire' = Wire
  BY DEF Wire
<1> QED
  BY <1>1 DEF WireInv, MetInv, ServedOnce, Completes

\* The master writes: the new piece completes no request that is complete, or
\* served, already.
LEMMA GrowKeepsWire ==
  ASSUME BridgeType, WireInv, NEW p \in Pieces, Grows(p),
         UNCHANGED applied,
         requests' \in Seq(Asks), Len(requests) <= Len(requests'),
         p.id \in 0 .. Len(requests'), p.id = 0 => p.part = "noise",
         Completes(p) => /\ p.id # 0 /\ applied[p.id] = 0
                         /\ \A i \in 1 .. Len(Wire) : Completes(Wire[i]) => Wire[i].id # p.id,
         master' = "sending" =>
           /\ asked' \in 1 .. Len(requests') /\ applied[asked'] = 0
           /\ Completes(p) => p.id # asked'
           /\ \A i \in 1 .. Len(Wire) : Completes(Wire[i]) => Wire[i].id # asked'
  PROVE  WireInv'
<1>1. /\ Len(Wire) \in Nat /\ Len(Wire') = Len(Wire) + 1 /\ Wire'[Len(Wire) + 1] = p
      /\ \A i \in 1 .. Len(Wire) : Wire'[i] = Wire[i]
  BY WireIsTyped DEF Grows
<1>2. \A i \in 1 .. Len(Wire') : i \in 1 .. Len(Wire) \/ i = Len(Wire) + 1
  BY <1>1
<1>3. Len(requests) \in Nat /\ Len(requests') \in Nat
  BY DEF BridgeType
<1>4. \A i \in 1 .. Len(Wire') :
        /\ Wire'[i].id \in 0 .. Len(requests')
        /\ Wire'[i].id = 0 => Wire'[i].part = "noise"
        /\ Completes(Wire'[i]) => Wire'[i].id # 0 /\ applied'[Wire'[i].id] = 0
  <2> SUFFICES ASSUME NEW i \in 1 .. Len(Wire')
               PROVE  /\ Wire'[i].id \in 0 .. Len(requests')
                      /\ Wire'[i].id = 0 => Wire'[i].part = "noise"
                      /\ Completes(Wire'[i]) => Wire'[i].id # 0 /\ applied'[Wire'[i].id] = 0
    OBVIOUS
  <2>1. CASE i \in 1 .. Len(Wire)
    BY <1>1, <1>3, <2>1 DEF WireInv, Completes
  <2>2. CASE i = Len(Wire) + 1
    BY <1>1, <2>2
  <2> QED
    BY <1>2, <2>1, <2>2
<1>5. \A i, j \in 1 .. Len(Wire') :
        Completes(Wire'[i]) /\ Completes(Wire'[j]) /\ Wire'[i].id = Wire'[j].id => i = j
  <2> SUFFICES ASSUME NEW i \in 1 .. Len(Wire'), NEW j \in 1 .. Len(Wire'),
                      Completes(Wire'[i]), Completes(Wire'[j]), Wire'[i].id = Wire'[j].id
               PROVE  i = j
    OBVIOUS
  <2>1. CASE i \in 1 .. Len(Wire) /\ j \in 1 .. Len(Wire)
    BY <1>1, <2>1 DEF WireInv, Completes
  <2>2. CASE i = Len(Wire) + 1 /\ j \in 1 .. Len(Wire)
    BY <1>1, <2>2 DEF Completes
  <2>3. CASE i \in 1 .. Len(Wire) /\ j = Len(Wire) + 1
    BY <1>1, <2>3 DEF Completes
  <2> QED
    BY <1>2, <2>1, <2>2, <2>3
<1>6. ASSUME master' = "sending"
      PROVE  /\ asked' \in 1 .. Len(requests') /\ applied'[asked'] = 0
             /\ \A i \in 1 .. Len(Wire') : Completes(Wire'[i]) => Wire'[i].id # asked'
  <2>1. \A i \in 1 .. Len(Wire) : Completes(Wire'[i]) => Wire'[i].id # asked'
    BY <1>1, <1>6 DEF Completes
  <2>2. Completes(Wire'[Len(Wire) + 1]) => Wire'[Len(Wire) + 1].id # asked'
    BY <1>1, <1>6 DEF Completes
  <2> QED
    BY <1>2, <1>6, <2>1, <2>2
<1>7. /\ \A n \in 1 .. MaxRequests : n > Len(requests') => applied'[n] = 0
      /\ ServedOnce'
  BY <1>3 DEF WireInv, ServedOnce
<1> QED
  BY <1>4, <1>5, <1>6, <1>7 DEF WireInv, Completes

\* A request the master begins is on the wire from its first piece on.
LEMMA GrowKeepsMet ==
  ASSUME BridgeType, MetInv, NEW p, Grows(p), UNCHANGED met,
         \/ Len(requests') = Len(requests)
         \/ Len(requests') = Len(requests) + 1 /\ p.id = Len(requests')
  PROVE  MetInv'
<1>1. /\ Len(Wire) \in Nat /\ Len(Wire') = Len(Wire) + 1 /\ Wire'[Len(Wire) + 1] = p
      /\ \A i \in 1 .. Len(Wire) : Wire'[i] = Wire[i]
  BY WireIsTyped DEF Grows
<1>2. \A i \in 1 .. Len(Wire) : i \in 1 .. Len(Wire')
  BY <1>1
<1>3. Len(Wire) + 1 \in 1 .. Len(Wire') /\ Len(requests) \in Nat
  BY <1>1 DEF BridgeType
<1> SUFFICES ASSUME NEW n \in 1 .. Len(requests')
             PROVE  n <= met' \/ \E i \in 1 .. Len(Wire') : Wire'[i].id = n
  BY DEF MetInv
<1>4. CASE n \in 1 .. Len(requests)
  BY <1>1, <1>2, <1>4 DEF MetInv
<1>5. CASE n \notin 1 .. Len(requests)
  <2>1. n = Len(requests') /\ p.id = n
    BY <1>3, <1>5
  <2> QED
    BY <1>1, <1>3, <2>1
<1> QED
  BY <1>4, <1>5

-----------------------------------------------------------------------------
(* The steps *)

\* What a read leaves in the buffer is the front of the wire.
LEMMA ReadIsPrefix ==
  ASSUME NEW b \in Seq(Pieces), NEW s \in Seq(Pieces), NEW n \in 0 .. Len(s), NEW got,
         got = b \o SubSeq(s, 1, n)
  PROVE  /\ got \in Seq(Pieces) /\ Len(got) = Len(b) + n
         /\ \A i \in 1 .. Len(got) : (b \o s)[i] = got[i]
<1> DEFINE c == b \o SubSeq(s, 1, n)
           t == SubSeq(s, n + 1, Len(s))
<1>1. /\ c \in Seq(Pieces) /\ t \in Seq(Pieces) /\ Len(c) = Len(b) + n
      /\ \A i \in 1 .. Len(b) + Len(s) : (c \o t)[i] = (b \o s)[i]
  <2>1. JoinsAgain(b, s, n)
    BY ConcatSplit
  <2> QED
    BY <2>1, Zenon DEF JoinsAgain
<1>2. got = c
  OBVIOUS
<1>3. Len(b) \in Nat /\ Len(s) \in Nat /\ n \in Nat /\ n <= Len(s)
  OBVIOUS
<1> HIDE DEF c, t
<1>4. \A i \in 1 .. Len(c) : (c \o t)[i] = c[i]
  BY <1>1, WireType
<1>5. \A i \in 1 .. Len(c) : i \in 1 .. Len(b) + Len(s)
  BY <1>1, <1>3
<1>6. \A i \in 1 .. Len(c) : (b \o s)[i] = c[i]
  BY <1>1, <1>4, <1>5
<1> QED
  BY <1>1, <1>2, <1>6

\* A buffer cleared shifts the wire.
LEMMA DispatchShifts ==
  ASSUME buf \in Seq(Pieces), sock \in Seq(Pieces), buf' = <<>>, sock' = sock
  PROVE  Shift(Len(buf))
<1>1. Len(Wire) = Len(buf) + Len(sock) /\ Len(buf) \in Nat /\ Len(sock) \in Nat
  BY WireType DEF Wire
<1>2. Wire' = <<>> \o sock
  BY DEF Wire
<1>3. Len(Wire') = Len(sock) /\ \A i \in 1 .. Len(sock) : Wire'[i] = sock[i]
  BY <1>2
<1>4. \A i \in 1 .. Len(sock) : Wire[i + Len(buf)] = sock[i]
  <2> SUFFICES ASSUME NEW i \in 1 .. Len(sock) PROVE Wire[i + Len(buf)] = sock[i]
    OBVIOUS
  <2>1. i + Len(buf) = Len(buf) + i
    BY <1>1
  <2> QED
    BY <2>1, WireType DEF Wire
<1> QED
  BY <1>1, <1>3, <1>4 DEF Shift

\* A dispatch serves no request, or one that the buffer completes.
LEMMA DispatchServes ==
  ASSUME NEW b \in Seq(Pieces), NEW r, Served(b, r) # applied
  PROVE  \E j \in 1 .. Len(b) : /\ Completes(b[j])
                                /\ Served(b, r) = [applied EXCEPT ![b[j].id] = @ + 1]
<1>1. WholeIn(b) # 0 /\ Served(b, r) = [applied EXCEPT ![WholeIn(b)] = @ + 1]
  BY DEF Served
<1>2. \/ Len(b) = 1 /\ b[1].part = "whole"
      \/ Len(b) = 2 /\ b[1].part = "head" /\ b[2] = Piece(b[1].id, "tail")
  BY <1>1 DEF WholeIn
<1>3. WholeIn(b) = b[1].id
  BY <1>2 DEF WholeIn
<1>4. CASE Len(b) = 1 /\ b[1].part = "whole"
  <2>1. 1 \in 1 .. Len(b) /\ Completes(b[1])
    BY <1>4 DEF Completes
  <2> QED
    BY <1>1, <1>3, <2>1
<1>5. CASE Len(b) = 2 /\ b[2] = Piece(b[1].id, "tail")
  <2>1. 2 \in 1 .. Len(b) /\ Completes(b[2]) /\ b[2].id = b[1].id
    BY <1>5 DEF Completes, Piece
  <2> QED
    BY <1>1, <1>3, <2>1
<1> QED
  BY <1>2, <1>4, <1>5

\* The bounds of the times and of the request numbers.
LEMMA Bounds ==
  /\ 0 \in 0 .. GAP /\ 0 \in 0 .. STALL /\ 0 \in 0 .. TIMEOUT
  /\ MAX_PENDING \in Nat /\ MaxRequests \in Nat
  /\ GAP \in Nat /\ STALL \in Nat /\ TIMEOUT \in Nat
  /\ Len(<<>>) = 0 /\ <<>> \in Seq(Pieces)
BY BridgeAssumption, TimeoutAssumption

\* A read: the wire stays, or its front is discarded for its length.
LEMMA ReadNext ==
  ASSUME BridgeInv, ReadBytes
  PROVE  BridgeInv'
<1>1. PICK n \in 1 .. Len(sock) :
        LET got == buf \o SubSeq(sock, 1, n) IN
        /\ sock' = SubSeq(sock, n + 1, Len(sock))
        /\ IF Len(got) > MAX_PENDING
           THEN buf' = <<>> /\ pc' = "sleep" /\ met' = Newest(got)
           ELSE buf' = got /\ UNCHANGED <<pc, met>>
  BY DEF ReadBytes
<1>2. /\ buf \in Seq(Pieces) /\ sock \in Seq(Pieces) /\ Len(requests) \in Nat
      /\ n \in 0 .. Len(sock) /\ n \in Nat /\ Len(buf) \in Nat
      /\ met \in 0 .. Len(requests)
  BY DEF BridgeInv, BridgeType
<1>3. /\ pc = "read" /\ lag' = 0 /\ wait' = 0
      /\ UNCHANGED <<poisoned, open, master, asked, requests, age, applied>>
  BY DEF ReadBytes, Ran, busvars, mastervars
<1> DEFINE got == buf \o SubSeq(sock, 1, n)
<1>4. /\ got \in Seq(Pieces) /\ Len(got) = Len(buf) + n
      /\ \A i \in 1 .. Len(got) : Wire[i] = got[i]
  BY <1>2, ReadIsPrefix DEF Wire
<1>5. CASE Len(got) > MAX_PENDING
  <2>1. buf' = <<>> /\ pc' = "sleep" /\ met' = Newest(got)
        /\ sock' = SubSeq(sock, n + 1, Len(sock))
    BY <1>1, <1>5
  <2>2. Shift(Len(buf) + n) /\ sock' \in Seq(Pieces)
    BY <1>2, <2>1, ClearShifts
  <2> HIDE DEF got
  <2>3. Len(Wire) = Len(buf) + Len(sock) /\ Len(buf) + n \in 0 .. Len(Wire)
    BY <1>2, WireIsTyped DEF BridgeInv
  <2>4. \A i \in 1 .. Len(got) : got[i].id \in 0 .. Len(requests) /\ i \in 1 .. Len(Wire)
    <3> SUFFICES ASSUME NEW i \in 1 .. Len(got)
                 PROVE  got[i].id \in 0 .. Len(requests) /\ i \in 1 .. Len(Wire)
      OBVIOUS
    <3>1. i \in 1 .. Len(Wire)
      BY <1>2, <1>4, <2>3
    <3> QED
      BY <1>4, <3>1 DEF BridgeInv, WireInv
  <2>5. /\ met' \in 0 .. Len(requests) /\ met <= met'
        /\ \A i \in 1 .. Len(got) : got[i].id <= met'
    BY <1>2, <1>4, <2>1, <2>4, NewestIsMax
  <2>6. met' \in Nat /\ \A i \in 1 .. Len(buf) + n : Wire[i].id <= met'
    BY <1>2, <1>4, <2>5
  <2>7. WireInv'
    BY <1>3, <2>2, <2>3, ShiftKeepsWire DEF BridgeInv
  <2>8. MetInv'
    BY <1>3, <2>2, <2>3, <2>5, <2>6, ShiftKeepsMet DEF BridgeInv
  <2>9. PumpInv'
    BY <1>3, <2>1 DEF BridgeInv, PumpInv
  <2>10. BridgeType'
    BY SMTT(30), <1>3, <2>1, <2>2, <2>5, Bounds DEF BridgeInv, BridgeType, TypeOK
  <2> QED
    BY <2>7, <2>8, <2>9, <2>10 DEF BridgeInv
<1>6. CASE ~ (Len(got) > MAX_PENDING)
  <2>1. buf' = got /\ pc' = pc /\ met' = met /\ sock' = SubSeq(sock, n + 1, Len(sock))
    BY <1>1, <1>6
  <2>2. Shift(0) /\ buf' \in Seq(Pieces) /\ sock' \in Seq(Pieces)
    BY <1>2, <2>1, ReadKeepsWire
  <2> HIDE DEF got
  <2>3. Len(buf') <= MAX_PENDING
    BY <1>2, <1>4, <1>6, <2>1, Bounds
  <2>4. 0 \in 0 .. Len(Wire) /\ met \in Nat /\ met <= met' /\ \A j \in 1 .. 0 : Wire[j].id <= met'
    BY <1>2, <2>1, WireIsTyped DEF BridgeInv
  <2>5. WireInv'
    BY <1>3, <2>2, <2>4, ShiftKeepsWire DEF BridgeInv
  <2>6. MetInv'
    BY <1>3, <2>1, <2>2, <2>4, ShiftKeepsMet DEF BridgeInv
  <2>7. PumpInv'
    BY <1>3, <2>1 DEF BridgeInv, PumpInv
  <2>8. BridgeType'
    BY <1>3, <2>1, <2>2, <2>3, Bounds DEF BridgeInv, BridgeType, TypeOK
  <2> QED
    BY <2>5, <2>6, <2>7, <2>8 DEF BridgeInv
<1> QED
  BY <1>5, <1>6

\* A dispatch: the buffer leaves the wire, and what it completes is served.
LEMMA DispatchNext ==
  ASSUME BridgeInv, Dispatch
  PROVE  BridgeInv'
<1> DEFINE r == Slave!Handle(slave, FrameIn(buf)).reply
<1>1. /\ buf \in Seq(Pieces) /\ sock \in Seq(Pieces) /\ Len(requests) \in Nat
      /\ Len(buf) \in Nat /\ met \in 0 .. Len(requests)
      /\ Len(requests) <= MaxRequests
  BY DEF BridgeInv, BridgeType
<1>a. ~ poisoned
  BY DEF BridgeInv, PumpInv
<1>2. /\ pc \in {"dispatch", "final"} /\ buf' = <<>>
      /\ pc' = (IF r = Silence THEN Resume ELSE ToWrite)
      /\ applied' = Served(buf, r) /\ met' = Newest(buf)
      /\ lag' = 0 /\ wait' = 0
      /\ UNCHANGED <<poisoned, sock, open, master, asked, requests, age>>
  BY <1>a DEF Dispatch, Ran, mastervars
<1> HIDE DEF r
<1>3. Shift(Len(buf))
  BY <1>1, <1>2, DispatchShifts
<1>4. /\ Len(Wire) = Len(buf) + Len(sock) /\ Len(buf) \in 0 .. Len(Wire)
      /\ \A i \in 1 .. Len(buf) : i \in 1 .. Len(Wire) /\ Wire[i] = buf[i]
  BY <1>1, WireType DEF Wire
<1>5. \A i \in 1 .. Len(buf) : buf[i].id \in 0 .. Len(requests)
  BY <1>4 DEF BridgeInv, WireInv
<1>6. /\ met' \in 0 .. Len(requests) /\ met <= met'
      /\ \A i \in 1 .. Len(buf) : buf[i].id <= met'
  BY <1>1, <1>2, <1>5, NewestIsMax
<1>7. met' \in Nat /\ \A i \in 1 .. Len(buf) : Wire[i].id <= met'
  BY <1>1, <1>4, <1>6
<1>8. \/ applied' = applied
      \/ \E j \in 1 .. Len(buf) : /\ Completes(Wire[j])
                                  /\ applied' = [applied EXCEPT ![Wire[j].id] = @ + 1]
  <2> SUFFICES ASSUME applied' # applied
               PROVE  \E j \in 1 .. Len(buf) :
                        /\ Completes(Wire[j])
                        /\ applied' = [applied EXCEPT ![Wire[j].id] = @ + 1]
    OBVIOUS
  <2>1. PICK j \in 1 .. Len(buf) : /\ Completes(buf[j])
                                   /\ applied' = [applied EXCEPT ![buf[j].id] = @ + 1]
    BY <1>1, <1>2, DispatchServes
  <2>2. Wire[j] = buf[j]
    BY <1>4
  <2> QED
    BY <2>1, <2>2 DEF Completes
<1>9. WireInv'
  BY <1>2, <1>3, <1>4, <1>8, ShiftKeepsWire DEF BridgeInv
<1>10. MetInv'
  BY <1>2, <1>3, <1>4, <1>6, <1>7, ShiftKeepsMet DEF BridgeInv
<1>11. PumpInv'
  BY <1>2 DEF BridgeInv, PumpInv, Resume, ToWrite
<1>12. applied' \in [1 .. MaxRequests -> Nat]
  <2>1. CASE applied' = applied
    BY <2>1 DEF BridgeInv, BridgeType
  <2>2. CASE applied' # applied
    <3>1. PICK j \in 1 .. Len(buf) : /\ Completes(Wire[j])
                                     /\ applied' = [applied EXCEPT ![Wire[j].id] = @ + 1]
      BY <1>8, <2>2
    <3>2. applied \in [1 .. MaxRequests -> Nat]
      BY DEF BridgeInv, BridgeType
    <3>3. \A n \in 1 .. MaxRequests : [applied EXCEPT ![n] = @ + 1] \in [1 .. MaxRequests -> Nat]
      BY <3>2
    <3>4. j \in 1 .. Len(Wire)
      BY <1>4
    <3>5. Wire[j].id # 0 /\ Wire[j].id \in 0 .. Len(requests)
      BY <3>1, <3>4 DEF BridgeInv, WireInv
    <3>6. Wire[j].id \in 1 .. MaxRequests
      BY <1>1, <3>5, Bounds
    <3> QED
      BY <3>1, <3>3, <3>6
  <2> QED
    BY <2>1, <2>2
<1>13. pc' \in {"read", "eof", "write", "last write"}
  BY <1>2 DEF Resume, ToWrite
<1>14. TypeOK'
  <2>1. TypeOK
    BY DEF BridgeInv, BridgeType
  <2>2. Len(buf') <= MAX_PENDING /\ wait' \in 0 .. GAP /\ lag' \in 0 .. STALL
    BY <1>2, Bounds
  <2> QED
    BY <1>2, <1>13, <2>1, <2>2 DEF TypeOK
<1>15. BridgeType'
  BY <1>2, <1>6, <1>12, <1>14, Bounds DEF BridgeInv, BridgeType
<1> QED
  BY <1>9, <1>10, <1>11, <1>15 DEF BridgeInv

\* The other steps of the pump touch neither the wire nor what is served.
LEMMA PumpNext ==
  ASSUME BridgeInv, WakeUp \/ ReadTimeout \/ ReadEof \/ ReadError \/ WriteReply
  PROVE  BridgeInv'
<1>1. /\ lag' = 0 /\ wait' = 0
      /\ UNCHANGED <<poisoned, buf, sock, master, asked, requests, age, applied, met, open>>
  BY DEF WakeUp, ReadTimeout, ReadEof, ReadError, WriteReply, Ran, busvars, mastervars, history
<1>2. /\ pc' \in {"read", "dispatch", "final", "eof", "fatal"}
      /\ pc' \in {"dispatch", "final"} => buf # <<>>
      /\ pc' = "final" => ~ open /\ sock = <<>>
      /\ pc' = "eof" => ~ open /\ sock = <<>> /\ buf = <<>>
      /\ pc' = "fatal" => ~ open
  BY DEF WakeUp, ReadTimeout, ReadEof, ReadError, WriteReply, Resume, BridgeInv, PumpInv
<1>3. WireInv' /\ MetInv'
  BY <1>1, WireStays DEF BridgeInv
<1>4. PumpInv'
  BY <1>1, <1>2 DEF BridgeInv, PumpInv
<1>5. TypeOK'
  <2>1. TypeOK
    BY DEF BridgeInv, BridgeType
  <2>2. wait' \in 0 .. GAP /\ lag' \in 0 .. STALL
    BY <1>1, Bounds
  <2> QED
    BY <1>1, <1>2, <2>1, <2>2 DEF TypeOK
<1>6. BridgeType'
  BY <1>1, <1>5 DEF BridgeInv, BridgeType
<1> QED
  BY <1>3, <1>4, <1>6 DEF BridgeInv

\* A control line leaves the mutex sound, whatever address it names.
LEMMA ControlNext ==
  ASSUME BridgeInv, NEW c \in Commands, Control(c)
  PROVE  BridgeInv'
<1>1. UNCHANGED <<pc, buf, sock, wait, lag, open, master, asked, requests, age, applied, met>>
  BY DEF Control, pumpvars, mastervars
<1>2. c.cmd \in {"drop", "exception", "clear", "set", "get"}
  BY CommandAssumption
<1>3. BoundOf(c.bank) = SizeOf(c.bank)
  BY DEF BoundOf, SizeOf
<1>4. UNCHANGED poisoned
  <2>1. CASE c.cmd \in {"drop", "exception", "clear"}
    BY <2>1 DEF Control
  <2>2. CASE c.cmd \in {"set", "get"}
    BY <1>3, <2>2 DEF Control
  <2> QED
    BY <1>2, <2>1, <2>2
<1>5. WireInv' /\ MetInv'
  BY <1>1, WireStays DEF BridgeInv
<1>6. PumpInv'
  BY <1>1, <1>4 DEF BridgeInv, PumpInv
<1>7. TypeOK'
  BY <1>1, <1>4 DEF BridgeInv, BridgeType, TypeOK
<1>8. BridgeType'
  BY <1>1, <1>7 DEF BridgeInv, BridgeType
<1> QED
  BY <1>5, <1>6, <1>8 DEF BridgeInv

\* The master begins a request.
LEMMA BeginNext ==
  ASSUME BridgeInv, NEW f \in Asks, NEW part, NEW state, Begin(f, part, state),
         \/ part = "whole" /\ state = "waiting"
         \/ part = "head" /\ state = "sending"
  PROVE  BridgeInv'
<1> DEFINE p == Piece(Len(requests) + 1, part)
<1>1. /\ open /\ Len(requests) + 1 <= MaxRequests
      /\ requests' = Append(requests, f) /\ sock' = Append(sock, p)
      /\ asked' = Len(requests) + 1 /\ master' = state /\ age' = 0
      /\ UNCHANGED <<poisoned, buf, pc, wait, lag, open, applied, met>>
  BY DEF Begin, Next1, busvars
<1>2. /\ buf \in Seq(Pieces) /\ sock \in Seq(Pieces) /\ requests \in Seq(Asks)
      /\ Len(requests) \in Nat /\ met \in 0 .. Len(requests)
  BY DEF BridgeInv, BridgeType
<1>3. /\ requests' \in Seq(Asks) /\ Len(requests') = Len(requests) + 1
  BY <1>1, <1>2
<1>4. Len(requests) + 1 \in 1 .. MaxRequests /\ Len(requests) + 1 \in 0 .. MaxRequests
  BY <1>1, <1>2, Bounds
<1>5. p \in Pieces /\ p.id = Len(requests) + 1 /\ p.part = part
  BY <1>4 DEF Piece, Pieces
<1> HIDE DEF p
<1>6. Grows(p) /\ sock' \in Seq(Pieces)
  BY <1>1, <1>2, <1>5, WriteGrows
<1>7. applied[Len(requests) + 1] = 0
  BY <1>2, <1>4 DEF BridgeInv, WireInv
<1>8. \A i \in 1 .. Len(Wire) : Wire[i].id # Len(requests) + 1
  BY <1>2 DEF BridgeInv, WireInv
<1>9. WireInv'
  <2>1. /\ Len(requests) <= Len(requests') /\ p.id \in 0 .. Len(requests') /\ p.id # 0
        /\ asked' \in 1 .. Len(requests') /\ applied[asked'] = 0
    BY <1>1, <1>2, <1>3, <1>5, <1>7
  <2>2. master' = "sending" => ~ Completes(p)
    BY <1>1, <1>5 DEF Completes
  <2> QED
    BY <1>1, <1>3, <1>5, <1>6, <1>7, <1>8, <2>1, <2>2, GrowKeepsWire DEF BridgeInv
<1>10. MetInv'
  BY <1>1, <1>3, <1>5, <1>6, GrowKeepsMet DEF BridgeInv
<1>11. PumpInv'
  BY <1>1 DEF BridgeInv, PumpInv
<1>12. TypeOK'
  <2>1. TypeOK
    BY DEF BridgeInv, BridgeType
  <2>2. age' \in 0 .. TIMEOUT /\ asked' \in 0 .. MaxRequests
    BY <1>1, <1>4, Bounds
  <2>3. master' \in {"idle", "sending", "waiting"}
    BY <1>1
  <2> QED
    BY <1>1, <2>1, <2>2, <2>3 DEF TypeOK
<1>13. met' \in 0 .. Len(requests')
  BY <1>1, <1>2, <1>3
<1>14. BridgeType'
  BY <1>1, <1>3, <1>6, <1>12, <1>13 DEF BridgeInv, BridgeType
<1> QED
  BY <1>9, <1>10, <1>11, <1>14 DEF BridgeInv

\* The master writes the rest of its request, or the line its noise.
LEMMA WriteNext ==
  ASSUME BridgeInv, SendTail \/ LineNoise
  PROVE  BridgeInv'
<1>1. /\ open
      /\ UNCHANGED <<poisoned, buf, pc, wait, lag, open, applied, met, asked, requests>>
  BY DEF SendTail, LineNoise, busvars, history
<1>2. /\ buf \in Seq(Pieces) /\ sock \in Seq(Pieces) /\ requests \in Seq(Asks)
      /\ Len(requests) \in Nat /\ Len(requests) <= MaxRequests
  BY DEF BridgeInv, BridgeType
<1>3. age \in 0 .. TIMEOUT /\ master \in {"idle", "sending", "waiting"}
  BY DEF BridgeInv, BridgeType, TypeOK
<1>4. /\ age' \in 0 .. TIMEOUT /\ master' \in {"idle", "sending", "waiting"}
  BY <1>3, Bounds DEF SendTail, LineNoise
<1>5. /\ WireInv' /\ MetInv' /\ sock' \in Seq(Pieces)
  <2>1. CASE SendTail
    <3> DEFINE p == Piece(asked, "tail")
    <3>1. sock' = Append(sock, p) /\ master = "sending" /\ master' = "waiting"
      BY <2>1 DEF SendTail
    <3>2. /\ asked \in 1 .. Len(requests) /\ applied[asked] = 0
          /\ \A i \in 1 .. Len(Wire) : Completes(Wire[i]) => Wire[i].id # asked
      BY <3>1 DEF BridgeInv, WireInv
    <3>3. asked \in 0 .. MaxRequests /\ asked \in 0 .. Len(requests) /\ asked # 0
      BY <1>2, <3>2, Bounds
    <3>4. p \in Pieces /\ p.id = asked
      BY <3>3 DEF Piece, Pieces
    <3> HIDE DEF p
    <3>5. Grows(p) /\ sock' \in Seq(Pieces)
      BY <1>1, <1>2, <3>1, <3>4, WriteGrows
    <3>6. requests' \in Seq(Asks) /\ Len(requests) <= Len(requests') /\ Len(requests') = Len(requests)
      BY <1>1, <1>2
    <3>7. WireInv'
      BY <1>1, <3>1, <3>2, <3>3, <3>4, <3>5, <3>6, GrowKeepsWire DEF BridgeInv
    <3>8. MetInv'
      BY <1>1, <3>5, <3>6, GrowKeepsMet DEF BridgeInv
    <3> QED
      BY <3>5, <3>7, <3>8
  <2>2. CASE LineNoise
    <3>1. sock' = Append(sock, Noise) /\ master' = master
      BY <2>2 DEF LineNoise
    <3>2. Noise \in Pieces /\ Noise.id = 0 /\ Noise.part = "noise" /\ ~ Completes(Noise)
      BY Bounds DEF Noise, Pieces, Completes
    <3>3. Grows(Noise) /\ sock' \in Seq(Pieces)
      BY <1>1, <1>2, <3>1, <3>2, WriteGrows
    <3>4. /\ requests' \in Seq(Asks) /\ Len(requests) <= Len(requests')
          /\ Len(requests') = Len(requests) /\ 0 \in 0 .. Len(requests')
      BY <1>1, <1>2
    <3>5. master' = "sending" =>
            /\ asked' \in 1 .. Len(requests') /\ applied[asked'] = 0
            /\ \A i \in 1 .. Len(Wire) : Completes(Wire[i]) => Wire[i].id # asked'
      BY <1>1, <3>1 DEF BridgeInv, WireInv
    <3>6. WireInv'
      BY <1>1, <3>2, <3>3, <3>4, <3>5, GrowKeepsWire DEF BridgeInv
    <3>7. MetInv'
      BY <1>1, <3>3, <3>4, GrowKeepsMet DEF BridgeInv
    <3> QED
      BY <3>3, <3>6, <3>7
  <2> QED
    BY <2>1, <2>2
<1>6. PumpInv'
  BY <1>1 DEF BridgeInv, PumpInv
<1>7. TypeOK'
  BY <1>1, <1>4 DEF BridgeInv, BridgeType, TypeOK
<1>8. BridgeType'
  BY <1>1, <1>5, <1>7 DEF BridgeInv, BridgeType
<1> QED
  BY <1>5, <1>6, <1>8 DEF BridgeInv

\* The master takes an answer or gives up, the VM goes, time passes.
LEMMA OthersNext ==
  ASSUME BridgeInv, Receive \/ GiveUp \/ Close \/ Tick \/ UNCHANGED vars
  PROVE  BridgeInv'
<1>1. UNCHANGED <<poisoned, buf, sock, pc, asked, requests, applied, met>>
  BY DEF Receive, GiveUp, Close, Tick, vars, busvars, pumpvars, mastervars, history
<1>2. open' = open \/ open' = FALSE
  BY DEF Receive, GiveUp, Close, Tick, vars
<1>3. master' = master \/ master' = "idle"
  BY DEF Receive, GiveUp, Close, Tick, vars, mastervars
<1>4. wait \in 0 .. GAP /\ lag \in 0 .. STALL /\ age \in 0 .. TIMEOUT
  BY DEF BridgeInv, BridgeType, TypeOK
<1>5. wait' \in 0 .. GAP
  BY <1>4, Bounds DEF Receive, GiveUp, Close, Tick, vars
<1>6. lag' \in 0 .. STALL
  BY <1>4, Bounds DEF Receive, GiveUp, Close, Tick, vars
<1>7. age' \in 0 .. TIMEOUT
  BY <1>4, Bounds DEF Receive, GiveUp, Close, Tick, vars, mastervars
<1>8. WireInv' /\ MetInv'
  BY <1>1, <1>3, WireStays DEF BridgeInv
<1>9. PumpInv'
  <2>1. CASE open' = open
    BY <1>1, <2>1 DEF BridgeInv, PumpInv
  <2>2. CASE open' = FALSE
    <3>1. ~ open'
      BY <2>2
    <3> QED
      BY <1>1, <3>1 DEF BridgeInv, PumpInv
  <2> QED
    BY <1>2, <2>1, <2>2
<1>10. TypeOK'
  <2>1. TypeOK
    BY DEF BridgeInv, BridgeType
  <2>2. open' \in BOOLEAN /\ master' \in {"idle", "sending", "waiting"}
    BY <1>2, <1>3, <2>1 DEF TypeOK
  <2> QED
    BY <1>1, <1>5, <1>6, <1>7, <2>1, <2>2 DEF TypeOK
<1>11. BridgeType'
  BY <1>1, <1>10 DEF BridgeInv, BridgeType
<1> QED
  BY <1>8, <1>9, <1>11 DEF BridgeInv

\* The bridge starts with an empty wire ...
LEMMA BridgeInit == Init => BridgeInv
<1> SUFFICES ASSUME Init PROVE BridgeInv
  OBVIOUS
<1>1. Wire = <<>> /\ Len(Wire) = 0
  BY DEF Init, Wire
<1>2. /\ buf = <<>> /\ sock = <<>> /\ pc = "read" /\ requests = <<>> /\ Len(requests) = 0
      /\ met = 0 /\ wait = 0 /\ lag = 0 /\ age = 0 /\ asked = 0 /\ master = "idle"
      /\ applied = [n \in 1 .. MaxRequests |-> 0]
  BY DEF Init
<1>3. ~ poisoned /\ open /\ poisoned \in BOOLEAN /\ open \in BOOLEAN
  BY DEF Init
<1>4. TypeOK
  <2>1. /\ Len(buf) <= MAX_PENDING /\ asked \in 0 .. MaxRequests
        /\ wait \in 0 .. GAP /\ lag \in 0 .. STALL /\ age \in 0 .. TIMEOUT
    BY <1>2, Bounds
  <2> QED
    BY <1>2, <1>3, <2>1 DEF TypeOK
<1>5. /\ buf \in Seq(Pieces) /\ sock \in Seq(Pieces) /\ requests \in Seq(Asks)
      /\ Len(requests) <= MaxRequests /\ met \in 0 .. Len(requests)
      /\ applied \in [1 .. MaxRequests -> Nat]
  BY <1>2, Bounds
<1>6. PumpInv
  BY <1>2, <1>3 DEF PumpInv
<1>7. WireInv
  BY <1>1, <1>2 DEF WireInv, ServedOnce
<1>8. MetInv
  BY <1>2 DEF MetInv
<1> QED
  BY <1>4, <1>5, <1>6, <1>7, <1>8 DEF BridgeInv, BridgeType

\* ... and every step keeps the invariant.
LEMMA BridgeNext == BridgeInv /\ [Next]_vars => BridgeInv'
<1> SUFFICES ASSUME BridgeInv, [Next]_vars PROVE BridgeInv'
  OBVIOUS
<1>1. CASE Pump
  BY <1>1, ReadNext, DispatchNext, PumpNext DEF Pump
<1>2. ASSUME NEW c \in Commands, Control(c) PROVE BridgeInv'
  BY <1>2, ControlNext
<1>3. ASSUME NEW f \in Asks, Send(f) \/ SendHead(f) PROVE BridgeInv'
  BY <1>3, BeginNext DEF Send, SendHead
<1>4. CASE SendTail \/ LineNoise
  BY <1>4, WriteNext
<1>5. CASE Receive \/ GiveUp \/ Close \/ Tick \/ UNCHANGED vars
  BY <1>5, OthersNext
<1> QED
  BY <1>1, <1>2, <1>3, <1>4, <1>5 DEF Next

-----------------------------------------------------------------------------
\* Types: in particular the buffer stays within its cap and the times within
\* theirs (pump_serial's MAX_PENDING).
THEOREM TypeCorrect == Spec => []TypeOK
<1>1. BridgeInv => TypeOK
  BY DEF BridgeInv, BridgeType
<1> QED
  BY <1>1, BridgeInit, BridgeNext, PTL DEF Spec

\* Only a VM that is gone ends the pump: no control line poisons the mutex the
\* pump needs (handle_control_line's address check).
THEOREM BusIsKept == Spec => []BusSurvives
<1>1. BridgeInv => BusSurvives
  BY DEF BridgeInv, PumpInv, BusSurvives
<1> QED
  BY <1>1, BridgeInit, BridgeNext, PTL DEF Spec

\* However the stream is cut, merged with noise, or retried, a request is
\* served at most once (dispatch, which clears the buffer it served).
THEOREM RequestIsServedOnce == Spec => []ServedOnce
<1>1. BridgeInv => ServedOnce
  BY DEF BridgeInv, WireInv
<1> QED
  BY <1>1, BridgeInit, BridgeNext, PTL DEF Spec

\* A pump that returned at the end of the stream has disposed of every request
\* that was made (pump_serial's dispatch at EOF).
THEOREM NothingIsLost == Spec => []EofLosesNothing
<1>1. BridgeInv => EofLosesNothing
  <2> SUFFICES ASSUME BridgeInv, pc = "eof" PROVE sock = <<>> /\ met = Len(requests)
    BY DEF EofLosesNothing
  <2>1. sock = <<>> /\ buf = <<>>
    BY DEF BridgeInv, PumpInv
  <2>2. Len(Wire) = 0
    BY <2>1 DEF Wire
  <2>3. Len(requests) \in Nat /\ met \in 0 .. Len(requests)
    BY DEF BridgeInv, BridgeType
  <2>4. \A n \in 1 .. Len(requests) : n <= met
    BY <2>2 DEF BridgeInv, MetInv
  <2>5. met = Len(requests)
    <3>1. CASE Len(requests) = 0
      BY <2>3, <3>1
    <3>2. CASE Len(requests) # 0
      <4>1. Len(requests) \in 1 .. Len(requests)
        BY <2>3, <3>2
      <4> QED
        BY <2>3, <2>4, <4>1
    <3> QED
      BY <3>1, <3>2
  <2> QED
    BY <2>1, <2>5
<1> QED
  BY <1>1, BridgeInit, BridgeNext, PTL DEF Spec

-----------------------------------------------------------------------------
(* What the slave answers *)

\* The states of struct ModbusSlave.
Devices ==
  [holding : [0 .. NRegs - 1 -> Nat], input : [0 .. NRegs - 1 -> Nat],
   coils : [0 .. NBits - 1 -> BOOLEAN], discrete : [0 .. NBits - 1 -> BOOLEAN],
   slave_id : Seq(Int), drop_next : Nat, force_exception : Int]

\* A PDU whose words and bytes are numbers.
Typed(p) == p.a \in Nat /\ p.b \in Nat /\ (p.form = "counted" => p.data \in Seq(Nat))

\* Served by a read: the device stays, and the data decodes to the cells asked
\* for.
ReadsCells(d, p, bank, o) ==
  o.ok => o.dev = d /\ Slave!RegsIn(Tail(o.data), p.b) = Values(bank, p)

\* Served by anything else: the device keeps its types.
KeepsType(o) == o.ok => o.dev \in Devices

\* A field of a device replaced by one of its type.
LEMMA FieldUpdates ==
  ASSUME NEW d \in Devices
  PROVE  /\ \A n \in Nat : [d EXCEPT !.drop_next = n] \in Devices
         /\ \A n \in Int : [d EXCEPT !.force_exception = n] \in Devices
         /\ \A h \in [0 .. NRegs - 1 -> Nat] :
              [d EXCEPT !.holding = h] \in Devices /\ [d EXCEPT !.input = h] \in Devices
         /\ \A h \in [0 .. NBits - 1 -> BOOLEAN] :
              [d EXCEPT !.coils = h] \in Devices /\ [d EXCEPT !.discrete = h] \in Devices
<1>1. ASSUME NEW n \in Nat PROVE [d EXCEPT !.drop_next = n] \in Devices
  BY DEF Devices
<1>2. ASSUME NEW n \in Int PROVE [d EXCEPT !.force_exception = n] \in Devices
  BY DEF Devices
<1>3. ASSUME NEW h \in [0 .. NRegs - 1 -> Nat]
      PROVE  [d EXCEPT !.holding = h] \in Devices /\ [d EXCEPT !.input = h] \in Devices
  <2>1. [d EXCEPT !.holding = h] \in Devices
    BY DEF Devices
  <2>2. [d EXCEPT !.input = h] \in Devices
    BY DEF Devices
  <2> QED
    BY <2>1, <2>2
<1>4. ASSUME NEW h \in [0 .. NBits - 1 -> BOOLEAN]
      PROVE  [d EXCEPT !.coils = h] \in Devices /\ [d EXCEPT !.discrete = h] \in Devices
  <2>1. [d EXCEPT !.coils = h] \in Devices
    BY DEF Devices
  <2>2. [d EXCEPT !.discrete = h] \in Devices
    BY DEF Devices
  <2> QED
    BY <2>1, <2>2
<1> QED
  BY <1>1, <1>2, <1>3, <1>4

\* A number is its quotient and its remainder.
LEMMA SplitWord ==
  ASSUME NEW w \in Nat, NEW M \in Nat \ {0}
  PROVE  (w \div M) * M + (w % M) = w
<1> DEFINE q == w \div M
           r == w % M
<1>1. q \in Int /\ r \in Int /\ w = M * q + r
  OBVIOUS
<1> HIDE DEF q, r
<1>2. q * M + r = w
  BY <1>1
<1> QED
  BY <1>2 DEF q, r

\* A word is its two bytes.
LEMMA WordIsBytes ==
  ASSUME NEW w \in Nat, NEW hi, NEW lo, hi = w \div 2^BITS, lo = w % 2^BITS
  PROVE  hi * 2^BITS + lo = w
<1> DEFINE M == 2^BITS
<1>1. M \in Nat \ {0} /\ hi = w \div M /\ lo = w % M
  BY BridgeAssumption
<1> HIDE DEF M
<1>2. hi * M + lo = w
  BY <1>1, SplitWord
<1> QED
  BY <1>2 DEF M

\* The data behind the byte count.
LEMMA TailOfCounted ==
  ASSUME NEW c \in Int, NEW n \in Nat, NEW g \in [1 .. n -> Int]
  PROVE  Tail(<<c>> \o g) = g
<1>0. g \in Seq(Int) /\ Len(g) = n
  OBVIOUS
<1>1. <<c>> \in Seq(Int) /\ Len(<<c>>) = 1
  OBVIOUS
<1> DEFINE s == <<c>> \o g
<1>2. s \in Seq(Int) /\ Len(s) = n + 1 /\ \A i \in 1 .. n : s[i + 1] = g[i]
  BY <1>0, <1>1
<1> HIDE DEF s
<1>3. Tail(s) \in Seq(Int) /\ Len(Tail(s)) = n /\ \A i \in 1 .. n : Tail(s)[i] = s[i + 1]
  BY <1>2
<1>4. Tail(s) = g
  BY <1>0, <1>2, <1>3
<1> QED
  BY <1>4 DEF s

\* The register and the byte of it at place i of the data.
LEMMA HalfIndex ==
  ASSUME NEW a \in Nat, NEW b \in Nat, NEW n \in Nat, a + b <= n, NEW i \in 1 .. 2 * b
  PROVE  a + (i - 1) \div 2 \in 0 .. n - 1 /\ 1 + ((i - 1) % 2) \in {1, 2}
<1>1. (i - 1) \div 2 \in 0 .. b - 1
  OBVIOUS
<1>2. (i - 1) % 2 \in {0, 1}
  OBVIOUS
<1> DEFINE q == (i - 1) \div 2
           m == (i - 1) % 2
<1>3. q \in 0 .. b - 1 /\ m \in {0, 1}
  BY <1>1, <1>2
<1> HIDE DEF q, m
<1>4. a + q \in 0 .. n - 1 /\ 1 + m \in {1, 2}
  BY <1>3
<1> QED
  BY <1>4 DEF q, m

\* ReadRegs answers with the registers it was asked for, high byte first.
LEMMA ReadRegsReads ==
  ASSUME NEW d, NEW p, p.a \in Nat, p.b \in Nat, NEW bank \in [0 .. NRegs - 1 -> Nat]
  PROVE  ReadsCells(d, p, bank, Slave!ReadRegs(d, p, bank))
<1> DEFINE g == [i \in 1 .. 2 * p.b |->
                   Slave!ToBeBytes(bank[p.a + (i - 1) \div 2])[1 + ((i - 1) % 2)]]
           o == Slave!ReadRegs(d, p, bank)
<1> SUFFICES ASSUME o.ok
             PROVE  o.dev = d /\ Slave!RegsIn(Tail(o.data), p.b) = Values(bank, p)
  BY DEF ReadsCells
<1>1. /\ ~ (p.form # "two_words" \/ p.b = 0 \/ p.b > MAX_READ_REGS)
      /\ ~ (p.a + p.b > NRegs)
      /\ o = Slave!Ok(<<(2 * p.b) % 2^BITS>> \o g, d)
  BY DEF Slave!ReadRegs, Slave!Err
<1>2. o.dev = d /\ o.data = <<(2 * p.b) % 2^BITS>> \o g
  <2> DEFINE x == <<(2 * p.b) % 2^BITS>> \o g
  <2>1. o = [ok |-> TRUE, data |-> x, dev |-> d]
    BY <1>1 DEF Slave!Ok
  <2> HIDE DEF o, g, x
  <2>2. o.dev = d /\ o.data = x
    BY <2>1
  <2> QED
    BY <2>2 DEF x
<1>3. NRegs \in Nat /\ p.a + p.b <= NRegs
  BY <1>1, BridgeAssumption
<1>4. ASSUME NEW i \in 1 .. p.b
      PROVE  g[2 * i - 1] * 2^BITS + g[2 * i] = bank[p.a + i - 1]
  <2> DEFINE w == bank[p.a + i - 1]
  <2>1. p.a + i - 1 \in 0 .. NRegs - 1 /\ w \in Nat
    BY <1>3, <1>4
  <2>2. /\ 2 * i - 1 \in 1 .. 2 * p.b /\ 2 * i \in 1 .. 2 * p.b
        /\ (2 * i - 1 - 1) \div 2 = i - 1 /\ (2 * i - 1 - 1) % 2 = 0
        /\ (2 * i - 1) \div 2 = i - 1 /\ (2 * i - 1) % 2 = 1
    BY <1>4
  <2>3. p.a + (i - 1) = p.a + i - 1
    BY <1>4
  <2>a. \A j \in 1 .. 2 * p.b :
          g[j] = Slave!ToBeBytes(bank[p.a + (j - 1) \div 2])[1 + ((j - 1) % 2)]
    OBVIOUS
  <2>b. g[2 * i - 1] = Slave!ToBeBytes(w)[1]
    <3>1. g[2 * i - 1] = Slave!ToBeBytes(bank[p.a + (2 * i - 1 - 1) \div 2])[1 + ((2 * i - 1 - 1) % 2)]
      BY <2>a, <2>2
    <3> HIDE DEF g
    <3>2. 1 + ((2 * i - 1 - 1) % 2) = 1 /\ p.a + (2 * i - 1 - 1) \div 2 = p.a + i - 1
      BY <2>2, <2>3
    <3> QED
      BY <3>1, <3>2
  <2>c. g[2 * i] = Slave!ToBeBytes(w)[2]
    <3>1. g[2 * i] = Slave!ToBeBytes(bank[p.a + (2 * i - 1) \div 2])[1 + ((2 * i - 1) % 2)]
      BY <2>a, <2>2
    <3> HIDE DEF g
    <3>2. 1 + ((2 * i - 1) % 2) = 2 /\ p.a + (2 * i - 1) \div 2 = p.a + i - 1
      BY <2>2, <2>3
    <3> QED
      BY <3>1, <3>2
  <2>4. g[2 * i - 1] = Slave!ToBeBytes(w)[1] /\ g[2 * i] = Slave!ToBeBytes(w)[2]
    BY <2>b, <2>c
  <2>5. g[2 * i - 1] = w \div 2^BITS /\ g[2 * i] = w % 2^BITS
    BY <2>4 DEF Slave!ToBeBytes
  <2> HIDE DEF g, w
  <2>6. g[2 * i - 1] * 2^BITS + g[2 * i] = w
    <3> DEFINE hi == g[2 * i - 1]
               lo == g[2 * i]
    <3>1. hi = w \div 2^BITS /\ lo = w % 2^BITS
      BY <2>5
    <3> HIDE DEF hi, lo
    <3>2. hi * 2^BITS + lo = w
      BY <2>1, <3>1, WordIsBytes
    <3> QED
      BY <3>2 DEF hi, lo
  <2> QED
    BY <2>6 DEF w
<1>5. Tail(o.data) = g
  <2>1. ASSUME NEW i \in 1 .. 2 * p.b PROVE g[i] \in Int
    <3>1. p.a + (i - 1) \div 2 \in 0 .. NRegs - 1 /\ 1 + ((i - 1) % 2) \in {1, 2}
      BY <1>3, <2>1, HalfIndex
    <3>2. PICK w \in Nat, k \in {1, 2} : g[i] = Slave!ToBeBytes(w)[k]
      <4> DEFINE v == bank[p.a + (i - 1) \div 2]
                 j == 1 + ((i - 1) % 2)
      <4>1. v \in Nat /\ j \in {1, 2}
        BY <3>1
      <4>2. g[i] = Slave!ToBeBytes(v)[j]
        BY <2>1
      <4> HIDE DEF g, v, j
      <4> QED
        BY <4>1, <4>2
    <3>3. w \div 2^BITS \in Int /\ w % 2^BITS \in Int
      BY BridgeAssumption
    <3>4. g[i] \in {w \div 2^BITS, w % 2^BITS}
      BY <3>2 DEF Slave!ToBeBytes
    <3> QED
      BY <3>3, <3>4
  <2>2. 2 * p.b \in Nat /\ (2 * p.b) % 2^BITS \in Int
    BY BridgeAssumption
  <2>3. g \in [1 .. 2 * p.b -> Int]
    BY <2>1
  <2> HIDE DEF g
  <2> QED
    BY <1>2, <2>2, <2>3, TailOfCounted
<1> HIDE DEF g, o
<1>6. Slave!RegsIn(Tail(o.data), p.b) = Values(bank, p)
  BY <1>4, <1>5 DEF Slave!RegsIn, Values
<1> QED
  BY <1>2, <1>6

\* A write of one register, of one coil.
LEMMA SingleWrites ==
  ASSUME NEW d \in Devices, NEW p, Typed(p)
  PROVE  KeepsType(Slave!WriteSingleReg(d, p)) /\ KeepsType(Slave!WriteSingleCoil(d, p))
<1>1. p.a \in Nat /\ p.b \in Nat /\ NRegs \in Nat /\ NBits \in Nat
  BY BridgeAssumption DEF Typed
<1>2. ASSUME Slave!WriteSingleReg(d, p).ok PROVE Slave!WriteSingleReg(d, p).dev \in Devices
  <2>1. Slave!WriteSingleReg(d, p).dev = [d EXCEPT !.holding[p.a] = p.b] /\ ~ (p.a >= NRegs)
    BY <1>2 DEF Slave!WriteSingleReg, Slave!Err, Slave!Ok
  <2> DEFINE h == [d.holding EXCEPT ![p.a] = p.b]
  <2>2. h \in [0 .. NRegs - 1 -> Nat] /\ Slave!WriteSingleReg(d, p).dev = [d EXCEPT !.holding = h]
    BY <1>1, <2>1 DEF Devices
  <2> HIDE DEF h
  <2> QED
    BY <2>2 DEF Devices
<1>3. ASSUME Slave!WriteSingleCoil(d, p).ok PROVE Slave!WriteSingleCoil(d, p).dev \in Devices
  <2>1. /\ Slave!WriteSingleCoil(d, p).dev = [d EXCEPT !.coils[p.a] = (p.b = COIL_ON)]
        /\ ~ (p.a >= NBits)
    BY <1>3 DEF Slave!WriteSingleCoil, Slave!Err, Slave!Ok
  <2> DEFINE h == [d.coils EXCEPT ![p.a] = (p.b = COIL_ON)]
  <2>2. (p.b = COIL_ON) \in BOOLEAN /\ d.coils \in [0 .. NBits - 1 -> BOOLEAN]
    BY DEF Devices
  <2>3. Slave!WriteSingleCoil(d, p).dev = [d EXCEPT !.coils = h]
    BY <2>1
  <2>4. h \in [0 .. NBits - 1 -> BOOLEAN]
    BY <2>2, Zenon
  <2> HIDE DEF h
  <2> QED
    BY <2>3, <2>4 DEF Devices
<1> QED
  BY <1>2, <1>3 DEF KeepsType

\* A write of several registers, of several coils.
LEMMA MultiWrites ==
  ASSUME NEW d \in Devices, NEW p, Typed(p)
  PROVE  KeepsType(Slave!WriteMultiRegs(d, p)) /\ KeepsType(Slave!WriteMultiCoils(d, p))
<1>1. p.a \in Nat /\ p.b \in Nat /\ NRegs \in Nat /\ NBits \in Nat
  BY BridgeAssumption DEF Typed
<1>2. ASSUME Slave!WriteMultiRegs(d, p).ok PROVE Slave!WriteMultiRegs(d, p).dev \in Devices
  <2> DEFINE h == [k \in DOMAIN d.holding |->
                     LET i == k - p.a IN
                     IF i \in 0 .. p.b - 1
                     THEN Slave!FromBeBytes(p.data[2 * i + 1], p.data[2 * i + 2])
                     ELSE d.holding[k]]
  <2>1. /\ Slave!WriteMultiRegs(d, p).dev = [d EXCEPT !.holding = h]
        /\ p.form = "counted" /\ Len(p.data) = 2 * p.b
    BY <1>2 DEF Slave!WriteMultiRegs, Slave!Err, Slave!Ok
  <2>2. p.data \in Seq(Nat) /\ d.holding \in [0 .. NRegs - 1 -> Nat]
    BY <2>1 DEF Typed, Devices
  <2>3. ASSUME NEW k \in 0 .. NRegs - 1 PROVE h[k] \in Nat
    <3>1. CASE k - p.a \in 0 .. p.b - 1
      <4>0. PICK j \in 0 .. p.b - 1 : j = k - p.a
        BY <3>1
      <4>1. /\ 2 * j + 1 \in 1 .. 2 * p.b /\ 2 * j + 2 \in 1 .. 2 * p.b
        BY <1>1
      <4>2. p.data[2 * (k - p.a) + 1] \in Nat /\ p.data[2 * (k - p.a) + 2] \in Nat
        <5>1. Len(p.data) = 2 * p.b
          BY <2>1
        <5> HIDE DEF h
        <5> DEFINE s == p.data
        <5>a. s \in Seq(Nat) /\ 2 * j + 1 \in 1 .. Len(s) /\ 2 * j + 2 \in 1 .. Len(s)
          BY <2>2, <4>1, <5>1
        <5>b. \A m \in 1 .. Len(s) : s[m] \in Nat
          <6> HIDE DEF s
          <6> QED
            BY <5>a
        <5> HIDE DEF s
        <5>c. s[2 * j + 1] \in Nat /\ s[2 * j + 2] \in Nat
          BY <5>a, <5>b
        <5>2. p.data[2 * j + 1] \in Nat /\ p.data[2 * j + 2] \in Nat
          BY <5>c DEF s
        <5> QED
          BY <4>0, <5>2
      <4>3. h[k] = Slave!FromBeBytes(p.data[2 * (k - p.a) + 1], p.data[2 * (k - p.a) + 2])
        BY <2>2, <2>3, <3>1
      <4> HIDE DEF h
      <4>4. \A x, y \in Nat : Slave!FromBeBytes(x, y) \in Nat
        <5> DEFINE M == 2^BITS
        <5>1. M \in Nat
          BY BridgeAssumption
        <5> HIDE DEF M
        <5>2. \A x, y \in Nat : x * M + y \in Nat
          BY <5>1
        <5> QED
          BY <5>2 DEF M, Slave!FromBeBytes
      <4> QED
        BY <4>2, <4>3, <4>4
    <3>2. CASE k - p.a \notin 0 .. p.b - 1
      BY <2>2, <2>3, <3>2
    <3> QED
      BY <3>1, <3>2
  <2>4. h \in [0 .. NRegs - 1 -> Nat]
    BY <2>2, <2>3
  <2> HIDE DEF h
  <2> QED
    BY <2>1, <2>4 DEF Devices
<1>3. ASSUME Slave!WriteMultiCoils(d, p).ok PROVE Slave!WriteMultiCoils(d, p).dev \in Devices
  <2> DEFINE h == [k \in DOMAIN d.coils |->
                     LET i == k - p.a IN
                     IF i \in 0 .. p.b - 1
                     THEN Slave!Bit(p.data[i \div BITS + 1], i % BITS)
                     ELSE d.coils[k]]
  <2>1. Slave!WriteMultiCoils(d, p).dev = [d EXCEPT !.coils = h]
    BY <1>3 DEF Slave!WriteMultiCoils, Slave!Err, Slave!Ok
  <2>2. d.coils \in [0 .. NBits - 1 -> BOOLEAN]
    BY DEF Devices
  <2>3. \A x, y : Slave!Bit(x, y) \in BOOLEAN
    BY DEF Slave!Bit
  <2>4. h \in [0 .. NBits - 1 -> BOOLEAN]
    BY <2>2, <2>3
  <2> HIDE DEF h
  <2> QED
    BY <2>1, <2>4 DEF Devices
<1> QED
  BY <1>2, <1>3 DEF KeepsType

\* The device a request leaves when it is served.
LEMMA DispatchTyped ==
  ASSUME NEW d \in Devices, NEW p, Typed(p), NEW fc
  PROVE  KeepsType(Slave!Dispatch(d, fc, p))
<1>1. \A bank : KeepsType(Slave!ReadBits(d, p, bank))
  BY DEF KeepsType, Slave!ReadBits, Slave!Err, Slave!Ok
<1>2. \A bank : KeepsType(Slave!ReadRegs(d, p, bank))
  BY DEF KeepsType, Slave!ReadRegs, Slave!Err, Slave!Ok
<1>3. KeepsType(Slave!ReportSlaveId(d))
  BY DEF KeepsType, Slave!ReportSlaveId, Slave!Ok
<1>4. \A c : KeepsType(Slave!Err(c))
  BY DEF KeepsType, Slave!Err
<1> QED
  BY <1>1, <1>2, <1>3, <1>4, SingleWrites, MultiWrites DEF Slave!Dispatch

\* A PDU without its last byte is refused.
LEMMA ShortIsRefused ==
  ASSUME NEW d, NEW p, NEW fc, p.form = "short", fc # 17
  PROVE  ~ Slave!Dispatch(d, fc, p).ok
BY DEF Slave!Dispatch, Slave!ReadBits, Slave!ReadRegs, Slave!WriteSingleReg,
       Slave!WriteSingleCoil, Slave!WriteMultiRegs, Slave!WriteMultiCoils, Slave!Err

\* What handle_frame promises for a frame with function fc and PDU p: an
\* unsound frame is not answered, a refusal is an exception, and registers
\* that are answered are those of the device before and after.
HandledWell(d, f, h) ==
  /\ h.dev \in Devices
  /\ ~ f.sound => h.reply = Silence
  /\ h.reply # Silence =>
       /\ h.reply.fc = f.fc
       /\ h.reply.exception \/ (f.fc \in {3, 4} =>
            /\ h.dev = d
            /\ Slave!RegsIn(Tail(h.reply.data), f.pdu.b)
                 = Values(d[Slave!BankOf(f.fc)], f.pdu))
       /\ f.pdu.form = "short" /\ f.fc # 17 => h.reply.exception

\* It keeps that promise, whatever is injected.
LEMMA HandlesWell ==
  ASSUME NEW d \in Devices, NEW f, Typed(f.pdu)
  PROVE  HandledWell(d, f, Slave!Handle(d, f))
<1> DEFINE h == Slave!Handle(d, f)
           o == IF d.force_exception # Slave!None THEN Slave!Err(d.force_exception)
                ELSE Slave!Dispatch(d, f.fc, f.pdu)
<1>1. d.drop_next \in Nat /\ d.holding \in [0 .. NRegs - 1 -> Nat]
      /\ d.input \in [0 .. NRegs - 1 -> Nat]
  BY DEF Devices
<1>2. CASE d.drop_next > 0
  <2>1. h = [dev |-> [d EXCEPT !.drop_next = @ - 1], reply |-> Silence]
    BY <1>1, <1>2 DEF Slave!Handle, Silence
  <2>2. [d EXCEPT !.drop_next = @ - 1] \in Devices
    <3>1. d.drop_next - 1 \in Nat
      BY <1>1, <1>2
    <3> QED
      BY <3>1, FieldUpdates
  <2> QED
    BY <2>1, <2>2 DEF HandledWell
<1>3. CASE d.drop_next = 0 /\ (~ f.sound \/ f.to # "me")
  <2>1. h = [dev |-> d, reply |-> Silence]
    BY <1>1, <1>3 DEF Slave!Handle, Silence
  <2> QED
    BY <2>1 DEF HandledWell
<1>4. CASE d.drop_next = 0 /\ f.sound /\ f.to = "me"
  <2>1. h = IF o.ok THEN [dev |-> o.dev, reply |-> Slave!Reply(f.fc, o.data)]
                    ELSE [dev |-> d, reply |-> Slave!Nak(f.fc, o.code)]
    BY <1>1, <1>4 DEF Slave!Handle
  <2>2. CASE ~ o.ok
    <3>1. h = [dev |-> d, reply |-> Slave!Nak(f.fc, o.code)]
      BY <2>1, <2>2
    <3> HIDE DEF h, o
    <3>2. h.dev = d /\ h.reply.fc = f.fc /\ h.reply.exception
      BY <3>1 DEF Slave!Nak
    <3> QED
      BY <1>4, <3>2 DEF HandledWell, h
  <2>3. CASE o.ok
    <3>1. o = Slave!Dispatch(d, f.fc, f.pdu)
      BY <2>3 DEF Slave!Err
    <3>2. /\ h.dev = o.dev /\ h.reply.fc = f.fc /\ h.reply.data = o.data
          /\ h.dev \in Devices
      BY <2>1, <2>3, <3>1, DispatchTyped DEF Slave!Reply, KeepsType
    <3>3. ~ (f.pdu.form = "short" /\ f.fc # 17)
      BY <2>3, <3>1, ShortIsRefused
    <3>4. f.pdu.a \in Nat /\ f.pdu.b \in Nat
      BY DEF Typed
    <3>5. ASSUME f.fc = 3
          PROVE  h.dev = d /\ Slave!RegsIn(Tail(h.reply.data), f.pdu.b) = Values(d.holding, f.pdu)
      <4>1. o = Slave!ReadRegs(d, f.pdu, d.holding)
        BY <3>1, <3>5 DEF Slave!Dispatch
      <4> HIDE DEF o, h
      <4>2. ReadsCells(d, f.pdu, d.holding, o)
        BY <1>1, <3>4, <4>1, ReadRegsReads
      <4> QED
        BY <2>3, <3>2, <4>2 DEF ReadsCells
    <3>6. ASSUME f.fc = 4
          PROVE  h.dev = d /\ Slave!RegsIn(Tail(h.reply.data), f.pdu.b) = Values(d.input, f.pdu)
      <4>1. o = Slave!ReadRegs(d, f.pdu, d.input)
        BY <3>1, <3>6 DEF Slave!Dispatch
      <4> HIDE DEF o, h
      <4>2. ReadsCells(d, f.pdu, d.input, o)
        BY <1>1, <3>4, <4>1, ReadRegsReads
      <4> QED
        BY <2>3, <3>2, <4>2 DEF ReadsCells
    <3>7. (f.fc = 3 => Slave!BankOf(f.fc) = "holding") /\ (f.fc = 4 => Slave!BankOf(f.fc) = "input")
      BY DEF Slave!BankOf
    <3> HIDE DEF o, h
    <3>8. f.fc \in {3, 4} => /\ h.dev = d
                             /\ Slave!RegsIn(Tail(h.reply.data), f.pdu.b)
                                  = Values(d[Slave!BankOf(f.fc)], f.pdu)
      BY <3>5, <3>6, <3>7
    <3>9. f.sound
      BY <1>4
    <3> QED
      BY <3>2, <3>3, <3>8, <3>9 DEF HandledWell, h
  <2> QED
    BY <2>2, <2>3
<1>5. d.drop_next > 0 \/ d.drop_next = 0
  BY <1>1
<1> QED
  BY <1>2, <1>3, <1>4, <1>5

-----------------------------------------------------------------------------
(* The request in flight *)

\* A piece that may be answered: a request, or the beginning of one.
Live(p) == p.part \in {"whole", "head"}

\* The rest of a request before the n-th.
Stale(p, n) == p.part = "tail" /\ p.id # n

\* A piece on the wire that may be answered.
HasLive == \E k \in 1 .. Len(Wire) : Live(Wire[k])

\* The pump is to write an answer.
Writes == pc \in {"write", "last write"}

\* An answer is under way.
Replied == Writes \/ back # <<>>

\* What may be answered is the one request the master is busy with, and at most
\* one rest of an older one is before it.
LiveInv ==
  /\ asked = Len(requests)
  /\ \A k \in 1 .. Len(Wire) : Live(Wire[k]) => Wire[k].id = asked /\ master # "idle"
  /\ \A j, k \in 1 .. Len(Wire) : Live(Wire[j]) /\ Live(Wire[k]) => j = k
  /\ \A k \in 1 .. Len(Wire) :
       Stale(Wire[k], asked) => \E j \in 1 .. Len(Wire) : k < j /\ Live(Wire[j])
  /\ \A j, k \in 1 .. Len(Wire) :
       Stale(Wire[j], asked) /\ Stale(Wire[k], asked) => j = k

\* An answer under way is the only one, to the request the master is busy with,
\* and nothing on the wire will be answered as well.
ReplyInv ==
  /\ Writes =>
       back = <<>> /\ reply.id = asked /\ Genuine(asked, reply.frame)
  /\ back # <<>> =>
       back = <<back[1]>> /\ back[1].id = asked /\ Genuine(asked, back[1].frame)
  /\ Replied => master # "idle" /\ ~ HasLive

\* The wire's front goes: what was behind it keeps its order.
LEMMA ShiftKeepsLive ==
  ASSUME BridgeType, LiveInv, NEW k \in 0 .. Len(Wire), Shift(k),
         UNCHANGED <<requests, asked>>,
         master' = "idle" => master = "idle" \/ ~ HasLive
  PROVE  LiveInv' /\ (HasLive' => HasLive)
<1>1. /\ Len(Wire) \in Nat /\ Len(Wire') \in Nat /\ k \in Nat /\ Len(Wire') = Len(Wire) - k
      /\ \A i \in 1 .. Len(Wire') : i + k \in 1 .. Len(Wire) /\ Wire'[i] = Wire[i + k]
  BY WireIsTyped DEF Shift
<1>2. asked' = Len(requests')
  BY DEF LiveInv
<1>3. ASSUME NEW i \in 1 .. Len(Wire'), Live(Wire'[i])
      PROVE  Live(Wire[i + k]) /\ HasLive /\ Wire'[i].id = asked' /\ master' # "idle"
  <2>1. i + k \in 1 .. Len(Wire) /\ Wire'[i] = Wire[i + k]
    BY <1>1
  <2>2. Live(Wire[i + k])
    BY <1>3, <2>1
  <2>3. HasLive
    BY <2>1, <2>2 DEF HasLive
  <2>4. Wire[i + k].id = asked /\ master # "idle"
    BY <2>1, <2>2 DEF LiveInv
  <2> QED
    BY <2>1, <2>2, <2>3, <2>4
<1>4. ASSUME NEW i \in 1 .. Len(Wire'), NEW j \in 1 .. Len(Wire'),
             Live(Wire'[i]), Live(Wire'[j])
      PROVE  i = j
  <2>1. i + k \in 1 .. Len(Wire) /\ j + k \in 1 .. Len(Wire)
    BY <1>1
  <2>2. i + k = j + k
    BY <1>3, <1>4, <2>1 DEF LiveInv
  <2> QED
    BY <1>1, <2>2
<1>5. ASSUME NEW i \in 1 .. Len(Wire'), Stale(Wire'[i], asked')
      PROVE  \E j \in 1 .. Len(Wire') : i < j /\ Live(Wire'[j])
  <2>1. i + k \in 1 .. Len(Wire) /\ Wire'[i] = Wire[i + k]
    BY <1>1
  <2>2. Stale(Wire[i + k], asked)
    BY <1>5, <2>1 DEF Stale
  <2>3. PICK m \in 1 .. Len(Wire) : i + k < m /\ Live(Wire[m])
    BY <2>1, <2>2 DEF LiveInv
  <2>4. m - k \in 1 .. Len(Wire') /\ i < m - k /\ (m - k) + k = m
    BY <1>1, <2>3
  <2>5. Wire'[m - k] = Wire[m]
    BY <1>1, <2>4
  <2> QED
    BY <2>3, <2>4, <2>5
<1>6. ASSUME NEW i \in 1 .. Len(Wire'), NEW j \in 1 .. Len(Wire'),
             Stale(Wire'[i], asked'), Stale(Wire'[j], asked')
      PROVE  i = j
  <2>1. /\ i + k \in 1 .. Len(Wire) /\ Wire'[i] = Wire[i + k]
        /\ j + k \in 1 .. Len(Wire) /\ Wire'[j] = Wire[j + k]
    BY <1>1
  <2>2. Stale(Wire[i + k], asked) /\ Stale(Wire[j + k], asked)
    BY <1>6, <2>1 DEF Stale
  <2>3. i + k = j + k
    BY <2>1, <2>2 DEF LiveInv
  <2> QED
    BY <1>1, <2>3
<1>7. HasLive' => HasLive
  BY <1>3 DEF HasLive, Live
<1>8. LiveInv'
  <2>1. \A i \in 1 .. Len(Wire') : Live(Wire'[i]) => Wire'[i].id = asked' /\ master' # "idle"
    BY <1>3
  <2>2. \A i, j \in 1 .. Len(Wire') : Live(Wire'[i]) /\ Live(Wire'[j]) => i = j
    BY <1>4
  <2>3. \A i \in 1 .. Len(Wire') :
          Stale(Wire'[i], asked') => \E j \in 1 .. Len(Wire') : i < j /\ Live(Wire'[j])
    BY <1>5
  <2>4. \A i, j \in 1 .. Len(Wire') :
          Stale(Wire'[i], asked') /\ Stale(Wire'[j], asked') => i = j
    BY <1>6
  <2> QED
    BY <1>2, <2>1, <2>2, <2>3, <2>4 DEF LiveInv, Live, Stale
<1> QED
  BY <1>7, <1>8

\* Noise, or the rest of the request in flight, is written behind it.
LEMMA GrowKeepsLive ==
  ASSUME BridgeType, LiveInv, NEW p, Grows(p), UNCHANGED <<requests, asked>>,
         master' = "idle" => master = "idle", ~ Live(p), ~ Stale(p, asked)
  PROVE  LiveInv' /\ (HasLive' => HasLive)
<1>1. /\ Len(Wire) \in Nat /\ Len(Wire') = Len(Wire) + 1 /\ Wire'[Len(Wire) + 1] = p
      /\ \A i \in 1 .. Len(Wire) : Wire'[i] = Wire[i] /\ i \in 1 .. Len(Wire')
  BY WireIsTyped DEF Grows
<1>2. ASSUME NEW i \in 1 .. Len(Wire'), Live(Wire'[i]) \/ Stale(Wire'[i], asked)
      PROVE  i \in 1 .. Len(Wire) /\ Wire'[i] = Wire[i]
  <2>1. i # Len(Wire) + 1
    BY <1>1, <1>2
  <2> QED
    BY <1>1, <2>1
<1>3. asked' = Len(requests')
  BY DEF LiveInv
<1>4. \A i \in 1 .. Len(Wire') : Live(Wire'[i]) => Wire'[i].id = asked' /\ master' # "idle"
  BY <1>2 DEF LiveInv
<1>5. \A i, j \in 1 .. Len(Wire') : Live(Wire'[i]) /\ Live(Wire'[j]) => i = j
  BY <1>2 DEF LiveInv
<1>6. ASSUME NEW i \in 1 .. Len(Wire'), Stale(Wire'[i], asked')
      PROVE  \E j \in 1 .. Len(Wire') : i < j /\ Live(Wire'[j])
  <2>1. i \in 1 .. Len(Wire) /\ Stale(Wire[i], asked)
    BY <1>2, <1>6
  <2>2. PICK j \in 1 .. Len(Wire) : i < j /\ Live(Wire[j])
    BY <2>1 DEF LiveInv
  <2> QED
    BY <1>1, <2>2
<1>7. \A i, j \in 1 .. Len(Wire') : Stale(Wire'[i], asked') /\ Stale(Wire'[j], asked') => i = j
  <2> SUFFICES ASSUME NEW i \in 1 .. Len(Wire'), NEW j \in 1 .. Len(Wire'),
                      Stale(Wire'[i], asked'), Stale(Wire'[j], asked')
               PROVE  i = j
    OBVIOUS
  <2>1. /\ i \in 1 .. Len(Wire) /\ Stale(Wire[i], asked)
        /\ j \in 1 .. Len(Wire) /\ Stale(Wire[j], asked)
    BY <1>2
  <2> QED
    BY <2>1 DEF LiveInv
<1>8. HasLive' => HasLive
  BY <1>2 DEF HasLive, Live
<1>9. LiveInv'
  <2>1. \A i \in 1 .. Len(Wire') :
          Stale(Wire'[i], asked') => \E j \in 1 .. Len(Wire') : i < j /\ Live(Wire'[j])
    BY <1>6
  <2> QED
    BY <1>3, <1>4, <1>5, <1>7, <2>1 DEF LiveInv, Live, Stale
<1> QED
  BY <1>8, <1>9

\* A request begins when nothing on the wire may be answered; the rest of the
\* one before is before it.
LEMMA BeginKeepsLive ==
  ASSUME BridgeType, WireInv, LiveInv, NEW p, Grows(p), ~ HasLive,
         asked' = Len(requests) + 1, Len(requests') = Len(requests) + 1,
         Live(p), p.id = asked', master' # "idle"
  PROVE  LiveInv'
<1>1. /\ Len(Wire) \in Nat /\ Len(Wire') = Len(Wire) + 1 /\ Wire'[Len(Wire) + 1] = p
      /\ \A i \in 1 .. Len(Wire) : Wire'[i] = Wire[i] /\ i \in 1 .. Len(Wire')
      /\ Len(Wire) + 1 \in 1 .. Len(Wire')
      /\ \A i \in 1 .. Len(Wire') : i \in 1 .. Len(Wire) \/ i = Len(Wire) + 1
  BY WireIsTyped DEF Grows
<1>2. \A i \in 1 .. Len(Wire) : ~ Live(Wire[i]) /\ ~ Stale(Wire[i], asked)
  BY DEF HasLive, LiveInv
<1>3. asked' = Len(requests')
  OBVIOUS
<1>4. \A i \in 1 .. Len(Wire') : Live(Wire'[i]) => i = Len(Wire) + 1
  <2> SUFFICES ASSUME NEW i \in 1 .. Len(Wire'), i # Len(Wire) + 1 PROVE ~ Live(Wire'[i])
    OBVIOUS
  <2>1. i \in 1 .. Len(Wire) /\ Wire'[i] = Wire[i]
    BY <1>1
  <2> QED
    BY <1>2, <2>1
<1>5. ~ Stale(p, asked')
  BY DEF Stale
<1>6. \A i \in 1 .. Len(Wire') :
        Stale(Wire'[i], asked') => i \in 1 .. Len(Wire) /\ Wire[i].part = "tail" /\ Wire[i].id = asked
  <2> SUFFICES ASSUME NEW i \in 1 .. Len(Wire'), Stale(Wire'[i], asked')
               PROVE  i \in 1 .. Len(Wire) /\ Wire[i].part = "tail" /\ Wire[i].id = asked
    OBVIOUS
  <2>1. i # Len(Wire) + 1
    BY <1>1, <1>5
  <2>2. i \in 1 .. Len(Wire) /\ Wire'[i] = Wire[i]
    BY <1>1, <2>1
  <2>3. ~ Stale(Wire[i], asked)
    BY <1>2, <2>2
  <2>4. Wire[i].part = "tail"
    BY <2>2 DEF Stale
  <2> QED
    BY <2>2, <2>3, <2>4 DEF Stale
<1>7. \A i \in 1 .. Len(Wire') : Live(Wire'[i]) => Wire'[i].id = asked' /\ master' # "idle"
  BY <1>1, <1>4
<1>8. \A i, j \in 1 .. Len(Wire') : Live(Wire'[i]) /\ Live(Wire'[j]) => i = j
  BY <1>4
<1>9. ASSUME NEW i \in 1 .. Len(Wire'), Stale(Wire'[i], asked')
      PROVE  \E j \in 1 .. Len(Wire') : i < j /\ Live(Wire'[j])
  <2>1. i < Len(Wire) + 1
    BY <1>1, <1>6, <1>9
  <2> QED
    BY <1>1, <2>1
<1>10. \A i, j \in 1 .. Len(Wire') : Stale(Wire'[i], asked') /\ Stale(Wire'[j], asked') => i = j
  <2> SUFFICES ASSUME NEW i \in 1 .. Len(Wire'), NEW j \in 1 .. Len(Wire'),
                      Stale(Wire'[i], asked'), Stale(Wire'[j], asked')
               PROVE  i = j
    OBVIOUS
  <2>1. /\ i \in 1 .. Len(Wire) /\ Completes(Wire[i]) /\ Wire[i].id = asked
        /\ j \in 1 .. Len(Wire) /\ Completes(Wire[j]) /\ Wire[j].id = asked
    BY <1>6 DEF Completes
  <2> QED
    BY <2>1 DEF WireInv
<1> QED
  <2>1. \A i \in 1 .. Len(Wire') :
          Stale(Wire'[i], asked') => \E j \in 1 .. Len(Wire') : i < j /\ Live(Wire'[j])
    BY <1>9
  <2> QED
    BY <1>3, <1>7, <1>8, <1>10, <2>1 DEF LiveInv, Live, Stale

-----------------------------------------------------------------------------
(* The time until the answer *)

\* Whether the unread pieces hold one that may be answered, the rest of an older
\* request, the rest of this one; as numbers.
LiveIn  == IF \E k \in 1 .. Len(sock) : Live(sock[k]) THEN 1 ELSE 0
StaleIn == IF \E k \in 1 .. Len(sock) : Stale(sock[k], asked) THEN 1 ELSE 0
RestIn  == IF \E k \in 1 .. Len(sock) : sock[k] = Piece(asked, "tail") THEN 1 ELSE 0

\* What is unread is noise, but for these.
SockInv ==
  /\ noise \in 0 .. MaxNoise
  /\ Len(sock) <= noise + LiveIn + StaleIn + RestIn

\* A pump that is late could run, and one that backs off has dropped its buffer.
LagInv ==
  /\ lag # 0 => Runnable
  /\ pc = "sleep" => buf = <<>>

\* The longest a piece of the wire keeps the pump: read, gap, end of the gap,
\* dispatch and write, each late; and n of them.
PerPiece == GAP + 4 * STALL
Cost(n) == n * PerPiece

\* The pieces unread, or of noise still to come.
Ahead == Len(sock) + MaxNoise - noise

\* What the pump still does with the piece at hand.
Left ==
  IF pc = "read" THEN IF sock # <<>> THEN 0 ELSE (GAP - wait) + 3 * STALL
  ELSE IF pc = "sleep" THEN (GAP - wait) + STALL
  ELSE IF pc = "dispatch" THEN 2 * STALL
  ELSE IF pc = "write" THEN STALL
  ELSE 0

\* The time within which a request is answered or lost.
Deadline == Cost(MaxNoise + 3) + GAP + 2 * STALL

\* The master waits for an answer that may still come.
Awaited == master = "waiting" /\ open /\ (pc = "write" \/ HasLive)

\* It comes before the deadline.
DeadlineInv == Awaited => age + Cost(Ahead) + Left - lag <= Deadline

\* More pieces take longer.
LEMMA CostGrows ==
  /\ \A n \in Nat : Cost(n) \in Nat
  /\ \A m, n \in Nat : m <= n => Cost(m) <= Cost(n)
  /\ \A m, n \in Nat : m < n => Cost(m) + PerPiece <= Cost(n)
  /\ PerPiece \in Nat /\ PerPiece = GAP + 4 * STALL
<1> DEFINE K == PerPiece
<1>1. K \in Nat /\ K = GAP + 4 * STALL
  BY BridgeAssumption DEF PerPiece
<1> HIDE DEF K
<1>2. \A n \in Nat : n * K \in Nat
  BY <1>1
<1>3. \A m, n \in Nat : m <= n => m * K <= n * K
  <2> SUFFICES ASSUME NEW m \in Nat, NEW n \in Nat, m <= n PROVE m * K <= n * K
    OBVIOUS
  <2>1. PICK d \in Nat : n = m + d
    <3>1. n - m \in Nat /\ n = m + (n - m)
      OBVIOUS
    <3> QED
      BY <3>1
  <2>2. n * K = m * K + d * K /\ d * K \in Nat /\ m * K \in Nat
    BY <1>1, <2>1
  <2> QED
    BY <2>2
<1>4. \A m, n \in Nat : m < n => m * K + K <= n * K
  <2> SUFFICES ASSUME NEW m \in Nat, NEW n \in Nat, m < n PROVE m * K + K <= n * K
    OBVIOUS
  <2>1. (m + 1) * K <= n * K
    BY <1>3
  <2>2. (m + 1) * K = m * K + K
    BY <1>1
  <2> QED
    BY <2>1, <2>2
<1> QED
  BY <1>1, <1>2, <1>3, <1>4 DEF K, Cost

\* The types of the times.
LEMMA TimesTyped ==
  ASSUME BridgeType, SockInv
  PROVE  /\ GAP \in Nat /\ STALL \in Nat /\ MaxNoise \in Nat
         /\ age \in Nat /\ lag \in Nat /\ lag <= STALL /\ wait \in Nat /\ wait <= GAP
         /\ Ahead \in Nat /\ Len(sock) \in Nat /\ noise \in Nat /\ noise <= MaxNoise
         /\ Left \in Nat /\ (sock # <<>> => Len(sock) > 0 /\ Ahead > 0)
<1>1. /\ GAP \in Nat /\ STALL \in Nat /\ MaxNoise \in Nat /\ TIMEOUT \in Nat
      /\ sock \in Seq(Pieces) /\ noise \in 0 .. MaxNoise
  BY BridgeAssumption, TimeoutAssumption DEF BridgeType, SockInv
<1>2. age \in 0 .. TIMEOUT /\ lag \in 0 .. STALL /\ wait \in 0 .. GAP
  BY DEF BridgeType, TypeOK
<1>3. age \in Nat /\ lag \in Nat /\ lag <= STALL /\ wait \in Nat /\ wait <= GAP
  BY <1>1, <1>2
<1>4. Len(sock) \in Nat /\ noise \in Nat /\ noise <= MaxNoise
  BY <1>1
<1>5. Ahead \in Nat
  BY <1>1, <1>4 DEF Ahead
<1>6. Left \in Nat
  <2>1. GAP - wait \in Nat
    BY <1>1, <1>3
  <2>2. (GAP - wait) + 3 * STALL \in Nat /\ 2 * STALL \in Nat /\ (GAP - wait) + STALL \in Nat
    BY <1>1, <2>1
  <2> QED
    BY <1>1, <2>2 DEF Left
<1>7. sock # <<>> => Len(sock) > 0 /\ Ahead > 0
  BY <1>1, <1>4 DEF Ahead
<1> QED
  BY <1>1, <1>3, <1>4, <1>5, <1>6, <1>7

\* The wire behind the buffer.
LEMMA SockOnWire ==
  ASSUME BridgeType, NEW k \in 1 .. Len(sock)
  PROVE  /\ Len(buf) \in Nat /\ Len(buf) + k \in 1 .. Len(Wire)
         /\ Wire[Len(buf) + k] = sock[k]
<1>1. buf \in Seq(Pieces) /\ sock \in Seq(Pieces)
  BY DEF BridgeType
<1>2. Len(Wire) = Len(buf) + Len(sock) /\ Len(buf) \in Nat /\ Len(sock) \in Nat
  BY <1>1, WireType DEF Wire
<1>3. Wire[Len(buf) + k] = sock[k]
  BY <1>1, WireType DEF Wire
<1> QED
  BY <1>2, <1>3

\* Three indicators, of which n >= 1 steps lower at most n.
LEMMA ThreeFalls ==
  ASSUME NEW a \in {0, 1}, NEW a1 \in {0, 1}, NEW b \in {0, 1}, NEW b1 \in {0, 1},
         NEW c \in {0, 1}, NEW c1 \in {0, 1}, NEW n \in Nat, n >= 1,
         NEW l \in Nat, NEW m \in Nat, l <= m + a + b + c,
         n = 1 => /\ ~ (a = 1 /\ a1 = 0 /\ b = 1 /\ b1 = 0)
                  /\ ~ (a = 1 /\ a1 = 0 /\ c = 1 /\ c1 = 0)
                  /\ ~ (b = 1 /\ b1 = 0 /\ c = 1 /\ c1 = 0),
         n = 2 => ~ (a = 1 /\ a1 = 0 /\ b = 1 /\ b1 = 0 /\ c = 1 /\ c1 = 0)
  PROVE  l - n <= m + a1 + b1 + c1
<1>1. CASE n = 1
  BY <1>1
<1>2. CASE n = 2
  BY <1>2
<1>3. CASE n >= 3
  BY <1>3
<1> QED
  BY <1>1, <1>2, <1>3

\* Reading n pieces takes at most n of these off.
LEMMA ReadKeepsSock ==
  ASSUME BridgeType, WireInv, LiveInv, SockInv, NEW n \in 1 .. Len(sock),
         sock' = SubSeq(sock, n + 1, Len(sock)), UNCHANGED <<asked, noise>>
  PROVE  SockInv' /\ Ahead' = Ahead - n
<1>1. sock \in Seq(Pieces) /\ Len(sock) \in Nat /\ noise \in Nat /\ n \in Nat
  BY BridgeAssumption DEF BridgeType, SockInv
<1>2. /\ Len(sock') = Len(sock) - n /\ Len(sock') \in Nat
      /\ \A i \in 1 .. Len(sock') : sock'[i] = sock[i + n]
  BY <1>1
<1>3. \A k \in 1 .. Len(sock) : k > n => k - n \in 1 .. Len(sock') /\ sock'[k - n] = sock[k]
  <2> SUFFICES ASSUME NEW k \in 1 .. Len(sock), k > n
               PROVE  k - n \in 1 .. Len(sock') /\ sock'[k - n] = sock[k]
    OBVIOUS
  <2>1. k - n \in 1 .. Len(sock') /\ (k - n) + n = k
    BY <1>1, <1>2
  <2> QED
    BY <1>2, <2>1
<1>4. /\ LiveIn \in {0, 1} /\ LiveIn' \in {0, 1} /\ StaleIn \in {0, 1} /\ StaleIn' \in {0, 1}
      /\ RestIn \in {0, 1} /\ RestIn' \in {0, 1}
  BY DEF LiveIn, StaleIn, RestIn
<1>5. ASSUME LiveIn = 1, LiveIn' = 0 PROVE \E k \in 1 .. n : Live(sock[k])
  <2>1. PICK k \in 1 .. Len(sock) : Live(sock[k])
    BY <1>5 DEF LiveIn
  <2>2. \A i \in 1 .. Len(sock') : ~ Live(sock'[i])
    BY <1>5 DEF LiveIn, Live
  <2>3. ~ (k > n)
    BY <1>3, <2>1, <2>2
  <2>4. k \in 1 .. n
    BY <1>1, <2>3
  <2> QED
    BY <2>1, <2>4
<1>6. ASSUME StaleIn = 1, StaleIn' = 0 PROVE \E k \in 1 .. n : Stale(sock[k], asked)
  <2>1. PICK k \in 1 .. Len(sock) : Stale(sock[k], asked)
    BY <1>6 DEF StaleIn
  <2>2. \A i \in 1 .. Len(sock') : ~ Stale(sock'[i], asked)
    BY <1>6 DEF StaleIn, Stale
  <2>3. ~ (k > n)
    BY <1>3, <2>1, <2>2
  <2>4. k \in 1 .. n
    BY <1>1, <2>3
  <2> QED
    BY <2>1, <2>4
<1>7. ASSUME RestIn = 1, RestIn' = 0 PROVE \E k \in 1 .. n : sock[k] = Piece(asked, "tail")
  <2>1. PICK k \in 1 .. Len(sock) : sock[k] = Piece(asked, "tail")
    BY <1>7 DEF RestIn
  <2>2. \A i \in 1 .. Len(sock') : sock'[i] # Piece(asked, "tail")
    BY <1>7 DEF RestIn, Piece
  <2>3. ~ (k > n)
    BY <1>3, <2>1, <2>2
  <2>4. k \in 1 .. n
    BY <1>1, <2>3
  <2> QED
    BY <2>1, <2>4
<1>8. \A k : /\ ~ (Live(sock[k]) /\ Stale(sock[k], asked))
             /\ ~ (Live(sock[k]) /\ sock[k] = Piece(asked, "tail"))
             /\ ~ (Stale(sock[k], asked) /\ sock[k] = Piece(asked, "tail"))
  BY DEF Live, Stale, Piece
<1>9. ASSUME NEW k \in 1 .. n, 1 .. n = {k}
      PROVE  /\ ~ (LiveIn = 1 /\ LiveIn' = 0 /\ StaleIn = 1 /\ StaleIn' = 0)
             /\ ~ (LiveIn = 1 /\ LiveIn' = 0 /\ RestIn = 1 /\ RestIn' = 0)
             /\ ~ (StaleIn = 1 /\ StaleIn' = 0 /\ RestIn = 1 /\ RestIn' = 0)
  BY <1>5, <1>6, <1>7, <1>8, <1>9
<1>10. Len(sock') <= noise' + LiveIn' + StaleIn' + RestIn'
  <2>1. Len(sock) <= noise + LiveIn + StaleIn + RestIn
    BY DEF SockInv
  <2>2. n = 1 => 1 \in 1 .. n /\ 1 .. n = {1}
    OBVIOUS
  <2>3. n = 2 => ~ (/\ LiveIn = 1 /\ LiveIn' = 0 /\ StaleIn = 1 /\ StaleIn' = 0
                    /\ RestIn = 1 /\ RestIn' = 0)
    <3> SUFFICES ASSUME n = 2, LiveIn = 1, LiveIn' = 0, StaleIn = 1, StaleIn' = 0,
                        RestIn = 1, RestIn' = 0
                 PROVE  FALSE
      OBVIOUS
    <3>1. PICK i \in 1 .. n : Live(sock[i])
      BY <1>5
    <3>2. PICK j \in 1 .. n : Stale(sock[j], asked)
      BY <1>6
    <3>3. PICK k \in 1 .. n : sock[k] = Piece(asked, "tail")
      BY <1>7
    <3>4. i # j /\ i # k /\ j # k
      BY <1>8, <3>1, <3>2, <3>3
    <3> QED
      BY <3>4
  <2>4. n = 1 =>
          /\ ~ (LiveIn = 1 /\ LiveIn' = 0 /\ StaleIn = 1 /\ StaleIn' = 0)
          /\ ~ (LiveIn = 1 /\ LiveIn' = 0 /\ RestIn = 1 /\ RestIn' = 0)
          /\ ~ (StaleIn = 1 /\ StaleIn' = 0 /\ RestIn = 1 /\ RestIn' = 0)
    BY <1>9, <2>2
  <2> DEFINE a == LiveIn  b == StaleIn  c == RestIn
             a1 == LiveIn'  b1 == StaleIn'  c1 == RestIn'
             l == Len(sock)  l1 == Len(sock')
  <2>5. a \in {0, 1} /\ a1 \in {0, 1} /\ b \in {0, 1} /\ b1 \in {0, 1}
    BY <1>4
  <2>6. c \in {0, 1} /\ c1 \in {0, 1} /\ l \in Nat /\ l1 = l - n
    BY <1>1, <1>2, <1>4
  <2>7. l <= noise + a + b + c
    BY <2>1
  <2>8. n = 1 => /\ ~ (a = 1 /\ a1 = 0 /\ b = 1 /\ b1 = 0)
                 /\ ~ (a = 1 /\ a1 = 0 /\ c = 1 /\ c1 = 0)
                 /\ ~ (b = 1 /\ b1 = 0 /\ c = 1 /\ c1 = 0)
    BY <2>4
  <2>9. n = 2 => ~ (a = 1 /\ a1 = 0 /\ b = 1 /\ b1 = 0 /\ c = 1 /\ c1 = 0)
    BY <2>3
  <2> HIDE DEF a, b, c, a1, b1, c1, l, l1
  <2>10. l1 <= noise + a1 + b1 + c1
    BY <1>1, <2>5, <2>6, <2>7, <2>8, <2>9, ThreeFalls
  <2> QED
    BY <2>10 DEF a1, b1, c1, l1
<1>11. Ahead' = Ahead - n
  BY <1>1, <1>2, BridgeAssumption DEF Ahead
<1> QED
  BY <1>10, <1>11 DEF SockInv

-----------------------------------------------------------------------------
(* The wire in flight, step by step *)

\* A piece written is behind the unread ones.
LEMMA SockGrows ==
  ASSUME BridgeType, NEW p \in Pieces, sock' = Append(sock, p)
  PROVE  /\ Len(sock) \in Nat /\ Len(sock') = Len(sock) + 1 /\ sock' # <<>>
         /\ \A k \in 1 .. Len(sock) : k \in 1 .. Len(sock') /\ sock'[k] = sock[k]
         /\ Len(sock) + 1 \in 1 .. Len(sock') /\ sock'[Len(sock) + 1] = p
<1>1. sock \in Seq(Pieces)
  BY DEF BridgeType
<1>2. /\ Len(sock) \in Nat /\ Len(sock') = Len(sock) + 1
      /\ \A k \in 1 .. Len(sock) : sock'[k] = sock[k]
      /\ sock'[Len(sock) + 1] = p
  BY <1>1
<1>3. sock' # <<>>
  BY <1>1
<1>4. /\ \A k \in 1 .. Len(sock) : k \in 1 .. Len(sock')
      /\ Len(sock) + 1 \in 1 .. Len(sock')
  BY <1>2
<1> QED
  BY <1>2, <1>3, <1>4

\* What the indicators are.
LEMMA Indicators ==
  /\ LiveIn \in {0, 1} /\ LiveIn' \in {0, 1} /\ StaleIn \in {0, 1} /\ StaleIn' \in {0, 1}
  /\ RestIn \in {0, 1} /\ RestIn' \in {0, 1}
BY DEF LiveIn, StaleIn, RestIn

\* The indicators of a growing socket.
LEMMA IndicatorsGrow ==
  ASSUME BridgeType, NEW p \in Pieces, sock' = Append(sock, p), asked' = asked
  PROVE  LiveIn <= LiveIn' /\ StaleIn <= StaleIn' /\ RestIn <= RestIn'
<1>1. \A k \in 1 .. Len(sock) : k \in 1 .. Len(sock') /\ sock'[k] = sock[k]
  BY SockGrows
<1>2. LiveIn = 1 => LiveIn' = 1
  <2> SUFFICES ASSUME LiveIn = 1 PROVE LiveIn' = 1
    OBVIOUS
  <2>1. PICK k \in 1 .. Len(sock) : Live(sock[k])
    BY DEF LiveIn
  <2>2. k \in 1 .. Len(sock') /\ Live(sock'[k])
    BY <1>1, <2>1
  <2> QED
    BY <2>2 DEF LiveIn, Live
<1>3. StaleIn = 1 => StaleIn' = 1
  <2> SUFFICES ASSUME StaleIn = 1 PROVE StaleIn' = 1
    OBVIOUS
  <2>1. PICK k \in 1 .. Len(sock) : Stale(sock[k], asked)
    BY DEF StaleIn
  <2>2. k \in 1 .. Len(sock') /\ Stale(sock'[k], asked')
    BY <1>1, <2>1
  <2> QED
    BY <2>2 DEF StaleIn, Stale
<1>4. RestIn = 1 => RestIn' = 1
  <2> SUFFICES ASSUME RestIn = 1 PROVE RestIn' = 1
    OBVIOUS
  <2>1. PICK k \in 1 .. Len(sock) : sock[k] = Piece(asked, "tail")
    BY DEF RestIn
  <2>2. k \in 1 .. Len(sock') /\ sock'[k] = Piece(asked', "tail")
    BY <1>1, <2>1
  <2> QED
    BY <2>2 DEF RestIn, Piece
<1> QED
  BY <1>2, <1>3, <1>4, Indicators

\* Noise is counted.
LEMMA NoiseKeepsSock ==
  ASSUME BridgeType, SockInv, LineNoise
  PROVE  SockInv' /\ Ahead' = Ahead
<1>1. /\ noise' = noise + 1 /\ noise < MaxNoise /\ sock' = Append(sock, Noise)
      /\ asked' = asked
  BY DEF LineNoise
<1>2. Noise \in Pieces
  BY Bounds DEF Noise, Pieces
<1>3. Len(sock) \in Nat /\ Len(sock') = Len(sock) + 1
  BY <1>1, <1>2, SockGrows
<1>4. LiveIn <= LiveIn' /\ StaleIn <= StaleIn' /\ RestIn <= RestIn'
  BY <1>1, <1>2, IndicatorsGrow
<1>5. noise \in 0 .. MaxNoise /\ MaxNoise \in Nat
  BY BridgeAssumption DEF SockInv
<1>6. noise' \in 0 .. MaxNoise
  BY <1>1, <1>5
<1>7. Len(sock) <= noise + LiveIn + StaleIn + RestIn
  BY DEF SockInv
<1>8. Len(sock') <= noise' + LiveIn' + StaleIn' + RestIn'
  BY <1>1, <1>3, <1>4, <1>5, <1>7, Indicators
<1>9. Ahead' = Ahead
  BY <1>1, <1>3, <1>5 DEF Ahead
<1> QED
  BY <1>6, <1>8, <1>9 DEF SockInv

\* The rest of a request is written once.
LEMMA TailKeepsSock ==
  ASSUME BridgeType, WireInv, SockInv, SendTail
  PROVE  SockInv' /\ sock' # <<>>
<1> DEFINE p == Piece(asked, "tail")
<1>1. sock' = Append(sock, p) /\ UNCHANGED <<asked, noise, buf, requests>> /\ master = "sending"
  BY DEF SendTail
<1>2. asked \in 0 .. MaxRequests
  BY DEF BridgeType, TypeOK
<1>3. p \in Pieces
  BY <1>2 DEF Piece, Pieces
<1>4. /\ Len(sock) \in Nat /\ Len(sock') = Len(sock) + 1 /\ sock' # <<>>
      /\ Len(sock) + 1 \in 1 .. Len(sock') /\ sock'[Len(sock) + 1] = p
  BY <1>1, <1>3, SockGrows
<1>5. LiveIn <= LiveIn' /\ StaleIn <= StaleIn'
  BY <1>1, <1>3, IndicatorsGrow
<1>6. RestIn' = 1
  <2>1. \E k \in 1 .. Len(sock') : sock'[k] = Piece(asked', "tail")
    BY <1>1, <1>4
  <2> QED
    BY <2>1 DEF RestIn, Piece
<1>7. RestIn = 0
  <2>1. \A k \in 1 .. Len(sock) : sock[k] # Piece(asked, "tail")
    <3> SUFFICES ASSUME NEW k \in 1 .. Len(sock), sock[k] = Piece(asked, "tail")
                 PROVE  FALSE
      OBVIOUS
    <3>1. Len(buf) + k \in 1 .. Len(Wire) /\ Wire[Len(buf) + k] = sock[k]
      BY SockOnWire
    <3>2. Completes(Wire[Len(buf) + k]) /\ Wire[Len(buf) + k].id = asked
      BY <3>1 DEF Completes, Piece
    <3> QED
      BY <1>1, <3>1, <3>2 DEF WireInv
  <2> QED
    BY <2>1 DEF RestIn
<1>8. noise \in 0 .. MaxNoise /\ noise \in Nat /\ Len(sock) <= noise + LiveIn + StaleIn + RestIn
  BY BridgeAssumption DEF SockInv
<1>9. Len(sock') <= noise' + LiveIn' + StaleIn' + RestIn'
  BY <1>1, <1>4, <1>5, <1>6, <1>7, <1>8, Indicators
<1> QED
  BY <1>1, <1>4, <1>8, <1>9 DEF SockInv

\* A request begins: the rest of the one before is now an older one's.
LEMMA BeginKeepsSock ==
  ASSUME BridgeType, WireInv, LiveInv, SockInv, ~ HasLive, NEW p \in Pieces,
         sock' = Append(sock, p), Live(p), noise' = noise, asked' = Len(requests) + 1
  PROVE  SockInv' /\ sock' # <<>>
<1>1. /\ Len(sock) \in Nat /\ Len(sock') = Len(sock) + 1 /\ sock' # <<>>
      /\ Len(sock) + 1 \in 1 .. Len(sock') /\ sock'[Len(sock) + 1] = p
      /\ \A k \in 1 .. Len(sock) : k \in 1 .. Len(sock') /\ sock'[k] = sock[k]
  BY SockGrows
<1>2. LiveIn' = 1
  <2>1. \E k \in 1 .. Len(sock') : Live(sock'[k])
    BY <1>1
  <2> QED
    BY <2>1 DEF LiveIn, Live
<1>3. \A k \in 1 .. Len(Wire) : ~ Live(Wire[k]) /\ ~ Stale(Wire[k], asked)
  BY DEF HasLive, LiveInv
<1>4. LiveIn = 0 /\ StaleIn = 0
  <2>1. \A k \in 1 .. Len(sock) : ~ Live(sock[k]) /\ ~ Stale(sock[k], asked)
    BY <1>3, SockOnWire
  <2> QED
    BY <2>1 DEF LiveIn, StaleIn
<1>5. asked' # asked
  <2>1. asked = Len(requests) /\ Len(requests) \in Nat
    BY DEF BridgeType, LiveInv
  <2> QED
    BY <2>1
<1>6. RestIn = 1 => StaleIn' = 1
  <2> SUFFICES ASSUME RestIn = 1 PROVE StaleIn' = 1
    OBVIOUS
  <2>1. PICK k \in 1 .. Len(sock) : sock[k] = Piece(asked, "tail")
    BY DEF RestIn
  <2>2. k \in 1 .. Len(sock') /\ sock'[k].part = "tail" /\ sock'[k].id = asked
    BY <1>1, <2>1 DEF Piece
  <2>3. Stale(sock'[k], asked')
    BY <1>5, <2>2 DEF Stale
  <2>4. \E i \in 1 .. Len(sock') : Stale(sock'[i], asked')
    BY <2>2, <2>3
  <2> QED
    BY <2>4 DEF StaleIn, Stale
<1>7. noise \in 0 .. MaxNoise /\ noise \in Nat /\ Len(sock) <= noise + LiveIn + StaleIn + RestIn
  BY BridgeAssumption DEF SockInv
<1>8. Len(sock') <= noise' + LiveIn' + StaleIn' + RestIn'
  <2>1. RestIn <= StaleIn'
    BY <1>6, Indicators
  <2> QED
    BY <1>1, <1>2, <1>4, <1>7, <2>1, Indicators
<1> QED
  BY <1>1, <1>7, <1>8 DEF SockInv

\* A pump that was runnable still is, when more is written or the VM goes.
LEMMA LagStays ==
  ASSUME LagInv, UNCHANGED <<pc, buf, wait, lag>>, sock # <<>> => sock' # <<>>,
         open' => open
  PROVE  LagInv'
BY DEF LagInv, Runnable

\* What is left of a gap.
LEMMA RestOfGap ==
  ASSUME NEW g \in Nat, NEW w \in Nat, w <= g
  PROVE  g - w \in Nat /\ g - w <= g
OBVIOUS

\* Being late leaves less.
LEMMA LateIsLess ==
  ASSUME NEW c \in Nat, NEW f \in Nat, NEW l \in Nat, NEW d \in Nat, NEW e \in Nat,
         c <= d, f <= e
  PROVE  0 + c + f - l <= d + e
OBVIOUS

\* Three indicators.
LEMMA ThreeAtMost ==
  ASSUME NEW l \in Nat, NEW m \in Nat, NEW a \in Int, NEW b \in Int, NEW c \in Int,
         a <= 1, b <= 1, c <= 1, l <= m + a + b + c
  PROVE  l <= m + 3
OBVIOUS

\* A request just written is answered or lost before the deadline.
LEMMA FreshDeadline ==
  ASSUME BridgeType', SockInv', sock' # <<>>, age' = 0
  PROVE  DeadlineInv'
<1>1. /\ GAP \in Nat /\ STALL \in Nat /\ MaxNoise \in Nat
      /\ wait' \in 0 .. GAP /\ lag' \in 0 .. STALL /\ noise' \in 0 .. MaxNoise
      /\ sock' \in Seq(Pieces)
  BY BridgeAssumption DEF BridgeType, TypeOK, SockInv
<1>2. Len(sock') \in Nat /\ wait' \in Nat /\ wait' <= GAP /\ lag' \in Nat /\ noise' \in Nat
      /\ noise' <= MaxNoise
  BY <1>1
<1>0. GAP \in Nat /\ STALL \in Nat /\ MaxNoise \in Nat
  BY <1>1
<1>a. wait' \in Nat /\ wait' <= GAP /\ lag' \in Nat
  BY <1>2
<1>3. Ahead' \in Nat /\ Ahead' <= MaxNoise + 3
  <2>1. Len(sock') <= noise' + LiveIn' + StaleIn' + RestIn'
    BY DEF SockInv
  <2>a. /\ LiveIn' \in Int /\ LiveIn' <= 1 /\ StaleIn' \in Int /\ StaleIn' <= 1
        /\ RestIn' \in Int /\ RestIn' <= 1
    BY Indicators
  <2>b. Len(sock') \in Nat /\ noise' \in Nat
    BY <1>2
  <2>2. Len(sock') <= noise' + 3
    BY <2>a, <2>b, <2>1, ThreeAtMost
  <2> QED
    BY <1>1, <1>2, <2>2 DEF Ahead
<1>4. Left' \in Nat /\ Left' <= GAP + 2 * STALL
  <2> DEFINE w == GAP - wait'
  <2>1. w \in Nat /\ w <= GAP
    BY <1>0, <1>a, RestOfGap
  <2>2. w + STALL \in Nat /\ w + STALL <= GAP + 2 * STALL
    BY <1>0, <2>1
  <2>3. /\ 0 \in Nat /\ 2 * STALL \in Nat /\ 2 * STALL <= GAP + 2 * STALL
        /\ STALL <= GAP + 2 * STALL /\ 0 <= GAP + 2 * STALL
    BY <1>0
  <2>4. Left' \in {0, w + STALL, 2 * STALL, STALL}
    BY DEF Left
  <2> HIDE DEF w
  <2> QED
    BY <1>0, <2>2, <2>3, <2>4
<1>5. Cost(Ahead') \in Nat /\ Cost(Ahead') <= Cost(MaxNoise + 3) /\ Cost(MaxNoise + 3) \in Nat
  <2>1. MaxNoise + 3 \in Nat
    BY <1>1
  <2> QED
    BY <1>3, <2>1, CostGrows
<1>6. age' + Cost(Ahead') + Left' - lag' <= Deadline
  <2> DEFINE c == Cost(Ahead')
             d == Cost(MaxNoise + 3)
             f == Left'
  <2>1. c \in Nat /\ d \in Nat /\ c <= d /\ f \in Nat /\ f <= GAP + 2 * STALL
    BY <1>4, <1>5
  <2> HIDE DEF c, d, f
  <2>2. GAP + 2 * STALL \in Nat /\ d + GAP + 2 * STALL = d + (GAP + 2 * STALL)
    BY <1>0, <2>1
  <2>3. 0 + c + f - lag' <= d + (GAP + 2 * STALL)
    BY <1>a, <2>1, <2>2, LateIsLess
  <2> QED
    BY <2>2, <2>3 DEF c, d, f, Deadline
<1>7. Cost(Ahead)' = Cost(Ahead')
  BY DEF Cost, PerPiece
<1> QED
  BY <1>6 DEF DeadlineInv, Deadline, Cost, PerPiece

-----------------------------------------------------------------------------
(* The deadline, step by step *)

\* The times are numbers.
Times ==
  /\ age \in Nat /\ lag \in Nat /\ lag <= STALL /\ wait \in Nat /\ wait <= GAP
  /\ Ahead \in Nat /\ Cost(Ahead) \in Nat /\ Left \in Nat

\* They are, in every state the types and the socket's invariant allow ...
LEMMA TimesHold == BridgeType /\ SockInv => Times
BY TimesTyped, CostGrows DEF Times

\* ... and after a step to such a state.
LEMMA TimesHoldNext == BridgeType' /\ SockInv' => Times'
BY TimesHold, PTL

\* A bound on a sum that does not grow.
LEMMA SumStays ==
  ASSUME NEW a \in Nat, NEW c \in Nat, NEW f \in Nat, NEW l \in Nat,
         NEW a1 \in Nat, NEW c1 \in Nat, NEW f1 \in Nat, NEW l1 \in Nat, NEW D \in Nat,
         a + c + f - l <= D, a1 + c1 + f1 + l <= a + c + f + l1
  PROVE  a1 + c1 + f1 - l1 <= D
OBVIOUS

\* A step that brings no answer nearer its deadline.
LEMMA DueStep ==
  ASSUME BridgeType, BridgeType', SockInv, SockInv', DeadlineInv,
         Awaited' => Awaited /\ age' + Cost(Ahead)' + Left' + lag <= age + Cost(Ahead) + Left + lag'
  PROVE  DeadlineInv'
<1> DEFINE a == age  c == Cost(Ahead)  f == Left  l == lag
           a1 == age'  c1 == Cost(Ahead)'  f1 == Left'  l1 == lag'
<1>1. /\ a \in Nat /\ c \in Nat /\ f \in Nat /\ l \in Nat
  BY TimesHold DEF Times
<1>2. a1 \in Nat /\ c1 \in Nat /\ f1 \in Nat /\ l1 \in Nat
  BY TimesHoldNext DEF Times
<1>3. Deadline \in Nat
  <2>1. GAP \in Nat /\ STALL \in Nat /\ MaxNoise + 3 \in Nat
    BY BridgeAssumption
  <2>2. Cost(MaxNoise + 3) \in Nat
    BY <2>1, CostGrows
  <2> HIDE DEF a, c, f, l, a1, c1, f1, l1
  <2> QED
    BY <2>1, <2>2 DEF Deadline
<1>4. Awaited' => a + c + f - l <= Deadline /\ a1 + c1 + f1 + l <= a + c + f + l1
  BY DEF DeadlineInv
<1>5. (a1 + c1 + f1 - l1 <= Deadline) => (age + Cost(Ahead) + Left - lag <= Deadline)'
  BY DEF Deadline, Cost, PerPiece
<1> HIDE DEF a, c, f, l, a1, c1, f1, l1
<1>6. Awaited' => a1 + c1 + f1 - l1 <= Deadline
  BY <1>1, <1>2, <1>3, <1>4, SumStays
<1> QED
  BY <1>5, <1>6 DEF DeadlineInv

\* What is known of the request in flight.
FlightInv == LiveInv /\ SockInv /\ LagInv /\ DeadlineInv

\* A piece taken off pays for the gap behind it.
LEMMA ReadPays ==
  ASSUME NEW a \in Nat, NEW c \in Nat, NEW c1 \in Nat, NEW f1 \in Nat, NEW l \in Nat,
         NEW G \in Nat, NEW S \in Nat, NEW K \in Nat, K = G + 4 * S,
         c1 + K <= c, f1 <= G + 3 * S, l <= S
  PROVE  a + c1 + f1 + l <= a + c + 0 + 0
OBVIOUS

\* The cost of what is ahead, after the step.
LEMMA CostNext == Cost(Ahead)' = Cost(Ahead')
BY DEF Cost, PerPiece

\* A read.
LEMMA ReadFlight ==
  ASSUME BridgeInv, BridgeInv', FlightInv, ReadBytes
  PROVE  FlightInv' /\ (HasLive' => HasLive)
<1>1. PICK n \in 1 .. Len(sock) :
        LET got == buf \o SubSeq(sock, 1, n) IN
        /\ sock' = SubSeq(sock, n + 1, Len(sock))
        /\ IF Len(got) > MAX_PENDING
           THEN buf' = <<>> /\ pc' = "sleep" /\ met' = Newest(got)
           ELSE buf' = got /\ UNCHANGED <<pc, met>>
  BY DEF ReadBytes
<1>2. /\ buf \in Seq(Pieces) /\ sock \in Seq(Pieces)
      /\ n \in 0 .. Len(sock) /\ n \in Nat /\ Len(buf) \in Nat
  BY DEF BridgeInv, BridgeType
<1>3. /\ pc = "read" /\ sock # <<>> /\ lag' = 0 /\ wait' = 0
      /\ UNCHANGED <<open, master, asked, requests, age, noise>>
  BY DEF ReadBytes, Ran, mastervars
<1>4. /\ sock' = SubSeq(sock, n + 1, Len(sock))
      /\ \/ buf' = <<>> /\ pc' = "sleep"
         \/ buf' = buf \o SubSeq(sock, 1, n) /\ pc' = "read"
  BY <1>1, <1>3
<1>5. LiveInv' /\ (HasLive' => HasLive)
  <2>1. CASE buf' = <<>> /\ pc' = "sleep"
    <3>1. Shift(Len(buf) + n)
      BY <1>2, <1>4, <2>1, ClearShifts
    <3>2. Len(buf) + n \in 0 .. Len(Wire)
      BY <1>2, WireIsTyped DEF BridgeInv
    <3> QED
      BY <1>3, <3>1, <3>2, ShiftKeepsLive DEF BridgeInv, FlightInv
  <2>2. CASE buf' = buf \o SubSeq(sock, 1, n)
    <3>1. Shift(0)
      BY <1>2, <1>4, <2>2, ReadKeepsWire
    <3>2. 0 \in 0 .. Len(Wire)
      BY WireIsTyped DEF BridgeInv
    <3> QED
      BY <1>3, <3>1, <3>2, ShiftKeepsLive DEF BridgeInv, FlightInv
  <2> QED
    BY <1>4, <2>1, <2>2
<1>6. SockInv' /\ Ahead' = Ahead - n
  BY <1>3, <1>4, ReadKeepsSock DEF BridgeInv, FlightInv
<1>7. LagInv'
  BY <1>3, <1>4 DEF LagInv
<1>8. Awaited' => Awaited
  BY <1>3, <1>4, <1>5 DEF Awaited
<1>9. Times /\ Times'
  BY <1>6, TimesHold, TimesHoldNext DEF BridgeInv, FlightInv
<1>10. GAP \in Nat /\ STALL \in Nat
  BY BridgeAssumption
<1>11. Left = 0 /\ Left' <= GAP + 3 * STALL
  <2>1. Left = 0
    BY <1>3 DEF Left
  <2>2. GAP - 0 = GAP
    BY <1>10
  <2>3. Left' \in {0, GAP + 3 * STALL, GAP + STALL}
    BY <1>3, <1>4, <2>2 DEF Left
  <2>4. 0 <= GAP + 3 * STALL /\ GAP + STALL <= GAP + 3 * STALL /\ GAP + 3 * STALL <= GAP + 3 * STALL
    BY <1>10
  <2> QED
    BY <2>1, <2>3, <2>4
<1>12. Cost(Ahead)' + PerPiece <= Cost(Ahead) /\ PerPiece \in Nat /\ PerPiece = GAP + 4 * STALL
  <2>1. Ahead \in Nat /\ Ahead' \in Nat
    BY <1>9 DEF Times
  <2>2. Ahead' < Ahead
    BY <1>6, <2>1
  <2> QED
    BY <2>1, <2>2, CostNext, CostGrows
<1>13. age' + Cost(Ahead)' + Left' + lag <= age + Cost(Ahead) + Left + lag'
  <2> DEFINE a == age  c == Cost(Ahead)  c1 == Cost(Ahead)'  f1 == Left'  l == lag
             K == PerPiece
  <2>1. a \in Nat /\ c \in Nat /\ c1 \in Nat /\ f1 \in Nat /\ l \in Nat /\ l <= STALL
    BY <1>9 DEF Times
  <2>2. c1 + K <= c /\ K \in Nat /\ K = GAP + 4 * STALL /\ f1 <= GAP + 3 * STALL
    BY <1>11, <1>12
  <2>3. (a + c1 + f1 + l <= a + c + 0 + 0) =>
          (age' + Cost(Ahead)' + Left' + lag <= age + Cost(Ahead) + Left + lag')
    BY <1>3, <1>11
  <2> HIDE DEF a, c, c1, f1, l, K
  <2>4. a + c1 + f1 + l <= a + c + 0 + 0
    BY <1>10, <2>1, <2>2, ReadPays
  <2> QED
    BY <2>3, <2>4
<1>14. DeadlineInv'
  BY <1>6, <1>8, <1>13, DueStep DEF BridgeInv, FlightInv
<1> QED
  BY <1>5, <1>6, <1>7, <1>14 DEF FlightInv

\* Nothing on the wire moves.
LEMMA FlightStays ==
  ASSUME LiveInv, SockInv, UNCHANGED <<buf, sock, asked, requests, noise>>,
         master' = "idle" => master = "idle" \/ ~ HasLive
  PROVE  LiveInv' /\ SockInv' /\ Ahead' = Ahead /\ (HasLive' <=> HasLive)
<1>1. Wire' = Wire
  BY DEF Wire
<1>2. HasLive' <=> HasLive
  BY <1>1 DEF HasLive, Live
<1>3. LiveInv'
  BY <1>1 DEF LiveInv, Live, Stale, HasLive
<1>4. SockInv' /\ Ahead' = Ahead
  BY DEF SockInv, Ahead, LiveIn, StaleIn, RestIn, Live, Stale, Piece
<1> QED
  BY <1>2, <1>3, <1>4

\* Less is left than before, by at least the time the pump was late.
LEMMA StepPays ==
  ASSUME NEW a \in Nat, NEW c \in Nat, NEW f \in Nat, NEW f1 \in Nat, NEW l \in Nat,
         f1 + l <= f
  PROVE  a + c + f1 + l <= a + c + f + 0
OBVIOUS

\* The pump wakes up, ends a gap, returns, or writes an answer.
LEMMA PumpFlight ==
  ASSUME BridgeInv, BridgeInv', FlightInv, ReplyInv,
         WakeUp \/ ReadTimeout \/ ReadEof \/ ReadError \/ WriteReply
  PROVE  FlightInv' /\ (HasLive' <=> HasLive)
<1>1. /\ lag' = 0 /\ wait' = 0
      /\ UNCHANGED <<buf, sock, master, asked, requests, age, noise, open>>
  BY DEF WakeUp, ReadTimeout, ReadEof, ReadError, WriteReply, Ran, mastervars
<1>2. LiveInv' /\ SockInv' /\ Ahead' = Ahead /\ (HasLive' <=> HasLive)
  BY <1>1, FlightStays DEF FlightInv
<1>3. pc' \in {"read", "dispatch", "final", "eof", "fatal"}
  BY DEF WakeUp, ReadTimeout, ReadEof, ReadError, WriteReply, Resume
<1>4. LagInv'
  BY <1>1, <1>3 DEF LagInv
<1>5. Times /\ Times' /\ GAP \in Nat /\ STALL \in Nat
  BY <1>2, TimesHold, TimesHoldNext, BridgeAssumption DEF BridgeInv, FlightInv
<1>6. ASSUME Awaited' PROVE Awaited /\ Left' + lag <= Left
  <2>1. master = "waiting" /\ open /\ HasLive /\ Awaited
    BY <1>1, <1>2, <1>3, <1>6 DEF Awaited
  <2>2. wait <= GAP /\ wait \in Nat /\ lag \in Nat /\ lag <= STALL
    BY <1>5 DEF Times
  <2>3. CASE WakeUp
    <3>1. buf = <<>> /\ pc = "sleep" /\ pc' = "read" /\ wait >= GAP
      BY <2>3 DEF WakeUp, FlightInv, LagInv
    <3>2. sock # <<>>
      <4>1. sock = <<>> => Len(Wire) = 0
        BY <3>1 DEF Wire
      <4> QED
        BY <2>1, <4>1 DEF HasLive
    <3>3. Left' = 0 /\ Left = (GAP - wait) + STALL
      BY <1>1, <3>1, <3>2 DEF Left
    <3>4. GAP - wait = 0
      BY <1>5, <2>2, <3>1
    <3> QED
      BY <1>5, <2>1, <2>2, <3>3, <3>4
  <2>4. CASE ReadTimeout
    <3>1. sock = <<>> /\ pc = "read" /\ wait >= GAP
      BY <2>4 DEF ReadTimeout
    <3>2. buf # <<>>
      <4>1. buf = <<>> => Len(Wire) = 0
        BY <3>1 DEF Wire
      <4> QED
        BY <2>1, <4>1 DEF HasLive
    <3>3. pc' = "dispatch"
      BY <2>4, <3>2 DEF ReadTimeout
    <3>4. Left' = 2 * STALL /\ Left = (GAP - wait) + 3 * STALL
      BY <3>1, <3>3 DEF Left
    <3>5. GAP - wait = 0
      BY <1>5, <2>2, <3>1
    <3> QED
      BY <1>5, <2>1, <2>2, <3>4, <3>5
  <2>5. CASE ReadEof \/ ReadError
    BY <2>1, <2>5 DEF ReadEof, ReadError
  <2>6. CASE WriteReply
    BY <2>1, <2>6 DEF WriteReply, ReplyInv, Replied, Writes
  <2> QED
    BY <2>3, <2>4, <2>5, <2>6
<1>7. Cost(Ahead)' = Cost(Ahead)
  BY <1>2, CostNext
<1>8. Awaited' =>
        Awaited /\ age' + Cost(Ahead)' + Left' + lag <= age + Cost(Ahead) + Left + lag'
  <2> SUFFICES ASSUME Awaited'
               PROVE  Awaited /\ age' + Cost(Ahead)' + Left' + lag <= age + Cost(Ahead) + Left + lag'
    OBVIOUS
  <2> DEFINE a == age  c == Cost(Ahead)  f == Left  f1 == Left'  l == lag
  <2>1. a \in Nat /\ c \in Nat /\ f \in Nat /\ f1 \in Nat /\ l \in Nat /\ f1 + l <= f
    BY <1>5, <1>6 DEF Times
  <2>2. (a + c + f1 + l <= a + c + f + 0) =>
          (age' + Cost(Ahead)' + Left' + lag <= age + Cost(Ahead) + Left + lag')
    BY <1>1, <1>7
  <2> HIDE DEF a, c, f, f1, l
  <2>3. a + c + f1 + l <= a + c + f + 0
    BY <2>1, StepPays
  <2> QED
    BY <1>6, <2>2, <2>3
<1>9. DeadlineInv'
  BY <1>2, <1>8, DueStep DEF BridgeInv, FlightInv
<1> QED
  BY <1>2, <1>4, <1>9 DEF FlightInv

\* A dispatch that answers took a piece that may be answered.
LEMMA DispatchFlight ==
  ASSUME BridgeInv, BridgeInv', FlightInv, Dispatch, Writes' => HasLive
  PROVE  FlightInv' /\ (HasLive' => HasLive)
<1>0. ~ poisoned
  BY DEF BridgeInv, PumpInv
<1>1. /\ pc \in {"dispatch", "final"} /\ buf' = <<>> /\ lag' = 0 /\ wait' = 0
      /\ UNCHANGED <<sock, master, asked, requests, age, noise, open>>
  BY <1>0 DEF Dispatch, Ran, mastervars
<1> DEFINE r == Slave!Handle(slave, FrameIn(buf)).reply
<1>a. pc' = IF r = Silence THEN Resume ELSE ToWrite
  BY <1>0 DEF Dispatch
<1> HIDE DEF r
<1>2. pc' \in {"read", "eof", "write", "last write"}
  BY <1>a DEF Resume, ToWrite
<1>3. LiveInv' /\ (HasLive' => HasLive)
  <2>1. buf \in Seq(Pieces) /\ sock \in Seq(Pieces)
    BY DEF BridgeInv, BridgeType
  <2>2. Shift(Len(buf))
    BY <1>1, <2>1, DispatchShifts
  <2>a. Len(buf) \in Nat /\ Len(sock) \in Nat
    BY <2>1
  <2>b. Len(Wire) = Len(buf) + Len(sock)
    BY WireIsTyped DEF BridgeInv
  <2>3. Len(buf) \in 0 .. Len(Wire)
    BY <2>a, <2>b
  <2> QED
    BY <1>1, <2>2, <2>3, ShiftKeepsLive DEF BridgeInv, FlightInv
<1>4. SockInv' /\ Ahead' = Ahead
  BY <1>1 DEF FlightInv, SockInv, Ahead, LiveIn, StaleIn, RestIn, Live, Stale, Piece
<1>5. LagInv'
  BY <1>1, <1>2 DEF LagInv
<1>6. Times /\ Times' /\ GAP \in Nat /\ STALL \in Nat
  BY <1>4, TimesHold, TimesHoldNext, BridgeAssumption DEF BridgeInv, FlightInv
<1>7. ASSUME Awaited' PROVE Awaited /\ Left' + lag <= Left
  <2>1. master = "waiting" /\ open /\ HasLive /\ Awaited
    BY <1>1, <1>3, <1>7 DEF Awaited, Writes
  <2>2. pc = "dispatch"
    BY <1>1, <2>1 DEF BridgeInv, PumpInv
  <2>3. Left = 2 * STALL
    BY <2>2 DEF Left
  <2>4. pc' \in {"read", "write"}
    BY <1>a, <2>2 DEF Resume, ToWrite
  <2>5. pc' = "read" => sock # <<>>
    <3> SUFFICES ASSUME pc' = "read", sock = <<>> PROVE FALSE
      OBVIOUS
    <3>1. HasLive'
      BY <1>7 DEF Awaited
    <3>2. Len(Wire') = 0
      BY <1>1 DEF Wire
    <3> QED
      BY <3>1, <3>2 DEF HasLive
  <2>6. Left' \in {0, STALL}
    BY <1>1, <2>4, <2>5 DEF Left
  <2>7. lag \in Nat /\ lag <= STALL
    BY <1>6 DEF Times
  <2>8. STALL \in Nat /\ \A f1 \in {0, STALL} : f1 + lag <= 2 * STALL
    BY <1>6, <2>7
  <2> QED
    BY <2>1, <2>3, <2>6, <2>8
<1>8. Cost(Ahead)' = Cost(Ahead)
  BY <1>4, CostNext
<1>9. Awaited' =>
        Awaited /\ age' + Cost(Ahead)' + Left' + lag <= age + Cost(Ahead) + Left + lag'
  <2> SUFFICES ASSUME Awaited'
               PROVE  Awaited /\ age' + Cost(Ahead)' + Left' + lag <= age + Cost(Ahead) + Left + lag'
    OBVIOUS
  <2> DEFINE a == age  c == Cost(Ahead)  f == Left  f1 == Left'  l == lag
  <2>1. a \in Nat /\ c \in Nat /\ f \in Nat /\ f1 \in Nat /\ l \in Nat /\ f1 + l <= f
    BY <1>6, <1>7 DEF Times
  <2>2. (a + c + f1 + l <= a + c + f + 0) =>
          (age' + Cost(Ahead)' + Left' + lag <= age + Cost(Ahead) + Left + lag')
    BY <1>1, <1>8
  <2> HIDE DEF a, c, f, f1, l
  <2>3. a + c + f1 + l <= a + c + f + 0
    BY <2>1, StepPays
  <2> QED
    BY <1>7, <2>2, <2>3
<1>10. DeadlineInv'
  BY <1>4, <1>9, DueStep DEF BridgeInv, FlightInv
<1> QED
  BY <1>3, <1>4, <1>5, <1>10 DEF FlightInv

\* Neither the wire nor the pump moves.
LEMMA QuietFlight ==
  ASSUME BridgeInv, BridgeInv', FlightInv,
         UNCHANGED <<buf, sock, asked, requests, noise, pc, wait, lag>>, open' => open,
         \/ master' = master /\ age' = age
         \/ master' = "idle" /\ ~ HasLive
  PROVE  FlightInv' /\ (HasLive' <=> HasLive)
<1>1. LiveInv' /\ SockInv' /\ Ahead' = Ahead /\ (HasLive' <=> HasLive)
  BY FlightStays DEF FlightInv
<1>2. LagInv'
  BY LagStays DEF FlightInv
<1>3. Awaited' => Awaited /\ age' = age
  BY <1>1 DEF Awaited
<1>4. Left' = Left
  BY DEF Left
<1>5. Cost(Ahead)' = Cost(Ahead)
  BY <1>1, CostNext
<1>6. Times
  BY TimesHold DEF BridgeInv, FlightInv
<1>7. age + Cost(Ahead) + Left + lag \in Nat
  BY <1>6 DEF Times
<1>8. Awaited' =>
        Awaited /\ age' + Cost(Ahead)' + Left' + lag <= age + Cost(Ahead) + Left + lag'
  <2> DEFINE s == age + Cost(Ahead) + Left + lag
  <2>1. Awaited' => age' + Cost(Ahead)' + Left' + lag = s /\ age + Cost(Ahead) + Left + lag' = s
    BY <1>3, <1>4, <1>5
  <2>2. s \in Nat
    BY <1>7
  <2> HIDE DEF s
  <2>3. s <= s
    BY <2>2
  <2> QED
    BY <1>3, <2>1, <2>3
<1>9. DeadlineInv'
  BY <1>1, <1>8, DueStep DEF BridgeInv, FlightInv
<1> QED
  BY <1>1, <1>2, <1>9 DEF FlightInv

\* One unit of time, of lag for a pump that could run, of the gap for one that
\* could not.
LEMMA TickPays ==
  ASSUME NEW a \in Nat, NEW c \in Nat, NEW f \in Nat, NEW f1 \in Nat, NEW l \in Nat,
         NEW l1 \in Nat, \/ l1 = l + 1 /\ f1 = f
                         \/ l1 = 0 /\ l = 0 /\ f1 + 1 = f
  PROVE  (a + 1) + c + f1 + l <= a + c + f + l1
OBVIOUS

\* Time passes.
LEMMA TickFlight ==
  ASSUME BridgeInv, BridgeInv', FlightInv, Tick
  PROVE  FlightInv' /\ (HasLive' <=> HasLive)
<1>1. /\ UNCHANGED <<buf, sock, asked, requests, noise, pc, open, master>>
      /\ pc \notin {"eof", "fatal"}
  BY DEF Tick, pumpvars
<1>2. LiveInv' /\ SockInv' /\ Ahead' = Ahead /\ (HasLive' <=> HasLive)
  BY <1>1, FlightStays DEF FlightInv
<1>3. Times /\ Times' /\ GAP \in Nat /\ STALL \in Nat
  BY <1>2, TimesHold, TimesHoldNext, BridgeAssumption DEF BridgeInv, FlightInv
<1>4. wait \in Nat /\ wait <= GAP /\ lag \in Nat
  BY <1>3 DEF Times
<1>5. /\ wait < GAP => wait' = wait + 1
      /\ wait >= GAP => wait' = wait
      /\ Runnable => lag' = lag + 1
      /\ ~ Runnable => lag' = 0
  BY <1>3, <1>4 DEF Tick
<1>6. LagInv'
  <2>1. Runnable => Runnable'
    BY <1>1, <1>3, <1>4, <1>5 DEF Runnable
  <2>2. pc' = "sleep" => buf' = <<>>
    BY <1>1 DEF FlightInv, LagInv
  <2>3. lag' # 0 => Runnable'
    BY <1>5, <2>1
  <2> QED
    BY <2>2, <2>3 DEF LagInv
<1>7. ASSUME Awaited'
      PROVE  /\ Awaited /\ age' = age + 1
             /\ \/ lag' = lag + 1 /\ Left' = Left
                \/ lag' = 0 /\ lag = 0 /\ Left' + 1 = Left
  <2>1. master = "waiting" /\ open /\ Awaited
    BY <1>1, <1>2, <1>7 DEF Awaited
  <2>2. age' = age + 1
    BY <2>1 DEF Tick
  <2>3. CASE Runnable
    <3>1. lag' = lag + 1
      BY <1>5, <2>3
    <3>2. CASE pc = "read" /\ sock # <<>>
      BY <1>1, <2>1, <2>2, <3>1, <3>2 DEF Left
    <3>3. CASE pc \in {"read", "sleep"} /\ ~ (pc = "read" /\ sock # <<>>)
      <4>1. wait >= GAP
        BY <2>1, <2>3, <3>3 DEF Runnable
      <4>2. wait' = wait
        BY <1>5, <4>1
      <4>3. Left' = Left
        BY <1>1, <4>2 DEF Left
      <4> QED
        BY <2>1, <2>2, <3>1, <4>3
    <3>4. CASE pc \notin {"read", "sleep"}
      <4>1. Left' = Left
        BY <1>1, <3>4 DEF Left
      <4> QED
        BY <2>1, <2>2, <3>1, <4>1
    <3> QED
      BY <3>2, <3>3, <3>4
  <2>4. CASE ~ Runnable
    <3>1. lag' = 0 /\ lag = 0
      BY <1>5, <2>4 DEF FlightInv, LagInv
    <3>2. \/ pc = "read" /\ sock = <<>> /\ ~ (wait >= GAP)
          \/ pc = "sleep" /\ ~ (wait >= GAP)
      BY <1>1, <2>1, <2>4 DEF Runnable, BridgeInv, BridgeType, TypeOK
    <3>3. wait' = wait + 1
      BY <1>3, <1>4, <1>5, <3>2
    <3>4. (GAP - wait') + 3 * STALL + 1 = (GAP - wait) + 3 * STALL
      BY <1>3, <1>4, <3>3
    <3>5. (GAP - wait') + STALL + 1 = (GAP - wait) + STALL
      BY <1>3, <1>4, <3>3
    <3>6. Left' + 1 = Left
      BY <1>1, <3>2, <3>4, <3>5 DEF Left
    <3> QED
      BY <2>1, <2>2, <3>1, <3>6
  <2> QED
    BY <2>3, <2>4
<1>8. Cost(Ahead)' = Cost(Ahead)
  BY <1>2, CostNext
<1>9. Awaited' =>
        Awaited /\ age' + Cost(Ahead)' + Left' + lag <= age + Cost(Ahead) + Left + lag'
  <2> SUFFICES ASSUME Awaited'
               PROVE  Awaited /\ age' + Cost(Ahead)' + Left' + lag <= age + Cost(Ahead) + Left + lag'
    OBVIOUS
  <2> DEFINE a == age  c == Cost(Ahead)  f == Left  f1 == Left'  l == lag  l1 == lag'
  <2>1. a \in Nat /\ c \in Nat /\ f \in Nat /\ f1 \in Nat /\ l \in Nat /\ l1 \in Nat
    BY <1>3 DEF Times
  <2>2. \/ l1 = l + 1 /\ f1 = f
        \/ l1 = 0 /\ l = 0 /\ f1 + 1 = f
    BY <1>7
  <2>3. ((a + 1) + c + f1 + l <= a + c + f + l1) =>
          (age' + Cost(Ahead)' + Left' + lag <= age + Cost(Ahead) + Left + lag')
    BY <1>7, <1>8
  <2> HIDE DEF a, c, f, f1, l, l1
  <2>4. (a + 1) + c + f1 + l <= a + c + f + l1
    BY <2>1, <2>2, TickPays
  <2> QED
    BY <1>7, <2>3, <2>4
<1>10. DeadlineInv'
  BY <1>2, <1>9, DueStep DEF BridgeInv, FlightInv
<1> QED
  BY <1>2, <1>6, <1>10 DEF FlightInv

\* The master begins a request when nothing may be answered any more.
LEMMA BeginFlight ==
  ASSUME BridgeInv, BridgeInv', FlightInv, NEW f \in Asks, NEW part, NEW state,
         Begin(f, part, state), part \in {"whole", "head"}, state # "idle"
  PROVE  FlightInv'
<1> DEFINE p == Piece(Len(requests) + 1, part)
<1>1. /\ open /\ Len(requests) + 1 <= MaxRequests /\ master = "idle"
      /\ requests' = Append(requests, f) /\ sock' = Append(sock, p)
      /\ asked' = Len(requests) + 1 /\ master' = state /\ age' = 0
      /\ UNCHANGED <<buf, pc, wait, lag, open, noise>>
  BY DEF Begin, Next1
<1>2. /\ buf \in Seq(Pieces) /\ sock \in Seq(Pieces) /\ requests \in Seq(Asks)
      /\ Len(requests) \in Nat
  BY DEF BridgeInv, BridgeType
<1>3. Len(requests') = Len(requests) + 1
  BY <1>1, <1>2
<1>4. Len(requests) + 1 \in 0 .. MaxRequests
  BY <1>1, <1>2, Bounds
<1>5. p \in Pieces /\ p.id = Len(requests) + 1 /\ Live(p)
  BY <1>4 DEF Piece, Pieces, Live
<1> HIDE DEF p
<1>6. Grows(p)
  BY <1>1, <1>2, <1>5, WriteGrows
<1>7. ~ HasLive
  BY <1>1 DEF FlightInv, LiveInv, HasLive
<1>8. LiveInv'
  BY <1>1, <1>3, <1>5, <1>6, <1>7, BeginKeepsLive DEF BridgeInv, FlightInv
<1>9. SockInv' /\ sock' # <<>>
  BY <1>1, <1>5, <1>7, BeginKeepsSock DEF BridgeInv, FlightInv
<1>10. LagInv'
  BY <1>1, <1>9, LagStays DEF FlightInv
<1>11. DeadlineInv'
  BY <1>1, <1>9, FreshDeadline DEF BridgeInv
<1> QED
  BY <1>8, <1>9, <1>10, <1>11 DEF FlightInv

\* The master writes the rest of its request.
LEMMA TailFlight ==
  ASSUME BridgeInv, BridgeInv', FlightInv, SendTail
  PROVE  FlightInv' /\ (HasLive' => HasLive)
<1> DEFINE p == Piece(asked, "tail")
<1>1. /\ sock' = Append(sock, p) /\ master = "sending" /\ master' = "waiting" /\ age' = 0
      /\ UNCHANGED <<buf, pc, wait, lag, open, asked, requests>>
  BY DEF SendTail
<1>2. asked \in 0 .. MaxRequests /\ buf \in Seq(Pieces) /\ sock \in Seq(Pieces)
  BY DEF BridgeInv, BridgeType, TypeOK
<1>3. p \in Pieces /\ ~ Live(p) /\ ~ Stale(p, asked)
  BY <1>2 DEF Piece, Pieces, Live, Stale
<1> HIDE DEF p
<1>4. Grows(p)
  BY <1>1, <1>2, <1>3, WriteGrows
<1>5. LiveInv' /\ (HasLive' => HasLive)
  BY <1>1, <1>3, <1>4, GrowKeepsLive DEF BridgeInv, FlightInv
<1>6. SockInv' /\ sock' # <<>>
  BY TailKeepsSock DEF BridgeInv, FlightInv
<1>7. LagInv'
  BY <1>1, <1>6, LagStays DEF FlightInv
<1>8. DeadlineInv'
  BY <1>1, <1>6, FreshDeadline DEF BridgeInv
<1> QED
  BY <1>5, <1>6, <1>7, <1>8 DEF FlightInv

\* The line makes noise.
LEMMA NoiseFlight ==
  ASSUME BridgeInv, BridgeInv', FlightInv, LineNoise
  PROVE  FlightInv' /\ (HasLive' => HasLive)
<1>1. /\ sock' = Append(sock, Noise)
      /\ UNCHANGED <<buf, pc, wait, lag, open, asked, requests, master, age>>
  BY DEF LineNoise
<1>2. buf \in Seq(Pieces) /\ sock \in Seq(Pieces)
  BY DEF BridgeInv, BridgeType
<1>3. Noise \in Pieces /\ ~ Live(Noise) /\ ~ Stale(Noise, asked)
  BY Bounds DEF Noise, Pieces, Live, Stale
<1>4. Grows(Noise)
  BY <1>1, <1>2, <1>3, WriteGrows
<1>5. LiveInv' /\ (HasLive' => HasLive)
  BY <1>1, <1>3, <1>4, GrowKeepsLive DEF BridgeInv, FlightInv
<1>6. SockInv' /\ Ahead' = Ahead
  BY NoiseKeepsSock DEF BridgeInv, FlightInv
<1>7. sock' # <<>>
  BY <1>1, <1>3, SockGrows DEF BridgeInv
<1>8. LagInv'
  BY <1>1, <1>7, LagStays DEF FlightInv
<1>9. Awaited' => Awaited
  BY <1>1, <1>5 DEF Awaited
<1>10. Times /\ Times'
  BY <1>6, TimesHold, TimesHoldNext DEF BridgeInv, FlightInv
<1>11. Left' <= Left
  <2>1. Left' = Left \/ Left' = 0
    BY <1>1, <1>7 DEF Left
  <2>2. Left \in Nat /\ Left' \in Nat
    BY <1>10 DEF Times
  <2> QED
    BY <2>1, <2>2
<1>12. Cost(Ahead)' = Cost(Ahead)
  BY <1>6, CostNext
<1>13. age' + Cost(Ahead)' + Left' + lag <= age + Cost(Ahead) + Left + lag'
  <2> DEFINE a == age  c == Cost(Ahead)  f == Left  f1 == Left'  l == lag
  <2>1. /\ a \in Nat /\ c \in Nat /\ f \in Nat /\ f1 \in Nat /\ l \in Nat
        /\ f1 <= f
    BY <1>1, <1>10, <1>11 DEF Times
  <2>2. (a + c + f1 + l <= a + c + f + l) =>
          (age' + Cost(Ahead)' + Left' + lag <= age + Cost(Ahead) + Left + lag')
    BY <1>1, <1>12
  <2> HIDE DEF a, c, f, f1, l
  <2>3. a + c + f1 + l <= a + c + f + l
    BY <2>1
  <2> QED
    BY <2>2, <2>3
<1>14. DeadlineInv'
  BY <1>6, <1>9, <1>13, DueStep DEF BridgeInv, FlightInv
<1> QED
  BY <1>5, <1>6, <1>8, <1>14 DEF FlightInv

\* A master that gives up had nothing to wait for: what may still be answered
\* would have been by then.
LEMMA NothingAtTimeout ==
  ASSUME BridgeInv, FlightInv, TIMEOUT > Deadline, age = TIMEOUT,
         master = "waiting", open
  PROVE  ~ HasLive /\ ~ Writes
<1> SUFFICES ASSUME Awaited PROVE FALSE
  BY DEF Awaited, Writes, BridgeInv, PumpInv
<1>1. age + Cost(Ahead) + Left - lag <= Deadline
  BY DEF FlightInv, DeadlineInv
<1>2. Times /\ GAP \in Nat /\ STALL \in Nat
  BY TimesHold, BridgeAssumption DEF BridgeInv, FlightInv
<1>3. lag <= Cost(Ahead) + Left
  <2>0. /\ lag \in Nat /\ lag <= STALL /\ wait \in Nat /\ wait <= GAP
        /\ Cost(Ahead) \in Nat /\ Left \in Nat /\ Ahead \in Nat
    BY <1>2 DEF Times
  <2>1. CASE pc = "read" /\ sock # <<>>
    <3>1. Ahead > 0
      BY <2>1, TimesTyped DEF BridgeInv, FlightInv
    <3>2. Cost(0) + PerPiece <= Cost(Ahead) /\ Cost(0) \in Nat /\ PerPiece = GAP + 4 * STALL
      BY <2>0, <3>1, CostGrows
    <3> HIDE DEF Cost, Ahead
    <3> QED
      BY <1>2, <2>0, <3>2
  <2>2. CASE ~ (pc = "read" /\ sock # <<>>)
    <3>1. pc \in {"read", "sleep", "dispatch", "write"}
      BY DEF Awaited, BridgeInv, BridgeType, TypeOK, PumpInv
    <3>2. (GAP - wait) \in Nat
      BY <1>2, <2>0
    <3>3. STALL <= (GAP - wait) + 3 * STALL /\ STALL <= (GAP - wait) + STALL /\ STALL <= 2 * STALL
      BY <1>2, <3>2
    <3>4. STALL <= STALL
      BY <1>2
    <3>5. STALL <= Left
      BY <2>2, <3>1, <3>3, <3>4 DEF Left
    <3> QED
      BY <1>2, <2>0, <3>5
  <2> QED
    BY <2>1, <2>2
<1>4. TIMEOUT \in Nat
  BY TimeoutAssumption
<1>5. Deadline \in Int
  <2>1. MaxNoise + 3 \in Nat
    BY BridgeAssumption
  <2>2. Cost(MaxNoise + 3) \in Nat
    BY <2>1, CostGrows
  <2> QED
    BY <1>2, <2>2 DEF Deadline
<1> DEFINE c == Cost(Ahead)  f == Left  D == Deadline
<1>6. c \in Nat /\ f \in Nat /\ lag \in Nat /\ D \in Int
  BY <1>2, <1>5 DEF Times
<1>7. TIMEOUT + c + f - lag <= D /\ lag <= c + f /\ TIMEOUT > D
  BY <1>1, <1>3
<1> HIDE DEF c, f, D
<1> QED
  BY <1>4, <1>6, <1>7

-----------------------------------------------------------------------------
(* The answer *)

\* The slave keeps its types.
SlaveInv == slave \in Devices

\* Genuine, for a request that was served so often and cells that were held.
Answers(ask, served, cells, r) ==
  /\ r.fc = ask.fc
  /\ \/ r.exception
     \/ /\ served = 1
        /\ r.fc \in {3, 4} =>
             \E h \in cells :
               Slave!RegsIn(Tail(r.data), ask.pdu.b) = Values(h[Slave!BankOf(r.fc)], ask.pdu)

\* The property of the answer under way, in a state ...
LEMMA GenuineIs ==
  /\ Genuine(asked, reply.frame) <=> Answers(requests[asked], applied[asked], held, reply.frame)
  /\ Genuine(asked, back[1].frame) <=> Answers(requests[asked], applied[asked], held, back[1].frame)
BY DEF Genuine, Answers

\* ... and after a step.
LEMMA GenuineIsNext ==
  /\ Genuine(asked, reply.frame)'
       <=> Answers(requests'[asked'], applied'[asked'], held', reply'.frame)
  /\ Genuine(asked, back[1].frame)'
       <=> Answers(requests'[asked'], applied'[asked'], held', back'[1].frame)
BY DEF Genuine, Answers, Values, Slave!RegsIn, Slave!BankOf

\* An answer stays genuine when more was held.
LEMMA AnswersGrow ==
  ASSUME NEW ask, NEW served, NEW cells, NEW more, NEW r, Answers(ask, served, cells, r),
         cells \subseteq more
  PROVE  Answers(ask, served, more, r)
BY DEF Answers

\* The words of a frame the pump dispatches are numbers.
LEMMA FrameTyped ==
  ASSUME BridgeInv, buf # <<>>
  PROVE  Typed(FrameIn(buf).pdu)
<1>1. buf \in Seq(Pieces) /\ requests \in Seq(Asks)
  BY DEF BridgeInv, BridgeType
<1>2. 1 \in 1 .. Len(buf)
  BY <1>1
<1>3. 1 \in 1 .. Len(Wire) /\ Wire[1] = buf[1]
  BY <1>1, <1>2, WireType DEF Wire
<1>4. CASE WholeIn(buf) # 0
  <2>1. WholeIn(buf) = buf[1].id
    BY <1>4 DEF WholeIn
  <2>2. buf[1].id \in 0 .. Len(requests)
    BY <1>3 DEF BridgeInv, WireInv
  <2>3. WholeIn(buf) \in 1 .. Len(requests)
    BY <1>1, <1>4, <2>1, <2>2
  <2>4. FrameIn(buf) = requests[WholeIn(buf)]
    BY <1>4 DEF FrameIn
  <2>5. FrameIn(buf) \in Asks
    BY <1>1, <2>3, <2>4
  <2> QED
    BY <2>5, AskAssumption DEF Typed
<1>5. CASE WholeIn(buf) = 0
  <2>1. FrameIn(buf).pdu = [form |-> "short", a |-> 0, b |-> 0]
    BY <1>5 DEF FrameIn
  <2>2. /\ FrameIn(buf).pdu.form = "short"
        /\ FrameIn(buf).pdu.a = 0 /\ FrameIn(buf).pdu.b = 0
    BY <2>1
  <2> QED
    BY <2>2 DEF Typed
<1> QED
  BY <1>4, <1>5

\* A frame that may be answered is the request in flight, whole and not yet
\* served, or refused for its length.
LEMMA SoundIsAsked ==
  ASSUME BridgeInv, LiveInv, buf # <<>>, WholeIn(buf) # 0 \/ FrameIn(buf).sound
  PROVE  /\ Live(Wire[1]) /\ 1 \in 1 .. Len(Wire) /\ buf[1].id = asked
         /\ HasLive /\ master # "idle"
         /\ FrameIn(buf).fc = requests[asked].fc
         /\ \/ /\ WholeIn(buf) = asked /\ asked # 0 /\ FrameIn(buf) = requests[asked]
               /\ applied[asked] = 0 /\ asked \in 1 .. MaxRequests
            \/ /\ WholeIn(buf) = 0 /\ FrameIn(buf).pdu.form = "short" /\ FrameIn(buf).fc # 17
<1>1. buf \in Seq(Pieces) /\ sock \in Seq(Pieces) /\ requests \in Seq(Asks)
  BY DEF BridgeInv, BridgeType
<1>2. 1 \in 1 .. Len(buf) /\ Len(buf) \in Nat
  BY <1>1
<1>3. /\ 1 \in 1 .. Len(Wire) /\ Wire[1] = buf[1]
      /\ \A i \in 1 .. Len(buf) : i \in 1 .. Len(Wire) /\ Wire[i] = buf[i]
  BY <1>1, <1>2, WireType DEF Wire
<1>4. Live(buf[1])
  <2>1. CASE WholeIn(buf) # 0
    BY <2>1 DEF WholeIn, Live
  <2>2. CASE WholeIn(buf) = 0
    <3>1. FrameIn(buf).sound <=>
            /\ Len(buf) = 1 /\ buf[1].part = "head" /\ buf[1].id \in ZeroEnded
            /\ requests[buf[1].id].fc # 17
      BY <2>2 DEF FrameIn
    <3> QED
      BY <2>2, <3>1 DEF Live
  <2> QED
    BY <2>1, <2>2
<1>5. buf[1].id = asked /\ HasLive /\ master # "idle" /\ Live(Wire[1])
  BY <1>3, <1>4 DEF LiveInv, HasLive
<1>6. asked # 0
  <2>1. Wire[1].id = 0 => Wire[1].part = "noise"
    BY <1>3 DEF BridgeInv, WireInv
  <2> QED
    BY <1>3, <1>4, <1>5, <2>1 DEF Live
<1>7. CASE WholeIn(buf) # 0
  <2>1. WholeIn(buf) = asked
    BY <1>5, <1>7 DEF WholeIn
  <2>2. FrameIn(buf) = requests[asked]
    BY <1>7, <2>1 DEF FrameIn
  <2>3. \E k \in 1 .. Len(buf) : Completes(buf[k]) /\ buf[k].id = asked
    <3>1. CASE Len(buf) = 1 /\ buf[1].part = "whole"
      <4>1. 1 \in 1 .. Len(buf) /\ Completes(buf[1]) /\ buf[1].id = asked
        BY <1>2, <1>5, <3>1 DEF Completes
      <4> QED
        BY <4>1
    <3>2. CASE Len(buf) = 2 /\ buf[2] = Piece(buf[1].id, "tail")
      <4>1. 2 \in 1 .. Len(buf) /\ Completes(buf[2]) /\ buf[2].id = asked
        BY <1>2, <1>5, <3>2 DEF Completes, Piece
      <4> QED
        BY <4>1
    <3> QED
      BY <1>7, <3>1, <3>2 DEF WholeIn
  <2>4. applied[asked] = 0
    <3>1. PICK k \in 1 .. Len(buf) : Completes(buf[k]) /\ buf[k].id = asked
      BY <2>3
    <3>2. k \in 1 .. Len(Wire) /\ Completes(Wire[k]) /\ Wire[k].id = asked
      BY <1>3, <3>1
    <3> QED
      BY <3>2 DEF BridgeInv, WireInv
  <2>5. asked \in 1 .. MaxRequests
    <3>1. asked \in 0 .. MaxRequests
      BY DEF BridgeInv, BridgeType, TypeOK
    <3> QED
      BY <1>6, <3>1, Bounds
  <2>6. FrameIn(buf).fc = requests[asked].fc
    BY <2>2
  <2> QED
    BY <1>3, <1>5, <1>6, <2>1, <2>2, <2>4, <2>5, <2>6
<1>8. CASE WholeIn(buf) = 0
  <2>1. FrameIn(buf).fc = requests[asked].fc
    BY <1>5, <1>6, <1>8 DEF FrameIn
  <2>2. FrameIn(buf).pdu = [form |-> "short", a |-> 0, b |-> 0]
    BY <1>8 DEF FrameIn
  <2>3. FrameIn(buf).pdu.form = "short"
    BY <2>2
  <2>4. FrameIn(buf).sound <=>
          /\ Len(buf) = 1 /\ buf[1].part = "head" /\ buf[1].id \in ZeroEnded
          /\ requests[buf[1].id].fc # 17
    BY <1>8 DEF FrameIn
  <2>5. FrameIn(buf).fc # 17
    BY <1>5, <1>8, <2>1, <2>4
  <2> QED
    BY <1>3, <1>5, <1>8, <2>1, <2>3, <2>5
<1> QED
  BY <1>7, <1>8

\* A step that leaves the answer under way, and what it is to, alone.
LEMMA ReplyKept ==
  ASSUME ReplyInv, UNCHANGED <<asked, back>>, Writes' => Writes /\ reply' = reply,
         requests'[asked] = requests[asked], applied'[asked] = applied[asked],
         held \subseteq held', master' = "idle" => master = "idle", HasLive' => HasLive
  PROVE  ReplyInv'
<1>1. Replied' => Replied
  BY DEF Replied
<1>2. Replied' => master' # "idle" /\ ~ HasLive'
  BY <1>1 DEF ReplyInv
<1>3. ASSUME Writes'
      PROVE  back' = <<>> /\ reply'.id = asked' /\ Genuine(asked, reply.frame)'
  <2>1. back = <<>> /\ reply.id = asked /\ Genuine(asked, reply.frame)
    BY <1>3 DEF ReplyInv
  <2>2. Answers(requests[asked], applied[asked], held', reply.frame)
    BY <2>1, GenuineIs, AnswersGrow
  <2>3. Answers(requests'[asked'], applied'[asked'], held', reply'.frame)
    BY <1>3, <2>2
  <2> QED
    BY <1>3, <2>1, <2>3, GenuineIsNext
<1>4. ASSUME back' # <<>>
      PROVE  back' = <<back'[1]>> /\ back'[1].id = asked' /\ Genuine(asked, back[1].frame)'
  <2>1. back = <<back[1]>> /\ back[1].id = asked /\ Genuine(asked, back[1].frame)
    BY <1>4 DEF ReplyInv
  <2>2. Answers(requests[asked], applied[asked], held', back[1].frame)
    BY <2>1, GenuineIs, AnswersGrow
  <2>3. Answers(requests'[asked'], applied'[asked'], held', back'[1].frame)
    BY <2>2
  <2> QED
    BY <2>1, <2>3, GenuineIsNext
<1> QED
  BY <1>2, <1>3, <1>4 DEF ReplyInv

\* When no answer is under way there is nothing to say.
LEMMA NoReply ==
  ASSUME ~ Writes', back' = <<>>
  PROVE  ReplyInv'
BY DEF ReplyInv, Replied

\* What the slave answers to the buffer.
LEMMA DispatchAnswers ==
  ASSUME BridgeInv, BridgeInv', FlightInv, SlaveInv, ReplyInv, Dispatch
  PROVE  /\ SlaveInv' /\ ReplyInv' /\ (Writes' => HasLive)
<1> DEFINE h == Slave!Handle(slave, FrameIn(buf))
<1>0. ~ poisoned /\ buf # <<>>
  BY DEF BridgeInv, PumpInv, Dispatch
<1>1. /\ pc \in {"dispatch", "final"} /\ buf' = <<>> /\ slave' = h.dev
      /\ pc' = (IF h.reply = Silence THEN Resume ELSE ToWrite)
      /\ applied' = Served(buf, h.reply)
      /\ reply' = [frame |-> h.reply, id |-> buf[1].id]
      /\ held' = held \cup {Cells'}
      /\ UNCHANGED <<sock, back, open, master, asked, requests>>
  BY <1>0 DEF Dispatch, mastervars
<1>2. HandledWell(slave, FrameIn(buf), h)
  BY <1>0, FrameTyped, HandlesWell DEF SlaveInv
<1> HIDE DEF h
<1>3. SlaveInv'
  BY <1>1, <1>2 DEF SlaveInv, HandledWell
<1>4. ~ Writes
  BY <1>1 DEF Writes
<1>5. CASE h.reply = Silence
  <2>1. ~ Writes' /\ applied' = applied
    BY <1>1, <1>5 DEF Writes, Resume, Served
  <2>2. HasLive' => HasLive
    BY <2>1, DispatchFlight
  <2>3. ReplyInv'
    BY <1>1, <2>1, <2>2, ReplyKept
  <2> QED
    BY <1>3, <2>1, <2>3
<1>6. CASE h.reply # Silence
  <2>1. FrameIn(buf).sound
    BY <1>2, <1>6 DEF HandledWell
  <2>2. /\ Live(Wire[1]) /\ 1 \in 1 .. Len(Wire) /\ buf[1].id = asked
        /\ HasLive /\ master # "idle"
        /\ FrameIn(buf).fc = requests[asked].fc
        /\ \/ /\ WholeIn(buf) = asked /\ asked # 0 /\ FrameIn(buf) = requests[asked]
              /\ applied[asked] = 0 /\ asked \in 1 .. MaxRequests
           \/ /\ WholeIn(buf) = 0 /\ FrameIn(buf).pdu.form = "short" /\ FrameIn(buf).fc # 17
    BY <1>0, <2>1, SoundIsAsked DEF FlightInv
  <2>3. back = <<>>
    BY <2>2 DEF ReplyInv, Replied
  <2>4. ~ HasLive'
    <3>1. buf \in Seq(Pieces) /\ sock \in Seq(Pieces)
      BY DEF BridgeInv, BridgeType
    <3>2. Len(buf) \in Nat /\ Len(buf) > 0 /\ Len(Wire) \in Nat
      BY <1>0, <3>1, WireIsTyped DEF BridgeInv
    <3>3. Shift(Len(buf))
      BY <1>1, <3>1, DispatchShifts
    <3>4. ASSUME NEW i \in 1 .. Len(Wire'), Live(Wire'[i]) PROVE FALSE
      <4>1. Len(Wire') = Len(Wire) - Len(buf) /\ Wire'[i] = Wire[i + Len(buf)]
        BY <3>3 DEF Shift
      <4>2. i + Len(buf) \in 1 .. Len(Wire) /\ i + Len(buf) # 1
        BY <3>2, <4>1
      <4>3. Live(Wire[i + Len(buf)])
        BY <3>4, <4>1
      <4> QED
        BY <2>2, <4>2, <4>3 DEF FlightInv, LiveInv
    <3> QED
      BY <3>4 DEF HasLive, Live
  <2>5. Answers(requests[asked], applied'[asked], held', h.reply)
    <3>1. h.reply.fc = requests[asked].fc
      BY <1>2, <1>6, <2>2 DEF HandledWell
    <3>2. CASE h.reply.exception
      BY <3>1, <3>2 DEF Answers
    <3>3. CASE ~ h.reply.exception
      <4>1. WholeIn(buf) = asked /\ FrameIn(buf) = requests[asked] /\ applied[asked] = 0
            /\ asked # 0 /\ asked \in 1 .. MaxRequests
        BY <1>2, <1>6, <2>2, <3>3 DEF HandledWell
      <4>2. applied' = [applied EXCEPT ![asked] = @ + 1]
        BY <1>1, <1>6, <4>1 DEF Served
      <4>3. applied'[asked] = 1
        <5>1. applied \in [1 .. MaxRequests -> Nat]
          BY DEF BridgeInv, BridgeType
        <5> QED
          BY <4>1, <4>2, <5>1
      <4>4. ASSUME h.reply.fc \in {3, 4}
            PROVE  Slave!RegsIn(Tail(h.reply.data), requests[asked].pdu.b)
                     = Values(Cells'[Slave!BankOf(h.reply.fc)], requests[asked].pdu)
        <5>1. /\ h.dev = slave
              /\ Slave!RegsIn(Tail(h.reply.data), requests[asked].pdu.b)
                   = Values(slave[Slave!BankOf(h.reply.fc)], requests[asked].pdu)
          BY <1>2, <1>6, <3>1, <3>3, <4>1, <4>4 DEF HandledWell
        <5>2. Slave!BankOf(h.reply.fc) \in {"holding", "input"}
          BY <4>4 DEF Slave!BankOf
        <5>3. Cells'[Slave!BankOf(h.reply.fc)] = slave[Slave!BankOf(h.reply.fc)]
          <6>1. Cells'.holding = slave.holding /\ Cells'.input = slave.input
            BY <1>1, <5>1 DEF Cells
          <6> QED
            BY <5>2, <6>1
        <5> QED
          BY <5>1, <5>3
      <4>5. Cells' \in held'
        BY <1>1
      <4> QED
        BY <3>1, <4>3, <4>4, <4>5 DEF Answers
    <3> QED
      BY <3>2, <3>3
  <2>6. reply'.frame = h.reply /\ reply'.id = asked'
    BY <1>1, <2>2
  <2>7. Genuine(asked, reply.frame)'
    <3>1. Answers(requests'[asked'], applied'[asked'], held', reply'.frame)
      BY <1>1, <2>5, <2>6
    <3> QED
      BY <3>1, GenuineIsNext
  <2>8. back' = <<>> /\ master' # "idle"
    BY <1>1, <2>2, <2>3
  <2> QED
    BY <1>3, <2>2, <2>4, <2>6, <2>7, <2>8 DEF ReplyInv
<1> QED
  BY <1>5, <1>6

\* A control line leaves the slave its types.
LEMMA ControlKeepsSlave ==
  ASSUME BridgeInv, SlaveInv, NEW c \in Commands, Control(c)
  PROVE  SlaveInv'
<1>0. slave \in Devices
  BY DEF SlaveInv
<1>1. c.cmd \in {"drop", "exception", "clear", "set", "get"}
  BY CommandAssumption
<1>2. CASE c.cmd = "drop"
  <2>1. slave' = [slave EXCEPT !.drop_next = c.n] /\ c.n \in Nat
    BY <1>2, CommandAssumption DEF Control
  <2> QED
    BY <1>0, <2>1, FieldUpdates DEF SlaveInv
<1>3. CASE c.cmd = "exception"
  <2>1. slave' = [slave EXCEPT !.force_exception = c.n] /\ c.n \in Int
    BY <1>3, CommandAssumption DEF Control
  <2> QED
    BY <1>0, <2>1, FieldUpdates DEF SlaveInv
<1>4. CASE c.cmd = "clear"
  <2>1. slave' = [slave EXCEPT !.drop_next = 0, !.force_exception = -1]
    BY <1>4 DEF Control, Slave!None
  <2>2. slave' = [[slave EXCEPT !.drop_next = 0] EXCEPT !.force_exception = -1]
    BY <2>1
  <2>3. [slave EXCEPT !.drop_next = 0] \in Devices
    BY <1>0, FieldUpdates
  <2>4. -1 \in Int
    OBVIOUS
  <2>5. slave' \in Devices
    BY <2>2, <2>3, <2>4, FieldUpdates
  <2> QED
    BY <2>5 DEF SlaveInv
<1>5. CASE c.cmd \in {"set", "get"} /\ slave' = slave
  BY <1>5 DEF SlaveInv
<1>6. CASE c.cmd \in {"set", "get"} /\ slave' # slave
  <2>1. /\ c.cmd = "set" /\ ~ (c.addr >= SizeOf(c.bank))
        /\ slave' = [slave EXCEPT ![c.bank][c.addr] = c.val]
    BY <1>6 DEF Control
  <2>2. /\ c.addr \in Nat /\ c.bank \in {"holding", "input", "coils", "discrete"}
        /\ c.val \in IF c.bank \in {"holding", "input"} THEN Nat ELSE BOOLEAN
    BY <2>1, CommandAssumption
  <2>3. NRegs \in Nat /\ NBits \in Nat
    BY BridgeAssumption
  <2>4. CASE c.bank \in {"holding", "input"}
    <3>1. c.addr \in 0 .. NRegs - 1 /\ c.val \in Nat
      BY <2>1, <2>2, <2>3, <2>4 DEF SizeOf
    <3>2. /\ slave.holding \in [0 .. NRegs - 1 -> Nat]
          /\ slave.input \in [0 .. NRegs - 1 -> Nat]
      BY <1>0 DEF Devices
    <3>3. CASE c.bank = "holding"
      <4> DEFINE g == [slave.holding EXCEPT ![c.addr] = c.val]
      <4>1. slave' = [slave EXCEPT !.holding = g]
        BY <2>1, <3>3
      <4>2. g \in [0 .. NRegs - 1 -> Nat]
        BY <3>1, <3>2
      <4> QED
        BY <1>0, <4>1, <4>2, FieldUpdates DEF SlaveInv
    <3>4. CASE c.bank = "input"
      <4> DEFINE g == [slave.input EXCEPT ![c.addr] = c.val]
      <4>1. slave' = [slave EXCEPT !.input = g]
        BY <2>1, <3>4
      <4>2. g \in [0 .. NRegs - 1 -> Nat]
        BY <3>1, <3>2
      <4> QED
        BY <1>0, <4>1, <4>2, FieldUpdates DEF SlaveInv
    <3> QED
      BY <2>4, <3>3, <3>4
  <2>5. CASE c.bank \in {"coils", "discrete"}
    <3>1. c.addr \in 0 .. NBits - 1
      BY <2>1, <2>2, <2>3, <2>5 DEF SizeOf
    <3>a. c.val \in BOOLEAN
      BY <2>2, <2>5
    <3>2. /\ slave.coils \in [0 .. NBits - 1 -> BOOLEAN]
          /\ slave.discrete \in [0 .. NBits - 1 -> BOOLEAN]
      BY <1>0 DEF Devices
    <3>3. CASE c.bank = "coils"
      <4> DEFINE g == [slave.coils EXCEPT ![c.addr] = c.val]
      <4>1. slave' = [slave EXCEPT !.coils = g]
        BY <2>1, <3>3
      <4>2. g \in [0 .. NBits - 1 -> BOOLEAN]
        BY <3>1, <3>a, <3>2
      <4> QED
        BY <1>0, <4>1, <4>2, FieldUpdates DEF SlaveInv
    <3>4. CASE c.bank = "discrete"
      <4> DEFINE g == [slave.discrete EXCEPT ![c.addr] = c.val]
      <4>1. slave' = [slave EXCEPT !.discrete = g]
        BY <2>1, <3>4
      <4>2. g \in [0 .. NBits - 1 -> BOOLEAN]
        BY <3>1, <3>a, <3>2
      <4> QED
        BY <1>0, <4>1, <4>2, FieldUpdates DEF SlaveInv
    <3> QED
      BY <2>5, <3>3, <3>4
  <2> QED
    BY <2>2, <2>4, <2>5
<1> QED
  BY <1>1, <1>2, <1>3, <1>4, <1>5, <1>6

\* What is known of the answers.
AnswerInv == BridgeInv /\ SlaveInv /\ FlightInv /\ ReplyInv /\ AnswerIsGenuine

\* The bridge starts idle.
LEMMA AnswerInit == Init => AnswerInv
<1> SUFFICES ASSUME Init PROVE AnswerInv
  OBVIOUS
<1>1. BridgeInv
  BY BridgeInit
<1>2. SlaveInv
  <2>1. slave = Slave!New
    BY DEF Init
  <2>2. 2^BITS - 1 \in Int
    BY BridgeAssumption
  <2> DEFINE m == 2^BITS - 1
  <2>3. <<m, m>> \in Seq(Int)
    <3>1. m \in Int
      BY <2>2
    <3> HIDE DEF m
    <3> QED
      BY <3>1
  <2>4. Slave!New = [holding  |-> [i \in 0 .. NRegs - 1 |-> 0],
                     input    |-> [i \in 0 .. NRegs - 1 |-> 0],
                     coils    |-> [i \in 0 .. NBits - 1 |-> FALSE],
                     discrete |-> [i \in 0 .. NBits - 1 |-> FALSE],
                     slave_id |-> <<m, m>>,
                     drop_next |-> 0, force_exception |-> -1]
    BY DEF Slave!New, Slave!None
  <2> DEFINE z == [i \in 0 .. NRegs - 1 |-> 0]
             n == [i \in 0 .. NBits - 1 |-> FALSE]
             q == <<m, m>>
  <2>5. z \in [0 .. NRegs - 1 -> Nat] /\ n \in [0 .. NBits - 1 -> BOOLEAN] /\ q \in Seq(Int)
    BY <2>3
  <2>6. slave = [holding |-> z, input |-> z, coils |-> n, discrete |-> n,
                 slave_id |-> q, drop_next |-> 0, force_exception |-> -1]
    BY <2>1, <2>4
  <2> HIDE DEF z, n, q, m
  <2> QED
    BY <2>5, <2>6 DEF SlaveInv, Devices
<1>3. Wire = <<>> /\ Len(Wire) = 0
  BY DEF Init, Wire
<1>4. /\ buf = <<>> /\ sock = <<>> /\ Len(sock) = 0 /\ pc = "read" /\ back = <<>>
      /\ requests = <<>> /\ Len(requests) = 0 /\ asked = 0 /\ master = "idle"
      /\ noise = 0 /\ lag = 0 /\ wait = 0
  BY DEF Init
<1>5. LiveInv /\ ~ HasLive
  BY <1>3, <1>4 DEF LiveInv, HasLive
<1>6. SockInv
  <2>1. 0 <= 0 + LiveIn + StaleIn + RestIn
    BY Indicators
  <2>2. 0 \in 0 .. MaxNoise
    BY BridgeAssumption
  <2> QED
    BY <1>4, <2>1, <2>2 DEF SockInv
<1>7. LagInv
  BY <1>4 DEF LagInv
<1>8. DeadlineInv
  BY <1>4 DEF DeadlineInv, Awaited
<1>9. ReplyInv
  BY <1>4 DEF ReplyInv, Replied, Writes
<1>10. AnswerIsGenuine
  <2>1. accepted = [asked |-> 0, answers |-> 0, genuine |-> TRUE]
    BY DEF Init, NoAnswer
  <2> QED
    BY <2>1 DEF AnswerIsGenuine
<1> QED
  BY <1>1, <1>2, <1>5, <1>6, <1>7, <1>8, <1>9, <1>10 DEF AnswerInv, FlightInv

\* The steps of the pump.
LEMMA PumpAnswers ==
  ASSUME AnswerInv, BridgeInv', Pump
  PROVE  AnswerInv'
<1>0. /\ BridgeInv /\ SlaveInv /\ FlightInv /\ ReplyInv /\ AnswerIsGenuine
  BY DEF AnswerInv
<1>1. UNCHANGED accepted
  BY DEF Pump, ReadBytes, WakeUp, ReadTimeout, ReadEof, ReadError, Dispatch, WriteReply, mastervars
<1>2. AnswerIsGenuine'
  BY <1>0, <1>1 DEF AnswerIsGenuine
<1>3. CASE ReadBytes
  <2>1. FlightInv' /\ (HasLive' => HasLive)
    BY <1>0, <1>3, ReadFlight
  <2>2. UNCHANGED <<slave, asked, back, requests, applied, held, master>>
    BY <1>3 DEF ReadBytes, busvars, mastervars
  <2>3. ~ Writes'
    BY <1>3 DEF ReadBytes, Writes
  <2>4. ReplyInv'
    BY <1>0, <2>1, <2>2, <2>3, ReplyKept
  <2>5. SlaveInv'
    BY <1>0, <2>2 DEF SlaveInv
  <2> QED
    BY <1>2, <2>1, <2>4, <2>5 DEF AnswerInv
<1>4. CASE WakeUp \/ ReadTimeout \/ ReadEof \/ ReadError
  <2>1. FlightInv' /\ (HasLive' => HasLive)
    BY <1>0, <1>4, PumpFlight
  <2>2. UNCHANGED <<slave, asked, back, requests, applied, held, master>>
    BY <1>4 DEF WakeUp, ReadTimeout, ReadEof, ReadError, busvars, mastervars, history
  <2>3. ~ Writes'
    BY <1>4 DEF WakeUp, ReadTimeout, ReadEof, ReadError, Writes
  <2>4. ReplyInv'
    BY <1>0, <2>1, <2>2, <2>3, ReplyKept
  <2>5. SlaveInv'
    BY <1>0, <2>2 DEF SlaveInv
  <2> QED
    BY <1>2, <2>1, <2>4, <2>5 DEF AnswerInv
<1>5. CASE Dispatch
  <2>1. SlaveInv' /\ ReplyInv' /\ (Writes' => HasLive)
    BY <1>0, <1>5, DispatchAnswers
  <2>2. FlightInv'
    BY <1>0, <1>5, <2>1, DispatchFlight
  <2> QED
    BY <1>2, <2>1, <2>2 DEF AnswerInv
<1>6. CASE WriteReply
  <2>1. FlightInv' /\ (HasLive' <=> HasLive)
    BY <1>0, <1>6, PumpFlight
  <2>2. UNCHANGED <<slave, asked, requests, applied, held, master, reply>>
    BY <1>6 DEF WriteReply, busvars, mastervars, history
  <2>3. Writes /\ ~ Writes'
    BY <1>6 DEF WriteReply, Writes, Resume
  <2>4. /\ back = <<>> /\ reply.id = asked /\ Genuine(asked, reply.frame)
        /\ master # "idle" /\ ~ HasLive
    BY <1>0, <2>3 DEF ReplyInv, Replied
  <2>5. ReplyInv'
    <3>1. CASE back' = <<>>
      BY <2>3, <3>1, NoReply
    <3>2. CASE back' # <<>>
      <4>1. back' = <<reply>>
        <5>1. back' = Append(back, reply)
          BY <1>6, <2>4, <3>2 DEF WriteReply
        <5>2. back = <<>>
          BY <2>4
        <5>3. Append(<<>>, reply) = <<reply>>
          OBVIOUS
        <5> QED
          BY <5>1, <5>2, <5>3
      <4>2. back'[1] = reply
        BY <4>1
      <4>3. Answers(requests[asked], applied[asked], held, reply.frame)
        BY <2>4, GenuineIs
      <4>4. Answers(requests'[asked'], applied'[asked'], held', back'[1].frame)
        BY <2>2, <4>2, <4>3
      <4>5. Genuine(asked, back[1].frame)'
        BY <4>4, GenuineIsNext
      <4> QED
        BY <2>1, <2>2, <2>3, <2>4, <4>1, <4>2, <4>5 DEF ReplyInv
    <3> QED
      BY <3>1, <3>2
  <2>6. SlaveInv'
    BY <1>0, <2>2 DEF SlaveInv
  <2> QED
    BY <1>2, <2>1, <2>5, <2>6 DEF AnswerInv
<1> QED
  BY <1>3, <1>4, <1>5, <1>6 DEF Pump

\* The control thread.
LEMMA ControlAnswers ==
  ASSUME AnswerInv, BridgeInv', NEW c \in Commands, Control(c)
  PROVE  AnswerInv'
<1>0. BridgeInv /\ SlaveInv /\ FlightInv /\ ReplyInv /\ AnswerIsGenuine
  BY DEF AnswerInv
<1>1. /\ UNCHANGED <<pc, buf, sock, reply, wait, lag, back, open, applied>>
      /\ UNCHANGED <<master, asked, requests, age, noise, accepted>>
      /\ held \subseteq held'
  BY DEF Control, pumpvars, mastervars
<1>2. FlightInv' /\ (HasLive' <=> HasLive)
  BY <1>0, <1>1, QuietFlight
<1>3. Writes' <=> Writes
  BY <1>1 DEF Writes
<1>4. ReplyInv'
  BY <1>0, <1>1, <1>2, <1>3, ReplyKept
<1>5. SlaveInv'
  BY <1>0, ControlKeepsSlave
<1>6. AnswerIsGenuine'
  BY <1>0, <1>1 DEF AnswerIsGenuine
<1> QED
  BY <1>2, <1>4, <1>5, <1>6 DEF AnswerInv

\* The master begins a request.
LEMMA BeginAnswers ==
  ASSUME AnswerInv, BridgeInv', NEW f \in Asks, Send(f) \/ SendHead(f)
  PROVE  AnswerInv'
<1>0. BridgeInv /\ SlaveInv /\ FlightInv /\ ReplyInv /\ AnswerIsGenuine
  BY DEF AnswerInv
<1>1. FlightInv'
  <2>1. CASE Send(f)
    BY <1>0, <2>1, BeginFlight DEF Send
  <2>2. CASE SendHead(f)
    BY <1>0, <2>2, BeginFlight DEF SendHead
  <2> QED
    BY <2>1, <2>2
<1>2. UNCHANGED <<slave, pc, back, accepted>> /\ master = "idle"
  BY DEF Send, SendHead, Begin, busvars
<1>3. ~ Writes /\ back = <<>>
  BY <1>0, <1>2 DEF ReplyInv, Replied
<1>4. ReplyInv'
  BY <1>2, <1>3, NoReply DEF Writes
<1>5. SlaveInv' /\ AnswerIsGenuine'
  BY <1>0, <1>2 DEF SlaveInv, AnswerIsGenuine
<1> QED
  BY <1>1, <1>4, <1>5 DEF AnswerInv

\* The rest of the request, noise, the VM going, time.
LEMMA LineAnswers ==
  ASSUME AnswerInv, BridgeInv', SendTail \/ LineNoise \/ Close \/ Tick \/ UNCHANGED vars
  PROVE  AnswerInv'
<1>0. BridgeInv /\ SlaveInv /\ FlightInv /\ ReplyInv /\ AnswerIsGenuine
  BY DEF AnswerInv
<1>1. /\ UNCHANGED <<slave, pc, reply, back, asked, requests, applied, held, accepted>>
  BY DEF SendTail, LineNoise, Close, Tick, vars, busvars, pumpvars, mastervars, history
<1>2. master' = "idle" => master = "idle"
  BY DEF SendTail, LineNoise, Close, Tick, vars, mastervars
<1>3. FlightInv' /\ (HasLive' => HasLive)
  <2>1. CASE SendTail
    BY <1>0, <2>1, TailFlight
  <2>2. CASE LineNoise
    BY <1>0, <2>2, NoiseFlight
  <2>3. CASE Close
    <3>1. /\ UNCHANGED <<buf, sock, asked, requests, noise, pc, wait, lag, master, age>>
          /\ open' => open
      BY <2>3 DEF Close, pumpvars, mastervars
    <3> QED
      BY <1>0, <3>1, QuietFlight
  <2>4. CASE Tick
    BY <1>0, <2>4, TickFlight
  <2>5. CASE UNCHANGED vars
    <3>1. /\ UNCHANGED <<buf, sock, asked, requests, noise, pc, wait, lag, master, age>>
          /\ open' => open
      BY <2>5 DEF vars, pumpvars, mastervars
    <3> QED
      BY <1>0, <3>1, QuietFlight
  <2> QED
    BY <2>1, <2>2, <2>3, <2>4, <2>5
<1>4. Writes' <=> Writes
  BY <1>1 DEF Writes
<1>5. ReplyInv'
  BY <1>0, <1>1, <1>2, <1>3, <1>4, ReplyKept
<1>6. SlaveInv' /\ AnswerIsGenuine'
  BY <1>0, <1>1 DEF SlaveInv, AnswerIsGenuine
<1> QED
  BY <1>3, <1>5, <1>6 DEF AnswerInv

\* The master takes the answer.
LEMMA ReceiveAnswers ==
  ASSUME AnswerInv, BridgeInv', Receive
  PROVE  AnswerInv'
<1>0. BridgeInv /\ SlaveInv /\ FlightInv /\ ReplyInv /\ AnswerIsGenuine
  BY DEF AnswerInv
<1>1. /\ UNCHANGED <<slave, buf, sock, pc, wait, lag, open, asked, requests, noise>>
      /\ back # <<>> /\ back' = Tail(back) /\ master' = "idle"
      /\ accepted' = [asked |-> asked, answers |-> Head(back).id,
                      genuine |-> Genuine(asked, Head(back).frame)]
  BY DEF Receive, busvars, pumpvars
<1>2. /\ back = <<back[1]>> /\ back[1].id = asked /\ Genuine(asked, back[1].frame)
      /\ ~ Writes /\ ~ HasLive
  BY <1>0, <1>1 DEF ReplyInv, Replied
<1>3. Head(back) = back[1] /\ Tail(back) = <<>>
  <2>1. PICK x : x = back[1]
    OBVIOUS
  <2>2. back = <<x>>
    BY <1>2, <2>1
  <2> QED
    BY <2>1, <2>2
<1>4. FlightInv'
  BY <1>0, <1>1, <1>2, QuietFlight
<1>5. ReplyInv'
  BY <1>1, <1>2, <1>3, NoReply DEF Writes
<1>6. AnswerIsGenuine'
  <2>1. accepted'.asked = asked /\ accepted'.answers = asked
    BY <1>1, <1>2, <1>3
  <2>2. accepted'.genuine
    BY <1>1, <1>2, <1>3
  <2> QED
    BY <2>1, <2>2 DEF AnswerIsGenuine
<1>7. SlaveInv'
  BY <1>0, <1>1 DEF SlaveInv
<1> QED
  BY <1>4, <1>5, <1>6, <1>7 DEF AnswerInv

\* The master gives up: with a long enough timeout nothing is under way then.
LEMMA GiveUpAnswers ==
  ASSUME AnswerInv, BridgeInv', GiveUp, TIMEOUT > Deadline
  PROVE  AnswerInv'
<1>0. BridgeInv /\ SlaveInv /\ FlightInv /\ ReplyInv /\ AnswerIsGenuine
  BY DEF AnswerInv
<1>1. /\ UNCHANGED <<slave, buf, sock, pc, wait, lag, back, open, asked, requests, noise, accepted>>
      /\ back = <<>> /\ master' = "idle" /\ master = "waiting" /\ open /\ age = TIMEOUT
  BY DEF GiveUp, busvars, pumpvars
<1>2. ~ HasLive /\ ~ Writes
  BY <1>0, <1>1, NothingAtTimeout
<1>3. FlightInv'
  BY <1>0, <1>1, <1>2, QuietFlight
<1>4. ReplyInv'
  BY <1>1, <1>2, NoReply DEF Writes
<1>5. SlaveInv' /\ AnswerIsGenuine'
  BY <1>0, <1>1 DEF SlaveInv, AnswerIsGenuine
<1> QED
  BY <1>3, <1>4, <1>5 DEF AnswerInv

\* Every step keeps the invariant.
LEMMA AnswerNext == TIMEOUT > Deadline => (AnswerInv /\ [Next]_vars => AnswerInv')
<1> SUFFICES ASSUME TIMEOUT > Deadline, AnswerInv, [Next]_vars PROVE AnswerInv'
  OBVIOUS
<1>1. BridgeInv'
  BY BridgeNext DEF AnswerInv
<1>2. CASE Pump
  BY <1>1, <1>2, PumpAnswers
<1>3. ASSUME NEW c \in Commands, Control(c) PROVE AnswerInv'
  BY <1>1, <1>3, ControlAnswers
<1>4. ASSUME NEW f \in Asks, Send(f) \/ SendHead(f) PROVE AnswerInv'
  BY <1>1, <1>4, BeginAnswers
<1>5. CASE SendTail \/ LineNoise \/ Close \/ Tick \/ UNCHANGED vars
  BY <1>1, <1>5, LineAnswers
<1>6. CASE Receive
  BY <1>1, <1>6, ReceiveAnswers
<1>7. CASE GiveUp
  BY <1>1, <1>7, GiveUpAnswers
<1> QED
  BY <1>2, <1>3, <1>4, <1>5, <1>6, <1>7 DEF Next

\* A master patient enough is answered in time.
LEMMA PatientEnough ==
  TIMEOUT >= (MaxNoise + 4) * (GAP + 4 * STALL) => TIMEOUT > Deadline
<1> DEFINE K == GAP + 4 * STALL
<1>1. MaxNoise \in Nat /\ GAP \in Nat /\ STALL \in Nat /\ STALL > 0 /\ K \in Nat /\ TIMEOUT \in Nat
      /\ K > GAP + 2 * STALL
  BY BridgeAssumption, TimeoutAssumption
<1>2. Deadline = (MaxNoise + 3) * K + GAP + 2 * STALL
  BY DEF Deadline, Cost, PerPiece
<1> HIDE DEF K
<1>3. (MaxNoise + 4) * K = (MaxNoise + 3) * K + K /\ (MaxNoise + 3) * K \in Nat
  BY <1>1
<1>4. TIMEOUT >= (MaxNoise + 4) * K => TIMEOUT > Deadline
  BY <1>1, <1>2, <1>3
<1> QED
  BY <1>4 DEF K

\* "the failure mode degrades to a dropped poll, never a phantom reply"
\* (lib.rs:7-10): for a master that waits for the pieces before its answer, each
\* read, gapped, dispatched and written by a pump that may be late, the answer
\* it takes is to its request, with values the registers held together while
\* the request was out.
THEOREM AnswersAreGenuine ==
  TIMEOUT >= (MaxNoise + 4) * (GAP + 4 * STALL) => (Spec => []AnswerIsGenuine)
<1> SUFFICES ASSUME TIMEOUT >= (MaxNoise + 4) * (GAP + 4 * STALL)
             PROVE  Spec => []AnswerIsGenuine
  OBVIOUS
<1>1. Init => AnswerInv
  BY AnswerInit
<1>2. AnswerInv /\ [Next]_vars => AnswerInv'
  BY AnswerNext, PatientEnough
<1>3. AnswerInv => AnswerIsGenuine
  BY DEF AnswerInv
<1> QED
  BY <1>1, <1>2, <1>3, PTL DEF Spec
=============================================================================
