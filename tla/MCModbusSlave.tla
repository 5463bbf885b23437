--------------------------- MODULE MCModbusSlave ---------------------------
(* Model-checking instance of ModbusSlave: 3-bit bytes, three registers and  *)
(* four bits, and every request frame of these sizes, on both sides of each  *)
(* limit.                                                                    *)
EXTENDS ModbusSlave

MCSeeds == {0, 13}

\* An identity a byte can count, and one byte more than it can.
MCIds   == {<<3>>, [i \in 1 .. 2^BITS |-> 1]}

Starts == 0 .. 4
Counts == 0 .. 5

Frame(fc, pdu) == [kind |-> "frame", sound |-> TRUE, to |-> "me", fc |-> fc, pdu |-> pdu]
Pair(a, b)     == [form |-> "two_words", a |-> a, b |-> b]
Short          == [form |-> "short", a |-> 0, b |-> 0]
Counted(a, b, bytecount, data) ==
  [form |-> "counted", a |-> a, b |-> b, bytecount |-> bytecount, data |-> data]

RegData == {<<>>, <<1, 5>>, <<1, 5, 0, 0>>, <<0, 0, 1, 5>>}
BitData == {<<5>>, <<2, 0>>, <<5, 1>>}

MCRequests ==
  {Frame(fc, Pair(a, b)) : fc \in 1 .. 4, a \in Starts, b \in Counts}
    \cup {Frame(6, Pair(a, b)) : a \in Starts, b \in MCSeeds}
    \cup {Frame(5, Pair(a, b)) : a \in Starts, b \in {0, 1, COIL_ON}}
    \cup {Frame(16, Counted(a, b, Len(d), d)) : a \in 0 .. 3, b \in 0 .. 3, d \in RegData}
    \cup {Frame(15, Counted(a, b, Len(d), d)) : a \in 0 .. 3, b \in 0 .. 4, d \in BitData}
    \cup {Frame(16, Counted(0, 1, 2, <<1, 5, 0>>)), Frame(15, Counted(0, 2, 2, <<1>>))}
    \cup {Frame(fc, Short) : fc \in {1, 3, 5, 6, 15, 16, 17, 43}}
    \cup {Frame(fc, Counted(0, 1, 1, <<1>>)) : fc \in {1, 3, 5, 6}}
    \cup {[Frame(6, Pair(0, 13)) EXCEPT !.sound = FALSE],
          [Frame(6, Pair(0, 13)) EXCEPT !.to = "other"],
          [Frame(6, Pair(0, 13)) EXCEPT !.to = "all"]}

\* The last exchange is a history nothing reads.
View == dev
=============================================================================
