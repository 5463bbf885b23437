--------------------------- MODULE MCRs485Bridge ---------------------------
(* Model-checking instance of Rs485Bridge: one register, two coils, a read   *)
(* and a write of the register, and the control lines that matter to them,   *)
(* one of them out of range.                                                 *)
EXTENDS Rs485Bridge

Frame(fc, b) == [kind |-> "frame", sound |-> TRUE, to |-> "me", fc |-> fc,
                 pdu |-> [form |-> "two_words", a |-> 0, b |-> b]]
MCAsks == {Frame(3, 1), Frame(6, 2)}

Set(bank, addr, val) == [cmd |-> "set", bank |-> bank, addr |-> addr, val |-> val]
MCCommands ==
  {[cmd |-> "drop", n |-> 1], [cmd |-> "exception", n |-> 4], [cmd |-> "clear"],
   Set("holding", 0, 1), Set("holding", 1, 1),
   [cmd |-> "get", bank |-> "coils", addr |-> 1]}
=============================================================================
