------------------------------- MODULE MCRtc -------------------------------
(* Model-checking instance of Rtc. *)
EXTENDS Rtc

\* A second before a BCD carry, on either side of the year register's carry.
MCTimes  == {[sec |-> 9, year |-> 199], [sec |-> 9, year |-> 200]}
MCAlarms == {[sec |-> 10, year |-> 200]}

\* The largest drift before the u32 product wraps.
MCCounts == {48131071}
=============================================================================
