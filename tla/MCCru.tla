------------------------------- MODULE MCCru -------------------------------
(***************************************************************************)
(* The clock and reset unit for TLC: the reset ladder and a ring           *)
(* oscillator. They share no variable and every property speaks of one of  *)
(* them, so that the ladder need not move beside every state of every      *)
(* ring: it moves beside one ring, whose calibration is over.              *)
(***************************************************************************)
EXTENDS Cru, Pvtpll

RingAtRest ==
  pc = "done" /\ warm /\ ring = "cru" /\ high = 0 /\ f = [l \in 0 .. MASK |-> Target]

CruInit == Init /\ RingInit

CruNext == \/ Next /\ RingAtRest /\ UNCHANGED ringvars
           \/ RingNext /\ UNCHANGED vars

\* The calibration's fairness is that of RingSpec.
CruSpec ==
  /\ CruInit /\ [][CruNext]_<<vars, ringvars>>
  /\ WF_ringvars(rockchip_rv1106_pvtpll_calibrate /\ UNCHANGED vars)
=============================================================================
