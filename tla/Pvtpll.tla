------------------------------ MODULE Pvtpll ------------------------------
(***************************************************************************)
(* Calibration of the PVT ring oscillators, kernel/.../clk/clk-rv1106.c:   *)
(* 300 ms after boot the driver lengthens a ring that runs too fast until  *)
(* its measured rate is within 1/32 of the target, or gives up. The two    *)
(* rings in the CRU and the CPU's ring in the GRF have a function each,    *)
(* alike but for three lines.                                              *)
(*                                                                         *)
(* The ring is external: a rate that does not grow with the length, and    *)
(* that drops once, at any moment, as the chip warms up. Rates are in MHz. *)
(***************************************************************************)
EXTENDS Integers

CONSTANTS
  MASK,       \* PVTPLL_LENGTH_SEL_MASK, the largest length the field holds
  CpuLength,  \* the length rockchip_rv1106_pvtpll_init gives the CPU's ring
  Rates,      \* rates a ring may run at
  Target,     \* the rate asked for
  Drift,      \* by how much the ring slows down when it does
  MAX_TRIES   \* the corrections after which the search gives up (20)

ASSUME FieldAssumption == MASK \in Nat /\ CpuLength \in 0 .. MASK - 1
ASSUME RateAssumption == Rates \subseteq Nat /\ Target \in Nat /\ Drift \in Nat
ASSUME WarmAssumption == \A r \in Rates : r >= Drift
ASSUME TriesAssumption == MAX_TRIES \in Nat

\* What the registers of the CPU's ring hold above the length field.
HighBits == {0, MASK + 1}

MIN_STEP == 5

VARIABLES
  ring,     \* "cru" or "grf"
  f,        \* the rate of the ring at each length, cold
  warm,     \* the ring has slowed down
  high,     \* the other bits of the length register
  field,    \* the length the hardware uses
  pc,       \* where the calibration is
  length,   \* the driver's variable, unsigned and wider than the field
  length_ori, rate0, i

ringvars == <<ring, f, warm, high, field, pc, length, length_ori, rate0, i>>

\* Type correctness of the ring and of the calibration's variables.
RingTypeOK ==
  /\ ring \in {"cru", "grf"} /\ f \in [0 .. MASK -> Rates]
  /\ warm \in BOOLEAN /\ high \in HighBits /\ field \in 0 .. MASK
  /\ pc \in {"start", "second", "loop", "done"}
  /\ length \in Nat /\ length_ori \in Nat /\ rate0 \in Nat
  /\ i \in 0 .. MAX_TRIES + 1

-----------------------------------------------------------------------------
\* The measured rate: OSC_CNT_AVG.
Count == f[field] - (IF warm THEN Drift ELSE 0)

Abs(n) == IF n < 0 THEN - n ELSE n

\* Within 3.125 % of the target: less than target_rate >> 5 away.
Close(rate) == Abs(rate - Target) < Target \div 32

\* The length rockchip_rv1106_pvtpll_init leaves in the field.
rockchip_rv1106_pvtpll_init == IF ring = "cru" THEN 0 ELSE CpuLength

\* HIWORD_UPDATE does not mask its value; the write mask makes the hardware
\* take the low bits.
Write(l) == field' = l % (MASK + 1)

Finish == pc' = "done" /\ UNCHANGED <<field, length, length_ori, rate0, i>>

\* The first reading: slow or close enough, nothing is done; otherwise one
\* more stage. The GRF function compares with an unmasked length later on.
Start ==
  /\ pc = "start"
  /\ IF Count < Target \/ Count - Target < Target \div 32 THEN Finish
     ELSE /\ rate0' = Count
          /\ length_ori' = field + (IF ring = "grf" THEN high ELSE 0)
          /\ length' = field + 1
          /\ Write(field + 1)
          /\ pc' = "second"
          /\ UNCHANGED i
  /\ UNCHANGED <<ring, f, warm, high>>

\* What one more stage costs. The CRU function takes no less than five, the
\* GRF one has given up if the rate did not fall.
Slope(rate1) ==
  IF ring = "grf" THEN rate0 - rate1
  ELSE IF rate0 - rate1 > MIN_STEP THEN rate0 - rate1 ELSE MIN_STEP

\* The second reading: slow or close enough, it ends; otherwise a jump by the
\* slope just measured.
Second ==
  /\ pc = "second"
  /\ IF \/ Count < Target \/ Close(Count)
        \/ ring = "grf" /\ Count >= rate0
     THEN Finish
     ELSE /\ length' = length + (Count - Target) \div Slope(Count)
          /\ Write(length')
          /\ pc' = "loop"
          /\ UNCHANGED <<length_ori, rate0, i>>
  /\ UNCHANGED <<ring, f, warm, high>>

\* MUTANT of Stop: the length may sink below where it started.
StopOnlyTired(l) == i > MAX_TRIES

\* The loop's two breaks: too many tries, and back where it started.
Stop(l) == i > MAX_TRIES \/ l <= length_ori

\* MUTANT of Correct: the correction goes the wrong way.
CorrectBackwards == IF Count > Target THEN length - 1 ELSE length + 1

\* One stage more or less, by the last reading.
Correct == IF Count > Target THEN length + 1 ELSE length - 1

\* MUTANT of Tries: the tries are not counted.
TriesNotCounted == i

\* i++
Tries == i + 1

\* One turn of the loop.
Loop ==
  /\ pc = "loop"
  /\ IF Close(Count) \/ Stop(Correct) THEN Finish
     ELSE /\ i' = Tries
          /\ length' = Correct
          /\ Write(Correct)
          /\ UNCHANGED <<pc, length_ori, rate0>>
  /\ UNCHANGED <<ring, f, warm, high>>

WarmUp ==
  /\ ~ warm
  /\ warm' = TRUE
  /\ UNCHANGED <<ring, f, high, field, pc, length, length_ori, rate0, i>>

-----------------------------------------------------------------------------
Falling == {g \in [0 .. MASK -> Rates] :
              \A l, m \in 0 .. MASK : l <= m => g[m] <= g[l]}

RingInit ==
  /\ ring \in {"cru", "grf"}
  /\ f \in Falling
  /\ warm = FALSE
  /\ high \in HighBits
  /\ field = rockchip_rv1106_pvtpll_init
  /\ pc = "start" /\ length = field /\ length_ori = field /\ rate0 = 0 /\ i = 0

rockchip_rv1106_pvtpll_calibrate == Start \/ Second \/ Loop

RingNext == rockchip_rv1106_pvtpll_calibrate \/ WarmUp

\* The work runs on a workqueue to its end.
RingSpec == RingInit /\ [][RingNext]_ringvars /\ WF_ringvars(rockchip_rv1106_pvtpll_calibrate)

-----------------------------------------------------------------------------
\* The jump or the loop asked for a length the field does not hold.
Wrapped == length > MASK

\* The calibration never leaves a ring shorter, and so faster, than it found
\* it, warm or cold, unless it asked for a length past the field's end.
RingNotShortened == ~ Wrapped => field >= rockchip_rv1106_pvtpll_init

\* A ring that stays as warm as it was ends close to the target if any length
\* it could be given does; not claimed when the search gave up after its tries,
\* when the field wrapped, when the CPU's ring did not slow down with the first
\* stage, or when the bits above its length field are not zero.
CloseIsFound ==
  LET from == rockchip_rv1106_pvtpll_init IN
  pc = "done" /\ i <= MAX_TRIES /\ ~ warm /\ ~ Wrapped
    /\ (ring = "grf" => high = 0 /\ f[from + 1] < f[from])
    /\ (\E l \in from .. MASK : Close(f[l]))
    => Close(f[field])

\* It ends, also where two neighbouring lengths lie on either side of the
\* target and neither is close.
CalibrationEnds == <>(pc = "done")

=============================================================================
