------------------------------ MODULE RtcTime ------------------------------
(***************************************************************************)
(* The arithmetic of kernel/rv1106-enablement/rtc/rtc-rockchip.c: the BCD  *)
(* image of a time in the RTC's registers, and the hourly, daily and       *)
(* monthly compensation the driver computes from one count of the 24 MHz   *)
(* reference over two seconds of the 32 kHz clock.                         *)
(***************************************************************************)
EXTENDS Integers

\* linux/bcd.h: x is a C int passed as unsigned, the result an unsigned char.
\* Below 100 the two digits; a negative x still gives a byte.
bin2bcd(x) == LET t == (103 * x) \div 1024 IN (16 * (t % 16)) + ((x - 10 * t) % 16)
bcd2bin(b) == (10 * (b \div 16)) + (b % 16)

yearh(y) == IF y > 199 THEN (y - 100) \div 100 ELSE 0

\* MUTANT of Encode: the century is not taken off the low year register.
EncodeFullYear(tm) ==
  [sec |-> bin2bcd(tm.sec), yl |-> bin2bcd(tm.year - 100), yh |-> bin2bcd(yearh(tm.year))]

\* What set_time and setalarm write, and what read_time and readalarm return.
Encode(tm) ==
  [sec |-> bin2bcd(tm.sec),
   yl  |-> bin2bcd(tm.year - 100 - 100 * yearh(tm.year)),
   yh  |-> bin2bcd(yearh(tm.year))]

Decode(r) ==
  [sec |-> bcd2bin(r.sec % 128), year |-> 100 * bcd2bin(r.yh) + bcd2bin(r.yl) + 100]

rtc_valid_tm(tm) == tm.sec \in 0 .. 59 /\ tm.year >= 70

DefaultTm == [sec |-> 0, year |-> 121]

\* The frequency test: 24 MHz cycles over CLK32K_TEST_LEN + 1 seconds.
g_ref == 24000000 * 2

\* DIV_ROUND_CLOSEST of an unsigned
RoundDiv(n, d) == (n + d \div 2) \div d

Drift(counts) == IF counts > g_ref THEN counts - g_ref ELSE g_ref - counts

\* 36 * (32768 * drift) / (g_ref / 100): the inner product is a u32 and wraps
\* at a drift of 2^17; 36 * 32768 / 480000 is 1536 / 625.
tcamp(counts) == ((Drift(counts) % 131072) * 1536) \div 625

c_hour(counts) == RoundDiv(tcamp(counts), 32768)
c_day(counts)  == RoundDiv(24 * tcamp(counts), 32768)
c_mon(counts)  == RoundDiv(30 * 24 * tcamp(counts), 32768)

DIR_ADD == 128
NO_COMP == 1

\* A compensation register before its encoding: seconds (-1: none) and direction.
HourPart(counts) ==
  [s |-> IF c_hour(counts) > 1 THEN c_hour(counts) - 1 ELSE -1,
   add |-> ~(counts > g_ref)]

\* MUTANT of DayPart: one hour's share is taken off instead of 23.
DayPartOneHour(counts) ==
  LET rest == c_day(counts) - c_hour(counts)
      det  == IF rest > 0 THEN rest ELSE c_hour(counts) * 24 - c_day(counts)
  IN  [s |-> IF det > 1 THEN det - 1 ELSE -1, add |-> rest > 0]

DayPart(counts) ==
  LET rest == c_day(counts) - c_hour(counts) * 23
      det  == IF rest > 0 THEN rest ELSE c_hour(counts) * 24 - c_day(counts)
  IN  [s |-> IF det > 1 THEN det - 1 ELSE -1, add |-> rest > 0]

MonthPart(counts) ==
  LET rest == c_mon(counts) - 29 * c_day(counts) - 23 * c_hour(counts)
      det  == IF rest > 0 THEN rest ELSE -rest
  IN  [s |-> IF det # 0 THEN det - 1 ELSE -1, add |-> rest > 0]

CompReg(p) ==
  IF p.s = -1 THEN NO_COMP
  ELSE IF p.add THEN DIR_ADD + (bin2bcd(p.s) % 128) ELSE bin2bcd(p.s)

Compensation(counts) ==
  [h |-> CompReg(HourPart(counts)), d |-> CompReg(DayPart(counts)),
   m |-> CompReg(MonthPart(counts))]

\* The three compensations a count gives, each within the two digits that leave
\* the direction bit of its register alone.
FitsRegisters(counts) ==
  \A p \in {HourPart(counts), DayPart(counts), MonthPart(counts)} : p.s \in -1 .. 79
=============================================================================
