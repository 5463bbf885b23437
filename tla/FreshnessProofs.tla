-------------------------- MODULE FreshnessProofs --------------------------
(***************************************************************************)
(* Proofs about Freshness, for any table size, pages, sources, values,     *)
(* budgets, tick period, clock width and starting clock word.              *)
(***************************************************************************)
EXTENDS Freshness, WellFoundedInduction, TLAPS

\* What the engine knows of a bound slot: v is its binding, w its widget and
\* t the time. last_ok is the clock word of the time the source last vouched
\* for the value, last is that value, and the screen holds it, the mark, or
\* what the page builder drew.
BoundInv(v, w, t) ==
  /\ v \in Binding /\ v.used
  /\ w \in Widget
  /\ w.confirmed_at <= w.checked_at /\ w.checked_at <= t
  /\ v.last = w.confirmed
  /\ v.ever_ok => v.last_ok = (w.confirmed_at + Epoch) % TimeMod /\ v.last \in Values
  /\ ~ v.ever_ok => v.last = Blank /\ w.shown \notin Values
  /\ v.showing_unknown => w.shown = Mark
  /\ w.shown \in Values => w.shown = v.last
  /\ v.ever_ok /\ ~ v.showing_unknown => w.shown = v.last
  /\ w.confirmed # Blank /\ w.confirmed_at = w.checked_at => w.shown = w.confirmed

\* A value on the screen was confirmed within its budget of the last look.
FreshSlot(v, w) ==
  w.shown \in Values => w.checked_at - w.confirmed_at <= v.max_stale

\* The invariant of the table: a slot is free or bound as above.
TableInv ==
  /\ now \in 0 .. MaxTime /\ last_tick \in 0 .. MaxTime
  /\ s_vals \in [Slots -> Binding \cup {Free}]
  /\ widgets \in [Slots -> Widget]
  /\ \A i \in Slots : s_vals[i] # Free => BoundInv(s_vals[i], widgets[i], now)

\* No value stays on a screen unconfirmed for a whole period of the clock
\* word (2^32 ms, 49.7 days): past that the unsigned age starts over.
ConfirmedThisPeriod ==
  \A i \in Used : widgets[i].shown \in Values => now - widgets[i].confirmed_at < TimeMod

-----------------------------------------------------------------------------
\* The unsigned difference of two clock words less than a period apart is the
\* real time between them: freshness.c's age is right across a wrap.
LEMMA ModDiff ==
  ASSUME NEW M \in Nat \ {0}, NEW a \in Nat, NEW b \in Nat, b <= a, a - b < M
  PROVE  ((a % M) - (b % M)) % M = a - b
<1>1. PICK qa \in Int, ra \in 0 .. M - 1 : a = M * qa + ra /\ a % M = ra
  <2>1. a = M * (a \div M) + (a % M) /\ a \div M \in Int /\ a % M \in 0 .. M - 1
    OBVIOUS
  <2> QED BY <2>1
<1>2. PICK qb \in Int, rb \in 0 .. M - 1 : b = M * qb + rb /\ b % M = rb
  <2>1. b = M * (b \div M) + (b % M) /\ b \div M \in Int /\ b % M \in 0 .. M - 1
    OBVIOUS
  <2> QED BY <2>1
<1>3. \A q \in Int, x \in 0 .. M - 1 : (q * M + x) % M = x
  OBVIOUS
<1>4. (qb - qa) \in Int /\ a - b \in 0 .. M - 1
  OBVIOUS
<1>5. ra - rb = (qb - qa) * M + (a - b)
  <2>1. \A x, y \in Int : (x - y) * M = M * x - M * y
    OBVIOUS
  <2>2. (qb - qa) * M = M * qb - M * qa
    BY <2>1
  <2>3. PICK A \in Int, B \in Int : A = M * qa /\ B = M * qb
    OBVIOUS
  <2>4. a = A + ra /\ b = B + rb
    BY <1>1, <1>2, <2>3
  <2>5. (qb - qa) * M = B - A
    BY <2>2, <2>3
  <2>6. ra \in Int /\ rb \in Int
    OBVIOUS
  <2>7. \A X \in Int : X = B - A => ra - rb = X + (a - b)
    BY <2>4, <2>6
  <2> QED
    BY <2>5, <2>7
<1>6. ((qb - qa) * M + (a - b)) % M = a - b
  BY <1>3, <1>4
<1>7. (ra - rb) % M = a - b
  BY <1>5, <1>6
<1> QED
  BY <1>1, <1>2, <1>7

\* A clock word is in its range.
LEMMA ClockWord == \A t \in Nat : (t + Epoch) % TimeMod \in 0 .. TimeMod - 1
BY FreshnessAssumption

\* A binding and a widget, field by field.
LEMMA FieldsOf ==
  /\ \A v \in Binding :
       /\ v.used \in BOOLEAN /\ v.visible \in BOOLEAN /\ v.ever_ok \in BOOLEAN
       /\ v.showing_unknown \in BOOLEAN
       /\ v.last_ok \in 0 .. TimeMod - 1 /\ v.last \in Values \cup {Blank}
       /\ v.max_stale \in Nat
  /\ \A w \in Widget :
       /\ w.shown \in Values \cup {Blank, Mark} /\ w.confirmed \in Values \cup {Blank}
       /\ w.checked_at \in Nat /\ w.confirmed_at \in Nat
BY FreshnessAssumption DEF Binding, Widget

\* Values are told apart from what is painted instead of one.
LEMMA MarksAreNoValues == Blank \notin Values /\ Mark \notin Values /\ Blank # Mark
BY FreshnessAssumption DEF Blank, Mark

\* refresh_one when the producer answers OK: the value is taken and painted.
LEMMA RefreshOk ==
  ASSUME NEW v \in Binding, NEW w \in Widget, NEW a \in Answers, a.result = "ok"
  PROVE  /\ a.value \in Values
         /\ RefreshOne(v, a) = [v EXCEPT !.last = a.value, !.last_ok = Clock,
                                         !.ever_ok = TRUE, !.showing_unknown = FALSE]
         /\ Paint(v, a, w) = [shown |-> a.value, checked_at |-> now,
                              confirmed |-> a.value, confirmed_at |-> now]
<1>1. Verdict(v, a) = "value"
  BY DEF Verdict, Decide
<1>2. a.value \in Values
  BY DEF Answers
<1> QED
  BY <1>1, <1>2 DEF RefreshOne, Paint

\* refresh_one when it answers SAME: the value held is vouched for again, and
\* painted if the mark was on the screen.
LEMMA RefreshSame ==
  ASSUME NEW v \in Binding, NEW w \in Widget, NEW a \in Answers, a.result = "same"
  PROVE  /\ RefreshOne(v, a) = [v EXCEPT !.last_ok = Clock, !.ever_ok = TRUE,
                                         !.showing_unknown = FALSE]
         /\ Paint(v, a, w) = [shown |-> IF v.showing_unknown THEN v.last ELSE w.shown,
                              checked_at |-> now,
                              confirmed |-> w.confirmed, confirmed_at |-> now]
<1>1. Verdict(v, a) = IF v.showing_unknown THEN "value" ELSE "nochange"
  BY DEF Verdict, Decide
<1>2. v.showing_unknown \in BOOLEAN /\ v.ever_ok \in BOOLEAN
  BY FieldsOf
<1>3. CASE v.showing_unknown
  BY <1>1, <1>2, <1>3 DEF RefreshOne, Paint
<1>4. CASE ~ v.showing_unknown
  <2>1. v.showing_unknown = FALSE
    BY <1>2, <1>4
  <2>2. v = [v EXCEPT !.showing_unknown = FALSE]
    BY <2>1 DEF Binding
  <2> QED
    BY <1>1, <1>2, <1>4, <2>1, <2>2 DEF RefreshOne, Paint
<1> QED
  BY <1>3, <1>4

\* The age refresh_one compares with the budget, and when it gives up.
Expired(v) == ~ v.ever_ok \/ (Clock - v.last_ok) % TimeMod > v.max_stale

\* refresh_one when the source cannot be evaluated: the mark once the value
\* expired, and until then nothing but the look.
LEMMA RefreshUnknown ==
  ASSUME NEW v \in Binding, NEW w \in Widget, NEW a \in Answers, a.result = "unknown"
  PROVE  /\ RefreshOne(v, a) = [v EXCEPT !.showing_unknown = IF Expired(v) THEN TRUE ELSE @]
         /\ Paint(v, a, w) = [shown |-> IF Expired(v) THEN Mark ELSE w.shown,
                              checked_at |-> now, confirmed |-> w.confirmed,
                              confirmed_at |-> w.confirmed_at]
<1>1. Verdict(v, a) = IF Expired(v) THEN "unknown" ELSE "nochange"
  BY DEF Verdict, Decide, Expired
<1>2. v.showing_unknown \in BOOLEAN /\ v.ever_ok \in BOOLEAN
  BY FieldsOf
<1>3. CASE Expired(v)
  BY <1>1, <1>2, <1>3 DEF RefreshOne, Paint
<1>4. CASE ~ Expired(v)
  BY <1>1, <1>2, <1>4 DEF RefreshOne, Paint
<1> QED
  BY <1>3, <1>4

\* A look at a bound slot leaves it bound, and the screen as its source says.
LEMMA RefreshKeepsBound ==
  ASSUME now \in Nat, NEW v, NEW w, BoundInv(v, w, now),
         NEW a \in Answers, MayAnswer(v, a)
  PROVE  BoundInv(RefreshOne(v, a), Paint(v, a, w), now)
<1>1. v \in Binding /\ w \in Widget /\ v.used
  BY DEF BoundInv
<1>2. Clock \in 0 .. TimeMod - 1 /\ Clock = (now + Epoch) % TimeMod
  BY ClockWord DEF Clock
<1>3. CASE a.result = "ok"
  <2>1. a.value \in Values
    BY <1>1, <1>3, RefreshOk
  <2> DEFINE u == [v EXCEPT !.last = a.value, !.last_ok = Clock,
                            !.ever_ok = TRUE, !.showing_unknown = FALSE]
             x == [shown |-> a.value, checked_at |-> now,
                   confirmed |-> a.value, confirmed_at |-> now]
  <2>2. u \in Binding /\ x \in Widget
    BY <1>1, <1>2, <2>1 DEF Binding, Widget
  <2>3. /\ u.last = a.value /\ u.last_ok = Clock /\ u.ever_ok
        /\ ~ u.showing_unknown /\ u.used
    BY <1>1 DEF Binding
  <2>4. BoundInv(u, x, now)
    BY <1>2, <2>1, <2>2, <2>3, MarksAreNoValues DEF BoundInv
  <2>5. RefreshOne(v, a) = u /\ Paint(v, a, w) = x
    BY <1>1, <1>3, RefreshOk
  <2> QED
    <3> HIDE DEF u, x
    <3> QED
      BY <2>4, <2>5
<1>4. CASE a.result = "same"
  <2>1. v.ever_ok /\ v.last \in Values /\ v.last = w.confirmed
    BY <1>1, <1>4, FieldsOf DEF BoundInv, MayAnswer
  <2>2. (IF v.showing_unknown THEN v.last ELSE w.shown) = v.last
    BY <2>1 DEF BoundInv
  <2> DEFINE u == [v EXCEPT !.last_ok = Clock, !.ever_ok = TRUE,
                            !.showing_unknown = FALSE]
             x == [shown |-> v.last, checked_at |-> now,
                   confirmed |-> w.confirmed, confirmed_at |-> now]
  <2>3. u \in Binding /\ x \in Widget
    BY <1>1, <1>2, <2>1 DEF Binding, Widget
  <2>4. /\ u.last = v.last /\ u.last_ok = Clock /\ u.ever_ok
        /\ ~ u.showing_unknown /\ u.used
    BY <1>1 DEF Binding
  <2>5. BoundInv(u, x, now)
    BY <1>2, <2>1, <2>3, <2>4, MarksAreNoValues DEF BoundInv
  <2>6. Paint(v, a, w) = x
    BY <1>1, <1>4, <2>2, RefreshSame
  <2> QED
    BY <1>1, <1>4, <2>5, <2>6, RefreshSame
<1>5. CASE a.result = "unknown"
  <2> DEFINE u == [v EXCEPT !.showing_unknown = IF Expired(v) THEN TRUE ELSE @]
             x == [shown |-> IF Expired(v) THEN Mark ELSE w.shown,
                   checked_at |-> now, confirmed |-> w.confirmed,
                   confirmed_at |-> w.confirmed_at]
  <2>1. u \in Binding /\ x \in Widget
    BY <1>1 DEF Binding, Widget
  <2>2. /\ u.last = v.last /\ u.last_ok = v.last_ok /\ u.ever_ok = v.ever_ok
        /\ u.used
        /\ u.showing_unknown = IF Expired(v) THEN TRUE ELSE v.showing_unknown
    BY <1>1 DEF Binding
  <2>3. w.confirmed_at <= now
    BY <1>1, FieldsOf DEF BoundInv
  <2>4. w.confirmed_at = now => w.confirmed_at = w.checked_at
    BY <1>1, FieldsOf DEF BoundInv
  <2>a. w.confirmed # Blank /\ w.confirmed_at = now => ~ Expired(v)
    <3> SUFFICES ASSUME w.confirmed # Blank, w.confirmed_at = now PROVE ~ Expired(v)
      OBVIOUS
    <3>1. v.ever_ok /\ v.last_ok = Clock
      BY <1>2 DEF BoundInv
    <3>2. Clock - v.last_ok = 0 /\ 0 % TimeMod = 0
      BY <1>2, <3>1, FreshnessAssumption
    <3> QED
      BY <1>1, <3>1, <3>2, FieldsOf DEF Expired
  <2>b. w.confirmed # Blank /\ w.confirmed_at = now => x.shown = w.confirmed
    BY <2>4, <2>a DEF BoundInv
  <2>c. x.shown \in Values => x.shown = w.shown /\ ~ Expired(v)
    BY MarksAreNoValues
  <2>d. x.shown \in Values => x.shown = v.last
    BY <2>c DEF BoundInv
  <2>e. ~ v.ever_ok => v.last = Blank /\ x.shown \notin Values
    BY <2>c DEF BoundInv
  <2>f. u.showing_unknown => x.shown = Mark
    BY <2>2 DEF BoundInv
  <2>g. v.ever_ok /\ ~ u.showing_unknown => x.shown = v.last
    BY <2>2 DEF BoundInv
  <2>h. x.checked_at = now /\ x.confirmed = w.confirmed /\ x.confirmed_at = w.confirmed_at
    OBVIOUS
  <2>i. /\ v.last = w.confirmed
        /\ v.ever_ok => v.last_ok = (w.confirmed_at + Epoch) % TimeMod /\ v.last \in Values
    BY DEF BoundInv
  <2> HIDE DEF u, x
  <2>5. BoundInv(u, x, now)
    BY <2>1, <2>2, <2>3, <2>b, <2>d, <2>e, <2>f, <2>g, <2>h, <2>i DEF BoundInv
  <2> USE DEF u, x
  <2> QED
    BY <1>1, <1>5, <2>5, RefreshUnknown
<1> QED
  BY <1>3, <1>4, <1>5 DEF Answers

\* A look at a slot confirmed this period leaves a value within its budget, or
\* none: the age compared is the real one.
LEMMA RefreshKeepsFresh ==
  ASSUME now \in Nat, NEW v, NEW w, BoundInv(v, w, now), FreshSlot(v, w),
         w.shown \in Values => now - w.confirmed_at < TimeMod,
         NEW a \in Answers
  PROVE  FreshSlot(RefreshOne(v, a), Paint(v, a, w))
<1>1. v \in Binding /\ w \in Widget /\ v.max_stale \in Nat
  BY FieldsOf DEF BoundInv
<1>2. CASE a.result = "ok"
  <2>1. RefreshOne(v, a) = [v EXCEPT !.last = a.value, !.last_ok = Clock,
                                     !.ever_ok = TRUE, !.showing_unknown = FALSE]
    BY <1>1, <1>2, RefreshOk
  <2>2. RefreshOne(v, a).max_stale = v.max_stale
    BY <1>1, <2>1 DEF Binding
  <2>3. Paint(v, a, w) = [shown |-> a.value, checked_at |-> now,
                          confirmed |-> a.value, confirmed_at |-> now]
    BY <1>1, <1>2, RefreshOk
  <2>4. Paint(v, a, w).checked_at = now /\ Paint(v, a, w).confirmed_at = now
    BY <2>3
  <2> QED
    BY <1>1, <2>2, <2>4 DEF FreshSlot
<1>3. CASE a.result = "same"
  <2>1. RefreshOne(v, a) = [v EXCEPT !.last_ok = Clock, !.ever_ok = TRUE,
                                     !.showing_unknown = FALSE]
    BY <1>1, <1>3, RefreshSame
  <2>2. RefreshOne(v, a).max_stale = v.max_stale
    BY <1>1, <2>1 DEF Binding
  <2>3. Paint(v, a, w) = [shown |-> IF v.showing_unknown THEN v.last ELSE w.shown,
                          checked_at |-> now,
                          confirmed |-> w.confirmed, confirmed_at |-> now]
    BY <1>1, <1>3, RefreshSame
  <2>4. Paint(v, a, w).checked_at = now /\ Paint(v, a, w).confirmed_at = now
    BY <2>3
  <2> QED
    BY <1>1, <2>2, <2>4 DEF FreshSlot
<1>4. CASE a.result = "unknown"
  <2>a. RefreshOne(v, a) = [v EXCEPT !.showing_unknown = IF Expired(v) THEN TRUE ELSE @]
    BY <1>1, <1>4, RefreshUnknown
  <2>1. RefreshOne(v, a).max_stale = v.max_stale
    BY <1>1, <2>a DEF Binding
  <2>b. Paint(v, a, w) = [shown |-> IF Expired(v) THEN Mark ELSE w.shown,
                          checked_at |-> now, confirmed |-> w.confirmed,
                          confirmed_at |-> w.confirmed_at]
    BY <1>1, <1>4, RefreshUnknown
  <2>2. /\ Paint(v, a, w).checked_at = now
        /\ Paint(v, a, w).confirmed_at = w.confirmed_at
        /\ Paint(v, a, w).shown = IF Expired(v) THEN Mark ELSE w.shown
    BY <2>b
  <2>3. ASSUME ~ Expired(v), w.shown \in Values
        PROVE  now - w.confirmed_at <= v.max_stale
    <3>1. v.ever_ok /\ v.last_ok = (w.confirmed_at + Epoch) % TimeMod
      BY <2>3 DEF BoundInv
    <3>2. w.confirmed_at \in Nat /\ w.confirmed_at <= now
      BY <1>1, FieldsOf DEF BoundInv
    <3>3. PICK x \in Nat, y \in Nat : x = now + Epoch /\ y = w.confirmed_at + Epoch
      BY <3>2, FreshnessAssumption
    <3>4. y <= x /\ x - y = now - w.confirmed_at /\ x - y < TimeMod
      BY <2>3, <3>2, <3>3, FreshnessAssumption
    <3>5. ((x % TimeMod) - (y % TimeMod)) % TimeMod = x - y
      <4>1. TimeMod \in Nat \ {0}
        BY FreshnessAssumption
      <4> QED
        BY <3>4, <4>1, ModDiff
    <3>6. (Clock - v.last_ok) % TimeMod = now - w.confirmed_at
      BY <3>1, <3>3, <3>4, <3>5 DEF Clock
    <3> QED
      BY <1>1, <2>3, <3>1, <3>2, <3>6 DEF Expired
  <2> QED
    BY <2>1, <2>2, <2>3, MarksAreNoValues DEF FreshSlot
<1> QED
  BY <1>2, <1>3, <1>4 DEF Answers

\* The freshness of every bound slot.
TableFresh == \A i \in Slots : s_vals[i] # Free => FreshSlot(s_vals[i], widgets[i])

\* A used slot is a bound one.
LEMMA UsedIsBound ==
  ASSUME TableInv
  PROVE  \A i \in Used : /\ i \in Slots /\ s_vals[i] # Free
                         /\ BoundInv(s_vals[i], widgets[i], now)
BY DEF TableInv, Used, Free

\* Conversely, a bound slot is a used one.
LEMMA BoundIsUsed ==
  ASSUME TableInv, NEW i \in Slots, s_vals[i] # Free
  PROVE  i \in Used
BY DEF TableInv, Used, BoundInv

\* Refreshing bound slots keeps the table; tab is s_vals but for visibility.
LEMMA RefreshAllKeeps ==
  ASSUME TableInv, NEW S \in SUBSET Slots,
         NEW tab \in [Slots -> Binding \cup {Free}],
         \A i \in S : tab[i] # Free,
         \A i \in Slots : tab[i] # Free => BoundInv(tab[i], widgets[i], now),
         RefreshAll(S, tab), now' = now, last_tick' \in 0 .. MaxTime
  PROVE  /\ TableInv'
         /\ (\A i \in Slots : tab[i] # Free =>
               /\ FreshSlot(tab[i], widgets[i])
               /\ widgets[i].shown \in Values =>
                    now - widgets[i].confirmed_at < TimeMod)
            => TableFresh'
<1>1. PICK answer \in [S -> Answers] :
        /\ \A i \in S : MayAnswer(tab[i], answer[i])
        /\ s_vals' = [i \in Slots |-> IF i \in S THEN RefreshOne(tab[i], answer[i])
                                                 ELSE tab[i]]
        /\ widgets' = [i \in Slots |-> IF i \in S
                                       THEN Paint(tab[i], answer[i], widgets[i])
                                       ELSE widgets[i]]
  BY DEF RefreshAll
<1>2. now \in Nat
  BY FreshnessAssumption DEF TableInv
<1>3. \A i \in S : BoundInv(s_vals'[i], widgets'[i], now)
  BY <1>1, <1>2, RefreshKeepsBound
<1>4. \A i \in Slots \ S : s_vals'[i] = tab[i] /\ widgets'[i] = widgets[i]
  BY <1>1
<1>5. \A i \in Slots : s_vals'[i] \in Binding \cup {Free} /\ widgets'[i] \in Widget
  BY <1>3, <1>4 DEF BoundInv, TableInv
<1>6. /\ s_vals' \in [Slots -> Binding \cup {Free}]
      /\ widgets' \in [Slots -> Widget]
  BY <1>1, <1>5
<1>7. TableInv'
  BY <1>3, <1>4, <1>6 DEF TableInv
<1>8. ASSUME \A i \in Slots : tab[i] # Free =>
               /\ FreshSlot(tab[i], widgets[i])
               /\ widgets[i].shown \in Values =>
                    now - widgets[i].confirmed_at < TimeMod
      PROVE  TableFresh'
  <2>1. \A i \in S : FreshSlot(s_vals'[i], widgets'[i])
    BY <1>1, <1>2, <1>8, RefreshKeepsFresh
  <2> QED
    BY <1>4, <1>8, <2>1 DEF TableFresh
<1> QED
  BY <1>7, <1>8

\* What the freshness of the table needs of the state before a step.
FreshBefore == TableFresh /\ ConfirmedThisPeriod

\* Setting the visibility of a page's slots leaves every other field alone.
LEMMA VisibleKeeps ==
  ASSUME NEW v, NEW w, BoundInv(v, w, now), NEW b \in BOOLEAN
  PROVE  /\ BoundInv([v EXCEPT !.visible = b], w, now)
         /\ [v EXCEPT !.visible = b].max_stale = v.max_stale
         /\ [v EXCEPT !.visible = b] # Free
<1> DEFINE u == [v EXCEPT !.visible = b]
<1>1. v \in Binding
  BY DEF BoundInv
<1>2. u \in Binding
  BY <1>1 DEF Binding
<1>3. /\ u.used = v.used /\ u.last = v.last /\ u.last_ok = v.last_ok
      /\ u.ever_ok = v.ever_ok /\ u.showing_unknown = v.showing_unknown
      /\ u.max_stale = v.max_stale
  BY <1>1 DEF Binding
<1> HIDE DEF u
<1>4. BoundInv(u, w, now)
  BY <1>2, <1>3 DEF BoundInv
<1>5. u # Free
  <2>1. v.used = TRUE
    BY <1>1, FieldsOf DEF BoundInv
  <2>2. Free.used = FALSE
    BY DEF Free
  <2> QED
    BY <1>3, <2>1, <2>2
<1> QED
  BY <1>3, <1>4, <1>5 DEF u

\* The table a page's visibility leaves, as SetVisible and PageShow make it.
LEMMA VisibleTable ==
  ASSUME TableInv, NEW page \in Pages, NEW b \in BOOLEAN, NEW tab,
         tab = [i \in Slots |-> IF i \in OnPage(page)
                                THEN [s_vals[i] EXCEPT !.visible = b] ELSE s_vals[i]]
  PROVE  /\ tab \in [Slots -> Binding \cup {Free}]
         /\ OnPage(page) \in SUBSET Slots
         /\ \A i \in OnPage(page) : tab[i] # Free
         /\ \A i \in Slots : tab[i] # Free =>
              /\ BoundInv(tab[i], widgets[i], now)
              /\ s_vals[i] # Free /\ i \in Used
              /\ tab[i].max_stale = s_vals[i].max_stale
<1>1. \A i \in OnPage(page) : i \in Used /\ i \in Slots
  BY DEF OnPage, Used
<1>2. \A i \in OnPage(page) :
        /\ s_vals[i] # Free /\ tab[i] # Free
        /\ BoundInv(tab[i], widgets[i], now)
        /\ tab[i].max_stale = s_vals[i].max_stale
  BY <1>1, UsedIsBound, VisibleKeeps
<1>3. \A i \in Slots \ OnPage(page) : tab[i] = s_vals[i]
  OBVIOUS
<1>4. \A i \in Slots : tab[i] \in Binding \cup {Free}
  BY <1>2, <1>3 DEF BoundInv, TableInv
<1>5. \A i \in Slots : tab[i] # Free =>
              /\ BoundInv(tab[i], widgets[i], now)
              /\ s_vals[i] # Free
              /\ tab[i].max_stale = s_vals[i].max_stale
  BY <1>2, <1>3 DEF TableInv
<1>6. \A i \in Slots : s_vals[i] # Free => i \in Used
  BY BoundIsUsed
<1>7. tab \in [Slots -> Binding \cup {Free}]
  BY <1>4
<1>8. OnPage(page) \in SUBSET Slots
  BY <1>1
<1> QED
  BY <1>2, <1>5, <1>6, <1>7, <1>8

\* Every step keeps the table, and its freshness.
LEMMA TableNext ==
  ASSUME TableInv, [Next]_vars
  PROVE  TableInv' /\ (FreshBefore => TableFresh')
<1>1. now \in 0 .. MaxTime /\ now \in Nat /\ last_tick \in 0 .. MaxTime
  BY FreshnessAssumption DEF TableInv
<1>2. ASSUME NEW p \in Pages, NEW src \in Sources \cup {NoSource}, NEW b \in Budgets,
             Bind(p, src, b)
      PROVE  TableInv' /\ (FreshBefore => TableFresh')
  <2> DEFINE i == Min(Slots \ Used)
             u == [used |-> TRUE, visible |-> TRUE, page |-> p, source |-> src,
                   max_stale |-> b, last_ok |-> 0, last |-> Blank,
                   ever_ok |-> FALSE, showing_unknown |-> FALSE]
  <2>1. /\ s_vals' = [s_vals EXCEPT ![i] = u]
        /\ widgets' = [widgets EXCEPT ![i] = NewWidget]
        /\ now' = now /\ last_tick' = last_tick
    BY <1>2 DEF Bind
  <2>2. u \in Binding /\ NewWidget \in Widget
    BY <1>1, FreshnessAssumption DEF Binding, Widget, NewWidget
  <2>3. BoundInv(u, NewWidget, now) /\ FreshSlot(u, NewWidget)
    BY <1>1, <2>2, MarksAreNoValues DEF BoundInv, FreshSlot, NewWidget
  <2> HIDE DEF i, u
  <2>4. \A j \in Slots : \/ j = i /\ s_vals'[j] = u /\ widgets'[j] = NewWidget
                         \/ s_vals'[j] = s_vals[j] /\ widgets'[j] = widgets[j]
    BY <2>1 DEF TableInv
  <2>5. /\ s_vals' \in [Slots -> Binding \cup {Free}]
        /\ widgets' \in [Slots -> Widget]
    BY <2>1, <2>2 DEF TableInv
  <2>6. TableInv'
    BY <1>1, <2>1, <2>3, <2>4, <2>5 DEF TableInv
  <2> QED
    BY <2>3, <2>4, <2>6 DEF TableFresh, FreshBefore
<1>3. ASSUME NEW p \in Pages, NEW b \in BOOLEAN, SetVisible(p, b)
      PROVE  TableInv' /\ (FreshBefore => TableFresh')
  <2>1. /\ s_vals' = [i \in Slots |-> IF i \in OnPage(p)
                                      THEN [s_vals[i] EXCEPT !.visible = b] ELSE s_vals[i]]
        /\ widgets' = widgets /\ now' = now /\ last_tick' = last_tick
    BY <1>3 DEF SetVisible
  <2>2. /\ s_vals' \in [Slots -> Binding \cup {Free}]
        /\ \A i \in Slots : s_vals'[i] # Free =>
              /\ BoundInv(s_vals'[i], widgets[i], now)
              /\ s_vals[i] # Free
              /\ s_vals'[i].max_stale = s_vals[i].max_stale
    BY <2>1, VisibleTable
  <2> QED
    BY <2>1, <2>2 DEF TableInv, TableFresh, FreshBefore, FreshSlot
<1>4. ASSUME NEW p \in Pages, PageShow(p)
      PROVE  TableInv' /\ (FreshBefore => TableFresh')
  <2> DEFINE tab == [i \in Slots |-> IF i \in OnPage(p)
                                     THEN [s_vals[i] EXCEPT !.visible = TRUE]
                                     ELSE s_vals[i]]
  <2>1. RefreshAll(OnPage(p), tab) /\ now' = now /\ last_tick' = last_tick
    BY <1>4 DEF PageShow
  <2>2. /\ tab \in [Slots -> Binding \cup {Free}]
        /\ OnPage(p) \in SUBSET Slots
        /\ \A i \in OnPage(p) : tab[i] # Free
        /\ \A i \in Slots : tab[i] # Free =>
              /\ BoundInv(tab[i], widgets[i], now)
              /\ s_vals[i] # Free /\ i \in Used
              /\ tab[i].max_stale = s_vals[i].max_stale
    BY VisibleTable
  <2> HIDE DEF tab
  <2>3. FreshBefore => \A i \in Slots : tab[i] # Free =>
               /\ FreshSlot(tab[i], widgets[i])
               /\ widgets[i].shown \in Values =>
                    now - widgets[i].confirmed_at < TimeMod
    BY <2>2 DEF FreshBefore, TableFresh, FreshSlot, ConfirmedThisPeriod
  <2> QED
    BY <1>1, <2>1, <2>2, <2>3, RefreshAllKeeps
<1>5. ASSUME NEW S \in SUBSET Used, RefreshAll(S, s_vals), now' = now,
             last_tick' \in 0 .. MaxTime
      PROVE  TableInv' /\ (FreshBefore => TableFresh')
  <2>1. /\ S \in SUBSET Slots /\ \A i \in S : s_vals[i] # Free
    BY <1>5, UsedIsBound
  <2>2. /\ s_vals \in [Slots -> Binding \cup {Free}]
        /\ \A i \in Slots : s_vals[i] # Free => BoundInv(s_vals[i], widgets[i], now)
    BY DEF TableInv
  <2>3. FreshBefore => \A i \in Slots : s_vals[i] # Free =>
               /\ FreshSlot(s_vals[i], widgets[i])
               /\ widgets[i].shown \in Values =>
                    now - widgets[i].confirmed_at < TimeMod
    BY BoundIsUsed DEF FreshBefore, TableFresh, ConfirmedThisPeriod
  <2> QED
    BY <1>5, <2>1, <2>2, <2>3, RefreshAllKeeps
<1>6. ASSUME NEW src \in Sources, Invalidate(src)
      PROVE  TableInv' /\ (FreshBefore => TableFresh')
  <2>1. {i \in Visible : s_vals[i].source = src} \in SUBSET Used
    BY DEF Visible
  <2> QED
    BY <1>1, <1>5, <1>6, <2>1 DEF Invalidate
<1>7. ASSUME Tick
      PROVE  TableInv' /\ (FreshBefore => TableFresh')
  <2>1. Visible \in SUBSET Used
    BY DEF Visible
  <2> QED
    BY <1>1, <1>5, <1>7, <2>1 DEF Tick
<1>8. ASSUME Reset
      PROVE  TableInv' /\ (FreshBefore => TableFresh')
  <2>1. NewWidget \in Widget
    BY <1>1 DEF NewWidget, Widget
  <2>2. /\ s_vals' = [i \in Slots |-> Free] /\ widgets' = [i \in Slots |-> NewWidget]
        /\ now' = now /\ last_tick' = last_tick
    BY <1>8 DEF Reset
  <2> QED
    BY <1>1, <2>1, <2>2 DEF TableInv, TableFresh
<1>9. ASSUME AdvanceTime
      PROVE  TableInv' /\ (FreshBefore => TableFresh')
  <2>1. /\ now' = now + 1 /\ now < MaxTime
        /\ s_vals' = s_vals /\ widgets' = widgets /\ last_tick' = last_tick
    BY <1>9 DEF AdvanceTime
  <2>2. now' \in 0 .. MaxTime
    BY <1>1, <2>1, FreshnessAssumption
  <2>3. ASSUME NEW v, NEW w, BoundInv(v, w, now)
        PROVE  BoundInv(v, w, now')
    <3>1. w.checked_at <= now'
      BY <1>1, <2>1, <2>3, FieldsOf DEF BoundInv
    <3> QED
      BY <2>3, <3>1 DEF BoundInv
  <2> QED
    BY <2>1, <2>2, <2>3 DEF TableInv, TableFresh, FreshBefore
<1>10. CASE UNCHANGED vars
  BY <1>10 DEF vars, TableInv, TableFresh, FreshBefore
<1> QED
  BY <1>2, <1>3, <1>4, <1>6, <1>7, <1>8, <1>9, <1>10 DEF Next

\* The empty table is one.
LEMMA TableInit == Init => TableInv /\ TableFresh
<1> SUFFICES ASSUME Init PROVE TableInv /\ TableFresh
  OBVIOUS
<1>1. NewWidget \in Widget /\ now \in 0 .. MaxTime /\ last_tick \in 0 .. MaxTime
  BY FreshnessAssumption DEF Init, NewWidget, Widget
<1> QED
  BY <1>1 DEF Init, TableInv, TableFresh

-----------------------------------------------------------------------------
\* Type correctness: the table, the widgets and the times stay in their sets,
\* whatever is bound, refreshed, hidden or reset.
THEOREM TypeCorrect == Spec => []TypeOK
<1>1. TableInv /\ [Next]_vars => TableInv'
  BY TableNext
<1>2. TableInv => TypeOK
  BY DEF TableInv, TypeOK
<1> QED
  BY <1>1, <1>2, TableInit, PTL DEF Spec

\* What a widget asserts is what its source last vouched for, and a look that
\* succeeded leaves it there: for every table, clock and schedule of shows,
\* ticks and invalidations (refresh_one, freshness.c).
THEOREM ShownWasConfirmed == Spec => []ShownIsConfirmed
<1>1. TableInv /\ [Next]_vars => TableInv'
  BY TableNext
<1>2. TableInv => ShownIsConfirmed
  BY UsedIsBound DEF BoundInv, ShownIsConfirmed
<1> QED
  BY <1>1, <1>2, TableInit, PTL DEF Spec

\* As long as no value stays on a screen unconfirmed for a whole period of the
\* clock word, no value outlives its budget, across any number of wraps.
THEOREM FreshWithinPeriod ==
  Spec /\ []ConfirmedThisPeriod => []HeldValueIsFresh
<1>1. TableInv /\ [Next]_vars => TableInv'
  BY TableNext
<1>2. TableInv /\ TableFresh /\ ConfirmedThisPeriod /\ [Next]_vars => TableFresh'
  BY TableNext DEF FreshBefore
<1>3. TableInv /\ TableFresh => HeldValueIsFresh
  BY UsedIsBound DEF TableFresh, FreshSlot, HeldValueIsFresh
<1> QED
  BY <1>1, <1>2, <1>3, TableInit, PTL DEF Spec

\* In particular nothing stale is ever held in a run shorter than one period
\* of the clock, wherever in its range the clock word starts: the wrap itself
\* (freshness.c's unsigned subtraction) is harmless.
THEOREM HeldIsFresh == MaxTime < TimeMod => (Spec => []HeldValueIsFresh)
<1> SUFFICES ASSUME MaxTime < TimeMod PROVE Spec => []HeldValueIsFresh
  OBVIOUS
<1>1. TableInv /\ [Next]_vars => TableInv'
  BY TableNext
<1>2. TableInv => ConfirmedThisPeriod
  <2> SUFFICES ASSUME TableInv, NEW i \in Used, widgets[i].shown \in Values
               PROVE  now - widgets[i].confirmed_at < TimeMod
    BY DEF ConfirmedThisPeriod
  <2>1. widgets[i] \in Widget
    BY UsedIsBound DEF BoundInv
  <2>2. widgets[i].confirmed_at \in Nat
    BY <2>1, FieldsOf
  <2> QED
    BY <2>2, FreshnessAssumption DEF TableInv
<1>3. Spec => []ConfirmedThisPeriod
  BY <1>1, <1>2, TableInit, PTL DEF Spec
<1> QED
  BY <1>3, FreshWithinPeriod, PTL

-----------------------------------------------------------------------------
(* warden_fresh_min_budget_ms: induction over the table, as the argument that *)
(* a set of naturals has a least element.                                     *)

\* Every non-empty set of naturals has a least element.
LEMMA LeastElement ==
  ASSUME NEW T \in SUBSET Nat, T # {}
  PROVE  \E x \in T : \A y \in T : x <= y
<1> DEFINE Less == OpToRel(<, Nat)
<1>1. IsWellFoundedOn(Less, Nat)
  BY NatLessThanWellFounded
<1>2. \A x, y \in Nat : y < x => <<y, x>> \in Less
  BY DEF OpToRel
<1> HIDE DEF Less
<1>3. PICK x \in T : \A y \in T : ~ (<<y, x>> \in Less)
  BY <1>1, WFMin
<1>4. \A y \in T : ~ (y < x)
  BY <1>2, <1>3
<1>5. \A y \in T : x <= y
  BY <1>4
<1> QED
  BY <1>5

\* One turn of the scan: what slot n makes of the best budget so far.
Scan(tab, p, n) ==
  IF /\ tab[n].used /\ tab[n].visible
     /\ ~p.seen \/ tab[n].max_stale < p.best
  THEN [best |-> tab[n].max_stale, seen |-> TRUE] ELSE p

\* The scan's state before the first slot.
NothingSeen == [best |-> 0, seen |-> FALSE]

\* g is what the scan knows after each of the first k slots.
IsScan(g, tab, k) ==
  g = [n \in 0 .. k |-> IF n = 0 THEN NothingSeen ELSE Scan(tab, g[n - 1], n)]

\* The scan of any number of slots is a function: its recursion is sound.
LEMMA ScanExists == \A tab : \A k \in Nat : \E g : IsScan(g, tab, k)
<1> SUFFICES ASSUME NEW tab, NEW k0 \in Nat, ~ \E g : IsScan(g, tab, k0)
             PROVE  FALSE
  OBVIOUS
<1> DEFINE Bad == {k \in Nat : ~ \E g : IsScan(g, tab, k)}
<1>1. PICK m \in Bad : \A k \in Bad : m <= k
  BY LeastElement
<1>2. m \in Nat /\ ~ \E g : IsScan(g, tab, m)
  OBVIOUS
<1>3. m # 0
  <2>1. IsScan([n \in 0 .. 0 |-> NothingSeen], tab, 0)
    BY DEF IsScan
  <2> QED
    BY <1>2, <2>1
<1>4. m - 1 \in Nat /\ m - 1 \notin Bad
  BY <1>1, <1>2, <1>3
<1>5. PICK h : IsScan(h, tab, m - 1)
  BY <1>4
<1> DEFINE g == [n \in 0 .. m |-> IF n = m THEN Scan(tab, h[m - 1], m) ELSE h[n]]
<1>6. \A n \in 0 .. m - 1 : g[n] = h[n]
  BY <1>2
<1>7. g[m] = Scan(tab, h[m - 1], m)
  BY <1>2
<1>8. \A n \in 0 .. m - 1 :
        h[n] = IF n = 0 THEN NothingSeen ELSE Scan(tab, h[n - 1], n)
  BY <1>2, <1>5 DEF IsScan
<1>9. \A n \in 1 .. m : g[n - 1] = h[n - 1]
  BY <1>2, <1>6
<1>10. \A n \in 0 .. m :
         g[n] = IF n = 0 THEN NothingSeen ELSE Scan(tab, g[n - 1], n)
  <2> SUFFICES ASSUME NEW n \in 0 .. m
               PROVE  g[n] = IF n = 0 THEN NothingSeen ELSE Scan(tab, g[n - 1], n)
    OBVIOUS
  <2> HIDE DEF g
  <2>1. CASE n = 0
    BY <1>2, <1>3, <1>6, <1>8, <2>1
  <2>2. CASE n # 0 /\ n # m
    <3>1. n \in 0 .. m - 1 /\ n \in 1 .. m
      BY <1>2, <2>2
    <3> QED
      BY <1>6, <1>8, <1>9, <2>2, <3>1
  <2>3. CASE n = m
    <3>1. n \in 1 .. m
      BY <1>2, <1>3, <2>3
    <3> QED
      BY <1>3, <1>7, <1>9, <2>3, <3>1
  <2> QED
    BY <2>1, <2>2, <2>3
<1>11. g = [n \in 0 .. m |-> g[n]]
  OBVIOUS
<1> HIDE DEF g
<1>12. IsScan(g, tab, m)
  BY <1>10, <1>11 DEF IsScan
<1> QED
  BY <1>2, <1>12

\* What the scan computes is the last of those states.
LEMMA ScanOfTable ==
  ASSUME NEW tab
  PROVE  \E g : IsScan(g, tab, FRESH_MAX) /\ MinBudgetTo(tab) = g[FRESH_MAX]
<1>1. PICK g : IsScan(g, tab, FRESH_MAX)
  BY ScanExists, FreshnessAssumption
<1>2. g = [n \in 0 .. FRESH_MAX |->
             IF n = 0 THEN [best |-> 0, seen |-> FALSE]
             ELSE IF /\ tab[n].used /\ tab[n].visible
                     /\ ~g[n - 1].seen \/ tab[n].max_stale < g[n - 1].best
                  THEN [best |-> tab[n].max_stale, seen |-> TRUE] ELSE g[n - 1]]
  BY <1>1 DEF IsScan, Scan, NothingSeen
<1>3. \E x :
        /\ x = [n \in 0 .. FRESH_MAX |->
                 IF n = 0 THEN [best |-> 0, seen |-> FALSE]
                 ELSE IF /\ tab[n].used /\ tab[n].visible
                         /\ ~x[n - 1].seen \/ tab[n].max_stale < x[n - 1].best
                      THEN [best |-> tab[n].max_stale, seen |-> TRUE] ELSE x[n - 1]]
        /\ MinBudgetTo(tab) = x[FRESH_MAX]
  BY <1>2 DEF MinBudgetTo
<1> QED
  BY <1>3 DEF IsScan, Scan, NothingSeen

\* The visible slots among the first n.
Seen(n) == {i \in 1 .. n : s_vals[i].used /\ s_vals[i].visible}

\* p is the tightest budget of the visible slots among the first n.
Tightest(p, n) ==
  /\ p.seen \in BOOLEAN /\ p.best \in Nat
  /\ p.seen <=> Seen(n) # {}
  /\ ~ p.seen => p.best = 0
  /\ p.seen => \E i \in Seen(n) : p.best = s_vals[i].max_stale
  /\ \A i \in Seen(n) : p.best <= s_vals[i].max_stale

\* One turn of the scan keeps it so.
LEMMA ScanStep ==
  ASSUME TableInv, NEW n \in Slots, NEW p, Tightest(p, n - 1)
  PROVE  Tightest(Scan(s_vals, p, n), n)
<1> DEFINE here == s_vals[n].used /\ s_vals[n].visible
<1>1. n \in Nat /\ n >= 1 /\ n \in 1 .. n /\ n \notin 1 .. n - 1
  BY FreshnessAssumption DEF Slots
<1>2. 1 .. n = (1 .. n - 1) \cup {n}
  BY <1>1
<1>3. here => Seen(n) = Seen(n - 1) \cup {n}
  BY <1>2 DEF Seen
<1>4. ~ here => Seen(n) = Seen(n - 1)
  BY <1>2 DEF Seen
<1>5. \A i \in Seen(n) : s_vals[i].max_stale \in Nat
  <2> SUFFICES ASSUME NEW i \in Seen(n) PROVE s_vals[i].max_stale \in Nat
    OBVIOUS
  <2>1. i \in Used
    BY <1>1, FreshnessAssumption DEF Seen, Used, Slots
  <2>2. s_vals[i] \in Binding
    BY <2>1, UsedIsBound DEF BoundInv
  <2> QED
    BY <2>2, FieldsOf
<1>6. CASE ~ here
  <2>1. Scan(s_vals, p, n) = p
    BY <1>6 DEF Scan
  <2> QED
    BY <1>4, <1>6, <2>1 DEF Tightest
<1>7. CASE here /\ (~ p.seen \/ s_vals[n].max_stale < p.best)
  <2> DEFINE q == [best |-> s_vals[n].max_stale, seen |-> TRUE]
  <2>1. Scan(s_vals, p, n) = q
    BY <1>7 DEF Scan
  <2>2. n \in Seen(n) /\ q.best = s_vals[n].max_stale /\ q.best \in Nat /\ q.seen
    BY <1>3, <1>5, <1>7
  <2>3. \A i \in Seen(n) : q.best <= s_vals[i].max_stale
    <3> SUFFICES ASSUME NEW i \in Seen(n), i # n
                 PROVE  s_vals[n].max_stale <= s_vals[i].max_stale
      BY <2>2
    <3>1. i \in Seen(n - 1)
      BY <1>3, <1>7
    <3>2. p.seen /\ p.best \in Nat /\ p.best <= s_vals[i].max_stale
      BY <3>1 DEF Tightest
    <3>3. s_vals[n].max_stale < p.best
      BY <1>7, <3>2
    <3>4. s_vals[i].max_stale \in Nat /\ s_vals[n].max_stale \in Nat
      BY <1>5, <2>2
    <3> QED
      BY <3>2, <3>3, <3>4
  <2>4. q.seen \in BOOLEAN
    OBVIOUS
  <2> HIDE DEF q
  <2> QED
    BY <2>1, <2>2, <2>3, <2>4 DEF Tightest
<1>8. CASE here /\ ~ (~ p.seen \/ s_vals[n].max_stale < p.best)
  <2>1. Scan(s_vals, p, n) = p
    BY <1>8 DEF Scan
  <2>2. Seen(n) = Seen(n - 1) \cup {n}
    BY <1>3, <1>8
  <2>3. p.seen /\ p.best \in Nat /\ ~ (s_vals[n].max_stale < p.best)
    BY <1>8 DEF Tightest
  <2>4. p.best <= s_vals[n].max_stale
    BY <1>5, <2>2, <2>3
  <2> QED
    BY <2>1, <2>2, <2>3, <2>4 DEF Tightest
<1> QED
  BY <1>6, <1>7, <1>8

\* Hence so it is after the whole table.
LEMMA ScanIsTightest ==
  ASSUME TableInv
  PROVE  Tightest(MinBudgetTo(s_vals), FRESH_MAX)
<1>1. PICK g : IsScan(g, s_vals, FRESH_MAX) /\ MinBudgetTo(s_vals) = g[FRESH_MAX]
  BY ScanOfTable
<1>2. g[0] = NothingSeen
  BY <1>1, FreshnessAssumption DEF IsScan
<1>3. \A n \in Slots : g[n] = Scan(s_vals, g[n - 1], n)
  BY <1>1, FreshnessAssumption DEF IsScan, Slots
<1>4. Tightest(g[0], 0)
  <2>1. Seen(0) = {}
    BY DEF Seen
  <2> QED
    BY <1>2, <2>1 DEF Tightest, NothingSeen
<1> DEFINE Bad == {n \in 0 .. FRESH_MAX : ~ Tightest(g[n], n)}
<1>5. ASSUME Bad # {} PROVE FALSE
  <2>1. Bad \in SUBSET Nat
    BY FreshnessAssumption
  <2>2. PICK m \in Bad : \A k \in Bad : m <= k
    BY <1>5, <2>1, LeastElement
  <2>3. m \in 0 .. FRESH_MAX /\ ~ Tightest(g[m], m)
    OBVIOUS
  <2>4. m # 0
    BY <1>4, <2>3
  <2>5. m \in Slots /\ m - 1 \in 0 .. FRESH_MAX /\ ~ (m <= m - 1)
    BY <2>3, <2>4, FreshnessAssumption DEF Slots
  <2>6. Tightest(g[m - 1], m - 1)
    BY <2>2, <2>5
  <2>7. Tightest(Scan(s_vals, g[m - 1], m), m)
    BY <2>5, <2>6, ScanStep
  <2> QED
    BY <1>3, <2>3, <2>5, <2>7
<1>6. FRESH_MAX \in 0 .. FRESH_MAX
  BY FreshnessAssumption
<1> QED
  BY <1>1, <1>5, <1>6

\* The budget the shared tick is sized to is the tightest on the screen, for a
\* table of any size and any budgets (warden_fresh_min_budget_ms).
THEOREM TickIsTightEnough == Spec => []MinBudgetIsTightest
<1>1. TableInv /\ [Next]_vars => TableInv'
  BY TableNext
<1>2. TableInv => MinBudgetIsTightest
  <2> SUFFICES ASSUME TableInv PROVE MinBudgetIsTightest
    OBVIOUS
  <2> DEFINE S == {s_vals[i].max_stale : i \in Visible}
  <2>1. Seen(FRESH_MAX) = Visible
    BY DEF Seen, Visible, Used, Slots
  <2>2. Tightest(MinBudgetTo(s_vals), FRESH_MAX)
    BY ScanIsTightest
  <2>3. CASE Visible = {}
    BY <2>1, <2>2, <2>3 DEF Tightest, MinBudgetIsTightest, MinBudget
  <2>4. CASE Visible # {}
    <3>1. MinBudget \in S /\ \A x \in S : MinBudget <= x
      BY <2>1, <2>2, <2>4 DEF Tightest, MinBudget
    <3>2. S \subseteq Nat
      <4> SUFFICES ASSUME NEW i \in Visible PROVE s_vals[i].max_stale \in Nat
        OBVIOUS
      <4>1. s_vals[i] \in Binding
        BY UsedIsBound DEF Visible, BoundInv
      <4> QED
        BY <4>1, FieldsOf
    <3> HIDE DEF S
    <3>3. Min(S) = MinBudget
      <4>1. \A x \in S : (\A y \in S : x <= y) => x = MinBudget
        BY <3>1, <3>2
      <4> QED
        BY <3>1, <4>1 DEF Min
    <3> QED
      BY <2>4, <3>3 DEF MinBudgetIsTightest, S
  <2> QED
    BY <2>3, <2>4
<1> QED
  BY <1>1, <1>2, TableInit, PTL DEF Spec

=============================================================================
