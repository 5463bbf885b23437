----------------------------- MODULE Freshness -----------------------------
(***************************************************************************)
(* The UI freshness engine of drivers/freshness/freshness.c: a fixed table *)
(* of bindings, each a producer, a page, an optional change source and a   *)
(* staleness budget; producers are asked on a tick, when a page is shown   *)
(* and when a source is invalidated, and the widget is painted with the    *)
(* value, painted with the unknown mark, or left as it is.                 *)
(*                                                                         *)
(* `now` is the real time; the engine is only ever given Clock, the same   *)
(* time as an unsigned millisecond word that wraps (2^32 in the code).     *)
(***************************************************************************)
EXTENDS Integers, FiniteSets, FiniteSetsExt

CONSTANTS
  FRESH_MAX,  \* slots of the table
  Pages, Sources, Values,
  Budgets,    \* the max_stale_ms a page may declare
  TimeMod,    \* the clock word is modulo TimeMod
  TickEvery,  \* the shared periodic tick runs at least this often
  Epoch,      \* the clock word's value at time 0
  MaxTime     \* bound on real time

NoSource == "nosource"   \* source == NULL
Blank    == "blank"      \* what the page builder drew; also an empty `last`
Mark     == "mark"       \* WARDEN_FRESH_UNKNOWN_MARK

ASSUME FreshnessAssumption ==
  /\ FRESH_MAX \in Nat /\ TimeMod \in Nat \ {0} /\ TickEvery \in Nat \ {0}
  /\ Epoch \in Nat /\ MaxTime \in Nat
  /\ Budgets \subseteq Nat /\ \A b \in Budgets : b + TickEvery < TimeMod
  /\ {Blank, Mark} \cap Values = {} /\ NoSource \notin Sources

Slots == 1 .. FRESH_MAX

VARIABLES
  s_vals,   \* the table
  widgets,  \* what each slot's widget shows, and the history of its source
  now, last_tick

vars == <<s_vals, widgets, now, last_tick>>

Clock == (now + Epoch) % TimeMod

\* struct warden_fresh; a memset-to-zero slot is Free.
Binding == [used: BOOLEAN, visible: BOOLEAN, page: Pages,
            source: Sources \cup {NoSource}, max_stale: Budgets,
            last_ok: 0 .. TimeMod - 1, last: Values \cup {Blank},
            ever_ok: BOOLEAN, showing_unknown: BOOLEAN]
Free == [used |-> FALSE]

\* shown: on the screen; checked_at: last time the producer was asked;
\* confirmed(_at): the value the source last vouched for, and when.
Widget == [shown: Values \cup {Blank, Mark}, checked_at: Nat,
           confirmed: Values \cup {Blank}, confirmed_at: Nat]
NewWidget == [shown |-> Blank, checked_at |-> now,
              confirmed |-> Blank, confirmed_at |-> now]

TypeOK ==
  /\ s_vals \in [Slots -> Binding \cup {Free}]
  /\ widgets \in [Slots -> Widget]
  /\ now \in 0 .. MaxTime /\ last_tick \in 0 .. MaxTime

-----------------------------------------------------------------------------
(* A producer's answer: OK with a value, SAME, or UNKNOWN.  SAME means       *)
(* unchanged since the OK it gave this binding, so that OK has been given.  *)
Answers == [result: {"ok"}, value: Values]
             \cup [result: {"same", "unknown"}, value: {Blank}]

MayAnswer(v, a) == a.result = "same" => v.last # Blank

\* MUTANT of Decide: an unchanged value is never repainted.
DecideSameNoChange(produced, ever_ok, showing_unknown, age, max_stale) ==
  CASE produced = "ok"   -> "value"
    [] produced = "same" -> "nochange"
    [] OTHER -> IF ~ever_ok \/ age > max_stale THEN "unknown" ELSE "nochange"

\* MUTANT of Decide: a source that cannot be evaluated holds the last value.
DecideHoldsForever(produced, ever_ok, showing_unknown, age, max_stale) ==
  CASE produced = "ok"   -> "value"
    [] produced = "same" -> IF showing_unknown THEN "value" ELSE "nochange"
    [] OTHER -> IF ~ever_ok THEN "unknown" ELSE "nochange"

Decide(produced, ever_ok, showing_unknown, age, max_stale) ==
  CASE produced = "ok"   -> "value"
    [] produced = "same" -> IF showing_unknown THEN "value" ELSE "nochange"
    [] OTHER -> IF ~ever_ok \/ age > max_stale THEN "unknown" ELSE "nochange"

\* refresh_one's verdict; the age is an unsigned difference of clock words.
Verdict(v, a) ==
  Decide(a.result, v.ever_ok, v.showing_unknown,
         (Clock - v.last_ok) % TimeMod, v.max_stale)

\* refresh_one's effect on the binding ...
RefreshOne(v, a) ==
  LET good == a.result \in {"ok", "same"} IN
  [v EXCEPT !.last    = IF a.result = "ok" THEN a.value ELSE @,
            !.last_ok = IF good THEN Clock ELSE @,
            !.ever_ok = @ \/ good,
            !.showing_unknown = CASE Verdict(v, a) = "value"   -> FALSE
                                  [] Verdict(v, a) = "unknown" -> TRUE
                                  [] OTHER -> @]

\* ... and what its render call leaves on the widget.
Paint(v, a, w) ==
  LET good == a.result \in {"ok", "same"} IN
  [shown        |-> CASE Verdict(v, a) = "value" ->
                           IF a.result = "ok" THEN a.value ELSE v.last
                      [] Verdict(v, a) = "unknown" -> Mark
                      [] OTHER -> w.shown,
   checked_at   |-> now,
   confirmed    |-> IF a.result = "ok" THEN a.value ELSE w.confirmed,
   confirmed_at |-> IF good THEN now ELSE w.confirmed_at]

\* Every slot of S is refreshed, in a table whose bindings are tab.
RefreshAll(S, tab) ==
  \E answer \in [S -> Answers] :
    /\ \A i \in S : MayAnswer(tab[i], answer[i])
    /\ s_vals' = [i \in Slots |-> IF i \in S THEN RefreshOne(tab[i], answer[i])
                                             ELSE tab[i]]
    /\ widgets' = [i \in Slots |-> IF i \in S
                                   THEN Paint(tab[i], answer[i], widgets[i])
                                   ELSE widgets[i]]

Used    == {i \in Slots : s_vals[i].used}
OnPage(page) == {i \in Used : s_vals[i].page = page}
Visible == {i \in Used : s_vals[i].visible}

-----------------------------------------------------------------------------
(* Operations *)

\* warden_fresh_bind: the first free slot; a full table binds nothing.
Bind(page, source, budget) ==
  /\ Used # Slots
  /\ LET i == Min(Slots \ Used) IN
     /\ s_vals' = [s_vals EXCEPT ![i] =
          [used |-> TRUE, visible |-> TRUE, page |-> page, source |-> source,
           max_stale |-> budget, last_ok |-> 0, last |-> Blank,
           ever_ok |-> FALSE, showing_unknown |-> FALSE]]
     /\ widgets' = [widgets EXCEPT ![i] = NewWidget]
  /\ UNCHANGED <<now, last_tick>>

SetVisible(page, visible) ==
  /\ s_vals' = [i \in Slots |-> IF i \in OnPage(page)
                                THEN [s_vals[i] EXCEPT !.visible = visible]
                                ELSE s_vals[i]]
  /\ UNCHANGED <<widgets, now, last_tick>>

PageShow(page) ==
  /\ RefreshAll(OnPage(page),
                [i \in Slots |-> IF i \in OnPage(page)
                                 THEN [s_vals[i] EXCEPT !.visible = TRUE]
                                 ELSE s_vals[i]])
  /\ UNCHANGED <<now, last_tick>>

Tick ==
  /\ RefreshAll(Visible, s_vals)
  /\ last_tick' = now
  /\ UNCHANGED now

Invalidate(source) ==
  /\ RefreshAll({i \in Visible : s_vals[i].source = source}, s_vals)
  /\ UNCHANGED <<now, last_tick>>

Reset ==
  /\ s_vals' = [i \in Slots |-> Free]
  /\ widgets' = [i \in Slots |-> NewWidget]
  /\ UNCHANGED <<now, last_tick>>

AdvanceTime ==
  /\ now < MaxTime
  /\ now < last_tick + TickEvery
  /\ now' = now + 1
  /\ UNCHANGED <<s_vals, widgets, last_tick>>

Init ==
  /\ now = 0 /\ last_tick = 0
  /\ s_vals = [i \in Slots |-> Free]
  /\ widgets = [i \in Slots |-> NewWidget]

Next ==
  \/ \E p \in Pages, s \in Sources \cup {NoSource}, b \in Budgets : Bind(p, s, b)
  \/ \E p \in Pages, b \in BOOLEAN : SetVisible(p, b)
  \/ \E p \in Pages : PageShow(p)
  \/ \E s \in Sources : Invalidate(s)
  \/ Tick \/ Reset \/ AdvanceTime

Spec == Init /\ [][Next]_vars

\* MUTANT of MinBudgetTo: 0 marks "nothing scanned yet".
MinBudgetToSentinel(tab) ==
  LET f[n \in 0 .. FRESH_MAX] ==
        IF n = 0 THEN [best |-> 0, seen |-> FALSE]
        ELSE LET p == f[n - 1] IN
             IF /\ tab[n].used /\ tab[n].visible
                /\ p.best = 0 \/ tab[n].max_stale < p.best
             THEN [best |-> tab[n].max_stale, seen |-> TRUE] ELSE p
  IN f[FRESH_MAX]

\* warden_fresh_min_budget_ms: the scan of the table, slot by slot.
MinBudgetTo(tab) ==
  LET f[n \in 0 .. FRESH_MAX] ==
        IF n = 0 THEN [best |-> 0, seen |-> FALSE]
        ELSE LET p == f[n - 1] IN
             IF /\ tab[n].used /\ tab[n].visible
                /\ ~p.seen \/ tab[n].max_stale < p.best
             THEN [best |-> tab[n].max_stale, seen |-> TRUE] ELSE p
  IN f[FRESH_MAX]

MinBudget == MinBudgetTo(s_vals).best

-----------------------------------------------------------------------------
(* Properties *)

\* "The UI never shows a stale number" (docs/workflows/freshness-contract.md):
\* whatever a widget asserts was vouched for by its source no longer than its
\* budget before the engine last looked, in real time, whether the page was
\* hidden, shown or invalidated in between and across a clock wrap.
HeldValueIsFresh ==
  \A i \in Used :
    widgets[i].shown \in Values =>
      widgets[i].checked_at - widgets[i].confirmed_at <= s_vals[i].max_stale

\* A value on the screen is the one its source last vouched for, and a look
\* that succeeded leaves it there: recovery by SAME clears the unknown mark.
ShownIsConfirmed ==
  \A i \in Used : LET w == widgets[i] IN
    /\ w.shown \in Values => w.shown = w.confirmed
    /\ w.confirmed # Blank /\ w.confirmed_at = w.checked_at => w.shown = w.confirmed

\* The budget the shared tick is sized to is the tightest one on the screen,
\* a zero-tolerance binding included (freshness.c:178-180).
MinBudgetIsTightest ==
  MinBudget = IF Visible = {} THEN 0 ELSE Min({s_vals[i].max_stale : i \in Visible})

=============================================================================
