------------------------------- MODULE Reviews -------------------------------
(***************************************************************************)
(* The review of an advice: what the fund returned until the review date    *)
(* and how the action looks in its light.  Returns are whole percents.      *)
(***************************************************************************)
EXTENDS Integers, FiniteSets, FiniteSetsExt

CONSTANTS Days, Weekend,  \* the days of the calendar, and those of them on a weekend
          None

ASSUME ReviewsAssumption == IsFiniteSet(Days) /\ Days = 1 .. Cardinality(Days) /\ Weekend \subseteq Days

Verbs == {"add", "scheduled_dca", "reduce", "switch_out", "hold", "buy", "switch_in", "sell"}

Normal(verb) ==
  IF verb \in {"buy", "switch_in"} THEN "add" ELSE IF verb = "sell" THEN "reduce" ELSE verb

Buys(verb)  == Normal(verb) \in {"add", "scheduled_dca"}
Sells(verb) == Normal(verb) \in {"reduce", "switch_out"}

\* The day a horizon ends, 0 when that is after the last of the calendar.
Due(base, horizon) ==
  IF horizon = 0 THEN base
  ELSE LET ends == {d \in Days \ Weekend : Cardinality((base + 1 .. d) \ Weekend) = horizon}
       IN IF ends = {} THEN 0 ELSE Min(ends)

LastOnOrBefore(nav, day) ==
  LET known == {d \in Days : d <= day /\ nav[d] # None} IN IF known = {} THEN 0 ELSE Max(known)

Percent(from, to) == ((to - from) * 100) \div from

PeriodReturn(nav, base, day) ==
  LET a == LastOnOrBefore(nav, base)
      b == LastOnOrBefore(nav, day)
  IN IF a = 0 \/ b = 0 THEN None ELSE Percent(nav[a], nav[b])

DayChange(nav, day) ==
  LET a == LastOnOrBefore(nav, day - 1)
  IN IF nav[day] = None \/ a = 0 THEN None ELSE Percent(nav[a], nav[day])

EvaluationReturn(nav, base, horizon, day) ==
  IF (horizon > 0 /\ PeriodReturn(nav, base, day) # None) \/ DayChange(nav, day) = None
  THEN PeriodReturn(nav, base, day) ELSE DayChange(nav, day)

OutcomeOf(verb, return) ==
  IF return = None THEN "unknown"
  ELSE IF Buys(verb) THEN (IF return > 0 THEN "supportive" ELSE "adverse")
  ELSE IF Sells(verb) THEN (IF return < 0 THEN "supportive" ELSE "missed_upside")
  ELSE "neutral"

Diagnostic(verb, return, signal, horizon) ==
  LET good == OutcomeOf(verb, return) = "supportive"
  IN IF return = None THEN "insufficient_data"
     ELSE IF Buys(verb) THEN
       IF good THEN (IF horizon > 0 /\ signal # None /\ signal <= 0 THEN "timing_resilience" ELSE "signal_confirmed")
       ELSE IF signal # None /\ signal > 0 THEN "signal_failure" ELSE "timing_drag"
     ELSE IF Sells(verb) THEN
       IF good THEN "good_risk_reduction"
       ELSE IF signal # None /\ signal < 0 THEN "signal_failure" ELSE "premature_de_risk"
     ELSE IF return = 0 THEN "watchful_hold" ELSE "hold_missed_move"

\* What an action earned against doing nothing, its redeem fee taken off.
Edge(verb, amount, return, fee) ==
  IF return = None THEN 0
  ELSE LET change == (amount * return) \div 100
       IN IF Buys(verb) THEN change
          ELSE IF Sells(verb) THEN -change - (amount * fee) \div 100 ELSE 0

ReviewOf(verb, nav, signal, base, horizon, day) ==
  LET return == EvaluationReturn(nav, base, horizon, day)
  IN [return |-> return, label |-> Diagnostic(verb, return, signal, horizon)]
==============================================================================
