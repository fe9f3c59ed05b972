------------------------------ MODULE Outcomes ------------------------------
(***************************************************************************)
(* What became of an action ticket: the net asset values of the day of the  *)
(* advice and of the day it is judged on are compared with the benchmark,   *)
(* and the difference is read as what following the ticket was worth.       *)
(* Returns are whole percents.                                              *)
(***************************************************************************)
EXTENDS Integers, FiniteSets, FiniteSetsExt

CONSTANTS Tickets,   \* the action tickets of all dates
          Ticket,    \* [Tickets -> [date, fund, verb, model, gated, cost]]
          Held,      \* pairs of a date and a fund the portfolio of that date holds
          Trusted,   \* pairs of a date and a fund whose units are trusted
          Bench,     \* [Calendar -> the benchmark's value, or Absent]
          Trading,   \* the trading days
          Horizon,   \* days from the advice to the day it is judged on
          Window,    \* days after that one a quote is looked for
          Calendar, Absent

Increase == {"add", "scheduled_dca", "switch_in"}
Reduce   == {"reduce", "switch_out"}
Scorable == Increase \cup Reduce \cup {"hold"}

(***************************************************************************)
(* The day a ticket is judged on.  quotes[d] is the file of day d, if any:  *)
(* the quotes of some funds.                                                *)
(***************************************************************************)
HasQuote(quotes, d, f) == d \in Calendar /\ quotes[d] # Absent /\ f \in DOMAIN quotes[d]

Target(t) == Ticket[t].date + Horizon

Later(t) == {d \in Trading : Target(t) < d /\ d <= Target(t) + Window}

\* The day of the file all tickets of a date are judged on.
EvaluationDate(quotes, t) ==
  LET filed == {d \in Later(t) : quotes[d] # Absent}
  IN IF (Target(t) \in Calendar /\ quotes[Target(t)] # Absent) \/ filed = {} THEN Target(t) ELSE Min(filed)

\* A fund missing from that file is looked for in the files after it.
QuoteDay(quotes, t) ==
  LET first == EvaluationDate(quotes, t)
      found == {d \in Later(t) : HasQuote(quotes, d, Ticket[t].fund)}
  IN IF HasQuote(quotes, first, Ticket[t].fund) \/ found = {} THEN first ELSE Min(found)

(***************************************************************************)
(* What the ticket did to the exposure.                                     *)
(***************************************************************************)
Context(t) ==
  LET verb  == Ticket[t].verb
      model == Ticket[t].model
      held  == <<Ticket[t].date, Ticket[t].fund>> \in Held
  IN IF verb \in Reduce THEN "reduce_exposure"
     ELSE IF verb \in Increase THEN "increase_exposure"
     ELSE IF verb # "hold" THEN "unknown"
     ELSE IF held THEN IF model \in Increase THEN "blocked_add_with_existing_position"
                       ELSE IF model \in Reduce THEN "blocked_reduce_kept_existing_position"
                       ELSE IF model # "hold" THEN "blocked_non_hold_with_existing_position"
                       ELSE "hold_existing_position"
     ELSE IF model # "hold" \/ Ticket[t].gated THEN "blocked_add_or_cash_hold"
     ELSE "unclear_hold_context"

Mixed == {"blocked_add_with_existing_position", "blocked_reduce_kept_existing_position",
          "blocked_non_hold_with_existing_position", "unclear_hold_context", "unknown"}

\* What the difference to the benchmark says of the ticket, after its costs.
Signal(t, excess) ==
  (IF Ticket[t].verb \in Reduce \/ Context(t) = "blocked_add_or_cash_hold" THEN -excess ELSE excess)
    - (IF Ticket[t].verb = "hold" THEN 0 ELSE Ticket[t].cost)

(***************************************************************************)
(* Scoring.                                                                 *)
(***************************************************************************)
Return(from, to) == (100 * to) \div from - 100

Unscored(status) == [status |-> status, eligible |-> FALSE, excess |-> Absent]

Scored(t, start, end) ==
  LET paid == Bench[start.date] # Absent /\ Bench[end.date] # Absent
  IN [status |-> "scored", eligible |-> paid /\ Context(t) \notin Mixed,
      excess |-> IF paid THEN Return(start.nav, end.nav) - Return(Bench[start.date], Bench[end.date])
                 ELSE Absent]

\* A quote says the day its value is of, which may be earlier than its file.
Flowed(flows, t, start, end) ==
  \E d \in Calendar : <<Ticket[t].fund, d>> \in flows /\ start.date < d /\ d <= end.date

Evaluated(quotes, flows, t) ==
  LET date == Ticket[t].date
      fund == Ticket[t].fund
      day  == QuoteDay(quotes, t)
      start == quotes[date][fund]
      end   == quotes[day][fund]
  IN IF Ticket[t].verb \notin Scorable THEN Unscored("not_applicable")
     ELSE IF ~HasQuote(quotes, date, fund) \/ ~HasQuote(quotes, day, fund) THEN Unscored("pending")
     ELSE IF start.nav = 0 \/ end.nav = 0 \/ start.stale \/ end.stale
             \/ Flowed(flows, t, start, end)
             \/ (Ticket[t].verb \in Reduce /\ <<date, fund>> \notin Trusted) THEN Unscored("blocked")
     ELSE Scored(t, start, end)

\* What the policies learn from an outcome.
EventType(t, outcome) ==
  IF outcome.status # "scored" \/ ~outcome.eligible \/ outcome.excess = Absent THEN Absent
  ELSE IF Signal(t, outcome.excess) > 0 THEN "support"
  ELSE IF Signal(t, outcome.excess) < 0 THEN "contradict"
  ELSE Absent
===============================================================================
