-------------------------------- MODULE Sizing --------------------------------
(***************************************************************************)
(* Days of advice that is followed: each day the committee wants something, *)
(* the guardrails size it, the user does what is advised, and the trades    *)
(* constrain the days after.  That an order moves the values at once, the   *)
(* cash hub's included, and that its proceeds arrive on a later day, stands *)
(* for the execution ledger, which has modules of its own.                  *)
(***************************************************************************)
EXTENDS Guardrails

CONSTANTS Portfolios,  \* the portfolios to start from
          Wants,       \* what the committee may want on a day
          Gates,       \* the bundles it may come with
          Strategies,  \* the limits in force
          Horizon      \* the last day

ASSUME SizingAssumption ==
  /\ Horizon \in Nat \ {0}
  /\ \A p \in Portfolios : IsPortfolio(p)
  /\ Wants \subseteq [Book -> Want] /\ Gates \subseteq Gate /\ Strategies \subseteq Strategy

VARIABLES funds, orders, date, strategy,
          sized  \* the input and the actions of the day's advice, or Absent

sizingVars == <<funds, orders, date, strategy, sized>>

SizingInit ==
  /\ funds \in Portfolios /\ strategy \in Strategies
  /\ orders = {} /\ date = 1 /\ sized = Absent

Advise(wants, gate) ==
  /\ sized = Absent
  /\ LET x == [funds |-> funds, trades |-> orders, day |-> date, wants |-> wants, gate |-> gate, strategy |-> strategy]
     IN sized' = [input |-> x, actions |-> Validated(x)]
  /\ UNCHANGED <<funds, orders, date, strategy>>

\* The operation a verb is recorded as, and what it does to a value.
Operation(verb) == CASE verb = "add" -> "buy" [] verb = "scheduled_dca" -> "dca" [] OTHER -> "sell"
Change(a) == CASE a.verb \in {"add", "scheduled_dca"} -> a.amount [] a.verb = "hold" -> 0 [] OTHER -> -a.amount

Bought(actions) == SumFunction([f \in Book |-> AtLeast0(Change(actions[f]))])

EndDay(value) ==
  /\ date < Horizon
  /\ funds' = value
  /\ date' = date + 1 /\ sized' = Absent
  /\ UNCHANGED strategy

\* The day's advice is followed, if the hub can pay it.
Follow ==
  /\ sized # Absent
  /\ LET acts == sized.actions
         hub  == CHOOSE h \in OfRole(sized.input, "cash_hub") : TRUE
     IN /\ Bought(acts) <= funds[hub].value
        /\ EndDay([f \in Book |-> [funds[f] EXCEPT
             !.value = @ + Change(acts[f]) - (IF f = hub THEN Bought(acts) ELSE 0)]])
        /\ orders' = orders \cup
             {[id |-> <<date, f>>, fund |-> f, day |-> date, op |-> Operation(acts[f].verb),
               amount |-> acts[f].amount, status |-> "submitted"] : f \in {g \in Book : acts[g].verb # "hold"}}

\* It is left alone, and what was sold before arrives or not.
Ignore(arrives) ==
  /\ EndDay(funds)
  /\ orders' = IF arrives THEN {[t EXCEPT !.status = "settled"] : t \in orders} ELSE orders

SizingNext ==
  \/ \E w \in Wants, g \in Gates : Advise(w, g)
  \/ Follow
  \/ \E arrives \in BOOLEAN : Ignore(arrives)

SizingSpec == SizingInit /\ [][SizingNext]_sizingVars

(***************************************************************************)
(* Properties.                                                              *)
(***************************************************************************)
Acting(verbs) == {f \in Book : sized.actions[f].verb \in verbs}
Sum(S) == SumFunction([f \in S |-> sized.actions[f].amount])
Tactical == {"add", "reduce", "switch_out"}

\* Every fund has an action, one that its role allows, and nothing is worth less
\* than nothing.
SizingTypeOK ==
  /\ \A f \in Book : funds[f].value >= 0
  /\ sized # Absent =>
       \A f \in Book :
         LET a == sized.actions[f] IN
           /\ a.verb \in Tactical \cup {"scheduled_dca", "hold"}
           /\ a.amount >= 0 /\ (a.verb = "hold" <=> a.amount = 0)
           /\ a.verb \in Tactical => funds[f].role = "tactical" /\ a.verb = sized.input.wants[f].verb

\* The fixed buys and the day's actions together keep the limits on a day's
\* trading and buying, or the fixed buys alone are over them
\* (remaining_gross_trade_budget, remaining_net_buy_budget, max_actions).
BudgetsHold ==
  sized # Absent =>
    LET dca == Sum(Acting({"scheduled_dca"})) IN
      /\ Acting(Tactical) # {} => dca + Sum(Acting(Tactical)) <= strategy.gross
      /\ Acting({"add"}) # {} => dca + Sum(Acting({"add"})) <= strategy.net
      /\ Cardinality(Acting(Tactical)) <= strategy.actions

\* What the tactical actions buy leaves the hub its floor and what it has bought
\* within its holding days; what is added stays below the fund's cap.
BuysAreCovered ==
  sized # Absent /\ Acting({"add"}) # {} =>
    LET hub == CHOOSE h \in OfRole(sized.input, "cash_hub") : TRUE
    IN /\ funds[hub].value - Sum(Acting({"add"})) >= strategy.floor + Locked(sized.input, hub)
       /\ \A f \in Acting({"add"}) : funds[f].value + sized.actions[f].amount <= funds[f].cap

\* Nothing is sold while proceeds are on their way, and no more of a fund than
\* is not locked - unless all of it is locked, when the code may sell it all.
SellsAreFree ==
  sized # Absent =>
    \A f \in Acting({"reduce", "switch_out"}) :
      /\ \A t \in orders : t.op = "sell" => t.status = "settled"
      /\ sized.actions[f].amount <= Available(sized.input, f) \/ Available(sized.input, f) = 0
      /\ sized.actions[f].amount <= funds[f].value

\* A theme, the volatile themes together, the three largest funds and a company
\* that are over their limits hold no more after the day's actions
\* (_concentration_reasons, told from the portfolio and not from the actions).
NoMoreConcentrated ==
  sized # Absent =>
    LET x == sized.input
        then == After(x, Acting(Tactical))
        Grows(old, new, limit) == old > limit /\ new > old
    IN /\ \A f \in Book :
            /\ ~Grows(ThemePct(x, funds, Theme(funds[f])), ThemePct(x, then, Theme(funds[f])), ThemeLimit)
            /\ funds[f].company # "unknown" =>
                 ~Grows(CompanyPct(x, funds, funds[f].company), CompanyPct(x, then, funds[f].company), CompanyLimit)
       /\ ~Grows(VolatilePct(x, funds), VolatilePct(x, then), VolatileLimit)
       /\ ~Grows(Top3Pct(x, funds), Top3Pct(x, then), Top3Limit)

\* The search finds the best of all combinations that may be done, and the first
\* of those as good (optimize_portfolio_actions).
BestIsChosen ==
  sized # Absent =>
    LET x == sized.input
        done == Acting(Tactical)
    IN \A S \in Combinations(x) \ {done} : Feasible(x, S) /\ TotalScore(x, S) > 0 =>
         done # {} /\ (TotalScore(x, S) < TotalScore(x, done) \/ (TotalScore(x, S) = TotalScore(x, done) /\ Before(done, S)))

\* Mock or ineligible advice moves nothing, a blocked one the fixed buys alone,
\* and a fund the bundle stops is held.
GatesHold ==
  sized # Absent =>
    LET g == sized.input.gate IN
      /\ g.mock \/ ~g.eligible => Acting(Tactical \cup {"scheduled_dca"}) = {}
      /\ g.mode \in {"blocked", "hold_only"} => Acting(Tactical) = {}
      /\ Acting(Tactical) \cap g.stopped = {}

\* What is traded keeps the limits: the five invariants above.
MoneyIsBounded ==
  SizingTypeOK /\ BudgetsHold /\ BuysAreCovered /\ SellsAreFree /\ NoMoreConcentrated

\* What is traded is the best of what may be.
ChoiceIsBest == BestIsChosen /\ GatesHold
==============================================================================
