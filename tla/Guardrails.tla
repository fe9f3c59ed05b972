------------------------------ MODULE Guardrails ------------------------------
(***************************************************************************)
(* From what the committee wants to what may be done: the constraints the   *)
(* recorded trades put on a fund, the gates of the committee's bundle, and  *)
(* the search for the combination of actions that the budgets, the cash and *)
(* the concentration limits leave.  Amounts are whole yuan, percents are    *)
(* hundredths and scores ten-thousandths, as the code rounds them.          *)
(*                                                                          *)
(* An input is a record                                                     *)
(*   funds     for each fund its role, style, explicit bucket, company,     *)
(*             value, cap, minimal holding days, redeem fee, daily buy and  *)
(*             locked amount                                                *)
(*   trades    a set of [id, fund, day, op, amount, status]                 *)
(*   day       the day the advice is for                                   *)
(*   wants     for each fund its verb, amount, priority and confidence, and *)
(*             how many supports, evidence and risks it lists               *)
(*   gate      the bundle: mock, eligible, mode, and the funds it stops     *)
(*   strategy  gross, net, actions, floor and exit (sells may be complete)  *)
(***************************************************************************)
EXTENDS Integers, Sequences, FiniteSets, FiniteSetsExt, Functions, Folds

CONSTANTS Order,  \* the funds, a sequence in the order of the portfolio
          Absent

ASSUME OrderAssumption == Order \in Seq(Range(Order)) /\ IsInjective(Order)

Book == Range(Order)
Place(f) == CHOOSE i \in DOMAIN Order : Order[i] = f

\* What the input is made of.
Fund == [role: STRING, style: STRING, bucket: STRING, company: STRING, value: Nat, cap: Int,
         hold: Int \cup {Absent}, fee: Int \cup {Absent}, daily: Nat, locked: Int]
Want == [verb: STRING, amount: Int, priority: Int, confidence: Int, supports: Int, evidence: Int, risks: Int]
Gate == [mock: BOOLEAN, eligible: BOOLEAN, mode: STRING, stopped: SUBSET Book]
Strategy == [gross: Int, net: Int, actions: Nat, floor: Int, exit: BOOLEAN]

\* A portfolio has one cash hub, as the screenshots that add funds keep it, and
\* what is bought each day has an amount, as all that make a fund so see to it.
IsPortfolio(p) ==
  /\ p \in [Book -> Fund]
  /\ \E h \in Book : {f \in Book : p[f].role = "cash_hub"} = {h}
  /\ \A f \in Book : p[f].role = "core_dca" => p[f].daily > 0

AtLeast0(n) == IF n < 0 THEN 0 ELSE n

(***************************************************************************)
(* What a fund is.                                                          *)
(***************************************************************************)
Theme(fund) ==
  CASE fund.style \in {"industrial_metal", "chemical"}          -> "cyclical_resources"
    [] fund.style \in {"carbon_neutral", "grid_equipment"}      -> "energy_transition"
    [] fund.style \in {"growth_rotation", "tech_growth", "ai"}  -> "growth_cluster"
    [] fund.style \in {"china_us_internet", "sp500_core", "nasdaq_core"} -> "global_growth"
    [] fund.style \in {"cash_buffer", "bond_anchor"}            -> "defensive_buffer"
    [] OTHER -> fund.style

HighVolatility == {"growth_cluster", "energy_transition", "cyclical_resources", "global_growth"}

Buckets == {"core_long_term", "satellite_mid_term", "tactical_short_term", "cash_defense"}

ShortTerm == {"industrial_metal", "chemical", "precious_metals", "growth_rotation"}

Bucket(fund) ==
  CASE fund.bucket \in Buckets                -> fund.bucket
    [] fund.role = "core_dca"                 -> "core_long_term"
    [] fund.role \in {"cash_hub", "fixed_hold"} -> "cash_defense"
    [] fund.style \in ShortTerm               -> "tactical_short_term"
    [] OTHER                                  -> "satellite_mid_term"

Target(bucket) ==
  CASE bucket = "core_long_term" -> 5000 [] bucket = "tactical_short_term" -> 1000 [] OTHER -> 2000

Band           == 500
ThemeLimit     == 3000
VolatileLimit  == 4500
Top3Limit      == 4500
CompanyLimit   == 2500

(***************************************************************************)
(* The constraints of the trades on record.                                 *)
(***************************************************************************)
MinHold(fund) == IF fund.hold # Absent THEN fund.hold ELSE IF fund.role = "cash_hub" THEN 7 ELSE 0

Overseas == {"sp500_core", "nasdaq_core", "china_us_internet"}

Fee(fund) ==
  CASE fund.fee # Absent -> fund.fee
    [] fund.role = "cash_hub" -> 0
    [] fund.role = "fixed_hold" /\ fund.style \notin Overseas -> 10
    [] OTHER -> 50

Traded(x, f, ops) ==
  LET recent == {t \in x.trades : t.fund = f /\ t.op \in ops /\ x.day - t.day \in 0 .. MinHold(x.funds[f]) - 1}
  IN SumFunction([t \in recent |-> t.amount])

\* A trade locks and frees whatever its status is.
Locked(x, f) ==
  Min({x.funds[f].value,
       AtLeast0(Traded(x, f, {"buy", "dca", "convert_in"}) - Traded(x, f, {"sell", "convert_out"}))})

Available(x, f) == x.funds[f].value - Locked(x, f)

Delayed(x) ==
  LET open == {t \in x.trades : /\ t.op \in {"sell", "convert_out"} /\ t.day <= x.day
                                /\ t.status \notin {"", "settled", "canceled", "failed"}}
  IN SumFunction([t \in open |-> t.amount])

(***************************************************************************)
(* One action by itself.                                                    *)
(***************************************************************************)
Sized(amount, ceiling, exit) ==
  LET a == AtLeast0(Min({amount, ceiling}))
  IN IF exit /\ ceiling > 0 /\ 100 * a >= 85 * ceiling THEN ceiling
     ELSE IF a < 100 THEN 0 ELSE (a \div 100) * 100

\* Nothing available reads as nothing said about it, and all of it may go.
Sellable(x, f) == IF Available(x, f) = 0 THEN x.funds[f].value ELSE Available(x, f)

Amount(x, f) ==
  CASE x.wants[f].verb = "add" -> Sized(x.wants[f].amount, AtLeast0(x.funds[f].cap - x.funds[f].value), FALSE)
    [] x.wants[f].verb \in {"reduce", "switch_out"} -> Sized(x.wants[f].amount, Sellable(x, f), x.strategy.exit)
    [] OTHER -> 0

\* What a sell costs, in hundredths of a yuan.
Cost(x, f) ==
  IF x.wants[f].verb = "add" THEN 0 ELSE (Amount(x, f) * Fee(x.funds[f]) + 50) \div 100

Pct(value, total) == IF total <= 0 THEN 0 ELSE (20000 * AtLeast0(value) + total) \div (2 * total)

Value(funds, S) == SumFunction([f \in S |-> funds[f].value])
Worth(x) == Value(x.funds, Book)

BucketPct(x, funds, b) == Pct(Value(funds, {f \in Book : Bucket(funds[f]) = b}), Worth(x))
ThemePct(x, funds, t)  == Pct(Value(funds, {f \in Book : Theme(funds[f]) = t}), Worth(x))
CompanyPct(x, funds, c) == Pct(Value(funds, {f \in Book : funds[f].company = c}), Worth(x))
FundPct(x, funds, f)   == Pct(funds[f].value, Worth(x))
VolatilePct(x, funds)  == SumFunction([t \in HighVolatility |-> ThemePct(x, funds, t)])
Top3Pct(x, funds) ==
  LET three == {S \in SUBSET Book : Cardinality(S) = Min({3, Cardinality(Book)})}
  IN Max({SumFunction([f \in S |-> FundPct(x, funds, f)]) : S \in three})

Objective(x, f) ==
  LET w == x.wants[f]
      b == Bucket(x.funds[f])
      drift == Target(b) - BucketPct(x, x.funds, b)
  IN w.confidence * 10000 + AtLeast0(160000 - w.priority * 15000) + w.supports * 30000
     + w.evidence * 12000 - w.risks * 40000 - Cost(x, f) * 8
     + Min({Amount(x, f) * 100, 40000})
     + (IF w.verb = "add" THEN (IF drift > 0 THEN 80000 ELSE -60000)
        ELSE IF drift < 0 THEN 80000 ELSE 40000)

(***************************************************************************)
(* Actions together.  A combination is a set of funds.                      *)
(***************************************************************************)
Adds(x, S)  == {f \in S : x.wants[f].verb = "add"}
Gross(x, S) == SumFunction([f \in S |-> Amount(x, f)])
NetBuy(x, S) == Gross(x, Adds(x, S))

\* The funds once the actions of S are done.
After(x, S) ==
  [f \in Book |-> [x.funds[f] EXCEPT
     !.value = IF f \notin S THEN @ ELSE IF f \in Adds(x, S) THEN @ + Amount(x, f) ELSE @ - Amount(x, f)]]

\* The band is guarded for the short-term bucket alone.
BandKept(x, S) ==
  LET old == BucketPct(x, x.funds, "tactical_short_term")
      new == BucketPct(x, After(x, S), "tactical_short_term")
      low == Target("tactical_short_term") - Band
      up  == Target("tactical_short_term") + Band
  IN IF old \in low .. up THEN new \in low .. up
     ELSE (old > up => new <= old) /\ (old < low => new >= old)

\* Only the themes, the funds and the companies that are added to are looked at.
Spread(x, S) ==
  \A f \in Adds(x, S) :
    LET then == After(x, S)
        t == Theme(x.funds[f])
        c == x.funds[f].company
    IN /\ ~(ThemePct(x, x.funds, t) > ThemeLimit /\ ThemePct(x, then, t) > ThemePct(x, x.funds, t))
       /\ t \in HighVolatility =>
            ~(VolatilePct(x, x.funds) > VolatileLimit /\ VolatilePct(x, then) > VolatilePct(x, x.funds))
       /\ FundPct(x, then, f) > FundPct(x, x.funds, f) => Top3Pct(x, then) <= Top3Limit
       /\ c # "unknown" =>
            /\ CompanyPct(x, then, c) <= CompanyLimit
            /\ ~(CompanyPct(x, x.funds, c) > CompanyLimit /\ CompanyPct(x, then, c) > CompanyPct(x, x.funds, c))

TotalScore(x, S) ==
  LET adds == Adds(x, S)
      Drift(funds) ==
        SumFunction([b \in Buckets |-> LET d == BucketPct(x, funds, b) - Target(b) IN IF d < 0 THEN -d ELSE d])
      repeats == Cardinality(adds) - Cardinality({Theme(x.funds[f]) : f \in adds})
  IN SumFunction([f \in S |-> Objective(x, f)])
     + (Drift(x.funds) - Drift(After(x, S))) * 140
     - repeats * 80000 - (Cardinality(S) - 1) * 15000
     - AtLeast0(Cardinality(adds) - 1) * 30000

(***************************************************************************)
(* The gates, and the budgets they leave.                                   *)
(***************************************************************************)
Eligible(x) == x.gate.eligible /\ ~x.gate.mock

OfRole(x, role) == {f \in Book : x.funds[f].role = role}

Dca(x) == IF Eligible(x) THEN OfRole(x, "core_dca") ELSE {}

DcaTotal(x) == SumFunction([f \in Dca(x) |-> x.funds[f].daily])

Cash(x) ==
  LET hub == OfRole(x, "cash_hub")
  IN IF hub = {} THEN 0
     ELSE LET f == CHOOSE h \in hub : \A g \in hub : Place(g) <= Place(h)
          IN AtLeast0(x.funds[f].value - x.strategy.floor - Max({x.funds[f].locked, Locked(x, f)}))

Candidates(x) ==
  IF ~Eligible(x) \/ x.gate.mode \in {"blocked", "hold_only"} THEN {}
  ELSE {f \in OfRole(x, "tactical") \ x.gate.stopped : Amount(x, f) > 0}

\* Mutant of Feasible: the fixed buys are not taken off the budgets.
FeasibleDcaApart(x, S) ==
  /\ Gross(x, S) <= x.strategy.gross /\ NetBuy(x, S) <= x.strategy.net
  /\ NetBuy(x, S) <= Cash(x)
  /\ ~(Gross(x, S) > NetBuy(x, S) /\ Delayed(x) > 0)
  /\ BandKept(x, S) /\ Spread(x, S)

Feasible(x, S) ==
  /\ Gross(x, S) <= AtLeast0(x.strategy.gross - DcaTotal(x))
  /\ NetBuy(x, S) <= AtLeast0(x.strategy.net - DcaTotal(x))
  /\ NetBuy(x, S) <= Cash(x)
  /\ ~(Gross(x, S) > NetBuy(x, S) /\ Delayed(x) > 0)
  /\ BandKept(x, S) /\ Spread(x, S)

(***************************************************************************)
(* The search, in the order of itertools: the smaller combinations first,   *)
(* those of a size in the order of their funds.                             *)
(***************************************************************************)
Before(S, T) ==
  \/ Cardinality(S) < Cardinality(T)
  \/ /\ Cardinality(S) = Cardinality(T) /\ S # T
     /\ \E f \in S \ T : \A g \in (S \ T) \cup (T \ S) : Place(f) <= Place(g)

Combinations(x) == {S \in SUBSET Candidates(x) : Cardinality(S) \in 1 .. x.strategy.actions}

\* Mutant of Better: the first combination that may be done is the best.
BetterFirst(x, best, S) ==
  IF Feasible(x, S) /\ best.funds = {} /\ TotalScore(x, S) > best.score
  THEN [funds |-> S, score |-> TotalScore(x, S)] ELSE best

Better(x, best, S) ==
  IF Feasible(x, S) /\ TotalScore(x, S) > best.score THEN [funds |-> S, score |-> TotalScore(x, S)] ELSE best

\* The combination of a set that the search comes to last.
Latest(some) == CHOOSE S \in some : \A T \in some \ {S} : Before(T, S)

Best(x) ==
  MapThenFoldSet(LAMBDA S, best : Better(x, best, S), [funds |-> {}, score |-> 0],
                 LAMBDA S : S, Latest, Combinations(x))

\* The advice: one action for every fund.
Validated(x) ==
  LET best == Best(x).funds
  IN [f \in Book |->
        IF f \in best THEN [verb |-> x.wants[f].verb, amount |-> Amount(x, f)]
        ELSE IF f \in Dca(x) THEN [verb |-> "scheduled_dca", amount |-> x.funds[f].daily]
        ELSE [verb |-> "hold", amount |-> 0]]
==============================================================================
