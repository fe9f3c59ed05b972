------------------------------ MODULE ApplyTrade ------------------------------
(***************************************************************************)
(* scripts/update_portfolio_from_trade.py, apply_trade: what one trade     *)
(* does to the current_value of every fund, and the two-legged conversion  *)
(* built from it by apply_settled_trade_to_portfolio.  Values are whole    *)
(* cents.  A purchase is paid from the cash hub and a sale is paid into    *)
(* it, except when the traded fund is the hub itself.                      *)
(***************************************************************************)
EXTENDS Integers

CONSTANTS Funds,   \* fund codes of the portfolio
          Hub      \* the fund whose role is "cash_hub"; outside Funds when there is none

\* Trades in f move money through the hub (cash_hub["fund_code"] != fund_code).
ThroughHub(f) == Hub \in Funds \ {f}

\* apply_trade(..., "buy" | "switch_in", amt) does not raise.
CanBuy(val, f, amt) ==
  /\ f \in Funds
  /\ amt > 0
  /\ ThroughHub(f) => val[Hub] >= amt

\* Mutant of Buy: the cash is not taken from the hub.
BuyUnpaid(val, f, amt) == [val EXCEPT ![f] = @ + amt]

Buy(val, f, amt) ==
  [g \in Funds |-> val[g] + (IF g = f THEN amt ELSE IF g = Hub THEN -amt ELSE 0)]

\* apply_trade(..., "sell" | "switch_out", amt) does not raise.
CanSell(val, f, amt) ==
  /\ f \in Funds
  /\ amt > 0
  /\ val[f] >= amt

Sell(val, f, amt) ==
  [g \in Funds |-> val[g] - (IF g = f THEN amt ELSE IF g = Hub THEN -amt ELSE 0)]

\* A trade is [op, fund, to, amount, toAmount, ...]; "convert" sells fund and buys to.
CanSettle(val, tr) ==
  \/ tr.op = "buy"  /\ CanBuy(val, tr.fund, tr.amount)
  \/ tr.op = "sell" /\ CanSell(val, tr.fund, tr.amount)
  \/ /\ tr.op = "convert"
     /\ CanSell(val, tr.fund, tr.amount)
     /\ CanBuy(Sell(val, tr.fund, tr.amount), tr.to, tr.toAmount)

AfterSettle(val, tr) ==
  IF tr.op = "buy" THEN Buy(val, tr.fund, tr.amount)
  ELSE IF tr.op = "sell" THEN Sell(val, tr.fund, tr.amount)
  ELSE IF tr.op = "convert"
       THEN Buy(Sell(val, tr.fund, tr.amount), tr.to, tr.toAmount)
       ELSE val
===============================================================================
