---------------------------- MODULE ExecutionLedger ----------------------------
(***************************************************************************)
(* What the execution ledger promises its user, with no files, locks or    *)
(* failures: a trade is recorded once and then, at most once and in one    *)
(* step, moves the values of the portfolio.  Settlement implements it.     *)
(***************************************************************************)
EXTENDS Integers

CONSTANTS TradeIds, Trade, Funds, Hub, InitVal

VARIABLES phase,  \* [TradeIds -> {"unknown", "recorded", "settled"}]
          value   \* current_value per fund

Portfolio == INSTANCE ApplyTrade

Init ==
  /\ phase = [t \in TradeIds |-> "unknown"]
  /\ value = InitVal

Record(t) ==
  /\ phase[t] = "unknown"
  /\ phase' = [phase EXCEPT ![t] = "recorded"]
  /\ UNCHANGED value

Settle(t) ==
  /\ phase[t] = "recorded"
  /\ phase' = [phase EXCEPT ![t] = "settled"]
  /\ Portfolio!CanSettle(value, Trade[t])
  /\ value' = Portfolio!AfterSettle(value, Trade[t])

Next == \E t \in TradeIds : Record(t) \/ Settle(t)

Spec == Init /\ [][Next]_<<phase, value>>
===============================================================================
