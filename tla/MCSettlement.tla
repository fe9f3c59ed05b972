----------------------------- MODULE MCSettlement -----------------------------
(* Small instances of Settlement. *)
EXTENDS Settlement, TLC

CONSTANTS a, b, c, hub, x, y

Order(op, fund, to, amount, toAmount, confirmDay, settleDay, linked, key, stateKey) ==
  [op |-> op, fund |-> fund, to |-> to, amount |-> amount, toAmount |-> toAmount,
   confirmDay |-> confirmDay, settleDay |-> settleDay, linked |-> linked, key |-> key,
   stateKey |-> stateKey]

\* a buys more than the hub holds until the proceeds of the sale b arrive.
BuyAfterSell ==
  (a :> Order("buy", x, x, 4, 0, 0, 0, TRUE, "a", "a0")) @@
  (b :> Order("sell", y, y, 2, 0, 0, 1, FALSE, "b", "b1"))

\* a buys more than the hub holds until the difference of the conversion b, or
\* the proceeds of the sale c, arrive there.  The ids of a and b have different
\* settlement files and one portfolio event, like t.1 and t_1 of one date.
BuyAfterOthers ==
  (a :> Order("buy", y, y, 3, 0, 0, 0, TRUE, "a", "a0")) @@
  (b :> Order("convert", x, y, 2, 1, 0, 0, FALSE, "b", "a0")) @@
  (c :> Order("sell", x, x, 1, 0, 0, 1, FALSE, "c", "c1"))

\* Besides, an id c whose settlement files have the names of those of a.
SameKey == BuyAfterSell @@ (c :> Order("sell", x, x, 1, 0, 1, 1, FALSE, "a", "a1"))

Values == (hub :> 2) @@ (x :> 5) @@ (y :> 5)
===============================================================================
