----------------------------- MODULE MCPortfolio ------------------------------
(***************************************************************************)
(* The portfolio as trades, screenshots and crashes make it, and as its     *)
(* other writers move it over the days.  A behaviour is of one or the       *)
(* other.                                                                   *)
(*                                                                         *)
(* Of the days: a fund of the portfolio, one with a name like it and no     *)
(* units on file, and one that is like neither and not in the portfolio.    *)
(***************************************************************************)
EXTENDS PortfolioState, Positions, TLC

CONSTANTS fundA, fundC, fundE

MCOpening == (fundA :> 2 @@ fundC :> 2 @@ fundE :> 2)
MCNavs == (fundA :> {1, 2} @@ fundC :> {1} @@ fundE :> {1})
MCAlike == {<<fundA, fundC>>, <<fundC, fundA>>}

\* Trades, reconcile ids and processes of the first part are interchangeable.
Symmetry == Permutations(Trades) \cup Permutations(Ids) \cup Permutations(Procs)

VARIABLE part  \* the part a behaviour shows

MCInit == part \in {"state", "days"} /\ Init /\ PositionsInit
\* Bound: a second trade buys back a fund that the first sold out.
BuyBack ==
  IF Len(trades) = 1 /\ trades' # trades /\ Len(trades') = 2
    THEN /\ Settled(1) /\ trades[1].fund = trades'[2].fund
         /\ trades[1].units < 0 /\ trades'[2].units > 0
    ELSE TRUE

MCNext == /\ \/ part = "state" /\ Next /\ UNCHANGED positionsVars
             \/ part = "days" /\ PositionsNext /\ BuyBack /\ UNCHANGED vars
          /\ UNCHANGED part
MCSpec == MCInit /\ [][MCNext]_<<part, vars, positionsVars>>
==============================================================================
