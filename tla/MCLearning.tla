------------------------------ MODULE MCLearning ------------------------------
(***************************************************************************)
(* Two days of advice with their nights and replays, and the tickets of two *)
(* days, two of one and one of the next, with their policies.               *)
(***************************************************************************)
EXTENDS Learning, TLC

CONSTANTS e1, e2

\* The ledger: days of advice, and what a replay would have advised.
A(v, n) == [verb |-> v, amount |-> n]
TheAdvices  == {A("add", 100), A("hold", 0)}
TheReplayed == [d \in Days |-> A("hold", 0)]
TheDays == 1 .. 2
Sym == Permutations(Experiments)

\* The lineage: the tickets of two days, and the quotes they are judged on.
T(d, f, v, c) == [date |-> d, fund |-> f, verb |-> v, model |-> "add", gated |-> FALSE, cost |-> c]
TheTicket == ("a" :> T(1, "f", "add", 1)) @@ ("b" :> T(1, "g", "watch", 0))
             @@ ("c" :> T(2, "f", "add", 0))
TheBucket == [t \in Tickets |-> "growth"]
TheFund   == [t \in Tickets |-> "fund"]
TheOrder  == [growth |-> 1, fund |-> 2]
TheScope  == [growth |-> "portfolio", fund |-> "fund"]
\* The fields of a record stand in the order they are first named in.
Q(d, n) == [date |-> d, nav |-> n, stale |-> FALSE]
TheFlows == {<<"f", 2>>}
FirstSheets == <<[f |-> Q(1, 100)], [f |-> Q(2, 103)]>>
TheSheets == {[f |-> Q(2, 98)]}
TheBench == (1 :> 100) @@ (2 :> 101) @@ (3 :> 101)
TheEntries == {[mode |-> "trusted", teaches |-> TRUE, cutoff |-> 1,
                sources |-> [p \in Paths |-> [hash |-> 1, role |-> "decision"]]]}
TheSets == {{"a", "b"}, {"b"}, {"c"}}
==============================================================================
