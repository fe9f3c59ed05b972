----------------------------- MODULE MCAdviceChain -----------------------------
(***************************************************************************)
(* The chain that writes a day's advice, and the sizing that one of its     *)
(* steps is.  The sizing shares no file with others, so a behaviour is of   *)
(* one or the other.                                                        *)
(***************************************************************************)
EXTENDS ReviewView, Sizing, TLC
CONSTANTS core, tac, p1, p2
TheRole == (core :> "core_dca") @@ (tac :> "tactical")
V(v) == (core :> 500) @@ (tac :> v)
TheValues == {V(230), V(850)}
\* The first goes by its own action, the second by its score.
S(score, action) == [f \in {core, tac} |-> [score |-> score, action |-> action]]
TheScores == {S(4, "reduce"), S(6, "observe")}
TheOpening == [values |-> V(230), scores |-> S(6, "observe")]
R(verdict, risk, target) == [verdict |-> verdict, risk |-> risk, target |-> target]
TheReplies == {(core :> R("degrade_to_watch", "low", "shadow_only")) @@ (tac :> R(None, "high", None))}
ProcSymmetry == Permutations({p1, p2})

\* The portfolios, the wishes, the gates and the strategies of the sizing.
F(role, style, company, value, cap, planned) ==
  [role |-> role, style |-> style, bucket |-> "", company |-> company, value |-> value, cap |-> cap,
   hold |-> IF role = "tactical" THEN 2 ELSE Absent, fee |-> Absent, daily |-> planned,
   locked |-> IF value = 1900 THEN 300 ELSE 0]
TheOrder == <<"hub", "core", "metal", "carbon", "tech", "r1", "r2", "r3", "r4">>
P(hub, metal, carbon, c1) ==
  [hub    |-> F("cash_hub", "cash_buffer", "c2", hub, 0, 0),
   core   |-> F("core_dca", "sp500_core", "c3", 1300, 0, 100),
   metal  |-> F("tactical", "chemical", c1, metal, 2000, 0),
   carbon |-> F("tactical", "carbon_neutral", c1, carbon, 1500, 0),
   tech   |-> F("tactical", "tech_growth", "unknown", 1000, 1150, 0),
   r1     |-> F("fixed_hold", "bond_anchor", c1, 1300, 0, 0),
   r2     |-> F("fixed_hold", "bond_anchor", "unknown", 1200, 0, 0),
   r3     |-> F("fixed_hold", "bond_anchor", "unknown", 1100, 0, 0),
   r4     |-> F("fixed_hold", "cash_buffer", "unknown", 1250, 0, 0)]
ThePortfolios == {P(1500, 1300, 1200, "c4"), P(1900, 300, 700, "unknown"), P(1300, 900, 2400, "unknown"), P(1400, 1000, 0, "unknown")}
W(verb, amount, priority, confidence) ==
  [verb |-> verb, amount |-> amount, priority |-> priority, confidence |-> confidence,
   supports |-> 1, evidence |-> 1, risks |-> 1]
Hold == W("hold", 0, 999, 0)
W3(a, b, c) == [f \in Book |-> CASE f = "metal" -> a [] f = "carbon" -> b [] f = "tech" -> c [] OTHER -> Hold]
TheWants ==
  {W3(a, b, c) : a \in {Hold, W("add", 350, 1, 60), W("reduce", 700, 2, 50)},
                 b \in {Hold, W("add", 450, 1, 55), W("reduce", 400, 1, 70)},
                 c \in {Hold, W("add", 300, 3, 65), W("switch_out", 1200, 1, 60)}}
G(mock, eligible, mode, stopped) == [mock |-> mock, eligible |-> eligible, mode |-> mode, stopped |-> stopped]
TheGates == {G(FALSE, TRUE, "canonical", {}), G(FALSE, TRUE, "canonical", {"carbon"}),
             G(TRUE, TRUE, "canonical", {}), G(FALSE, TRUE, "hold_only", {})}
L(gross, net, actions, floor) == [gross |-> gross, net |-> net, actions |-> actions, floor |-> floor, exit |-> TRUE]
TheStrategies == {L(1000, 700, 2, 900), L(1900, 1000, 3, 700)}

VARIABLE part  \* the part a behaviour shows

\* Bound: a chain that makes its answers up is alone at work.
Alone(p) ==
  proc[p] = Idle /\ proc'[p] # Idle /\ "mock" \in {proc'[q].kind : q \in Procs}
    => \A q \in Procs : proc[q] = Idle

Init == /\ part \in {"chain", "sizing"} /\ ChainInit /\ SizingInit
        /\ part = "chain" => /\ funds = CHOOSE p \in Portfolios : TRUE
                             /\ strategy = CHOOSE s \in Strategies : TRUE
Next == /\ \/ part = "chain" /\ ChainNext /\ (\A p \in Procs : Alone(p)) /\ UNCHANGED sizingVars
           \/ part = "sizing" /\ SizingNext /\ UNCHANGED vars
        /\ UNCHANGED part
Spec == Init /\ [][Next]_<<part, vars, sizingVars>>
==============================================================================
