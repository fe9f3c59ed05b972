------------------------------- MODULE Tickets --------------------------------
(***************************************************************************)
(* What the promoted advice chain computes, without the files: the native  *)
(* seeds of a portfolio and its scores (build_layered_seed.py), the action *)
(* tickets made of them or of validated advice                             *)
(* (build_action_ticket_shadow.py), the verdict of the debate on a ticket  *)
(* (action_debate_graph.py), the advice that the preview makes of it       *)
(* (build_official_advice_compat_preview.py) and the decisions of a day    *)
(* with their outcome windows (decision_ledger.py,                         *)
(* update_decision_outcomes.py).  Texts, references and confidences are    *)
(* left out; dates are business days counted from 1.                       *)
(***************************************************************************)
EXTENDS Integers, FiniteSets

CONSTANTS
  Funds,     \* funds of the portfolio, the same on every day
  Role,      \* role of a fund
  Untraded,  \* funds with allow_trade switched off
  Cap,       \* cap_value of a fund
  DcaAmount, \* fixed_daily_buy_amount
  Strong, Trim, SwitchOut,  \* score thresholds of config/strategy.toml
  MinAdd, MidAdd, MaxAdd,   \* amounts for an add
  MidReduce, \* amount for a reduction
  VeryStrong,\* score for the largest add
  MinTrade,  \* smallest amount worth a trade, and the step of amounts
  WINDOWS,   \* days after which the outcome of a decision is looked up
  None

Verbs == {"add", "reduce", "switch_out", "scheduled_dca", "hold"}
Statuses == {"shadow_only", "adjusted", "blocked", "degraded"}

ASSUME TicketsAssumption ==
  /\ Role \in [Funds -> {"core_dca", "tactical", "cash_hub", "fixed_hold"}]
  /\ Untraded \subseteq Funds
  /\ {Cap, DcaAmount, MinAdd, MidAdd, MaxAdd, MidReduce} \subseteq Nat /\ MinTrade \in Nat \ {0}
  /\ {SwitchOut, Trim, Strong, VeryStrong} \subseteq Int
  /\ SwitchOut < Trim /\ Trim < Strong /\ Strong < VeryStrong
  /\ WINDOWS \subseteq Nat \ {0}

Least(a, b) == IF a < b THEN a ELSE b
Room(value) == IF value < Cap THEN Cap - value ELSE 0

-------------------------------------------------------------------------------
\* Native seeds: a verb from the scored item, whose own action goes before its
\* score, and an amount from the position.
ScoreVerb(item) ==
  IF item.action \in {"add", "reduce", "switch_out"} THEN item.action
  ELSE IF item.action = "avoid" \/ item.score <= SwitchOut THEN "switch_out"
  ELSE CASE item.score >= Strong -> "add"
         [] item.score <= Trim -> "reduce"
         [] OTHER -> "hold"

AddBase(score) == IF score >= VeryStrong THEN MaxAdd ELSE IF score >= Strong THEN MidAdd ELSE MinAdd

SeedAmount(verb, value, score) ==
  CASE verb = "add" /\ Room(value) >= MinTrade -> Least(AddBase(score), Room(value))
    [] verb \in {"reduce", "switch_out"} /\ value >= MinTrade -> Least(MidReduce, value)
    [] OTHER -> 0

\* A core fund is bought whether or not it may be traded.
Scored(f) == Role[f] = "tactical" /\ f \notin Untraded

SeedVerb(f, value, item) ==
  CASE Role[f] = "core_dca" -> "scheduled_dca"
    [] Scored(f) /\ SeedAmount(ScoreVerb(item), value, item.score) > 0 -> ScoreVerb(item)
    [] OTHER -> "hold"

Ticket(verb, amount, status, block) == [verb |-> verb, amount |-> amount, status |-> status, block |-> block]

\* A seed says shadow_only itself, and no gate has seen it yet.
NativeTickets(values, scores) ==
  [f \in Funds |->
     LET verb == SeedVerb(f, values[f], scores[f]) IN
     Ticket(verb,
            IF verb = "scheduled_dca" THEN DcaAmount ELSE SeedAmount(verb, values[f], scores[f].score),
            "shadow_only", FALSE)]

\* infer_status of an action of the validated advice; a gate is a veto of the
\* committee or a fund that is not eligible.
InferStatus(act) ==
  CASE act.veto \/ (act.verb = "hold" /\ (act.model # "hold" \/ act.gate)) -> "blocked"
    [] ~ act.veto /\ ~ (act.verb = "hold" /\ (act.model # "hold" \/ act.gate)) /\ act.asked # act.amount -> "adjusted"
    [] OTHER -> "shadow_only"

\* build_guardrails: the gates of the committee, of all funds and of this one.
Blocks(act, holdOnly) == (holdOnly /\ act.verb = "hold") \/ act.gate \/ act.veto

\* Mutant of ValidatedTickets: a ticket is of the amount that was asked for.
ValidatedTicketsAsked(acts, holdOnly) ==
  [f \in Funds |-> Ticket(acts[f].verb, acts[f].asked, InferStatus(acts[f]), Blocks(acts[f], holdOnly))]

ValidatedTickets(acts, holdOnly) ==
  [f \in Funds |-> Ticket(acts[f].verb, acts[f].amount, InferStatus(acts[f]), Blocks(acts[f], holdOnly))]

-------------------------------------------------------------------------------
\* A node of the debate asks a model twice at most, the second time for the
\* items that are missing.  Every ticket must be answered, and no other.
Answered(ids, first, second) == first \subseteq ids /\ second \subseteq ids \ first /\ first \cup second = ids

\* The bear, the referee and the action former; reply is what the model says of
\* the ticket, None in deterministic mode, and a field of it is None where the
\* model says nothing.  A fund that the pack misses in the portfolio is of high
\* risk too; a ticket is of a fund of the portfolio here.
Risk(ticket, reply) ==
  IF reply # None /\ reply.risk # None THEN reply.risk
  ELSE IF ticket.status = "blocked" THEN "high" ELSE "low"

Verdict(ticket, reply) ==
  IF reply # None /\ reply.verdict # None THEN reply.verdict
  ELSE CASE ticket.status = "blocked" -> "keep_blocked"
         [] ticket.status # "blocked" /\ Risk(ticket, reply) = "high" -> "degrade_to_watch"
         [] OTHER -> "support_shadow_ticket"

FromVerdict(ticket, verdict) ==
  CASE verdict = "keep_blocked" -> "blocked"
    [] verdict = "degrade_to_watch" -> "degraded"
    [] OTHER -> ticket.status

Formed(ticket, reply) ==
  LET next == FromVerdict(ticket, Verdict(ticket, reply)) IN
  IF reply # None /\ next # "blocked" /\ reply.target \in {"shadow_only", "blocked", "degraded"}
    THEN reply.target ELSE next

\* hard_guardrail_check: a guardrail of the ticket that blocks has the last word.
DebateStatus(ticket, reply) == IF ticket.block THEN "blocked" ELSE Formed(ticket, reply)

-------------------------------------------------------------------------------
\* The preview: a fund is vetoed by its ticket's status or guardrails, never by
\* what the debate thinks of it, and held if vetoed or in a mock run.
Veto(ticket, checked) == ticket.status \in {"blocked", "degraded"} \/ (checked /\ ticket.block)

CommitteeDecision(ticket, checked, mock) ==
  [verb |-> ticket.verb, amount |-> IF ticket.verb = "hold" THEN 0 ELSE ticket.amount,
   veto |-> Veto(ticket, checked),
   eligible |-> ticket.verb # "hold" /\ ~ Veto(ticket, checked) /\ ~ mock]

FinalVerb(decision) == IF decision.veto \/ ~ decision.eligible THEN "hold" ELSE decision.verb

Preview(tickets, checked, mock) == [f \in Funds |-> CommitteeDecision(tickets[f], checked, mock)]

\* The official validator (Guardrails.tla has its sizes and its search): what
\* it may make of a decision on the portfolio of now.
Held(decision, gate) ==
  [verb |-> "hold", amount |-> 0, model |-> FinalVerb(decision),
   asked |-> decision.amount, gate |-> gate, veto |-> decision.veto]

\* normalize_amount: in steps, or all of it when little would be left; a sale
\* may be of the whole position.
Normalized(amount, ceiling, exit) ==
  LET least == Least(amount, ceiling) IN
  IF exit /\ ceiling > 0 /\ 100 * least >= 85 * ceiling THEN ceiling ELSE least - (least % MinTrade)

Bounded(decision, value) ==
  IF decision.verb = "add" THEN Normalized(decision.amount, Room(value), FALSE)
  ELSE Normalized(decision.amount, value, TRUE)

Validations(f, decision, value, mock) ==
  CASE Role[f] = "core_dca" /\ ~ mock ->
         {[verb |-> "scheduled_dca", amount |-> DcaAmount, model |-> FinalVerb(decision), asked |-> DcaAmount,
           gate |-> FALSE, veto |-> decision.veto]}
    [] Role[f] = "tactical" /\ ~ mock /\ ~ decision.veto /\ decision.eligible ->
         {Held(decision, FALSE)} \cup
         (IF Bounded(decision, value) = 0 THEN {}
          ELSE {[verb |-> decision.verb, amount |-> Bounded(decision, value), model |-> decision.verb,
                 asked |-> decision.amount, gate |-> FALSE, veto |-> FALSE]})
    [] OTHER -> {Held(decision, ~ mock /\ Role[f] = "tactical")}

ValidatedActs(decisions, values, mock) ==
  {acts \in [Funds -> UNION {Validations(f, decisions[f], values[f], mock) : f \in Funds}] :
     \A f \in Funds : acts[f] \in Validations(f, decisions[f], values[f], mock)}

-------------------------------------------------------------------------------
\* make_decision_id: the suggestion is one of the day, the fund and the verb.
DecisionId(date, f, act) == [date |-> date, fund |-> f, verb |-> act.verb, amount |-> act.amount]

Decisions(date, acts) ==
  [f \in Funds |-> [id |-> DecisionId(date, f, acts[f]), verb |-> acts[f].verb, amount |-> acts[f].amount]]

\* update_decision: windows with a price on both ends, nav the last day with one.
ReadyWindows(date, today, nav) == {w \in WINDOWS : date + w <= today /\ date + w <= nav}
===============================================================================
