----------------------------- MODULE AdviceChain ------------------------------
(***************************************************************************)
(* run_promoted_advice_chain.py (run_chain) on the files of a date:        *)
(* tickets, retrieval packs, debate, preview, the official advice, the     *)
(* validated advice and the decisions; beside it the scripts that write    *)
(* the same files (build_action_ticket_shadow.py, run_action_debate_shadow *)
(* .py), the outcome update (update_decision_outcomes.py) and everything   *)
(* that changes what they read.  Nothing keeps two of them apart: the      *)
(* lease of today_orchestrator.py is taken by runs of the web API, not by  *)
(* the scheduled pipeline.                                                 *)
(*                                                                         *)
(* A file is its content, so a file and its hash are the same here.  What  *)
(* a script reads within milliseconds (the hashes, the files and the check *)
(* of the one against the other) is one step; a file that is written is    *)
(* one step; the four files of the official advice are one step, and so    *)
(* are the files per fund.                                                 *)
(***************************************************************************)
EXTENDS Tickets

CONSTANTS
  Procs,      \* processes
  Scores,     \* score files: [Funds -> [score, action]]
  Values,     \* positions that trades and prices lead to: [Funds -> value]
  Replies,    \* what a model says of the tickets: [Funds -> [verdict, risk, target]]
  Stranger,   \* a ticket id that was not asked for
  MaxDay,     \* bound: business days
  Opening,    \* the position and the scores at the beginning
  MaxEvents   \* bound: scripts started and changes of what they read

\* A scored fund (score_funds.py, choose_action).
Item == [score : Int, action : {"add", "observe", "reduce", "avoid"}]

ASSUME ChainAssumption ==
  /\ MaxDay \in Nat \ {0} /\ MaxEvents \in Nat
  /\ Values \subseteq [Funds -> Nat] /\ Scores \subseteq [Funds -> Item]
  /\ Opening \in [values : Values, scores : Scores]
  /\ Stranger \notin Funds

VARIABLES
  now, today, nav,  \* timestamps, the date, the last date with official prices
  portfolio,        \* current.json
  snapshot,         \* snapshots/<date>.json
  context,          \* llm_context and scores of a date
  memory,           \* when the exported memory records were updated last
  tickets, packs, debates, advice, validated, daily,  \* the files of a date
  latest,           \* decision_latest/<fund>.json
  ledger, events,   \* decision_ledger: decisions, and outcomes of decisions
  proc,             \* what a process is doing and what it has read
  mixed,            \* dates on which writers overlapped or died (history)
  spent             \* scripts started and changes so far

given == <<now, today, nav, portfolio, snapshot, context, memory>>
shadow == <<tickets, packs, debates>>
official == <<advice, validated, daily, latest, ledger, events>>
vars == <<given, shadow, official, proc, mixed, spent>>

Dates == 1 .. MaxDay

\* A decision of a day, the decisions of a day, and what is shown of the latest of a fund.
DayDecision == [id : [date : Dates, fund : Funds, verb : Verbs, amount : Nat], verb : Verbs, amount : Nat]
DailyFile == [acts : [Funds -> DayDecision], ready : SUBSET WINDOWS]
LatestDecision == [date : Dates, act : DayDecision, ready : SUBSET WINDOWS]

ASSUME NoneAssumption == None \notin DailyFile /\ None \notin LatestDecision

Idle == [kind |-> "idle"]
NoDebate == [at |-> 0]  \* timestamps start at 1

ChainInit ==
  /\ now = 1 /\ today = 1 /\ nav = 1
  /\ portfolio = [asof |-> 1, at |-> 1, values |-> Opening.values]
  /\ snapshot = [d \in Dates |-> None]
  /\ context = [d \in Dates |-> [at |-> 1, scores |-> Opening.scores]]
  /\ memory = 1
  /\ tickets = [d \in Dates |-> None] /\ packs = [d \in Dates |-> None]
  /\ debates = [d \in Dates |-> NoDebate] /\ advice = [d \in Dates |-> None]
  /\ validated = [d \in Dates |-> None] /\ daily = [d \in Dates |-> None]
  /\ latest = [f \in Funds |-> None]
  /\ ledger = {} /\ events = {}
  /\ proc = [p \in Procs |-> Idle]
  /\ mixed = {}
  /\ spent = 0

Spend == spent < MaxEvents /\ spent' = spent + 1
Tick == now' = now + 1 /\ Spend

-------------------------------------------------------------------------------
\* What the scripts read and others write.
NewDay ==
  /\ today < MaxDay
  /\ today' = today + 1
  /\ UNCHANGED <<now, nav, portfolio, snapshot, context, memory, shadow, official, proc, mixed, spent>>

Priced ==
  /\ nav < today
  /\ nav' = nav + 1
  /\ UNCHANGED <<now, today, portfolio, snapshot, context, memory, shadow, official, proc, mixed, spent>>

\* save_portfolio_state: current.json and the snapshot of the event's date.
Saved(d, p) == portfolio' = p /\ snapshot' = [snapshot EXCEPT ![d] = p]

\* A revaluation or a screenshot dates the portfolio; a settlement does not,
\* and is saved under its settlement date.
Revalue ==
  /\ Tick
  /\ \E v \in Values : Saved(today, [asof |-> today, at |-> now', values |-> v])
  /\ UNCHANGED <<today, nav, context, memory, shadow, official, proc, mixed>>

Settle ==
  /\ Tick
  /\ \E v \in Values, d \in 1 .. today :
       /\ v # portfolio.values
       /\ Saved(d, [portfolio EXCEPT !.at = now', !.values = v])
  /\ UNCHANGED <<today, nav, context, memory, shadow, official, proc, mixed>>

Score ==
  /\ Tick
  /\ \E s \in Scores : context' = [context EXCEPT ![today] = [at |-> now', scores |-> s]]
  /\ UNCHANGED <<today, nav, portfolio, snapshot, memory, shadow, official, proc, mixed>>

Remember ==
  /\ Tick
  /\ memory' = now'
  /\ UNCHANGED <<today, nav, portfolio, snapshot, context, shadow, official, proc, mixed>>

-------------------------------------------------------------------------------
\* load_portfolio_state_for_report: the snapshot of the date, else the current
\* portfolio if it is of that date, or with prior of the business day before.
PortfolioOf(d, prior) ==
  CASE snapshot[d] # None -> snapshot[d]
    [] snapshot[d] = None /\ portfolio.asof <= d /\ d - portfolio.asof <= (IF prior THEN 1 ELSE 0) -> portfolio
    [] OTHER -> None

\* Who else writes the official files of a date.
Writing(p, d) == proc[p].kind # "idle" /\ proc[p].date = d /\ proc[p].step \in {"validate", "daily", "ledger", "dump", "log", "show"}
Others(p, d) == \E q \in Procs \ {p} : Writing(q, d)

Go(p, step, got) == proc' = [proc EXCEPT ![p] = [@ EXCEPT !.step = step, !.got = got]]
Stop(p) == proc' = [proc EXCEPT ![p] = Idle]

\* The first writing step of a process: two at once leave a mixture behind,
\* and a chain that finds the files to itself replaces it.
Enter(p, d) ==
  mixed' = IF Others(p, d) THEN mixed \cup {d} ELSE IF proc[p].kind = "update" THEN mixed ELSE mixed \ {d}

Start(p, kind, d) ==
  /\ proc[p] = Idle
  /\ d <= today
  /\ Tick
  /\ proc' = [proc EXCEPT ![p] =
                [kind |-> kind, date |-> d, at |-> now', got |-> None,
                 step |-> IF kind = "debate" THEN "debate" ELSE "tickets"]]
  /\ UNCHANGED <<today, nav, portfolio, snapshot, context, memory, shadow, official, mixed>>

\* build_action_ticket_artifact and its write.  Made from the validated advice,
\* an artifact is as old as that.
TicketsOf(p, d) ==
  IF proc[p].kind = "tickets"
    THEN [source |-> "validated", at |-> validated[d].at, asof |-> PortfolioOf(d, FALSE).asof,
          tickets |-> ValidatedTickets(validated[d].acts, validated[d].mock)]
    ELSE [source |-> "native", at |-> proc[p].at, asof |-> PortfolioOf(d, TRUE).asof,
          tickets |-> NativeTickets(PortfolioOf(d, TRUE).values, context[d].scores)]

BuildTickets(p) ==
  /\ proc[p].kind # "idle" /\ proc[p].step = "tickets"
  /\ LET d == proc[p].date
         here == PortfolioOf(d, proc[p].kind # "tickets") # None /\ (proc[p].kind = "tickets" => validated[d] # None)
     IN
     /\ tickets' = IF here THEN [tickets EXCEPT ![d] = TicketsOf(p, d)] ELSE tickets
     /\ IF here /\ proc[p].kind # "tickets" THEN Go(p, "packs", None) ELSE Stop(p)
  /\ UNCHANGED <<given, packs, debates, official, mixed, spent>>

\* The items of a pack, each by the time it has been available from: facts of
\* the ticket, of its position, of the context, and what is remembered.
TicketItems(d) == {tickets[d].at}
PortfolioItems(d) == {s.at : s \in {PortfolioOf(d, TRUE)} \ {None}}
ContextItems(d) == {context[d].at}
MemoryItems(cutoff) == {m \in {memory} : m <= cutoff}

AssertNoFuture(items, cutoff) == \A at \in items : at <= cutoff

\* build_retrieval_pack_artifact: nothing in a pack may be newer than the
\* chain's start.  A memory that is newer is left out, anything else fails.
BuildPacks(p) ==
  /\ proc[p].kind # "idle" /\ proc[p].step = "packs"
  /\ LET d == proc[p].date
         cutoff == proc[p].at
         items == TicketItems(d) \cup PortfolioItems(d) \cup ContextItems(d) \cup MemoryItems(cutoff)
         built == PortfolioOf(d, TRUE) # None /\ AssertNoFuture(items, cutoff)
     IN
     /\ packs' = IF built THEN [packs EXCEPT ![d] = [at |-> cutoff, of |-> tickets[d], items |-> items]] ELSE packs
     /\ IF built THEN Go(p, "debate", None) ELSE Stop(p)
  /\ UNCHANGED <<given, tickets, debates, official, mixed, spent>>

\* run_debate_graph: hashes, files and contracts, then the nodes.
InContract(d) == packs[d].of = tickets[d]

Debate(ticket, pack, at, llm, ok, replies) ==
  [at |-> at, of |-> ticket, pack |-> pack, llm |-> llm, ok |-> ok,
   status |-> [f \in IF None \in {ticket, pack} THEN {} ELSE Funds |->
                 IF ok THEN DebateStatus(ticket.tickets[f], replies[f]) ELSE "degraded"]]

\* Without tickets or packs a debate of no ticket is written, that names the
\* file that is there (missing_input_artifact).
OpenDebate(p) ==
  /\ proc[p].kind # "idle" /\ proc[p].step = "debate"
  /\ LET d == proc[p].date IN
     Go(p, "debating", [ticket |-> tickets[d], pack |-> packs[d],
                        ok |-> None \notin {tickets[d], packs[d]} /\ InContract(d)])
  /\ UNCHANGED <<given, shadow, official, mixed, spent>>

\* A chain in llm mode goes on only if its own debate went well.
GoesOn(kind, ok) == kind # "debate" /\ (kind = "live" => ok)

\* The nodes, which in llm mode take minutes, and the write of the debate.
CloseDebate(p) ==
  /\ proc[p].kind # "idle" /\ proc[p].step = "debating"
  /\ LET d == proc[p].date
         llm == proc[p].kind = "live"
         got == proc[p].got
         ids == Funds
     IN
     \E replies \in IF llm THEN Replies ELSE {[f \in Funds |-> None]} :
     \E answered \in {all \in BOOLEAN : \E first, second \in SUBSET (ids \cup {Stranger}) :
                                         all = (~ llm \/ Answered(ids, first, second))} :
       LET ok == got.ok /\ answered IN
       /\ debates' = [debates EXCEPT ![d] = Debate(got.ticket, got.pack, proc[p].at, llm, ok, replies)]
       /\ IF GoesOn(proc[p].kind, ok) THEN Go(p, "preview", None) ELSE Stop(p)
  /\ UNCHANGED <<given, tickets, packs, official, mixed, spent>>

\* Mutant of Verified: the pack of the debate is not compared.
VerifiedTickets(d) == packs[d].of = tickets[d] /\ debates[d].of = tickets[d]

\* validate_chain_contracts: each file names the hashes of those it was made of.
Verified(d) == packs[d].of = tickets[d] /\ debates[d].of = tickets[d] /\ debates[d].pack = packs[d]

\* build_preview_payload and the files of the official advice.
Publish(p) ==
  /\ proc[p].kind # "idle" /\ proc[p].step = "preview"
  /\ LET d == proc[p].date
         mock == proc[p].kind = "mock"
     IN
     IF Verified(d)
       THEN /\ advice' = [advice EXCEPT ![d] =
                            [at |-> proc[p].at, mock |-> mock,
                             ticket |-> tickets[d], pack |-> packs[d], debate |-> debates[d],
                             decisions |-> Preview(tickets[d].tickets, debates[d].ok, mock)]]
            /\ Go(p, "validate", advice'[d])
            /\ Enter(p, d)
       ELSE Stop(p) /\ UNCHANGED <<advice, mixed>>
  /\ UNCHANGED <<given, shadow, validated, daily, latest, ledger, events, spent>>

\* build_validated_payload sizes the decisions on the current portfolio,
\* whatever date they are for.
Validate(p) ==
  /\ proc[p].kind # "idle" /\ proc[p].step = "validate"
  /\ LET d == proc[p].date
         made == proc[p].got
     IN
     \E acts \in ValidatedActs(made.decisions, portfolio.values, made.mock) :
       validated' = [validated EXCEPT ![d] = [at |-> made.at, mock |-> made.mock, acts |-> acts]]
  /\ Go(p, "daily", None)
  /\ UNCHANGED <<given, shadow, advice, daily, latest, ledger, events, mixed, spent>>

\* write_decision_latest keeps the entry of a later date.
Shown(d, made) ==
  [f \in Funds |-> IF latest[f] # None /\ latest[f].date > d THEN latest[f]
                   ELSE [date |-> d, act |-> made.acts[f], ready |-> made.ready]]

\* build_decisions_from_validated reads the file again, and outcomes start
\* anew; write_daily_decisions writes the date's file and the latest of a fund.
WriteDecisions(p) ==
  /\ proc[p].kind # "idle" /\ proc[p].step = "daily"
  /\ LET d == proc[p].date
         made == [acts |-> Decisions(d, validated[d].acts), ready |-> {}]
     IN
     /\ daily' = [daily EXCEPT ![d] = made]
     /\ latest' = Shown(d, made)
     /\ Go(p, "ledger", made)
  /\ UNCHANGED <<given, shadow, advice, validated, ledger, events, mixed, spent>>

\* append_decision_ledger: decisions whose id no line of the file has, be it a
\* decision or an outcome of one.
Known == {a.id : a \in ledger} \cup {e[1] : e \in events}

AppendLedger(p) ==
  /\ proc[p].kind # "idle" /\ proc[p].step = "ledger"
  /\ ledger' = ledger \cup {a \in {proc[p].got.acts[f] : f \in Funds} : a.id \notin Known}
  /\ Stop(p)
  /\ UNCHANGED <<given, shadow, advice, validated, daily, latest, events, mixed, spent>>

-------------------------------------------------------------------------------
\* update_decision_outcomes.py takes the dates that have decisions one by one.
Listed == {d \in 1 .. today : daily[d] # None}
First(dates) == CHOOSE d \in dates : \A e \in dates : d <= e

Turn(p, dates) ==
  proc' = [proc EXCEPT ![p] =
             IF dates = {} THEN Idle
             ELSE [kind |-> "update", date |-> First(dates), at |-> today,
                   got |-> [left |-> dates \ {First(dates)}], step |-> "read"]]

StartUpdate(p) ==
  /\ proc[p] = Idle
  /\ Spend
  /\ Turn(p, Listed)
  /\ UNCHANGED <<given, shadow, official, mixed>>

\* update_decision of every decision of the date, on a copy of the file.
ReadDaily(p) ==
  /\ proc[p].kind = "update" /\ proc[p].step = "read"
  /\ LET d == proc[p].date IN
     /\ Go(p, "dump", [left |-> proc[p].got.left,
                       made |-> [daily[d] EXCEPT !.ready = ReadyWindows(d, proc[p].at, nav)]])
     /\ Enter(p, d)
  /\ UNCHANGED <<given, shadow, official, spent>>

\* Mutant of DumpDaily: the outcomes are shown before they are logged.
DumpDailyShown(p) ==
  /\ proc[p].kind = "update" /\ proc[p].step = "dump"
  /\ daily' = [daily EXCEPT ![proc[p].date] = proc[p].got.made]
  /\ latest' = Shown(proc[p].date, proc[p].got.made)
  /\ Go(p, "log", proc[p].got)
  /\ UNCHANGED <<given, shadow, advice, validated, ledger, events, mixed, spent>>

DumpDaily(p) ==
  /\ proc[p].kind = "update" /\ proc[p].step = "dump"
  /\ daily' = [daily EXCEPT ![proc[p].date] = proc[p].got.made]
  /\ Go(p, "log", proc[p].got)
  /\ UNCHANGED <<given, shadow, advice, validated, latest, ledger, events, mixed, spent>>

LogOutcomes(p) ==
  /\ proc[p].kind = "update" /\ proc[p].step = "log"
  /\ LET made == proc[p].got.made IN
     events' = events \cup {<<made.acts[f].id, made.ready>> : f \in Funds}
  /\ Go(p, "show", proc[p].got)
  /\ UNCHANGED <<given, shadow, advice, validated, daily, latest, ledger, mixed, spent>>

ShowOutcomes(p) ==
  /\ proc[p].kind = "update" /\ proc[p].step = "show"
  /\ latest' = Shown(proc[p].date, proc[p].got.made)
  /\ Turn(p, proc[p].got.left)
  /\ UNCHANGED <<given, shadow, advice, validated, daily, ledger, events, mixed, spent>>

-------------------------------------------------------------------------------
\* A process is killed, or a write fails, amid the official files.  One that
\* dies earlier is one that takes no further step.
Die(p) ==
  /\ proc[p] # Idle /\ Writing(p, proc[p].date)
  /\ mixed' = mixed \cup {proc[p].date}
  /\ Stop(p)
  /\ UNCHANGED <<given, shadow, official, spent>>

Step(p) ==
  \/ \E kind \in {"live", "mock", "tickets", "debate"}, d \in Dates : Start(p, kind, d)
  \/ BuildTickets(p)
  \/ BuildPacks(p)
  \/ OpenDebate(p)
  \/ CloseDebate(p)
  \/ Publish(p)
  \/ Validate(p)
  \/ WriteDecisions(p)
  \/ AppendLedger(p)
  \/ StartUpdate(p)
  \/ ReadDaily(p)
  \/ DumpDaily(p)
  \/ LogOutcomes(p)
  \/ ShowOutcomes(p)
  \/ Die(p)

ChainNext ==
  \/ NewDay
  \/ Priced
  \/ Revalue
  \/ Settle
  \/ Score
  \/ Remember
  \/ \E p \in Procs : Step(p)

ChainSpec == ChainInit /\ [][ChainNext]_vars

-------------------------------------------------------------------------------
(***************************************************************************)
(* Properties.                                                             *)
(***************************************************************************)
Have(file) == {d \in Dates : file[d] # None}
Still(d) == d \notin mixed /\ \A p \in Procs : ~ Writing(p, d)

\* The files of a date have the shape their readers expect.
ChainTypeOK ==
  /\ now \in 1 .. 1 + spent /\ today \in Dates /\ nav \in 1 .. today
  /\ \A d \in Have(tickets), f \in Funds : tickets[d].tickets[f].verb \in Verbs /\ tickets[d].tickets[f].status \in Statuses
  /\ \A d \in Have(advice) : DOMAIN advice[d].decisions = Funds
  /\ \A d \in Have(daily) : d <= today /\ daily[d].ready \subseteq WINDOWS
  /\ \A f \in Funds : latest[f] # None => latest[f].date \in Dates
  /\ mixed \subseteq Dates

\* The official advice of a date was made of one set of tickets, of packs of
\* those tickets and of a debate of both, however many scripts were writing
\* them (validate_chain_contracts).
AdviceIsCoherent ==
  \A d \in Have(advice) :
    /\ advice[d].pack.of = advice[d].ticket
    /\ advice[d].debate.of = advice[d].ticket
    /\ advice[d].debate.pack = advice[d].pack

\* Nothing the advice rests on is newer than the start of the chain that
\* collected it (assert_no_future).
PacksKnowNothingLater == \A d \in Have(packs) : \A at \in packs[d].items : at <= packs[d].at

\* A chain that calls the model publishes its own debate only if every ticket
\* was answered (run_chain).
LiveIsDebated ==
  \A d \in Have(advice) :
    ~ advice[d].mock /\ advice[d].debate.at = advice[d].at => advice[d].debate.llm /\ advice[d].debate.ok

\* What a ticket blocks is held in the advice and in what is validated of it,
\* and no debate that went well revives a ticket with a blocking guardrail.
BlockedIsHeld ==
  \A d \in Have(advice), f \in Funds :
    LET ticket == advice[d].ticket.tickets[f] IN
    /\ ticket.status \in {"blocked", "degraded"} => FinalVerb(advice[d].decisions[f]) = "hold"
    /\ ticket.block /\ advice[d].debate.ok =>
         /\ advice[d].debate.status[f] = "blocked"
         /\ FinalVerb(advice[d].decisions[f]) = "hold"

\* When the writers of a date are done, the daily decisions, the latest of a
\* fund and the ledger tell the same of the validated advice, reruns and
\* outcome updates included.
FilesAgree ==
  \A d \in Have(daily) : Still(d) =>
    \A f \in Funds :
      LET act == daily[d].acts[f] IN
      /\ act.verb = validated[d].acts[f].verb /\ act.amount = validated[d].acts[f].amount
      /\ latest[f].date = d => latest[f].act = act /\ latest[f].ready = daily[d].ready

\* The latest decision of a fund is never that of an older day.
LatestIsNewest == \A d \in Have(daily) : Still(d) => \A f \in Funds : latest[f] # None /\ latest[f].date >= d

\* The ledger has the decisions of a day as they stand, unless an outcome of
\* the same decision was logged first.
LedgerHoldsDay ==
  \A d \in Have(daily) : Still(d) =>
    \A f \in Funds : daily[d].acts[f] \in ledger \/ \E e \in events : e[1] = daily[d].acts[f].id

\* An outcome that is shown has been logged.
OutcomesAreLogged ==
  \A f \in Funds : latest[f] # None /\ latest[f].ready # {} => <<latest[f].act.id, latest[f].ready>> \in events

\* What is advised: the five invariants above, whoever else writes the date.
AdviceIsSafe == /\ ChainTypeOK /\ AdviceIsCoherent /\ PacksKnowNothingLater
                /\ LiveIsDebated /\ BlockedIsHeld

\* What is kept of it: the four files of decisions and outcomes.
RecordsAgree == FilesAgree /\ LatestIsNewest /\ LedgerHoldsDay /\ OutcomesAreLogged
================================================================================
