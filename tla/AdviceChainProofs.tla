--------------------------- MODULE AdviceChainProofs ---------------------------
(***************************************************************************)
(* The files of the advice of a date, for any processes, funds, scores,     *)
(* answers and days, and however the scripts that write them interleave.    *)
(***************************************************************************)
EXTENDS ReviewView, FiniteSetTheorems, WellFoundedInduction, TLAPS

-------------------------------------------------------------------------------
(***************************************************************************)
(* The files have the shape their readers expect, and what a process has    *)
(* read of them fits the step it is at.                                     *)
(***************************************************************************)
TicketRow == [verb : Verbs, amount : Nat, status : Statuses, block : BOOLEAN]
Row       == {r \in [verb : Verbs, amount : Nat, veto : BOOLEAN, eligible : BOOLEAN] :
                r.eligible => r.verb # "hold"}
\* What is held is of no amount, and a gate lets nothing else through.
Act       == {a \in [verb : Verbs, amount : Nat, model : Verbs, asked : Nat, gate : BOOLEAN, veto : BOOLEAN] :
                IF a.verb = "hold" THEN a.amount = 0 ELSE ~ a.gate}
DayAct    == {a \in DayDecision : a.verb = a.id.verb /\ a.amount = a.id.amount}
ChainKinds == {"live", "mock", "tickets", "debate"}

TicketsOK(t) == t.tickets \in [Funds -> TicketRow]

DebateOK(b) ==
  /\ b.at \in 1 .. now /\ b.ok \in BOOLEAN
  /\ \A f \in Funds : b.ok /\ b.of.tickets[f].block => b.status[f] = "blocked"

AdviceOK(a) ==
  /\ TicketsOK(a.ticket) /\ a.mock \in BOOLEAN /\ DebateOK(a.debate)
  /\ a.decisions = Preview(a.ticket.tickets, a.debate.ok, a.mock)
  /\ a.pack.of = a.ticket /\ a.debate.of = a.ticket /\ a.debate.pack = a.pack

ActsOK(v) == v.acts \in [Funds -> Act] /\ v.mock \in BOOLEAN

DailyOK(m) == m \in DailyFile /\ \A f \in Funds : m.acts[f] \in DayAct

Given ==
  /\ today \in Dates /\ nav \in 1 .. today /\ spent \in Nat /\ now \in 1 .. 1 + spent
  /\ portfolio = [asof |-> portfolio.asof, at |-> portfolio.at, values |-> portfolio.values]
  /\ portfolio.values \in Values
  /\ snapshot = [d \in Dates |-> snapshot[d]] /\ context = [d \in Dates |-> context[d]]
  /\ \A d \in Dates : (snapshot[d] = None \/ snapshot[d].values \in Values) /\ context[d].scores \in Scores

Files ==
  /\ \A table \in {tickets, packs, debates, advice, validated, daily} : table = [d \in Dates |-> table[d]]
  /\ latest = [f \in Funds |-> latest[f]]
  /\ \A d \in Dates :
       /\ tickets[d] = None \/ TicketsOK(tickets[d])
       /\ packs[d] = None \/ \A at \in packs[d].items : at <= packs[d].at
       /\ debates[d] = NoDebate \/ DebateOK(debates[d])
       /\ advice[d] = None \/ AdviceOK(advice[d])
       /\ validated[d] = None \/ ActsOK(validated[d])
       /\ daily[d] = None \/ (DailyOK(daily[d]) /\ d <= today)
  /\ \A f \in Funds : latest[f] = None \/ (latest[f] \in LatestDecision /\ latest[f].act \in DayAct)
  /\ ledger \subseteq DayAct /\ mixed \subseteq Dates

Running(r) == r = [kind |-> r.kind, date |-> r.date, at |-> r.at, got |-> r.got, step |-> r.step]

ChainOK(r) ==
  /\ Running(r) /\ r.kind \in ChainKinds /\ r.date \in 1 .. today /\ r.at \in 1 .. now
  /\ r.step \in {"tickets", "packs", "debate", "debating", "preview", "validate", "daily", "ledger"}
  /\ r.kind = "tickets" => r.step = "tickets"
  /\ r.kind = "debate" => r.step \in {"debate", "debating"}
  /\ r.kind \in {"live", "mock"} /\ r.step # "tickets" => TicketsOK(tickets[r.date])
  /\ r.step = "debating" => r.got.ok \in BOOLEAN /\ (r.got.ok => None \notin {r.got.ticket, r.got.pack})
  /\ r.step = "preview" => DebateOK(debates[r.date])
  /\ r.step = "validate" => AdviceOK(r.got)
  /\ r.step = "daily" => ActsOK(validated[r.date])
  /\ r.step = "ledger" => DailyOK(r.got)

UpdateOK(r) ==
  /\ Running(r) /\ r.kind = "update" /\ r.date \in 1 .. today /\ r.step \in {"read", "dump", "log", "show"}
  /\ DailyOK(daily[r.date])
  /\ r.got.left \subseteq {d \in 1 .. today : DailyOK(daily[d])}
  /\ r.step # "read" => DailyOK(r.got.made)

ProcOK(r) == r = Idle \/ ChainOK(r) \/ UpdateOK(r)

AllProcs == proc = [p \in Procs |-> proc[p]] /\ \A p \in Procs : ProcOK(proc[p])

Shapes == Given /\ Files /\ AllProcs

-------------------------------------------------------------------------------
(***************************************************************************)
(* A chain's debate is known by when the chain started, since no two of     *)
(* them start at once.                                                      *)
(***************************************************************************)
Chaining(p) == proc[p].kind \in ChainKinds

AfterDebate == {"preview", "validate", "daily", "ledger"}

Debated ==
  /\ \A p, q \in Procs : Chaining(p) /\ Chaining(q) /\ proc[p].at = proc[q].at => p = q
  /\ \A p \in Procs, d \in Dates : Chaining(p) /\ debates[d].at = proc[p].at =>
       /\ proc[p].step \in AfterDebate
       /\ proc[p].kind = "live" => debates[d].llm /\ debates[d].ok
  /\ LiveIsDebated

-------------------------------------------------------------------------------
(***************************************************************************)
(* A date no writer died on and no two wrote at once has one writer, which  *)
(* leaves behind at each step what the next one needs.                      *)
(***************************************************************************)
At(steps, d) == \E p \in Procs : Writing(p, d) /\ proc[p].step \in steps

Recorded(d) ==
  \A f \in Funds :
    LET act == daily[d].acts[f] IN
    /\ act.verb = validated[d].acts[f].verb /\ act.amount = validated[d].acts[f].amount
    /\ latest[f] # None /\ latest[f].date >= d
    /\ latest[f].date = d => latest[f].act = act /\ (At({"log", "show"}, d) \/ latest[f].ready = daily[d].ready)
    /\ At({"ledger"}, d) \/ act \in ledger \/ \E e \in events : e[1] = act.id

DateOK(d) ==
  /\ \A p, q \in Procs : Writing(p, d) /\ Writing(q, d) => p = q
  /\ daily[d] # None /\ ~ At({"validate", "daily"}, d) => Recorded(d)
  /\ \A p \in Procs : Writing(p, d) =>
       /\ proc[p].step = "ledger" => proc[p].got = daily[d]
       /\ proc[p].step = "dump" => proc[p].got.made.acts = daily[d].acts
       /\ proc[p].step \in {"log", "show"} => proc[p].got.made = daily[d]

\* What an update is about to show has been logged.
ShowsLogged ==
  \A p \in Procs : proc[p].kind = "update" /\ proc[p].step = "show" =>
    \A f \in Funds : <<proc[p].got.made.acts[f].id, proc[p].got.made.ready>> \in events

Records == (\A d \in Dates \ mixed : DateOK(d)) /\ ShowsLogged /\ OutcomesAreLogged

-------------------------------------------------------------------------------
(***************************************************************************)
(* Tickets and validated acts that bear the time of one start are of one    *)
(* chain: the acts are of those tickets, or the tickets of those acts.      *)
(***************************************************************************)
Late == {"daily", "ledger"}

\* Seeds block nothing.
Fresh(rows) == \A f \in Funds : ~ rows[f].block /\ (Role[f] = "core_dca" => rows[f].verb = "scheduled_dca")

Follows(acts, rows) == \A f \in Funds : acts[f].verb = rows[f].verb \/ (acts[f].verb = "hold" /\ ~ rows[f].block)

\* What a chain is about to validate is of its own tickets, if they are still there.
Based(r) ==
  r.step = "validate" =>
    /\ r.got.at = r.at
    /\ tickets[r.date] # None /\ tickets[r.date].at = r.at => r.got.ticket = tickets[r.date]

Traced ==
  /\ \A d \in Dates : tickets[d] # None =>
       tickets[d].at \in 1 .. now /\ (tickets[d].source = "native" => Fresh(tickets[d].tickets))
  /\ \A d \in Dates : validated[d] # None => validated[d].at \in 1 .. now
  /\ \A p \in Procs, d \in Dates : Chaining(p) /\ validated[d] # None /\ validated[d].at = proc[p].at => proc[p].step \in Late
  /\ \A p \in Procs, d \in Dates : Chaining(p) /\ tickets[d] # None /\ tickets[d].at = proc[p].at =>
       proc[p].step # "tickets" /\ (proc[p].step \in Late \/ tickets[d].source = "native")
  /\ \A p \in Procs : Chaining(p) => Based(proc[p])
  /\ \A d \in Dates : tickets[d] # None /\ validated[d] # None /\ tickets[d].at = validated[d].at =>
       Follows(validated[d].acts, tickets[d].tickets)

-------------------------------------------------------------------------------
(***************************************************************************)
(* Tickets, advice and decisions.                                           *)
(***************************************************************************)
LEMMA LeastType == \A a, b \in Nat : Least(a, b) \in Nat /\ Least(a, b) <= a
  BY DEF Least

LEMMA NormalizedType == \A a, b \in Nat : \A exit \in BOOLEAN : Normalized(a, b, exit) \in Nat
<1> SUFFICES ASSUME NEW a \in Nat, NEW b \in Nat, NEW exit \in BOOLEAN
             PROVE  Normalized(a, b, exit) \in Nat
  OBVIOUS
<1> DEFINE least == Least(a, b)
<1>1. least \in Nat
  BY LeastType
<1> HIDE DEF least
<1>2. least % MinTrade \in Nat /\ least % MinTrade <= least
  BY <1>1, TicketsAssumption
<1>3. least - (least % MinTrade) \in Nat
  BY <1>1, <1>2
<1> QED
  BY <1>3 DEF Normalized, least

LEMMA RoomType == \A v \in Nat : Room(v) \in Nat
  BY TicketsAssumption DEF Room

LEMMA SeedAmountType ==
  ASSUME NEW verb, NEW value \in Nat, NEW score
  PROVE  SeedAmount(verb, value, score) \in Nat
<1>1. AddBase(score) \in Nat
  BY TicketsAssumption DEF AddBase
<1>2. Room(value) \in Nat /\ MidReduce \in Nat
  BY RoomType, TicketsAssumption
<1>3. Least(AddBase(score), Room(value)) \in Nat /\ Least(MidReduce, value) \in Nat
  BY <1>1, <1>2, LeastType
<1> QED
  BY <1>3 DEF SeedAmount

LEMMA SeedVerbType ==
  ASSUME NEW f \in Funds, NEW value, NEW item \in Item
  PROVE  SeedVerb(f, value, item) \in Verbs
<1>1. ScoreVerb(item) \in Verbs
  BY TicketsAssumption DEF ScoreVerb, Verbs, Item
<1>2. CASE Role[f] = "core_dca"
  BY <1>2 DEF SeedVerb, Verbs, Scored
<1>3. CASE Role[f] # "core_dca" /\ Scored(f) /\ SeedAmount(ScoreVerb(item), value, item.score) > 0
  BY <1>1, <1>3 DEF SeedVerb
<1>4. CASE Role[f] # "core_dca" /\ ~ (Scored(f) /\ SeedAmount(ScoreVerb(item), value, item.score) > 0)
  BY <1>4 DEF SeedVerb, Verbs
<1> QED
  BY <1>2, <1>3, <1>4

LEMMA NativeType ==
  ASSUME NEW values \in [Funds -> Nat], NEW scores \in [Funds -> Item]
  PROVE  NativeTickets(values, scores) \in [Funds -> TicketRow]
<1> SUFFICES ASSUME NEW f \in Funds
             PROVE  NativeTickets(values, scores)[f] \in TicketRow
  BY DEF NativeTickets
<1> DEFINE verb == SeedVerb(f, values[f], scores[f])
           amount == IF verb = "scheduled_dca" THEN DcaAmount ELSE SeedAmount(verb, values[f], scores[f].score)
<1>1. verb \in Verbs
  BY SeedVerbType
<1>2. amount \in Nat
  BY SeedAmountType, TicketsAssumption
<1>3. NativeTickets(values, scores)[f] = Ticket(verb, amount, "shadow_only", FALSE)
  BY DEF NativeTickets
<1> HIDE DEF verb, amount
<1> QED
  BY <1>1, <1>2, <1>3 DEF Ticket, TicketRow, Statuses

LEMMA ValidatedType ==
  ASSUME NEW acts \in [Funds -> Act], NEW holdOnly \in BOOLEAN
  PROVE  ValidatedTickets(acts, holdOnly) \in [Funds -> TicketRow]
<1> SUFFICES ASSUME NEW f \in Funds
             PROVE  ValidatedTickets(acts, holdOnly)[f] \in TicketRow
  BY DEF ValidatedTickets
<1> DEFINE status == InferStatus(acts[f])
           block == Blocks(acts[f], holdOnly)
<1>1. status \in Statuses
  BY DEF InferStatus, Statuses
<1>2. block \in BOOLEAN
  BY DEF Blocks
<1>3. acts[f].verb \in Verbs /\ acts[f].amount \in Nat
  BY DEF Act
<1>4. ValidatedTickets(acts, holdOnly)[f] = Ticket(acts[f].verb, acts[f].amount, status, block)
  BY DEF ValidatedTickets
<1> HIDE DEF status, block
<1> QED
  BY <1>1, <1>2, <1>3, <1>4 DEF Ticket, TicketRow

LEMMA PreviewType ==
  ASSUME NEW rows \in [Funds -> TicketRow], NEW checked \in BOOLEAN, NEW mock \in BOOLEAN
  PROVE  /\ Preview(rows, checked, mock) \in [Funds -> Row]
         /\ \A f \in Funds : Preview(rows, checked, mock)[f].veto = Veto(rows[f], checked)
<1> SUFFICES ASSUME NEW f \in Funds
             PROVE  /\ Preview(rows, checked, mock)[f] \in Row
                    /\ Preview(rows, checked, mock)[f].veto = Veto(rows[f], checked)
  BY DEF Preview
<1> DEFINE amount == IF rows[f].verb = "hold" THEN 0 ELSE rows[f].amount
           veto == Veto(rows[f], checked)
           eligible == rows[f].verb # "hold" /\ ~ Veto(rows[f], checked) /\ ~ mock
<1>1. rows[f].verb \in Verbs /\ amount \in Nat
  BY DEF TicketRow
<1>2. veto \in BOOLEAN
  BY DEF Veto
<1>3. eligible \in BOOLEAN
  OBVIOUS
<1>4. Preview(rows, checked, mock)[f] = [verb |-> rows[f].verb, amount |-> amount, veto |-> veto, eligible |-> eligible]
  BY DEF Preview, CommitteeDecision
<1>5. eligible => rows[f].verb # "hold"
  OBVIOUS
<1> HIDE DEF amount, eligible
<1> QED
  BY <1>1, <1>2, <1>3, <1>4, <1>5 DEF Row

LEMMA ValidationType ==
  ASSUME NEW f, NEW row \in Row, NEW value \in Nat, NEW mock \in BOOLEAN, NEW act \in Validations(f, row, value, mock)
  PROVE  act \in Act
<1>1. FinalVerb(row) \in Verbs
  BY DEF FinalVerb, Row, Verbs
<1>2. row.amount \in Nat /\ row.verb \in Verbs /\ row.veto \in BOOLEAN
  BY DEF Row
<1>3. \A gate \in BOOLEAN : Held(row, gate) \in Act
  <2> TAKE gate \in BOOLEAN
  <2>1. Held(row, gate) = [verb |-> "hold", amount |-> 0, model |-> FinalVerb(row), asked |-> row.amount,
                           gate |-> gate, veto |-> row.veto]
    BY DEF Held
  <2>2. "hold" \in Verbs /\ 0 \in Nat
    BY DEF Verbs
  <2> QED
    BY <1>1, <1>2, <2>1, <2>2 DEF Act
<1>4. DcaAmount \in Nat /\ "scheduled_dca" \in Verbs
  BY TicketsAssumption DEF Verbs
<1>5. Bounded(row, value) \in Nat
  BY <1>2, NormalizedType, RoomType DEF Bounded
<1>6. CASE Role[f] = "core_dca" /\ ~ mock
  <2>1. act = [verb |-> "scheduled_dca", amount |-> DcaAmount, model |-> FinalVerb(row), asked |-> DcaAmount,
               gate |-> FALSE, veto |-> row.veto]
    BY <1>6 DEF Validations
  <2> QED
    BY <1>1, <1>2, <1>4, <2>1 DEF Act
<1>7. CASE ~ (Role[f] = "core_dca" /\ ~ mock) /\ Role[f] = "tactical" /\ ~ mock /\ ~ row.veto /\ row.eligible
  <2> DEFINE one == [verb |-> row.verb, amount |-> Bounded(row, value), model |-> row.verb,
                     asked |-> row.amount, gate |-> FALSE, veto |-> FALSE]
  <2>1. one \in Act
    BY <1>2, <1>5, <1>7 DEF Act, Row
  <2>2. act = Held(row, FALSE) \/ act = one
    BY <1>7 DEF Validations
  <2> HIDE DEF one
  <2> QED
    BY <1>3, <2>1, <2>2
<1>8. CASE ~ (Role[f] = "core_dca" /\ ~ mock) /\ ~ (Role[f] = "tactical" /\ ~ mock /\ ~ row.veto /\ row.eligible)
  <2> DEFINE gate == ~ mock /\ Role[f] = "tactical"
  <2>1. gate \in BOOLEAN
    OBVIOUS
  <2>2. act = Held(row, gate)
    BY <1>8 DEF Validations
  <2> HIDE DEF gate
  <2> QED
    BY <1>3, <2>1, <2>2
<1> QED
  BY <1>6, <1>7, <1>8

LEMMA ActsType ==
  ASSUME NEW rows \in [Funds -> Row], NEW values \in [Funds -> Nat], NEW mock \in BOOLEAN,
         NEW acts \in ValidatedActs(rows, values, mock)
  PROVE  acts \in [Funds -> Act]
<1>1. \A f \in Funds : acts[f] \in Validations(f, rows[f], values[f], mock)
  BY DEF ValidatedActs
<1>2. \A f \in Funds : acts[f] \in Act
  BY <1>1, ValidationType
<1>3. acts = [f \in Funds |-> acts[f]]
  BY DEF ValidatedActs
<1> QED
  BY <1>2, <1>3

LEMMA DecisionsType ==
  ASSUME NEW d \in Dates, NEW acts \in [Funds -> Act]
  PROVE  /\ DailyOK([acts |-> Decisions(d, acts), ready |-> {}])
         /\ \A f \in Funds : /\ Decisions(d, acts)[f].verb = acts[f].verb
                             /\ Decisions(d, acts)[f].amount = acts[f].amount
<1>1. \A f \in Funds : /\ Decisions(d, acts)[f] \in DayAct
                       /\ Decisions(d, acts)[f].verb = acts[f].verb
                       /\ Decisions(d, acts)[f].amount = acts[f].amount
  BY DEF Decisions, DecisionId, DayAct, DayDecision, Act
<1>2. Decisions(d, acts) = [f \in Funds |-> Decisions(d, acts)[f]]
  BY DEF Decisions
<1>3. Decisions(d, acts) \in [Funds -> DayDecision]
  BY <1>1, <1>2 DEF DayAct
<1> QED
  BY <1>1, <1>3 DEF DailyOK, DailyFile

-------------------------------------------------------------------------------
(***************************************************************************)
(* Steps and shapes.                                                        *)
(***************************************************************************)
LEMMA DatesType == MaxDay \in Nat \ {0} /\ Dates \subseteq Nat /\ 1 \in Dates /\ \A d \in Dates : 1 .. d \subseteq Dates
  BY ChainAssumption DEF Dates

\* A set of dates that is not empty has a first one.
LEMMA FirstIsIn == \A dates \in SUBSET Dates : dates # {} => First(dates) \in dates
<1> SUFFICES ASSUME NEW dates \in SUBSET Dates, dates # {}
             PROVE  First(dates) \in dates
  OBVIOUS
<1>1. dates \subseteq Nat
  BY DatesType
<1>2. PICK d \in dates : \A e \in dates : ~ (<<e, d>> \in OpToRel(<, Nat))
  BY <1>1, NatLessThanWellFounded, WFMin
<1>3. \A e \in dates : ~ (e < d)
  BY <1>1, <1>2 DEF OpToRel
<1>4. \A e \in dates : d <= e
  BY <1>1, <1>3
<1> QED
  BY <1>4 DEF First

LEMMA PortfolioType ==
  ASSUME Given, NEW d \in Dates, NEW prior, PortfolioOf(d, prior) # None
  PROVE  PortfolioOf(d, prior).values \in [Funds -> Nat]
<1>1. PortfolioOf(d, prior) \in {snapshot[d], portfolio} /\ (PortfolioOf(d, prior) = snapshot[d] => snapshot[d] # None)
  BY DEF PortfolioOf
<1> QED
  BY <1>1, ChainAssumption DEF Given

LEMMA OKWhenLater ==
  ASSUME now \in Nat, now' \in Nat, now <= now'
  PROVE  /\ \A b : DebateOK(b) => DebateOK(b)'
         /\ \A a : AdviceOK(a) => AdviceOK(a)'
<1>1. \A b : DebateOK(b) => DebateOK(b)'
  BY DEF DebateOK
<1> QED
  BY <1>1 DEF AdviceOK, TicketsOK

\* What other processes may change under the eyes of one.
Keeps ==
  /\ today \in Nat /\ today' \in Nat /\ today <= today' /\ now \in Nat /\ now' \in Nat /\ now <= now'
  /\ \A d \in Dates :
       /\ TicketsOK(tickets[d]) => TicketsOK(tickets'[d])
       /\ DebateOK(debates[d]) => DebateOK(debates[d])'
       /\ ActsOK(validated[d]) => ActsOK(validated'[d])
       /\ DailyOK(daily[d]) => DailyOK(daily'[d])

LEMMA ProcKeeps ==
  ASSUME Keeps, Given, NEW r, ProcOK(r)
  PROVE  ProcOK(r)'
<1>1. CASE r = Idle
  BY <1>1 DEF ProcOK
<1>2. 1 .. today \subseteq Dates /\ 1 .. today \subseteq 1 .. today' /\ 1 .. now \subseteq 1 .. now'
  BY DatesType DEF Keeps, Given
<1>3. CASE ChainOK(r)
  <2>1. r.date \in Dates /\ r.date \in 1 .. today' /\ r.at \in 1 .. now'
    BY <1>2, <1>3 DEF ChainOK
  <2>2. AdviceOK(r.got) => AdviceOK(r.got)'
    BY OKWhenLater DEF Keeps
  <2>3. TicketsOK(tickets[r.date]) => TicketsOK(tickets[r.date])'
    BY <2>1 DEF Keeps, TicketsOK
  <2>4. DebateOK(debates[r.date]) => DebateOK(debates[r.date])'
    BY <2>1 DEF Keeps
  <2>5. ActsOK(validated[r.date]) => ActsOK(validated[r.date])'
    BY <2>1 DEF Keeps, ActsOK
  <2>6. ChainOK(r)'
    BY <1>3, <2>1, <2>2, <2>3, <2>4, <2>5 DEF ChainOK
  <2> QED
    BY <2>6 DEF ProcOK
<1>4. CASE UpdateOK(r)
  <2>1. r.date \in Dates /\ r.date \in 1 .. today'
    BY <1>2, <1>4 DEF UpdateOK
  <2>2. DailyOK(daily[r.date])'
    BY <1>4, <2>1 DEF Keeps, UpdateOK
  <2>3. r.got.left \subseteq {d \in 1 .. today' : DailyOK(daily'[d])}
    BY <1>2, <1>4 DEF Keeps, UpdateOK
  <2>4. UpdateOK(r)'
    BY <1>4, <2>1, <2>2, <2>3 DEF UpdateOK
  <2> QED
    BY <2>4 DEF ProcOK
<1> QED
  BY <1>1, <1>3, <1>4 DEF ProcOK

LEMMA ShapesKept ==
  ASSUME Shapes, Given', Files', Keeps, NEW p \in Procs,
         proc' = [q \in Procs |-> proc'[q]], \A q \in Procs \ {p} : proc'[q] = proc[q], ProcOK(proc[p])'
  PROVE  Shapes'
<1>1. \A q \in Procs \ {p} : ProcOK(proc[q])'
  <2> TAKE q \in Procs \ {p}
  <2>1. PICK r : r = proc[q]
    OBVIOUS
  <2>2. ProcOK(r)'
    BY <2>1, ProcKeeps DEF Shapes, AllProcs
  <2>3. proc'[q] = r
    BY <2>1
  <2> QED
    BY <2>2, <2>3
<1>2. AllProcs'
  BY <1>1 DEF AllProcs
<1> QED
  BY <1>2 DEF Shapes

LEMMA GoEffect ==
  ASSUME AllProcs, NEW p \in Procs, Running(proc[p]), NEW step, NEW got, Go(p, step, got)
  PROVE  /\ proc' = [q \in Procs |-> proc'[q]] /\ \A q \in Procs \ {p} : proc'[q] = proc[q]
         /\ Running(proc'[p]) /\ proc'[p].kind = proc[p].kind /\ proc'[p].date = proc[p].date
         /\ proc'[p].at = proc[p].at /\ proc'[p].step = step /\ proc'[p].got = got
<1>1. proc' = [q \in Procs |-> IF q = p THEN [proc[p] EXCEPT !.step = step, !.got = got] ELSE proc[q]]
  BY DEF Go, AllProcs
<1>2. PICK r : r = proc[p]
  OBVIOUS
<1>3. PICK s : s = proc'[p]
  OBVIOUS
<1>4. s = [r EXCEPT !.step = step, !.got = got]
  BY <1>1, <1>2, <1>3
<1>5. r = [kind |-> r.kind, date |-> r.date, at |-> r.at, got |-> r.got, step |-> r.step]
  BY <1>2 DEF Running
<1>6. s = [kind |-> r.kind, date |-> r.date, at |-> r.at, got |-> got, step |-> step]
  BY <1>4, <1>5
<1>7. Running(s) /\ s.kind = r.kind /\ s.date = r.date /\ s.at = r.at /\ s.step = step /\ s.got = got
  BY <1>6 DEF Running
<1> QED
  BY <1>1, <1>2, <1>3, <1>7

LEMMA StopEffect ==
  ASSUME AllProcs, NEW p \in Procs, Stop(p)
  PROVE  /\ proc' = [q \in Procs |-> proc'[q]] /\ \A q \in Procs \ {p} : proc'[q] = proc[q]
         /\ proc'[p] = Idle /\ ProcOK(proc[p])'
  BY DEF AllProcs, Stop, ProcOK

LEMMA NotIdle ==
  ASSUME AllProcs, NEW p \in Procs, proc[p].kind # "idle"
  PROVE  Running(proc[p]) /\ (ChainOK(proc[p]) \/ UpdateOK(proc[p]))
  BY DEF AllProcs, ProcOK, Idle, ChainOK, UpdateOK

\* A step that a chain alone takes.
LEMMA ChainAt ==
  ASSUME Shapes, NEW p \in Procs, proc[p].kind # "idle",
         proc[p].step \in {"tickets", "packs", "debate", "debating", "preview", "validate", "daily", "ledger"}
  PROVE  ChainOK(proc[p]) /\ Running(proc[p]) /\ proc[p].date \in Dates
<1>1. ChainOK(proc[p]) /\ Running(proc[p])
  BY NotIdle DEF Shapes, UpdateOK
<1> QED
  BY <1>1, DatesType DEF ChainOK, Shapes, Given

LEMMA UpdateAt ==
  ASSUME Shapes, NEW p \in Procs, proc[p].kind = "update"
  PROVE  UpdateOK(proc[p]) /\ Running(proc[p]) /\ proc[p].date \in Dates
<1>1. UpdateOK(proc[p]) /\ Running(proc[p])
  BY NotIdle DEF Shapes, ChainOK, ChainKinds
<1> QED
  BY <1>1, DatesType DEF UpdateOK, Shapes, Given

\* Nothing is taken back.
LEMMA KeepsWhenSame ==
  ASSUME Shapes, UNCHANGED <<given, tickets, debates, validated, daily>>
  PROVE  Keeps
<1>1. today \in Nat /\ now \in Nat
  BY DatesType DEF Shapes, Given
<1> QED
  BY <1>1 DEF Keeps, given, TicketsOK, DebateOK, ActsOK, DailyOK

LEMMA GivenSame ==
  ASSUME Given, UNCHANGED <<given, spent>>
  PROVE  Given'
  BY DEF Given, given

LEMMA ShapesInit == ChainInit => Shapes
<1> SUFFICES ASSUME ChainInit PROVE Shapes
  OBVIOUS
<1>1. Given
  BY ChainAssumption, DatesType DEF ChainInit, Given
<1>2. Files
  BY DEF ChainInit, Files
<1>3. AllProcs
  BY DEF ChainInit, AllProcs, ProcOK
<1> QED
  BY <1>1, <1>2, <1>3 DEF Shapes

\* What the scripts read is changed.
LEMMA GivenSteps ==
  ASSUME Shapes, NewDay \/ Priced \/ Revalue \/ Settle \/ Score \/ Remember
  PROVE  Shapes' /\ Keeps /\ UNCHANGED <<shadow, official, proc, mixed>>
<1>1. UNCHANGED <<shadow, official, proc, mixed>>
  BY DEF NewDay, Priced, Revalue, Settle, Score, Remember, shadow, official
<1>2. today \in Dates /\ today \in Nat /\ nav \in 1 .. today /\ spent \in Nat /\ now \in 1 .. 1 + spent /\ MaxDay \in Nat
  BY DatesType DEF Shapes, Given
<1>3. today' \in Dates /\ today' \in Nat /\ today <= today' /\ nav' \in 1 .. today'
  <2>1. CASE NewDay
    BY <1>2, <2>1 DEF NewDay, Dates
  <2>2. CASE Priced
    BY <1>2, <2>2 DEF Priced
  <2>3. CASE Revalue \/ Settle \/ Score \/ Remember
    <3>1. today' = today /\ nav' = nav
      BY <2>3 DEF Revalue, Settle, Score, Remember
    <3> QED
      BY <1>2, <3>1
  <2> QED
    BY <2>1, <2>2, <2>3
<1>4. spent' \in Nat /\ now' \in 1 .. 1 + spent' /\ now <= now'
  <2>1. CASE NewDay \/ Priced
    BY <1>2, <2>1 DEF NewDay, Priced
  <2>2. CASE Tick
    BY <1>2, <2>2 DEF Tick, Spend
  <2> QED
    BY <2>1, <2>2 DEF Revalue, Settle, Score, Remember
<1>5. Given'
  <2>1. CASE NewDay \/ Priced \/ Remember
    <3>1. UNCHANGED <<portfolio, snapshot, context>>
      BY <2>1 DEF NewDay, Priced, Remember
    <3> QED
      BY <1>3, <1>4, <3>1 DEF Shapes, Given
  <2>2. CASE Score
    <3>1. PICK s \in Scores : context' = [context EXCEPT ![today] = [at |-> now', scores |-> s]]
      BY <2>2 DEF Score
    <3>2. context' = [d \in Dates |-> context'[d]] /\ \A d \in Dates : context'[d].scores \in Scores
      BY <1>2, <3>1 DEF Shapes, Given
    <3>3. UNCHANGED <<portfolio, snapshot>>
      BY <2>2 DEF Score
    <3> QED
      BY <1>3, <1>4, <3>2, <3>3 DEF Shapes, Given
  <2>3. ASSUME NEW d \in Dates, NEW new, new.values \in Values,
               new = [asof |-> new.asof, at |-> new.at, values |-> new.values],
               Saved(d, new), context' = context
        PROVE  Given'
    <3>1. snapshot' = [e \in Dates |-> snapshot'[e]] /\ \A e \in Dates : snapshot'[e] = None \/ snapshot'[e].values \in Values
      BY <2>3 DEF Saved, Shapes, Given
    <3>2. portfolio' = new
      BY <2>3 DEF Saved
    <3>3. /\ portfolio' = [asof |-> portfolio'.asof, at |-> portfolio'.at, values |-> portfolio'.values]
          /\ portfolio'.values \in Values
      BY <2>3, <3>2
    <3> QED
      BY <1>3, <1>4, <2>3, <3>1, <3>3 DEF Shapes, Given
  <2>4. CASE Revalue
    <3>1. PICK v \in Values : Saved(today, [asof |-> today, at |-> now', values |-> v])
      BY <2>4 DEF Revalue
    <3> QED
      BY <1>2, <2>3, <2>4, <3>1 DEF Revalue
  <2>5. CASE Settle
    <3>1. PICK v \in Values, d \in 1 .. today : Saved(d, [portfolio EXCEPT !.at = now', !.values = v])
      BY <2>5 DEF Settle
    <3>2. [portfolio EXCEPT !.at = now', !.values = v] = [asof |-> portfolio.asof, at |-> now', values |-> v]
      <4>1. PICK r, a : r = portfolio /\ a = now'
        OBVIOUS
      <4>2. r = [asof |-> r.asof, at |-> r.at, values |-> r.values]
        BY <4>1 DEF Shapes, Given
      <4>3. PICK s : s = [r EXCEPT !.at = a, !.values = v]
        OBVIOUS
      <4>4. s = [asof |-> r.asof, at |-> a, values |-> v]
        BY <4>2, <4>3
      <4> QED
        BY <4>1, <4>3, <4>4
    <3>3. d \in Dates
      BY <1>2, DatesType
    <3> QED
      BY <2>3, <2>5, <3>1, <3>2, <3>3 DEF Settle
  <2> QED
    BY <2>1, <2>2, <2>4, <2>5
<1>6. now \in Nat /\ now' \in Nat
  BY <1>2, <1>4
<1>7. Keeps
  BY <1>1, <1>2, <1>3, <1>4, <1>6, OKWhenLater DEF Keeps, shadow, official, TicketsOK, ActsOK, DailyOK
<1>8. Files'
  <2>1. \A d \in Dates : debates'[d] = NoDebate \/ DebateOK(debates[d])'
    BY <1>1, <1>7 DEF Shapes, Files, Keeps, shadow
  <2>2. \A d \in Dates : advice'[d] = None \/ AdviceOK(advice[d])'
    BY <1>1, <1>4, <1>6, OKWhenLater DEF Shapes, Files, official
  <2>3. \A d \in Dates : d <= today => d <= today'
    BY <1>2, <1>3, DatesType
  <2> QED
    BY <1>1, <2>1, <2>2, <2>3 DEF Shapes, Files, shadow, official, TicketsOK, ActsOK, DailyOK
<1>9. \A p \in Procs : ProcOK(proc[p])'
  <2> TAKE p \in Procs
  <2>1. PICK r : r = proc[p]
    OBVIOUS
  <2>2. ProcOK(r)'
    BY <1>7, <2>1, ProcKeeps DEF Shapes, AllProcs
  <2> QED
    BY <1>1, <2>1, <2>2
<1>10. AllProcs'
  BY <1>1, <1>9 DEF Shapes, AllProcs
<1> QED
  BY <1>1, <1>5, <1>7, <1>8, <1>10 DEF Shapes

LEMMA Put ==
  ASSUME NEW table, table = [d \in Dates |-> table[d]], NEW d \in Dates, NEW x, NEW t, t = [table EXCEPT ![d] = x]
  PROVE  t = [e \in Dates |-> t[e]] /\ t[d] = x /\ \A e \in Dates \ {d} : t[e] = table[e]
  OBVIOUS

LEMMA FilesSame ==
  ASSUME Shapes, UNCHANGED <<given, shadow, official, mixed>>
  PROVE  Files'
  BY DEF Shapes, Files, given, shadow, official, TicketsOK, DebateOK, AdviceOK, ActsOK, DailyOK

LEMMA StartStep ==
  ASSUME Shapes, NEW p \in Procs, NEW kind \in ChainKinds, NEW d \in Dates, Start(p, kind, d)
  PROVE  Shapes' /\ now' = now + 1 /\ Running(proc'[p]) /\ proc'[p].kind = kind /\ proc'[p].date = d
         /\ proc'[p].at = now' /\ proc'[p].step \in {"debate", "tickets"} /\ \A q \in Procs \ {p} : proc'[q] = proc[q]
<1>1. now \in Nat /\ now' = now + 1 /\ spent' = spent + 1 /\ now' \in 1 .. now' /\ d \in 1 .. today /\ today \in Nat
  <2>1. now \in Nat /\ today \in Nat /\ d \in Nat /\ d >= 1
    BY DatesType DEF Shapes, Given, Dates
  <2>2. d <= today /\ now' = now + 1 /\ spent' = spent + 1
    BY DEF Start, Tick, Spend
  <2> QED
    BY <2>1, <2>2
<1>2. UNCHANGED <<today, nav, portfolio, snapshot, context, memory, shadow, official, mixed>>
  BY DEF Start
<1>3. Given'
  BY <1>1, <1>2 DEF Shapes, Given
<1>4. Keeps
  BY <1>1, <1>2, OKWhenLater DEF Keeps, shadow, official, TicketsOK, ActsOK, DailyOK
<1>5. Files'
  <2>1. \A e \in Dates : debates'[e] = NoDebate \/ DebateOK(debates[e])'
    BY <1>2, <1>4 DEF Shapes, Files, Keeps, shadow
  <2>2. \A e \in Dates : advice'[e] = None \/ AdviceOK(advice[e])'
    BY <1>1, <1>2, OKWhenLater DEF Shapes, Files, official
  <2> QED
    BY <1>2, <2>1, <2>2 DEF Shapes, Files, shadow, official, TicketsOK, ActsOK, DailyOK
<1> DEFINE step == IF kind = "debate" THEN "debate" ELSE "tickets"
<1>6. PICK s : s = [kind |-> kind, date |-> d, at |-> now', got |-> None, step |-> step]
  OBVIOUS
<1>7. /\ proc' = [q \in Procs |-> proc'[q]] /\ \A q \in Procs \ {p} : proc'[q] = proc[q]
      /\ proc'[p] = s
  <2>1. proc' = [proc EXCEPT ![p] = [kind |-> kind, date |-> d, at |-> now', got |-> None, step |-> step]]
    BY DEF Start
  <2>2. proc' = [proc EXCEPT ![p] = s]
    BY <1>6, <2>1
  <2> QED
    BY <2>2 DEF Shapes, AllProcs
<1>8. Running(s) /\ s.kind = kind /\ s.date = d /\ s.at = now' /\ s.step = step
  BY <1>6 DEF Running
<1>9. ChainOK(s)'
  BY <1>1, <1>2, <1>8 DEF ChainOK, ChainKinds
<1>10. ProcOK(s)'
  BY <1>9 DEF ProcOK
<1>11. ProcOK(proc[p])'
  BY <1>7, <1>10
<1> HIDE DEF step
<1>12. Shapes'
  BY <1>3, <1>4, <1>5, <1>7, <1>11, ShapesKept
<1> QED
  BY <1>1, <1>7, <1>8, <1>12 DEF step

LEMMA BuildTicketsStep ==
  ASSUME Shapes, NEW p \in Procs, BuildTickets(p)
  PROVE  Shapes' /\ (Stop(p) \/ (proc[p].kind # "tickets" /\ Go(p, "packs", None)))
<1> DEFINE d == proc[p].date
           here == PortfolioOf(d, proc[p].kind # "tickets") # None /\ (proc[p].kind = "tickets" => validated[d] # None)
<1>1. ChainOK(proc[p]) /\ Running(proc[p]) /\ d \in Dates /\ AllProcs
  BY ChainAt DEF BuildTickets, Shapes
<1>2. UNCHANGED <<given, packs, debates, official, mixed, spent>>
  BY DEF BuildTickets
<1>3. Given'
  BY <1>2, GivenSame DEF Shapes
<1>4. CASE here
  <2>1. tickets' = [tickets EXCEPT ![d] = TicketsOf(p, d)] /\ (IF proc[p].kind # "tickets" THEN Go(p, "packs", None) ELSE Stop(p))
    BY <1>4 DEF BuildTickets
  <2>2. TicketsOK(TicketsOf(p, d))
    <3>1. CASE proc[p].kind = "tickets"
      <4>1. ActsOK(validated[d])
        BY <1>1, <1>4, <3>1 DEF Shapes, Files
      <4> QED
        BY <3>1, <4>1, ValidatedType DEF TicketsOf, TicketsOK, ActsOK
    <3>2. CASE proc[p].kind # "tickets"
      <4>1. PortfolioOf(d, TRUE) # None
        BY <1>4, <3>2
      <4>2. PortfolioOf(d, TRUE).values \in [Funds -> Nat]
        BY <1>1, <4>1, PortfolioType DEF Shapes
      <4>3. context[d].scores \in [Funds -> Item]
        BY <1>1, ChainAssumption DEF Shapes, Given
      <4> QED
        BY <3>2, <4>2, <4>3, NativeType DEF TicketsOf, TicketsOK
    <3> QED
      BY <3>1, <3>2
  <2>3. /\ tickets' = [e \in Dates |-> tickets'[e]] /\ tickets'[d] = TicketsOf(p, d)
        /\ \A e \in Dates \ {d} : tickets'[e] = tickets[e]
    <3>1. tickets = [e \in Dates |-> tickets[e]]
      BY DEF Shapes, Files
    <3> QED
      BY <1>1, <2>1, <3>1, Put
  <2>4. \A e \in Dates : TicketsOK(tickets[e]) => TicketsOK(tickets'[e])
    BY <2>2, <2>3
  <2>5. Keeps
    BY <1>2, <2>4, DatesType DEF Keeps, Shapes, Given, given, official, DebateOK, ActsOK, DailyOK
  <2>6. Files'
    <3>1. \A e \in Dates : tickets'[e] = None \/ TicketsOK(tickets'[e])
      BY <2>2, <2>3 DEF Shapes, Files
    <3> QED
      BY <1>2, <2>3, <3>1 DEF Shapes, Files, given, official, TicketsOK, DebateOK, AdviceOK, ActsOK, DailyOK
  <2>7. CASE proc[p].kind = "tickets"
    <3>1. Stop(p)
      BY <2>1, <2>7
    <3> QED
      BY <1>1, <1>3, <2>5, <2>6, <3>1, StopEffect, ShapesKept
  <2>8. CASE proc[p].kind # "tickets"
    <3>1. Go(p, "packs", None)
      BY <2>1, <2>8
    <3>2. /\ proc' = [q \in Procs |-> proc'[q]] /\ \A q \in Procs \ {p} : proc'[q] = proc[q]
          /\ Running(proc'[p]) /\ proc'[p].kind = proc[p].kind /\ proc'[p].date = d
          /\ proc'[p].at = proc[p].at /\ proc'[p].step = "packs"
      BY <1>1, <3>1, GoEffect
    <3>3. proc[p].kind # "debate"
      BY <1>1 DEF ChainOK, BuildTickets
    <3>4. ChainOK(proc[p])'
      BY <1>1, <1>2, <2>2, <2>3, <2>8, <3>2, <3>3 DEF ChainOK, given, TicketsOK, Running
    <3>5. ProcOK(proc[p])'
      BY <3>4 DEF ProcOK
    <3> QED
      BY <1>3, <2>5, <2>6, <2>8, <3>1, <3>2, <3>5, ShapesKept
  <2> QED
    BY <2>7, <2>8
<1>5. CASE ~ here
  <2>1. tickets' = tickets /\ Stop(p)
    BY <1>5 DEF BuildTickets
  <2>2. Keeps /\ Files'
    BY <1>2, <2>1, KeepsWhenSame, FilesSame DEF shadow, official
  <2> QED
    BY <1>1, <1>3, <2>1, <2>2, StopEffect, ShapesKept
<1> QED
  BY <1>4, <1>5

LEMMA BuildPacksStep ==
  ASSUME Shapes, NEW p \in Procs, BuildPacks(p)
  PROVE  Shapes' /\ (Stop(p) \/ Go(p, "debate", None))
<1> DEFINE d == proc[p].date
           cutoff == proc[p].at
           found == TicketItems(d) \cup PortfolioItems(d) \cup ContextItems(d) \cup MemoryItems(cutoff)
           built == PortfolioOf(d, TRUE) # None /\ AssertNoFuture(found, cutoff)
           new == [at |-> cutoff, of |-> tickets[d], items |-> found]
<1>1. ChainOK(proc[p]) /\ Running(proc[p]) /\ d \in Dates /\ AllProcs
  BY ChainAt DEF BuildPacks, Shapes
<1>2. UNCHANGED <<given, tickets, debates, official, mixed, spent>>
  BY DEF BuildPacks
<1>3. Given'
  BY <1>2, GivenSame DEF Shapes
<1>4. Keeps
  BY <1>2, KeepsWhenSame DEF official
<1>5. CASE built
  <2>1. packs' = [packs EXCEPT ![d] = new] /\ Go(p, "debate", None)
    BY <1>5 DEF BuildPacks
  <2>2. \A at \in new.items : at <= new.at
    BY <1>5 DEF AssertNoFuture
  <2> HIDE DEF new
  <2>3. packs' = [e \in Dates |-> packs'[e]] /\ packs'[d] = new /\ \A e \in Dates \ {d} : packs'[e] = packs[e]
    <3>1. packs = [e \in Dates |-> packs[e]]
      BY DEF Shapes, Files
    <3> QED
      BY <1>1, <2>1, <3>1, Put
  <2>4. \A e \in Dates : packs'[e] = None \/ \A at \in packs'[e].items : at <= packs'[e].at
    BY <2>2, <2>3 DEF Shapes, Files
  <2>5. Files'
    BY <1>2, <2>3, <2>4 DEF Shapes, Files, given, official, TicketsOK, DebateOK, AdviceOK, ActsOK, DailyOK
  <2>6. /\ proc' = [q \in Procs |-> proc'[q]] /\ \A q \in Procs \ {p} : proc'[q] = proc[q]
        /\ Running(proc'[p]) /\ proc'[p].kind = proc[p].kind /\ proc'[p].date = d
        /\ proc'[p].at = proc[p].at /\ proc'[p].step = "debate"
    BY <1>1, <2>1, GoEffect
  <2>7. proc[p].step = "packs"
    BY DEF BuildPacks
  <2>8. ChainOK(proc[p])'
    BY <1>1, <1>2, <2>6, <2>7 DEF ChainOK, given, TicketsOK, Running
  <2>9. ProcOK(proc[p])'
    BY <2>8 DEF ProcOK
  <2> QED
    BY <1>3, <1>4, <2>1, <2>5, <2>6, <2>9, ShapesKept
<1>6. CASE ~ built
  <2>1. packs' = packs /\ Stop(p)
    BY <1>6 DEF BuildPacks
  <2>2. Files'
    BY <1>2, <2>1, FilesSame DEF shadow, official
  <2> QED
    BY <1>1, <1>3, <1>4, <2>1, <2>2, StopEffect, ShapesKept
<1> QED
  BY <1>5, <1>6

LEMMA OpenDebateStep ==
  ASSUME Shapes, NEW p \in Procs, OpenDebate(p)
  PROVE  Shapes' /\ \E got : Go(p, "debating", got)
<1> DEFINE d == proc[p].date
           got == [ticket |-> tickets[d], pack |-> packs[d], ok |-> None \notin {tickets[d], packs[d]} /\ InContract(d)]
<1>1. ChainOK(proc[p]) /\ Running(proc[p]) /\ d \in Dates /\ AllProcs
  BY ChainAt DEF OpenDebate, Shapes
<1>2. UNCHANGED <<given, shadow, official, mixed, spent>>
  BY DEF OpenDebate
<1>3. Given' /\ Files' /\ Keeps
  BY <1>2, GivenSame, FilesSame, KeepsWhenSame DEF Shapes, shadow, official
<1>4. got.ok \in BOOLEAN /\ (got.ok => None \notin {got.ticket, got.pack})
  BY DEF InContract
<1>5. Go(p, "debating", got)
  BY DEF OpenDebate
<1> HIDE DEF got
<1>6. /\ proc' = [q \in Procs |-> proc'[q]] /\ \A q \in Procs \ {p} : proc'[q] = proc[q]
      /\ Running(proc'[p]) /\ proc'[p].kind = proc[p].kind /\ proc'[p].date = d
      /\ proc'[p].at = proc[p].at /\ proc'[p].step = "debating" /\ proc'[p].got = got
  BY <1>1, <1>5, GoEffect
<1>7. proc[p].step = "debate"
  BY DEF OpenDebate
<1>8. ChainOK(proc[p])'
  BY <1>1, <1>2, <1>4, <1>6, <1>7 DEF ChainOK, given, shadow, TicketsOK, Running
<1>9. ProcOK(proc[p])'
  BY <1>8 DEF ProcOK
<1> QED
  BY <1>3, <1>5, <1>6, <1>9, ShapesKept

LEMMA CloseDebateStep ==
  ASSUME Shapes, NEW p \in Procs, CloseDebate(p)
  PROVE  /\ Shapes'
         /\ \E b : /\ b.at = proc[p].at /\ b.llm = (proc[p].kind = "live")
                   /\ debates' = [debates EXCEPT ![proc[p].date] = b]
                   /\ Stop(p) \/ (Go(p, "preview", None) /\ (proc[p].kind = "live" => b.ok))
<1> DEFINE d == proc[p].date
           got == proc[p].got
           llm == proc[p].kind = "live"
<1>1. ChainOK(proc[p]) /\ Running(proc[p]) /\ d \in Dates /\ AllProcs
  BY ChainAt DEF CloseDebate, Shapes
<1>2. UNCHANGED <<given, tickets, packs, official, mixed, spent>>
  BY DEF CloseDebate
<1>3. Given'
  BY <1>2, GivenSame DEF Shapes
<1>4. PICK replies : \E answered \in BOOLEAN :
        LET ok == got.ok /\ answered IN
        /\ debates' = [debates EXCEPT ![d] = Debate(got.ticket, got.pack, proc[p].at, llm, ok, replies)]
        /\ IF GoesOn(proc[p].kind, ok) THEN Go(p, "preview", None) ELSE Stop(p)
  <2> DEFINE Done(answered, replies) ==
               LET ok == got.ok /\ answered IN
               /\ debates' = [debates EXCEPT ![d] = Debate(got.ticket, got.pack, proc[p].at, llm, ok, replies)]
               /\ IF GoesOn(proc[p].kind, ok) THEN Go(p, "preview", None) ELSE Stop(p)
             said == IF llm THEN Replies ELSE {[f \in Funds |-> None]}
  <2>1. \E replies \in said :
        \E answered \in {all \in BOOLEAN : \E first, second \in SUBSET (Funds \cup {Stranger}) :
                                          all = (~ llm \/ Answered(Funds, first, second))} : Done(answered, replies)
    BY DEF CloseDebate
  <2> HIDE DEF said, Done
  <2>2. \E replies : \E answered \in BOOLEAN : Done(answered, replies)
    BY <2>1
  <2> QED
    BY <2>2 DEF Done
<1>4a. PICK answered \in BOOLEAN :
        LET ok == got.ok /\ answered IN
        /\ debates' = [debates EXCEPT ![d] = Debate(got.ticket, got.pack, proc[p].at, llm, ok, replies)]
        /\ IF GoesOn(proc[p].kind, ok) THEN Go(p, "preview", None) ELSE Stop(p)
  BY <1>4
<1> DEFINE ok == got.ok /\ answered
           new == Debate(got.ticket, got.pack, proc[p].at, llm, ok, replies)
<1>5. ok \in BOOLEAN
  OBVIOUS
<1>6. proc[p].at \in 1 .. now
  BY <1>1 DEF ChainOK
<1>6a. ok => None \notin {got.ticket, got.pack}
  BY <1>1 DEF ChainOK, CloseDebate
<1> HIDE DEF ok
<1>7. /\ new.at = proc[p].at /\ new.llm = llm /\ new.ok = ok /\ new.of = got.ticket
      /\ ok => \A f \in Funds : new.status[f] = DebateStatus(got.ticket.tickets[f], replies[f])
  BY <1>6a DEF Debate
<1> HIDE DEF new
<1>8. debates' = [debates EXCEPT ![d] = new] /\ IF GoesOn(proc[p].kind, ok) THEN Go(p, "preview", None) ELSE Stop(p)
  BY <1>4a DEF ok, new
<1>9. DebateOK(new)
  BY <1>5, <1>6, <1>7 DEF DebateOK, DebateStatus
<1>10. debates' = [e \in Dates |-> debates'[e]] /\ debates'[d] = new /\ \A e \in Dates \ {d} : debates'[e] = debates[e]
  <2>1. debates = [e \in Dates |-> debates[e]]
    BY DEF Shapes, Files
  <2> QED
    BY <1>1, <1>8, <2>1, Put
<1>11. now' = now /\ today' = today
  BY <1>2 DEF given
<1>12. \A b : DebateOK(b) <=> DebateOK(b)'
  BY <1>11 DEF DebateOK
<1>13. \A e \in Dates : DebateOK(debates[e]) => DebateOK(debates[e])'
  <2> TAKE e \in Dates
  <2>1. PICK b : b = debates'[e]
    OBVIOUS
  <2>2. DebateOK(debates[e]) => DebateOK(b)
    BY <1>9, <1>10, <2>1
  <2>3. DebateOK(b) => DebateOK(b)'
    BY <1>12
  <2> QED
    BY <2>1, <2>2, <2>3
<1>14. Keeps
  BY <1>2, <1>11, <1>13, DatesType DEF Keeps, Shapes, Given, official, TicketsOK, ActsOK, DailyOK
<1>15. Files'
  <2>1. \A e \in Dates : debates'[e] = NoDebate \/ DebateOK(debates[e])'
    BY <1>9, <1>10, <1>12 DEF Shapes, Files
  <2>2. \A e \in Dates : advice'[e] = None \/ AdviceOK(advice[e])'
    BY <1>2, <1>12 DEF Shapes, Files, official, AdviceOK, TicketsOK
  <2> QED
    BY <1>2, <1>10, <1>11, <2>1, <2>2 DEF Shapes, Files, given, official, TicketsOK, ActsOK, DailyOK
<1>16. CASE GoesOn(proc[p].kind, ok)
  <2>1. Go(p, "preview", None) /\ (proc[p].kind = "live" => new.ok)
    BY <1>7, <1>8, <1>16 DEF GoesOn
  <2>2. /\ proc' = [q \in Procs |-> proc'[q]] /\ \A q \in Procs \ {p} : proc'[q] = proc[q]
        /\ Running(proc'[p]) /\ proc'[p].kind = proc[p].kind /\ proc'[p].date = d
        /\ proc'[p].at = proc[p].at /\ proc'[p].step = "preview"
    BY <1>1, <2>1, GoEffect
  <2>3. proc[p].step = "debating" /\ proc[p].kind \in {"live", "mock"}
    BY <1>1, <1>16 DEF CloseDebate, GoesOn, ChainOK, ChainKinds
  <2>4. DebateOK(debates[d])'
    BY <1>9, <1>10, <1>12, <2>2
  <2>5. ChainOK(proc[p])'
    BY <1>1, <1>2, <1>11, <2>2, <2>3, <2>4 DEF ChainOK, TicketsOK, Running
  <2>6. ProcOK(proc[p])'
    BY <2>5 DEF ProcOK
  <2>7. Shapes'
    BY <1>3, <1>14, <1>15, <2>2, <2>6, ShapesKept
  <2> QED
    BY <1>7, <1>8, <2>1, <2>7
<1>17. CASE ~ GoesOn(proc[p].kind, ok)
  <2>1. Stop(p)
    BY <1>8, <1>17
  <2>2. Shapes'
    BY <1>1, <1>3, <1>14, <1>15, <2>1, StopEffect, ShapesKept
  <2> QED
    BY <1>7, <1>8, <2>1, <2>2
<1> QED
  BY <1>16, <1>17

LEMMA PublishStep ==
  ASSUME Shapes, NEW p \in Procs, Publish(p)
  PROVE  /\ Shapes'
         /\ \/ Stop(p) /\ UNCHANGED <<advice, mixed>>
            \/ \E a : /\ a.debate = debates[proc[p].date] /\ a.at = proc[p].at /\ a.mock = (proc[p].kind = "mock")
                      /\ a.ticket = tickets[proc[p].date] /\ AdviceOK(a) /\ proc[p].kind \in {"live", "mock"}
                      /\ advice' = [advice EXCEPT ![proc[p].date] = a]
                      /\ Go(p, "validate", a) /\ Enter(p, proc[p].date)
<1> DEFINE d == proc[p].date
           mock == proc[p].kind = "mock"
           a == [at |-> proc[p].at, mock |-> mock,
                 ticket |-> tickets[d], pack |-> packs[d], debate |-> debates[d],
                 decisions |-> Preview(tickets[d].tickets, debates[d].ok, mock)]
<1>1. ChainOK(proc[p]) /\ Running(proc[p]) /\ d \in Dates /\ AllProcs /\ proc[p].step = "preview"
  BY ChainAt DEF Publish, Shapes
<1>2. UNCHANGED <<given, shadow, validated, daily, latest, ledger, events, spent>>
  BY DEF Publish
<1>3. Given' /\ Keeps
  BY <1>2, GivenSame, KeepsWhenSame DEF Shapes, shadow
<1>4. CASE Verified(d)
  <2>1. /\ advice' = [advice EXCEPT ![d] = a] /\ Go(p, "validate", advice'[d]) /\ Enter(p, d)
    BY <1>4 DEF Publish
  <2>2. proc[p].kind \in {"live", "mock"} /\ TicketsOK(tickets[d]) /\ DebateOK(debates[d])
    BY <1>1 DEF ChainOK, ChainKinds
  <2>3. /\ a.at = proc[p].at /\ a.mock = mock /\ a.ticket = tickets[d] /\ a.pack = packs[d] /\ a.debate = debates[d]
        /\ a.decisions = Preview(tickets[d].tickets, debates[d].ok, mock)
    OBVIOUS
  <2>4. mock \in BOOLEAN
    OBVIOUS
  <2> HIDE DEF a, mock
  <2>5. AdviceOK(a)
    BY <1>4, <2>2, <2>3, <2>4 DEF AdviceOK, Verified
  <2>6. advice' = [e \in Dates |-> advice'[e]] /\ advice'[d] = a /\ \A e \in Dates \ {d} : advice'[e] = advice[e]
    <3>1. advice = [e \in Dates |-> advice[e]]
      BY DEF Shapes, Files
    <3> QED
      BY <1>1, <2>1, <3>1, Put
  <2>7. now' = now /\ today' = today
    BY <1>2 DEF given
  <2>8. \A x : (DebateOK(x) <=> DebateOK(x)') /\ (AdviceOK(x) <=> AdviceOK(x)')
    BY <2>7 DEF DebateOK, AdviceOK, TicketsOK
  <2>9. Files'
    <3>1. \A e \in Dates : advice'[e] = None \/ AdviceOK(advice[e])'
      BY <2>5, <2>6, <2>8 DEF Shapes, Files
    <3>2. \A e \in Dates : debates'[e] = NoDebate \/ DebateOK(debates[e])'
      BY <1>2, <2>8 DEF Shapes, Files, shadow
    <3>3. mixed' \subseteq Dates
      BY <1>1, <2>1 DEF Enter, Shapes, Files
    <3> QED
      BY <1>2, <2>6, <2>7, <3>1, <3>2, <3>3 DEF Shapes, Files, shadow, TicketsOK, ActsOK, DailyOK
  <2>10. Go(p, "validate", a)
    BY <2>1, <2>6
  <2>11. /\ proc' = [q \in Procs |-> proc'[q]] /\ \A q \in Procs \ {p} : proc'[q] = proc[q]
         /\ Running(proc'[p]) /\ proc'[p].kind = proc[p].kind /\ proc'[p].date = d
         /\ proc'[p].at = proc[p].at /\ proc'[p].step = "validate" /\ proc'[p].got = a
    BY <1>1, <2>10, GoEffect
  <2>12. ChainOK(proc[p])'
    BY <1>1, <1>2, <2>2, <2>5, <2>7, <2>8, <2>11 DEF ChainOK, shadow, TicketsOK, Running
  <2>13. ProcOK(proc[p])'
    BY <2>12 DEF ProcOK
  <2>14. Shapes'
    BY <1>3, <2>9, <2>11, <2>13, ShapesKept
  <2>15. a.mock = (proc[p].kind = "mock")
    BY <2>3 DEF mock
  <2> QED
    BY <2>1, <2>2, <2>3, <2>5, <2>10, <2>14, <2>15
<1>5. CASE ~ Verified(d)
  <2>1. Stop(p) /\ UNCHANGED <<advice, mixed>>
    BY <1>5 DEF Publish
  <2>2. Files'
    BY <1>2, <2>1, FilesSame DEF official
  <2> QED
    BY <1>1, <1>3, <2>1, <2>2, StopEffect, ShapesKept
<1> QED
  BY <1>4, <1>5

LEMMA ValidateStep ==
  ASSUME Shapes, NEW p \in Procs, Validate(p)
  PROVE  /\ Shapes' /\ Go(p, "daily", None)
         /\ \A e \in Dates \ {proc[p].date} : validated'[e] = validated[e]
<1> DEFINE d == proc[p].date
           made == proc[p].got
<1>1. ChainOK(proc[p]) /\ Running(proc[p]) /\ d \in Dates /\ AllProcs /\ proc[p].step = "validate"
  BY ChainAt DEF Validate, Shapes
<1>2. UNCHANGED <<given, shadow, advice, daily, latest, ledger, events, mixed, spent>> /\ Go(p, "daily", None)
  BY DEF Validate
<1>3. Given'
  BY <1>2, GivenSame DEF Shapes
<1>4. PICK acts \in ValidatedActs(made.decisions, portfolio.values, made.mock) :
        validated' = [validated EXCEPT ![d] = [at |-> made.at, mock |-> made.mock, acts |-> acts]]
  BY DEF Validate
<1>5. AdviceOK(made)
  BY <1>1 DEF ChainOK
<1>6. acts \in [Funds -> Act] /\ made.mock \in BOOLEAN
  <2>1. made.decisions \in [Funds -> Row] /\ made.mock \in BOOLEAN
    BY <1>5, PreviewType DEF AdviceOK, TicketsOK, DebateOK
  <2>2. portfolio.values \in [Funds -> Nat]
    BY ChainAssumption DEF Shapes, Given
  <2> HIDE DEF made
  <2> QED
    BY <2>1, <2>2, ActsType
<1> DEFINE new == [at |-> made.at, mock |-> made.mock, acts |-> acts]
<1>7. ActsOK(new)
  BY <1>6 DEF ActsOK
<1> HIDE DEF new
<1>8. validated' = [e \in Dates |-> validated'[e]] /\ validated'[d] = new /\ \A e \in Dates \ {d} : validated'[e] = validated[e]
  <2>1. validated = [e \in Dates |-> validated[e]]
    BY DEF Shapes, Files
  <2>2. validated' = [validated EXCEPT ![d] = new]
    BY <1>4 DEF new
  <2> QED
    BY <1>1, <2>1, <2>2, Put
<1>9. \A e \in Dates : ActsOK(validated[e]) => ActsOK(validated'[e])
  BY <1>7, <1>8
<1>10. Keeps
  BY <1>2, <1>9, DatesType DEF Keeps, Shapes, Given, given, shadow, TicketsOK, DebateOK, DailyOK
<1>11. Files'
  <2>1. \A e \in Dates : validated'[e] = None \/ ActsOK(validated'[e])
    BY <1>7, <1>8 DEF Shapes, Files
  <2> QED
    BY <1>2, <1>8, <2>1 DEF Shapes, Files, given, shadow, TicketsOK, DebateOK, AdviceOK, ActsOK, DailyOK
<1>12. /\ proc' = [q \in Procs |-> proc'[q]] /\ \A q \in Procs \ {p} : proc'[q] = proc[q]
       /\ Running(proc'[p]) /\ proc'[p].kind = proc[p].kind /\ proc'[p].date = d
       /\ proc'[p].at = proc[p].at /\ proc'[p].step = "daily"
  BY <1>1, <1>2, GoEffect
<1>13. ChainOK(proc[p])'
  BY <1>1, <1>2, <1>7, <1>8, <1>12 DEF ChainOK, given, shadow, TicketsOK, ActsOK, Running
<1>14. ProcOK(proc[p])'
  BY <1>13 DEF ProcOK
<1>15. Shapes'
  BY <1>3, <1>10, <1>11, <1>12, <1>14, ShapesKept
<1> QED
  BY <1>2, <1>8, <1>15

\* What is shown of the latest decisions.
LEMMA ShownType ==
  ASSUME Shapes, NEW d \in Dates, NEW made, DailyOK(made), NEW t, t = Shown(d, made)
  PROVE  /\ t = [f \in Funds |-> t[f]]
         /\ \A f \in Funds : /\ t[f] \in LatestDecision /\ t[f].act \in DayAct
                             /\ t[f].date >= d /\ t[f] # None
                             /\ \/ t[f] = latest[f] /\ latest[f].date > d /\ latest[f] # None
                                \/ t[f] = [date |-> d, act |-> made.acts[f], ready |-> made.ready]
<1>1. t = [f \in Funds |-> t[f]]
  BY DEF Shown
<1> SUFFICES ASSUME NEW f \in Funds
             PROVE  /\ t[f] \in LatestDecision /\ t[f].act \in DayAct
                    /\ t[f].date >= d /\ t[f] # None
                    /\ \/ t[f] = latest[f] /\ latest[f].date > d /\ latest[f] # None
                       \/ t[f] = [date |-> d, act |-> made.acts[f], ready |-> made.ready]
  BY <1>1
<1>2. d \in Nat
  BY DatesType
<1>3. CASE latest[f] # None /\ latest[f].date > d
  <2>1. t[f] = latest[f]
    BY <1>3 DEF Shown
  <2>2. latest[f] \in LatestDecision /\ latest[f].act \in DayAct /\ latest[f].date \in Nat
    BY <1>3, DatesType DEF Shapes, Files, LatestDecision
  <2> QED
    BY <1>2, <1>3, <2>1, <2>2
<1>4. CASE ~ (latest[f] # None /\ latest[f].date > d)
  <2>1. t[f] = [date |-> d, act |-> made.acts[f], ready |-> made.ready]
    BY <1>4 DEF Shown
  <2>2. made.acts[f] \in DayAct /\ made.acts[f] \in DayDecision /\ made.ready \in SUBSET WINDOWS
    BY DEF DailyOK, DailyFile, DayAct
  <2>3. t[f] \in LatestDecision
    BY <2>1, <2>2 DEF LatestDecision
  <2>4. t[f] # None
    BY <2>3, NoneAssumption
  <2> QED
    BY <1>2, <2>1, <2>2, <2>3, <2>4
<1> QED
  BY <1>3, <1>4

\* The files of decisions after one of them was written.
LEMMA FilesDecided ==
  ASSUME Shapes, NEW d \in Dates, d \in 1 .. today, NEW made, DailyOK(made), daily' = [daily EXCEPT ![d] = made],
         latest' = latest \/ latest' = Shown(d, made),
         UNCHANGED <<given, shadow, advice, validated, ledger, mixed>>
  PROVE  /\ Files' /\ Keeps /\ daily'[d] = made /\ \A e \in Dates \ {d} : daily'[e] = daily[e]
<1>1. daily' = [e \in Dates |-> daily'[e]] /\ daily'[d] = made /\ \A e \in Dates \ {d} : daily'[e] = daily[e]
  <2>1. daily = [e \in Dates |-> daily[e]]
    BY DEF Shapes, Files
  <2> QED
    BY <2>1, Put
<1>2. \A e \in Dates : DailyOK(daily[e]) => DailyOK(daily'[e])
  BY <1>1
<1>3. Keeps
  BY <1>2, DatesType DEF Keeps, Shapes, Given, given, shadow, TicketsOK, DebateOK, ActsOK, DailyOK
<1>4. \A e \in Dates : daily'[e] = None \/ (DailyOK(daily'[e]) /\ e <= today)
  <2>1. d <= today
    BY DatesType
  <2> QED
    BY <1>1, <2>1 DEF Shapes, Files
<1>5. latest' = [f \in Funds |-> latest'[f]] /\ \A f \in Funds : latest'[f] = None \/ (latest'[f] \in LatestDecision /\ latest'[f].act \in DayAct)
  <2>1. CASE latest' = latest
    BY <2>1 DEF Shapes, Files
  <2>2. CASE latest' = Shown(d, made)
    <3>1. PICK t : t = Shown(d, made)
      OBVIOUS
    <3>2. t = [f \in Funds |-> t[f]]
      BY <3>1, ShownType
    <3>3. \A f \in Funds : t[f] \in LatestDecision
      BY <3>1, ShownType
    <3>4. \A f \in Funds : t[f].act \in DayAct
      BY <3>1, ShownType
    <3> QED
      BY <2>2, <3>1, <3>2, <3>3, <3>4
  <2> QED
    BY <2>1, <2>2
<1>6. Files'
  BY <1>1, <1>4, <1>5 DEF Shapes, Files, given, shadow, TicketsOK, DebateOK, AdviceOK, ActsOK, DailyOK
<1> QED
  BY <1>1, <1>3, <1>6

LEMMA WriteDecisionsStep ==
  ASSUME Shapes, NEW p \in Procs, WriteDecisions(p)
  PROVE  /\ Shapes'
         /\ \E made : /\ made.acts = Decisions(proc[p].date, validated[proc[p].date].acts) /\ made.ready = {}
                      /\ DailyOK(made) /\ ActsOK(validated[proc[p].date])
                      /\ daily'[proc[p].date] = made /\ \A e \in Dates \ {proc[p].date} : daily'[e] = daily[e]
                      /\ latest' = Shown(proc[p].date, made) /\ Go(p, "ledger", made)
<1> DEFINE d == proc[p].date
           made == [acts |-> Decisions(d, validated[d].acts), ready |-> {}]
<1>1. ChainOK(proc[p]) /\ Running(proc[p]) /\ d \in Dates /\ AllProcs /\ proc[p].step = "daily"
  BY ChainAt DEF WriteDecisions, Shapes
<1>2. UNCHANGED <<given, shadow, advice, validated, ledger, events, mixed, spent>>
  BY DEF WriteDecisions
<1>3. daily' = [daily EXCEPT ![d] = made] /\ latest' = Shown(d, made) /\ Go(p, "ledger", made)
  BY DEF WriteDecisions
<1>4. Given'
  BY <1>2, GivenSame DEF Shapes
<1>5. ActsOK(validated[d]) /\ d \in 1 .. today
  BY <1>1 DEF ChainOK
<1>6. DailyOK(made)
  BY <1>1, <1>5, DecisionsType DEF ActsOK
<1>7. made.acts = Decisions(d, validated[d].acts) /\ made.ready = {}
  OBVIOUS
<1> HIDE DEF made
<1>8. Files' /\ Keeps /\ daily'[d] = made /\ \A e \in Dates \ {d} : daily'[e] = daily[e]
  BY <1>1, <1>2, <1>3, <1>5, <1>6, FilesDecided
<1>9. /\ proc' = [q \in Procs |-> proc'[q]] /\ \A q \in Procs \ {p} : proc'[q] = proc[q]
      /\ Running(proc'[p]) /\ proc'[p].kind = proc[p].kind /\ proc'[p].date = d
      /\ proc'[p].at = proc[p].at /\ proc'[p].step = "ledger" /\ proc'[p].got = made
  BY <1>1, <1>3, GoEffect
<1>10. ChainOK(proc[p])'
  BY <1>1, <1>2, <1>6, <1>9 DEF ChainOK, given, shadow, TicketsOK, DailyOK, Running
<1>11. ProcOK(proc[p])'
  BY <1>10 DEF ProcOK
<1>12. Shapes'
  BY <1>4, <1>8, <1>9, <1>11, ShapesKept
<1> QED
  BY <1>3, <1>5, <1>6, <1>7, <1>8, <1>12

LEMMA AppendLedgerStep ==
  ASSUME Shapes, NEW p \in Procs, AppendLedger(p)
  PROVE  /\ Shapes' /\ Stop(p) /\ DailyOK(proc[p].got)
         /\ ledger' = ledger \cup {a \in {proc[p].got.acts[f] : f \in Funds} : a.id \notin Known}
<1>1. ChainOK(proc[p]) /\ Running(proc[p]) /\ AllProcs /\ proc[p].step = "ledger"
  BY ChainAt DEF AppendLedger, Shapes
<1>2. UNCHANGED <<given, shadow, advice, validated, daily, latest, events, mixed, spent>> /\ Stop(p)
  BY DEF AppendLedger
<1>3. ledger' = ledger \cup {a \in {proc[p].got.acts[f] : f \in Funds} : a.id \notin Known}
  BY DEF AppendLedger
<1>4. DailyOK(proc[p].got)
  BY <1>1 DEF ChainOK
<1>5. ledger' \subseteq DayAct
  BY <1>3, <1>4 DEF DailyOK, Shapes, Files
<1>6. Files'
  BY <1>2, <1>5 DEF Shapes, Files, given, shadow, TicketsOK, DebateOK, AdviceOK, ActsOK, DailyOK
<1>7. Given' /\ Keeps
  BY <1>2, GivenSame, KeepsWhenSame DEF Shapes, shadow
<1> QED
  BY <1>1, <1>2, <1>3, <1>4, <1>6, <1>7, StopEffect, ShapesKept

\* An update takes the dates with decisions one by one.
LEMMA TurnEffect ==
  ASSUME Shapes, NEW p \in Procs, NEW dates, dates \subseteq {d \in 1 .. today : DailyOK(daily[d])},
         Turn(p, dates), UNCHANGED <<today, daily>>
  PROVE  /\ proc' = [q \in Procs |-> proc'[q]] /\ \A q \in Procs \ {p} : proc'[q] = proc[q]
         /\ proc'[p] = Idle \/ (Running(proc'[p]) /\ proc'[p].kind = "update" /\ proc'[p].step = "read")
         /\ ProcOK(proc[p])'
<1> DEFINE s == IF dates = {} THEN Idle
                ELSE [kind |-> "update", date |-> First(dates), at |-> today,
                      got |-> [left |-> dates \ {First(dates)}], step |-> "read"]
<1>1. proc' = [proc EXCEPT ![p] = s]
  BY DEF Turn
<1>2. s = Idle \/ (dates # {} /\ s = [kind |-> "update", date |-> First(dates), at |-> today,
                                      got |-> [left |-> dates \ {First(dates)}], step |-> "read"])
  OBVIOUS
<1> HIDE DEF s
<1>3. proc' = [q \in Procs |-> proc'[q]] /\ (\A q \in Procs \ {p} : proc'[q] = proc[q]) /\ proc'[p] = s
  BY <1>1 DEF Shapes, AllProcs
<1>4. CASE s = Idle
  BY <1>3, <1>4 DEF ProcOK
<1>5. CASE dates # {} /\ s = [kind |-> "update", date |-> First(dates), at |-> today,
                              got |-> [left |-> dates \ {First(dates)}], step |-> "read"]
  <2>1. First(dates) \in dates
    <3>1. dates \subseteq Dates
      BY DatesType DEF Shapes, Given
    <3> QED
      BY <1>5, <3>1, FirstIsIn
  <2>2. PICK r : r = s
    OBVIOUS
  <2>3. Running(r) /\ r.kind = "update" /\ r.step = "read" /\ r.date \in dates /\ r.got.left \subseteq dates
    BY <1>5, <2>1, <2>2 DEF Running
  <2>4. r.date \in 1 .. today /\ DailyOK(daily[r.date]) /\ r.got.left \subseteq {d \in 1 .. today : DailyOK(daily[d])}
    BY <2>3
  <2>5. UpdateOK(r)'
    BY <2>3, <2>4 DEF UpdateOK, DailyOK
  <2>6. ProcOK(r)'
    BY <2>5 DEF ProcOK
  <2>7. proc'[p] = r
    BY <1>3, <2>2
  <2> QED
    BY <1>3, <2>3, <2>6, <2>7
<1> QED
  BY <1>2, <1>4, <1>5

LEMMA StartUpdateStep ==
  ASSUME Shapes, NEW p \in Procs, StartUpdate(p)
  PROVE  /\ Shapes' /\ \A q \in Procs \ {p} : proc'[q] = proc[q]
         /\ proc'[p] = Idle \/ (Running(proc'[p]) /\ proc'[p].kind = "update" /\ proc'[p].step = "read")
<1>1. Turn(p, Listed) /\ spent' = spent + 1 /\ UNCHANGED <<given, shadow, official, mixed>>
  BY DEF StartUpdate, Spend
<1>2. Listed \subseteq {d \in 1 .. today : DailyOK(daily[d])}
  <2>1. 1 .. today \subseteq Dates
    BY DatesType DEF Shapes, Given
  <2> QED
    BY <2>1 DEF Listed, Shapes, Files
<1>3. /\ proc' = [q \in Procs |-> proc'[q]] /\ \A q \in Procs \ {p} : proc'[q] = proc[q]
      /\ proc'[p] = Idle \/ (Running(proc'[p]) /\ proc'[p].kind = "update" /\ proc'[p].step = "read")
      /\ ProcOK(proc[p])'
  BY <1>1, <1>2, TurnEffect DEF given, official
<1>4. Given'
  BY <1>1 DEF Shapes, Given, given
<1>5. Files' /\ Keeps
  BY <1>1, FilesSame, KeepsWhenSame DEF shadow, official
<1> QED
  BY <1>3, <1>4, <1>5, ShapesKept

LEMMA ReadDailyStep ==
  ASSUME Shapes, NEW p \in Procs, ReadDaily(p)
  PROVE  /\ Shapes' /\ Enter(p, proc[p].date)
         /\ \E got : Go(p, "dump", got) /\ got.made.acts = daily[proc[p].date].acts
<1> DEFINE d == proc[p].date
           made == [daily[d] EXCEPT !.ready = ReadyWindows(d, proc[p].at, nav)]
           got == [left |-> proc[p].got.left, made |-> made]
<1>1. UpdateOK(proc[p]) /\ Running(proc[p]) /\ d \in Dates /\ AllProcs /\ proc[p].step = "read"
  BY UpdateAt DEF ReadDaily, Shapes
<1>2. UNCHANGED <<given, shadow, official, spent>> /\ Go(p, "dump", got) /\ Enter(p, d)
  BY DEF ReadDaily
<1>3. DailyOK(made) /\ made.acts = daily[d].acts
  <2>1. DailyOK(daily[d])
    BY <1>1 DEF UpdateOK
  <2>2. PICK m : m = daily[d]
    OBVIOUS
  <2>3. PICK ready : ready = ReadyWindows(d, proc[p].at, nav)
    OBVIOUS
  <2>4. ready \in SUBSET WINDOWS
    BY <2>3 DEF ReadyWindows
  <2>5. m = [acts |-> m.acts, ready |-> m.ready] /\ DailyOK(m)
    BY <2>1, <2>2 DEF DailyOK, DailyFile
  <2>6. PICK n : n = [m EXCEPT !.ready = ready]
    OBVIOUS
  <2>7. n = [acts |-> m.acts, ready |-> ready]
    BY <2>5, <2>6
  <2>8. DailyOK(n) /\ n.acts = m.acts
    BY <2>4, <2>5, <2>7 DEF DailyOK, DailyFile
  <2>9. n = made
    BY <2>2, <2>3, <2>6
  <2> HIDE DEF made
  <2> QED
    BY <2>2, <2>8, <2>9
<1>4. got.left = proc[p].got.left /\ got.made = made
  OBVIOUS
<1> HIDE DEF made, got
<1>5. Given' /\ Keeps
  BY <1>2, GivenSame, KeepsWhenSame DEF Shapes, shadow, official
<1>6. Files'
  <2>1. mixed' \subseteq Dates
    BY <1>1, <1>2 DEF Enter, Shapes, Files
  <2> QED
    BY <1>2, <2>1 DEF Shapes, Files, given, shadow, official, TicketsOK, DebateOK, AdviceOK, ActsOK, DailyOK
<1>7. /\ proc' = [q \in Procs |-> proc'[q]] /\ \A q \in Procs \ {p} : proc'[q] = proc[q]
      /\ Running(proc'[p]) /\ proc'[p].kind = proc[p].kind /\ proc'[p].date = d
      /\ proc'[p].at = proc[p].at /\ proc'[p].step = "dump" /\ proc'[p].got = got
  BY <1>1, <1>2, GoEffect
<1>8. UpdateOK(proc[p])'
  BY <1>1, <1>2, <1>3, <1>4, <1>7 DEF UpdateOK, given, official, DailyOK, Running
<1>9. ProcOK(proc[p])'
  BY <1>8 DEF ProcOK
<1>10. Shapes'
  BY <1>5, <1>6, <1>7, <1>9, ShapesKept
<1> QED
  BY <1>2, <1>3, <1>4, <1>10

LEMMA DumpDailyStep ==
  ASSUME Shapes, NEW p \in Procs, DumpDaily(p)
  PROVE  /\ Shapes' /\ Go(p, "log", proc[p].got) /\ DailyOK(proc[p].got.made)
         /\ daily'[proc[p].date] = proc[p].got.made /\ \A e \in Dates \ {proc[p].date} : daily'[e] = daily[e]
<1> DEFINE d == proc[p].date
           made == proc[p].got.made
<1>1. UpdateOK(proc[p]) /\ Running(proc[p]) /\ d \in Dates /\ AllProcs /\ proc[p].step = "dump"
  BY UpdateAt DEF DumpDaily, Shapes
<1>2. /\ UNCHANGED <<given, shadow, advice, validated, latest, ledger, events, mixed, spent>> /\ Go(p, "log", proc[p].got)
      /\ daily' = [daily EXCEPT ![d] = made]
  BY DEF DumpDaily
<1>3. DailyOK(made) /\ d \in 1 .. today
  BY <1>1 DEF UpdateOK
<1>4. Files' /\ Keeps /\ daily'[d] = made /\ \A e \in Dates \ {d} : daily'[e] = daily[e]
  <2> HIDE DEF made
  <2> QED
    BY <1>1, <1>2, <1>3, FilesDecided
<1>5. Given'
  BY <1>2, GivenSame DEF Shapes
<1>6. /\ proc' = [q \in Procs |-> proc'[q]] /\ \A q \in Procs \ {p} : proc'[q] = proc[q]
      /\ Running(proc'[p]) /\ proc'[p].kind = proc[p].kind /\ proc'[p].date = d
      /\ proc'[p].at = proc[p].at /\ proc'[p].step = "log" /\ proc'[p].got = proc[p].got
  BY <1>1, <1>2, GoEffect
<1>7. PICK r : r = proc[p]
  OBVIOUS
<1>8. PICK s : s = proc'[p]
  OBVIOUS
<1>9. UpdateOK(s)'
  <2>1. s.got.left \subseteq {e \in 1 .. today : DailyOK(daily[e])} /\ today' = today
    BY <1>1, <1>2, <1>6, <1>8 DEF UpdateOK, given
  <2>2. 1 .. today \subseteq Dates
    BY DatesType DEF Shapes, Given
  <2>3. s.got.left \subseteq {e \in 1 .. today' : DailyOK(daily'[e])}
    BY <1>4, <2>1, <2>2 DEF Keeps
  <2>4. DailyOK(daily'[s.date]) /\ DailyOK(s.got.made) /\ s.date \in 1 .. today
    BY <1>3, <1>4, <1>6, <1>8
  <2> QED
    BY <1>1, <1>6, <1>8, <2>1, <2>3, <2>4 DEF UpdateOK, DailyOK, Running
<1>10. ProcOK(s)'
  BY <1>9 DEF ProcOK
<1>11. Shapes'
  BY <1>4, <1>5, <1>6, <1>8, <1>10, ShapesKept
<1> QED
  BY <1>2, <1>3, <1>4, <1>11

LEMMA LogOutcomesStep ==
  ASSUME Shapes, NEW p \in Procs, LogOutcomes(p)
  PROVE  Shapes' /\ Go(p, "show", proc[p].got)
<1>1. UpdateOK(proc[p]) /\ Running(proc[p]) /\ AllProcs /\ proc[p].step = "log"
  BY UpdateAt DEF LogOutcomes, Shapes
<1>2. UNCHANGED <<given, shadow, advice, validated, daily, latest, ledger, mixed, spent>> /\ Go(p, "show", proc[p].got)
  BY DEF LogOutcomes
<1>3. Given' /\ Keeps
  BY <1>2, GivenSame, KeepsWhenSame DEF Shapes, shadow
<1>4. Files'
  BY <1>2 DEF Shapes, Files, given, shadow, TicketsOK, DebateOK, AdviceOK, ActsOK, DailyOK
<1>5. /\ proc' = [q \in Procs |-> proc'[q]] /\ \A q \in Procs \ {p} : proc'[q] = proc[q]
      /\ Running(proc'[p]) /\ proc'[p].kind = proc[p].kind /\ proc'[p].date = proc[p].date
      /\ proc'[p].at = proc[p].at /\ proc'[p].step = "show" /\ proc'[p].got = proc[p].got
  BY <1>1, <1>2, GoEffect
<1>6. UpdateOK(proc[p])'
  BY <1>1, <1>2, <1>5 DEF UpdateOK, given, DailyOK, Running
<1>7. ProcOK(proc[p])'
  BY <1>6 DEF ProcOK
<1> QED
  BY <1>2, <1>3, <1>4, <1>5, <1>7, ShapesKept

LEMMA ShowOutcomesStep ==
  ASSUME Shapes, NEW p \in Procs, ShowOutcomes(p)
  PROVE  /\ Shapes' /\ DailyOK(proc[p].got.made) /\ latest' = Shown(proc[p].date, proc[p].got.made)
         /\ \A q \in Procs \ {p} : proc'[q] = proc[q]
         /\ proc'[p] = Idle \/ (Running(proc'[p]) /\ proc'[p].kind = "update" /\ proc'[p].step = "read")
<1>1. UpdateOK(proc[p]) /\ Running(proc[p]) /\ proc[p].date \in Dates /\ AllProcs /\ proc[p].step = "show"
  BY UpdateAt DEF ShowOutcomes, Shapes
<1>2. /\ UNCHANGED <<given, shadow, advice, validated, daily, ledger, events, mixed, spent>>
      /\ latest' = Shown(proc[p].date, proc[p].got.made) /\ Turn(p, proc[p].got.left)
  BY DEF ShowOutcomes
<1>3. DailyOK(proc[p].got.made) /\ proc[p].got.left \subseteq {d \in 1 .. today : DailyOK(daily[d])}
  BY <1>1 DEF UpdateOK
<1>4. Given' /\ Keeps
  BY <1>2, GivenSame, KeepsWhenSame DEF Shapes, shadow
<1>5. Files'
  <2>1. PICK t : t = latest'
    OBVIOUS
  <2>2. t = [f \in Funds |-> t[f]]
    BY <1>1, <1>2, <1>3, <2>1, ShownType
  <2>3. \A f \in Funds : t[f] \in LatestDecision
    BY <1>1, <1>2, <1>3, <2>1, ShownType
  <2>4. \A f \in Funds : t[f].act \in DayAct
    BY <1>1, <1>2, <1>3, <2>1, ShownType
  <2> QED
    BY <1>2, <2>1, <2>2, <2>3, <2>4 DEF Shapes, Files, given, shadow, TicketsOK, DebateOK, AdviceOK, ActsOK, DailyOK
<1>6. /\ proc' = [q \in Procs |-> proc'[q]] /\ \A q \in Procs \ {p} : proc'[q] = proc[q]
      /\ proc'[p] = Idle \/ (Running(proc'[p]) /\ proc'[p].kind = "update" /\ proc'[p].step = "read")
      /\ ProcOK(proc[p])'
  BY <1>2, <1>3, TurnEffect DEF given
<1> QED
  BY <1>2, <1>3, <1>4, <1>5, <1>6, ShapesKept

LEMMA DieStep ==
  ASSUME Shapes, NEW p \in Procs, Die(p)
  PROVE  Shapes' /\ Stop(p) /\ mixed' = mixed \cup {proc[p].date} /\ proc[p].date \in Dates
<1>1. proc[p].kind # "idle" /\ AllProcs
  BY DEF Die, Writing, Shapes
<1>2. proc[p].date \in Dates
  BY <1>1, NotIdle, DatesType DEF Shapes, Given, ChainOK, UpdateOK
<1>3. UNCHANGED <<given, shadow, official, spent>> /\ Stop(p) /\ mixed' = mixed \cup {proc[p].date}
  BY DEF Die
<1>4. Given' /\ Keeps
  BY <1>3, GivenSame, KeepsWhenSame DEF Shapes, shadow, official
<1>5. Files'
  BY <1>2, <1>3 DEF Shapes, Files, given, shadow, official, TicketsOK, DebateOK, AdviceOK, ActsOK, DailyOK
<1> QED
  BY <1>1, <1>2, <1>3, <1>4, <1>5, StopEffect, ShapesKept

-------------------------------------------------------------------------------
(***************************************************************************)
(* Steps and debates.                                                       *)
(***************************************************************************)
LEMMA ChainGoes ==
  ASSUME Shapes, NEW p \in Procs, ChainOK(proc[p]),
         Stop(p) \/ \E step, got : Go(p, step, got) /\ (proc[p].step \in AfterDebate => step \in AfterDebate)
  PROVE  /\ \A q \in Procs \ {p} : proc'[q] = proc[q]
         /\ \/ ~ Chaining(p)'
            \/ /\ Chaining(p) /\ proc'[p].kind = proc[p].kind /\ proc'[p].at = proc[p].at
               /\ proc[p].step \in AfterDebate => proc'[p].step \in AfterDebate
<1>1. AllProcs /\ Running(proc[p])
  BY DEF Shapes, ChainOK
<1>2. CASE Stop(p)
  BY <1>1, <1>2, StopEffect DEF Chaining, ChainKinds, Idle
<1>3. ASSUME NEW step, NEW got, Go(p, step, got), proc[p].step \in AfterDebate => step \in AfterDebate
      PROVE  /\ \A q \in Procs \ {p} : proc'[q] = proc[q]
             /\ Chaining(p) /\ proc'[p].kind = proc[p].kind /\ proc'[p].at = proc[p].at
             /\ proc[p].step \in AfterDebate => proc'[p].step \in AfterDebate
  BY <1>1, <1>3, GoEffect DEF Chaining, ChainOK
<1> QED
  BY <1>2, <1>3

LEMMA DebatedKept ==
  ASSUME Debated, NEW p \in Procs, UNCHANGED debates, LiveIsDebated',
         \A q \in Procs \ {p} : proc'[q] = proc[q],
         \/ ~ Chaining(p)'
         \/ /\ Chaining(p) /\ proc'[p].kind = proc[p].kind /\ proc'[p].at = proc[p].at
            /\ proc[p].step \in AfterDebate => proc'[p].step \in AfterDebate
  PROVE  Debated'
<1>1. \A q \in Procs : Chaining(q)' =>
        /\ Chaining(q) /\ proc'[q].kind = proc[q].kind /\ proc'[q].at = proc[q].at
        /\ proc[q].step \in AfterDebate => proc'[q].step \in AfterDebate
  BY DEF Chaining
<1> QED
  BY <1>1 DEF Debated

LEMMA DebatedGiven ==
  ASSUME Debated, UNCHANGED <<proc, debates, advice>>
  PROVE  Debated'
  BY DEF Debated, Chaining, LiveIsDebated, Have

LEMMA DebatedStart ==
  ASSUME Shapes, Debated, NEW p \in Procs, NEW kind \in ChainKinds, NEW d \in Dates, Start(p, kind, d)
  PROVE  Debated'
<1>1. proc'[p].at = now + 1 /\ \A q \in Procs \ {p} : proc'[q] = proc[q]
  BY StartStep
<1>2. UNCHANGED <<debates, advice>> /\ now \in Nat
  BY DEF Start, shadow, official, Shapes, Given
<1>3. \A q \in Procs : Chaining(q) => proc[q].at \in 1 .. now
  BY DEF Shapes, AllProcs, ProcOK, ChainOK, UpdateOK, Chaining, ChainKinds, Idle
<1>4. \A e \in Dates : debates[e].at \in 0 .. now
  BY <1>2 DEF Shapes, Files, DebateOK, NoDebate
<1>5. \A q \in Procs : proc[q].at \in 1 .. now => proc[q].at # now + 1
  BY <1>2
<1>6. \A e \in Dates : debates[e].at # now + 1
  BY <1>2, <1>4
<1>7. LiveIsDebated'
  BY <1>2 DEF Debated, LiveIsDebated, Have
<1>8. \A q \in Procs \ {p} : Chaining(q)' => Chaining(q) /\ proc'[q] = proc[q] /\ proc[q].at # now + 1
  BY <1>1, <1>3, <1>5 DEF Chaining
<1> QED
  BY <1>1, <1>2, <1>6, <1>7, <1>8 DEF Debated

LEMMA DebatedClose ==
  ASSUME Shapes, Debated, NEW p \in Procs, CloseDebate(p)
  PROVE  Debated'
<1> DEFINE d == proc[p].date
<1>1. PICK b : /\ b.at = proc[p].at /\ b.llm = (proc[p].kind = "live")
               /\ debates' = [debates EXCEPT ![d] = b]
               /\ Stop(p) \/ (Go(p, "preview", None) /\ (proc[p].kind = "live" => b.ok))
  BY CloseDebateStep
<1>2. ChainOK(proc[p]) /\ Running(proc[p]) /\ d \in Dates /\ AllProcs /\ proc[p].step = "debating" /\ Chaining(p)
  BY ChainAt DEF CloseDebate, Shapes, ChainOK, Chaining
<1>3. debates'[d] = b /\ \A e \in Dates \ {d} : debates'[e] = debates[e]
  <2>1. debates = [e \in Dates |-> debates[e]]
    BY DEF Shapes, Files
  <2> QED
    BY <1>1, <1>2, <2>1, Put
<1>4. LiveIsDebated'
  BY DEF CloseDebate, official, Debated, LiveIsDebated, Have
<1>5. /\ \A q \in Procs \ {p} : proc'[q] = proc[q]
      /\ Chaining(p)' => /\ proc'[p].kind = proc[p].kind /\ proc'[p].at = proc[p].at /\ proc'[p].step = "preview"
                         /\ proc[p].kind = "live" => b.ok
  <2>1. CASE Stop(p)
    BY <1>2, <2>1, StopEffect DEF Chaining, ChainKinds, Idle
  <2>2. CASE Go(p, "preview", None) /\ (proc[p].kind = "live" => b.ok)
    BY <1>2, <2>2, GoEffect
  <2> QED
    BY <1>1, <2>1, <2>2
<1>6. \A q \in Procs : Chaining(q)' => Chaining(q) /\ proc'[q].kind = proc[q].kind /\ proc'[q].at = proc[q].at
  BY <1>2, <1>5 DEF Chaining
<1>7. \A q, r \in Procs : Chaining(q)' /\ Chaining(r)' /\ proc'[q].at = proc'[r].at => q = r
  BY <1>6 DEF Debated
<1>8. ASSUME NEW q \in Procs, NEW e \in Dates, Chaining(q)', debates'[e].at = proc'[q].at
      PROVE  proc'[q].step \in AfterDebate /\ (proc'[q].kind = "live" => debates'[e].llm /\ debates'[e].ok)
  <2>1. Chaining(q) /\ proc'[q].kind = proc[q].kind /\ proc'[q].at = proc[q].at
    BY <1>6, <1>8
  <2>2. CASE e = d
    <3>1. q = p
      BY <1>1, <1>2, <1>3, <1>8, <2>1, <2>2 DEF Debated
    <3>2. proc'[p].step = "preview" /\ (proc[p].kind = "live" => b.ok)
      BY <1>5, <1>8, <3>1
    <3> QED
      BY <1>1, <1>3, <2>1, <2>2, <3>1, <3>2 DEF AfterDebate
  <2>3. CASE e # d
    <3>1. proc[q].step \in AfterDebate /\ (proc[q].kind = "live" => debates[e].llm /\ debates[e].ok)
      BY <1>3, <1>8, <2>1, <2>3 DEF Debated
    <3>2. q # p
      BY <1>2, <3>1 DEF AfterDebate
    <3> QED
      BY <1>3, <1>5, <2>1, <2>3, <3>1, <3>2
  <2> QED
    BY <2>2, <2>3
<1> QED
  BY <1>4, <1>7, <1>8 DEF Debated

LEMMA DebatedPublish ==
  ASSUME Shapes, Debated, NEW p \in Procs, Publish(p)
  PROVE  Debated'
<1> DEFINE d == proc[p].date
<1>1. ChainOK(proc[p]) /\ d \in Dates /\ proc[p].step = "preview" /\ Chaining(p)
  BY ChainAt DEF Publish, ChainOK, Chaining
<1>2. UNCHANGED debates
  BY DEF Publish, shadow
<1>3. CASE Stop(p) /\ UNCHANGED <<advice, mixed>>
  <2>1. LiveIsDebated'
    BY <1>3 DEF Debated, LiveIsDebated, Have
  <2> QED
    BY <1>1, <1>2, <1>3, <2>1, ChainGoes, DebatedKept
<1>4. ASSUME NEW a, a.debate = debates[d], a.at = proc[p].at, a.mock = (proc[p].kind = "mock"),
             proc[p].kind \in {"live", "mock"}, advice' = [advice EXCEPT ![d] = a], Go(p, "validate", a)
      PROVE  Debated'
  <2>1. advice'[d] = a /\ \A e \in Dates \ {d} : advice'[e] = advice[e]
    <3>1. advice = [e \in Dates |-> advice[e]]
      BY DEF Shapes, Files
    <3> QED
      BY <1>1, <1>4, <3>1, Put
  <2>2. ~ a.mock /\ a.debate.at = a.at => a.debate.llm /\ a.debate.ok
    BY <1>1, <1>4 DEF Debated
  <2>3. LiveIsDebated'
    BY <2>1, <2>2 DEF Debated, LiveIsDebated, Have
  <2> QED
    BY <1>1, <1>2, <1>4, <2>3, ChainGoes, DebatedKept DEF AfterDebate
<1> QED
  BY <1>3, <1>4, PublishStep

Safe == Shapes /\ Debated

LEMMA SafeInit == ChainInit => Safe
<1> SUFFICES ASSUME ChainInit PROVE Safe
  OBVIOUS
<1>1. Debated
  BY DEF ChainInit, Debated, Chaining, ChainKinds, Idle, LiveIsDebated, Have
<1> QED
  BY <1>1, ShapesInit DEF Safe

\* A step of a chain that writes neither a debate nor the advice.
LEMMA ChainSafe ==
  ASSUME Safe, Shapes', NEW p \in Procs, proc[p].kind # "idle", UNCHANGED <<debates, advice>>,
         proc[p].step \in {"tickets", "packs", "debate", "debating", "preview", "validate", "daily", "ledger"},
         Stop(p) \/ \E step, got : Go(p, step, got) /\ (proc[p].step \in AfterDebate => step \in AfterDebate)
  PROVE  Safe'
<1>1. ChainOK(proc[p])
  BY ChainAt DEF Safe
<1>2. LiveIsDebated'
  BY DEF Safe, Debated, LiveIsDebated, Have
<1>3. Debated'
  BY <1>1, <1>2, ChainGoes, DebatedKept DEF Safe
<1> QED
  BY <1>3 DEF Safe

\* A step of an outcome update.
LEMMA UpdateSafe ==
  ASSUME Safe, Shapes', NEW p \in Procs, UNCHANGED <<debates, advice>>,
         \A q \in Procs \ {p} : proc'[q] = proc[q], ~ Chaining(p)'
  PROVE  Safe'
<1>1. LiveIsDebated'
  BY DEF Safe, Debated, LiveIsDebated, Have
<1>2. Debated'
  BY <1>1, DebatedKept DEF Safe
<1> QED
  BY <1>2 DEF Safe

LEMMA SafeStep == Safe /\ [ChainNext]_vars => Safe'
<1> SUFFICES ASSUME Safe, [ChainNext]_vars PROVE Safe'
  OBVIOUS
<1> USE DEF AfterDebate
<1>1. CASE UNCHANGED vars
  <2>1. UNCHANGED <<given, shadow, official, proc, mixed, spent>>
    BY <1>1 DEF vars
  <2>2. Given' /\ Files'
    BY <2>1, GivenSame, FilesSame DEF Safe, Shapes
  <2>3. AllProcs'
    <3>1. ASSUME NEW p \in Procs PROVE ProcOK(proc[p])'
      <4>1. Keeps
        BY <2>1, KeepsWhenSame DEF Safe, shadow, official
      <4>2. PICK r : r = proc[p]
        OBVIOUS
      <4>3. ProcOK(r)'
        BY <4>1, <4>2, ProcKeeps DEF Safe, Shapes, AllProcs
      <4> QED
        BY <2>1, <4>2, <4>3
    <3> QED
      BY <2>1, <3>1 DEF Safe, Shapes, AllProcs
  <2>4. Debated'
    BY <2>1, DebatedGiven DEF Safe, shadow, official
  <2> QED
    BY <2>2, <2>3, <2>4 DEF Safe, Shapes
<1>2. CASE NewDay \/ Priced \/ Revalue \/ Settle \/ Score \/ Remember
  BY <1>2, GivenSteps, DebatedGiven DEF Safe, shadow, official
<1>3. ASSUME NEW p \in Procs, Step(p) PROVE Safe'
  <2>1. ASSUME NEW kind \in ChainKinds, NEW d \in Dates, Start(p, kind, d) PROVE Safe'
    BY <2>1, StartStep, DebatedStart DEF Safe
  <2>2. CASE BuildTickets(p)
    <3>1. Shapes' /\ (Stop(p) \/ Go(p, "packs", None))
      BY <2>2, BuildTicketsStep DEF Safe
    <3> QED
      BY <2>2, <3>1, ChainSafe DEF BuildTickets, official
  <2>3. CASE BuildPacks(p)
    <3>1. Shapes' /\ (Stop(p) \/ Go(p, "debate", None))
      BY <2>3, BuildPacksStep DEF Safe
    <3> QED
      BY <2>3, <3>1, ChainSafe DEF BuildPacks, official
  <2>4. CASE OpenDebate(p)
    <3>1. Shapes' /\ (Stop(p) \/ \E got : Go(p, "debating", got))
      BY <2>4, OpenDebateStep DEF Safe
    <3> QED
      BY <2>4, <3>1, ChainSafe DEF OpenDebate, official, shadow
  <2>5. CASE CloseDebate(p)
    BY <2>5, CloseDebateStep, DebatedClose DEF Safe
  <2>6. CASE Publish(p)
    BY <2>6, PublishStep, DebatedPublish DEF Safe
  <2>7. CASE Validate(p)
    <3>1. Shapes' /\ Go(p, "daily", None)
      BY <2>7, ValidateStep DEF Safe
    <3> QED
      BY <2>7, <3>1, ChainSafe DEF Validate, shadow
  <2>8. CASE WriteDecisions(p)
    <3>1. Shapes' /\ \E made : Go(p, "ledger", made)
      BY <2>8, WriteDecisionsStep DEF Safe
    <3> QED
      BY <2>8, <3>1, ChainSafe DEF WriteDecisions, shadow
  <2>9. CASE AppendLedger(p)
    <3>1. Shapes' /\ Stop(p)
      BY <2>9, AppendLedgerStep DEF Safe
    <3> QED
      BY <2>9, <3>1, ChainSafe DEF AppendLedger, shadow
  <2>10. CASE StartUpdate(p)
    <3>1. Shapes' /\ (\A q \in Procs \ {p} : proc'[q] = proc[q]) /\ ~ Chaining(p)'
      BY <2>10, StartUpdateStep DEF Safe, Chaining, ChainKinds, Idle
    <3> QED
      BY <2>10, <3>1, UpdateSafe DEF StartUpdate, shadow, official
  <2>11. ASSUME NEW step, NEW got, Go(p, step, got), proc[p].kind = "update"
         PROVE  (\A q \in Procs \ {p} : proc'[q] = proc[q]) /\ ~ Chaining(p)'
    <3>1. AllProcs /\ Running(proc[p])
      BY <2>11, UpdateAt DEF Safe, Shapes
    <3>2. (\A q \in Procs \ {p} : proc'[q] = proc[q]) /\ proc'[p].kind = proc[p].kind
      BY <2>11, <3>1, GoEffect
    <3> QED
      BY <2>11, <3>2 DEF Chaining, ChainKinds
  <2>12. CASE ReadDaily(p)
    <3>1. Shapes' /\ \E got : Go(p, "dump", got)
      BY <2>12, ReadDailyStep DEF Safe
    <3> QED
      BY <2>11, <2>12, <3>1, UpdateSafe DEF ReadDaily, shadow, official
  <2>13. CASE DumpDaily(p)
    <3>1. Shapes' /\ Go(p, "log", proc[p].got)
      BY <2>13, DumpDailyStep DEF Safe
    <3> QED
      BY <2>11, <2>13, <3>1, UpdateSafe DEF DumpDaily, shadow
  <2>14. CASE LogOutcomes(p)
    <3>1. Shapes' /\ Go(p, "show", proc[p].got)
      BY <2>14, LogOutcomesStep DEF Safe
    <3> QED
      BY <2>11, <2>14, <3>1, UpdateSafe DEF LogOutcomes, shadow
  <2>15. CASE ShowOutcomes(p)
    <3>1. Shapes' /\ (\A q \in Procs \ {p} : proc'[q] = proc[q]) /\ ~ Chaining(p)'
      BY <2>15, ShowOutcomesStep DEF Safe, Chaining, ChainKinds, Idle
    <3> QED
      BY <2>15, <3>1, UpdateSafe DEF ShowOutcomes, shadow
  <2>16. CASE Die(p)
    <3>1. Shapes' /\ Stop(p)
      BY <2>16, DieStep DEF Safe
    <3>2. (\A q \in Procs \ {p} : proc'[q] = proc[q]) /\ ~ Chaining(p)'
      BY <3>1, StopEffect DEF Safe, Shapes, Chaining, ChainKinds, Idle
    <3> QED
      BY <2>16, <3>1, <3>2, UpdateSafe DEF Die, shadow, official
  <2> QED
    BY <1>3, <2>1, <2>2, <2>3, <2>4, <2>5, <2>6, <2>7, <2>8, <2>9, <2>10, <2>12, <2>13, <2>14, <2>15, <2>16
    DEF Step, ChainKinds
<1> QED
  BY <1>1, <1>2, <1>3 DEF ChainNext

\* What Safe says of the files is what their readers count on.
LEMMA SafeEnough == Safe => AdviceIsSafe
<1> SUFFICES ASSUME Safe PROVE AdviceIsSafe
  OBVIOUS
<1>1. ChainTypeOK
  <2>1. now \in 1 .. 1 + spent /\ today \in Dates /\ nav \in 1 .. today /\ mixed \subseteq Dates
    BY DEF Safe, Shapes, Given, Files
  <2>2. \A d \in Have(tickets), f \in Funds : tickets[d].tickets[f].verb \in Verbs /\ tickets[d].tickets[f].status \in Statuses
    BY DEF Safe, Shapes, Files, Have, TicketsOK, TicketRow
  <2>3. \A d \in Have(advice) : DOMAIN advice[d].decisions = Funds
    <3> TAKE d \in Have(advice)
    <3>1. AdviceOK(advice[d])
      BY DEF Safe, Shapes, Files, Have
    <3>2. advice[d].decisions \in [Funds -> Row]
      BY <3>1, PreviewType DEF AdviceOK, TicketsOK, DebateOK
    <3> QED
      BY <3>2
  <2>4. \A d \in Have(daily) : d <= today /\ daily[d].ready \subseteq WINDOWS
    BY DEF Safe, Shapes, Files, Have, DailyOK, DailyFile
  <2>5. \A f \in Funds : latest[f] # None => latest[f].date \in Dates
    BY DEF Safe, Shapes, Files, LatestDecision
  <2> QED
    BY <2>1, <2>2, <2>3, <2>4, <2>5 DEF ChainTypeOK
<1>2. AdviceIsCoherent /\ PacksKnowNothingLater
  BY DEF Safe, Shapes, Files, Have, AdviceIsCoherent, AdviceOK, PacksKnowNothingLater
<1>3. BlockedIsHeld
  <2> SUFFICES ASSUME NEW d \in Have(advice), NEW f \in Funds
               PROVE  LET ticket == advice[d].ticket.tickets[f] IN
                      /\ ticket.status \in {"blocked", "degraded"} => FinalVerb(advice[d].decisions[f]) = "hold"
                      /\ ticket.block /\ advice[d].debate.ok =>
                           /\ advice[d].debate.status[f] = "blocked"
                           /\ FinalVerb(advice[d].decisions[f]) = "hold"
    BY DEF BlockedIsHeld
  <2>1. PICK a : a = advice[d]
    OBVIOUS
  <2>2. AdviceOK(a)
    BY <2>1 DEF Safe, Shapes, Files, Have
  <2>3. a.decisions[f].veto = Veto(a.ticket.tickets[f], a.debate.ok)
    BY <2>2, PreviewType DEF AdviceOK, TicketsOK, DebateOK
  <2>4. a.ticket.tickets[f].block /\ a.debate.ok => a.debate.status[f] = "blocked"
    BY <2>2 DEF AdviceOK, DebateOK
  <2> QED
    BY <2>1, <2>3, <2>4 DEF FinalVerb, Veto
<1> QED
  BY <1>1, <1>2, <1>3 DEF AdviceIsSafe, Safe, Debated

\* However chains, debates and ticket builds of the same date interleave, with
\* each other and with what they read: the official advice was made of one set
\* of tickets, packs and debate, knows nothing newer than its chain, a chain
\* that calls the model publishes its own debate only if all was answered, and
\* what a ticket blocks is held (run_promoted_advice_chain.py).
THEOREM AdviceStaysSafe == ChainSpec => []AdviceIsSafe
<1>1. ChainInit => Safe
  BY SafeInit
<1>2. Safe /\ [ChainNext]_vars => Safe'
  BY SafeStep
<1>3. Safe => AdviceIsSafe
  BY SafeEnough
<1> QED
  BY <1>1, <1>2, <1>3, PTL DEF ChainSpec

-------------------------------------------------------------------------------
(***************************************************************************)
(* Steps and the files of decisions.                                        *)
(***************************************************************************)
LEMMA RecordsInit == ChainInit => Records
  BY DEF ChainInit, Records, DateOK, Writing, Idle, ShowsLogged, OutcomesAreLogged

\* A step leaves a date alone that no writer of it takes.
LEMMA OtherDate ==
  ASSUME Shapes, NEW d \in Dates, DateOK(d),
         \A q \in Procs : (Writing(q, d)' <=> Writing(q, d)) /\ (Writing(q, d) => proc'[q] = proc[q]),
         daily'[d] = daily[d], validated'[d] = validated[d],
         latest' = latest \/ \E e \in Dates \ {d} : \E made : DailyOK(made) /\ latest' = Shown(e, made),
         ledger \subseteq ledger', events \subseteq events'
  PROVE  DateOK(d)'
<1>1. ASSUME NEW steps PROVE At(steps, d)' <=> At(steps, d)
  BY DEF At
<1>2. \A p, q \in Procs : Writing(p, d)' /\ Writing(q, d)' => p = q
  BY DEF DateOK
<1>3. \A p \in Procs : Writing(p, d)' =>
        /\ proc'[p].step = "ledger" => proc'[p].got = daily'[d]
        /\ proc'[p].step = "dump" => proc'[p].got.made.acts = daily'[d].acts
        /\ proc'[p].step \in {"log", "show"} => proc'[p].got.made = daily'[d]
  BY DEF DateOK
<1>4. ASSUME NEW f \in Funds, latest[f] # None, latest[f].date >= d
      PROVE  /\ latest'[f] # None /\ latest'[f].date >= d
             /\ latest'[f].date = d => latest'[f] = latest[f]
  <2>1. CASE latest' = latest
    BY <1>4, <2>1
  <2>2. ASSUME NEW e \in Dates \ {d}, NEW made, DailyOK(made), latest' = Shown(e, made)
        PROVE  /\ latest'[f] # None /\ latest'[f].date >= d
               /\ latest'[f].date = d => latest'[f] = latest[f]
    <3>1. PICK t : t = latest'
      OBVIOUS
    <3>2. t[f] # None
      <4>1. e \in Dates /\ t = Shown(e, made)
        BY <2>2, <3>1
      <4>2. t[f] \in LatestDecision
        BY <2>2, <4>1, ShownType
      <4> QED
        BY <4>2, NoneAssumption
    <3>3. \/ t[f] = latest[f] /\ latest[f].date > e
          \/ t[f] = [date |-> e, act |-> made.acts[f], ready |-> made.ready] /\ ~ (latest[f].date > e)
      BY <1>4, <2>2, <3>1 DEF Shown
    <3>5. t[f] = latest[f] \/ (t[f].date = e /\ latest[f].date <= e)
      <4>1. latest[f].date \in Nat /\ e \in Nat
        BY <1>4, DatesType DEF Shapes, Files, LatestDecision
      <4> QED
        BY <3>3, <4>1
    <3>6. d \in Nat /\ e \in Nat /\ latest[f].date \in Nat
      BY <1>4, DatesType DEF Shapes, Files, LatestDecision
    <3>7. t[f] # latest[f] => t[f].date > d
      BY <1>4, <3>5, <3>6
    <3> QED
      BY <1>4, <3>1, <3>2, <3>5, <3>6, <3>7
  <2> QED
    BY <2>1, <2>2
<1>5. daily[d] # None /\ ~ At({"validate", "daily"}, d) => Recorded(d)'
  <2> SUFFICES ASSUME Recorded(d) PROVE Recorded(d)'
    BY DEF DateOK
  <2>1. PICK day : day = daily[d]
    OBVIOUS
  <2>2. (At({"log", "show"}, d)' <=> At({"log", "show"}, d)) /\ (At({"ledger"}, d)' <=> At({"ledger"}, d))
    BY <1>1
  <2> SUFFICES ASSUME NEW f \in Funds
               PROVE  /\ day.acts[f].verb = validated'[d].acts[f].verb /\ day.acts[f].amount = validated'[d].acts[f].amount
                      /\ latest'[f] # None /\ latest'[f].date >= d
                      /\ latest'[f].date = d => latest'[f].act = day.acts[f] /\ (At({"log", "show"}, d)' \/ latest'[f].ready = day.ready)
                      /\ At({"ledger"}, d)' \/ day.acts[f] \in ledger' \/ \E e \in events' : e[1] = day.acts[f].id
    BY <2>1 DEF Recorded
  <2>3. /\ day.acts[f].verb = validated[d].acts[f].verb /\ day.acts[f].amount = validated[d].acts[f].amount
        /\ latest[f] # None /\ latest[f].date >= d
        /\ latest[f].date = d => latest[f].act = day.acts[f] /\ (At({"log", "show"}, d) \/ latest[f].ready = day.ready)
        /\ At({"ledger"}, d) \/ day.acts[f] \in ledger \/ \E e \in events : e[1] = day.acts[f].id
    BY <2>1 DEF Recorded
  <2>4. /\ latest'[f] # None /\ latest'[f].date >= d
        /\ latest'[f].date = d => latest'[f] = latest[f]
    BY <1>4, <2>3
  <2> QED
    BY <2>2, <2>3, <2>4
<1>6. At({"validate", "daily"}, d)' <=> At({"validate", "daily"}, d)
  BY <1>1
<1> QED
  BY <1>2, <1>3, <1>5, <1>6 DEF DateOK

\* A step that leaves what is shown alone, or shows what was logged.
LEMMA LoggedKept ==
  ASSUME ShowsLogged, OutcomesAreLogged, NEW p \in Procs, \A q \in Procs \ {p} : proc'[q] = proc[q], UNCHANGED latest,
         events \subseteq events', proc'[p].kind = "update" => proc'[p].step # "show"
  PROVE  ShowsLogged' /\ OutcomesAreLogged'
<1>1. \A q \in Procs : proc'[q].kind = "update" /\ proc'[q].step = "show" => proc'[q] = proc[q]
  OBVIOUS
<1>2. ShowsLogged'
  BY <1>1 DEF ShowsLogged
<1>3. OutcomesAreLogged'
  BY DEF OutcomesAreLogged
<1> QED
  BY <1>2, <1>3

LEMMA RecordsGiven ==
  ASSUME Records, UNCHANGED <<proc, official, mixed>>
  PROVE  Records'
<1>1. \A d \in Dates : DateOK(d) => DateOK(d)'
  BY DEF DateOK, Writing, At, Recorded, official
<1>2. ShowsLogged' /\ OutcomesAreLogged'
  BY DEF Records, ShowsLogged, OutcomesAreLogged, official
<1> QED
  BY <1>1, <1>2 DEF Records

\* A process that writes no decisions before and after its step.
LEMMA RecordsQuiet ==
  ASSUME Shapes, Records, NEW p \in Procs, \A q \in Procs \ {p} : proc'[q] = proc[q],
         UNCHANGED <<validated, daily, latest, ledger, events, mixed>>,
         \A d \in Dates : ~ Writing(p, d) /\ ~ Writing(p, d)', proc'[p].kind = "update" => proc'[p].step # "show"
  PROVE  Records'
<1>1. ASSUME NEW d \in Dates \ mixed PROVE DateOK(d)'
  <2>1. \A q \in Procs : (Writing(q, d)' <=> Writing(q, d)) /\ (Writing(q, d) => proc'[q] = proc[q])
    BY DEF Writing
  <2>2. DateOK(d)
    BY DEF Records
  <2> QED
    BY <2>1, <2>2, OtherDate
<1>2. ShowsLogged' /\ OutcomesAreLogged'
  BY LoggedKept DEF Records
<1> QED
  BY <1>1, <1>2 DEF Records

\* The dates a writer does not write.
LEMMA Elsewhere ==
  ASSUME Shapes, Records, NEW p \in Procs, \A q \in Procs \ {p} : proc'[q] = proc[q], proc[p].date \in Dates,
         NEW d \in Dates, d # proc[p].date, d \notin mixed, ~ Writing(p, d)', daily'[d] = daily[d], validated'[d] = validated[d],
         latest' = latest \/ \E made : DailyOK(made) /\ latest' = Shown(proc[p].date, made),
         ledger \subseteq ledger', events \subseteq events'
  PROVE  DateOK(d)'
<1>1. DateOK(d)
  BY DEF Records
<1>2. \A q \in Procs : (Writing(q, d)' <=> Writing(q, d)) /\ (Writing(q, d) => proc'[q] = proc[q])
  BY DEF Writing
<1>3. latest' = latest \/ \E e \in Dates \ {d} : \E made : DailyOK(made) /\ latest' = Shown(e, made)
  OBVIOUS
<1> QED
  BY <1>1, <1>2, <1>3, OtherDate

\* The one writer of a date, before and after a step of it.
LEMMA Solo ==
  ASSUME NEW p \in Procs, NEW d \in Dates, DateOK(d), Writing(p, d), \A q \in Procs \ {p} : proc'[q] = proc[q]
  PROVE  /\ \A q \in Procs \ {p} : ~ Writing(q, d)'
         /\ At({"validate", "daily"}, d) <=> proc[p].step \in {"validate", "daily"}
         /\ At({"log", "show"}, d) <=> proc[p].step \in {"log", "show"}
         /\ At({"ledger"}, d) <=> proc[p].step = "ledger"
<1>1. \A q \in Procs : Writing(q, d) => q = p
  BY DEF DateOK
<1> QED
  BY <1>1 DEF At, Writing

LEMMA SoloAfter ==
  ASSUME NEW p \in Procs, NEW d \in Dates, \A q \in Procs \ {p} : ~ Writing(q, d)',
         Writing(p, d)' =>
           /\ proc'[p].step = "ledger" => proc'[p].got = daily'[d]
           /\ proc'[p].step = "dump" => proc'[p].got.made.acts = daily'[d].acts
           /\ proc'[p].step \in {"log", "show"} => proc'[p].got.made = daily'[d],
         daily'[d] # None /\ ~ (Writing(p, d)' /\ proc'[p].step \in {"validate", "daily"}) => Recorded(d)'
  PROVE  DateOK(d)'
<1>1. At({"validate", "daily"}, d)' <=> Writing(p, d)' /\ proc'[p].step \in {"validate", "daily"}
  BY DEF At
<1> QED
  BY <1>1 DEF DateOK

LEMMA AtAfter ==
  ASSUME NEW p \in Procs, NEW d \in Dates, \A q \in Procs \ {p} : ~ Writing(q, d)'
  PROVE  /\ At({"log", "show"}, d)' <=> Writing(p, d)' /\ proc'[p].step \in {"log", "show"}
         /\ At({"ledger"}, d)' <=> Writing(p, d)' /\ proc'[p].step = "ledger"
  BY DEF At

LEMMA SameIdSameAct == \A a, b \in DayAct : a.id = b.id => a = b
<1> SUFFICES ASSUME NEW a \in DayAct, NEW b \in DayAct, a.id = b.id PROVE a = b
  OBVIOUS
<1>1. a = [id |-> a.id, verb |-> a.verb, amount |-> a.amount] /\ b = [id |-> b.id, verb |-> b.verb, amount |-> b.amount]
  BY DEF DayAct, DayDecision
<1>2. a.verb = b.verb /\ a.amount = b.amount
  BY DEF DayAct
<1> QED
  BY <1>1, <1>2

LEMMA RecordsPublish ==
  ASSUME Shapes, Records, NEW p \in Procs, Publish(p)
  PROVE  Records'
<1> DEFINE d == proc[p].date
<1>1. ChainOK(proc[p]) /\ Running(proc[p]) /\ d \in Dates /\ AllProcs /\ proc[p].step = "preview"
  BY ChainAt DEF Publish, Shapes
<1>2. UNCHANGED <<validated, daily, latest, ledger, events>>
  BY DEF Publish
<1>3. CASE Stop(p) /\ UNCHANGED <<advice, mixed>>
  <2>1. (\A q \in Procs \ {p} : proc'[q] = proc[q]) /\ proc'[p] = Idle
    BY <1>1, <1>3, StopEffect
  <2>2. \A e \in Dates : ~ Writing(p, e) /\ ~ Writing(p, e)'
    BY <1>1, <2>1 DEF Writing, Idle
  <2> QED
    BY <1>2, <1>3, <2>1, <2>2, RecordsQuiet DEF Idle
<1>4. ASSUME NEW a, Go(p, "validate", a), Enter(p, d), proc[p].kind \in {"live", "mock"}
      PROVE  Records'
  <2>1. /\ \A q \in Procs \ {p} : proc'[q] = proc[q]
        /\ proc'[p].kind = proc[p].kind /\ proc'[p].date = d /\ proc'[p].step = "validate"
    BY <1>1, <1>4, GoEffect
  <2>2. mixed' = IF Others(p, d) THEN mixed \cup {d} ELSE mixed \ {d}
    BY <1>4 DEF Enter
  <2>3. ASSUME NEW e \in Dates \ mixed' PROVE DateOK(e)'
    <3>1. CASE e # d
      <4>1. e \notin mixed /\ ~ Writing(p, e)'
        BY <2>1, <2>2, <2>3, <3>1 DEF Writing
      <4> QED
        BY <1>1, <1>2, <2>1, <3>1, <4>1, Elsewhere
    <3>2. CASE e = d
      <4>1. \A q \in Procs \ {p} : ~ Writing(q, e)'
        BY <2>1, <2>2, <2>3, <3>2 DEF Others, Writing
      <4>2. Writing(p, e)' /\ proc'[p].step = "validate"
        BY <1>1, <1>4, <2>1, <3>2 DEF Writing
      <4> QED
        BY <4>1, <4>2, SoloAfter
    <3> QED
      BY <3>1, <3>2
  <2>4. ShowsLogged' /\ OutcomesAreLogged'
    BY <1>2, <2>1, LoggedKept DEF Records
  <2> QED
    BY <2>3, <2>4 DEF Records
<1> QED
  BY <1>3, <1>4, PublishStep

LEMMA RecordsValidate ==
  ASSUME Shapes, Records, NEW p \in Procs, Validate(p)
  PROVE  Records'
<1> DEFINE d == proc[p].date
<1>1. ChainOK(proc[p]) /\ Running(proc[p]) /\ d \in Dates /\ AllProcs /\ proc[p].step = "validate"
  BY ChainAt DEF Validate, Shapes
<1>2. UNCHANGED <<daily, latest, ledger, events, mixed>> /\ proc[p].kind # "idle"
  BY DEF Validate
<1>3. Go(p, "daily", None) /\ \A e \in Dates \ {d} : validated'[e] = validated[e]
  BY ValidateStep
<1>4. /\ \A q \in Procs \ {p} : proc'[q] = proc[q]
      /\ proc'[p].kind = proc[p].kind /\ proc'[p].date = d /\ proc'[p].step = "daily"
  BY <1>1, <1>3, GoEffect
<1>5. ASSUME NEW e \in Dates \ mixed' PROVE DateOK(e)'
  <2>1. e \notin mixed /\ DateOK(e)
    BY <1>2, <1>5 DEF Records
  <2>2. CASE e # d
    <3>1. ~ Writing(p, e)'
      BY <1>4, <2>2 DEF Writing
    <3> QED
      BY <1>1, <1>2, <1>3, <1>4, <1>5, <2>1, <2>2, <3>1, Elsewhere
  <2>3. CASE e = d
    <3>1. Writing(p, e)
      BY <1>1, <1>2, <2>3 DEF Writing
    <3>2. \A q \in Procs \ {p} : ~ Writing(q, e)'
      BY <1>4, <1>5, <2>1, <3>1, Solo
    <3>3. Writing(p, e)'
      BY <1>2, <1>4, <2>3 DEF Writing
    <3> QED
      BY <1>4, <1>5, <3>2, <3>3, SoloAfter
  <2> QED
    BY <2>2, <2>3
<1>6. ShowsLogged' /\ OutcomesAreLogged'
  BY <1>2, <1>4, LoggedKept DEF Records
<1> QED
  BY <1>5, <1>6 DEF Records

LEMMA RecordsDecisions ==
  ASSUME Shapes, Records, NEW p \in Procs, WriteDecisions(p)
  PROVE  Records'
<1> DEFINE d == proc[p].date
<1>1. ChainOK(proc[p]) /\ Running(proc[p]) /\ d \in Dates /\ AllProcs /\ proc[p].step = "daily"
  BY ChainAt DEF WriteDecisions, Shapes
<1>2. UNCHANGED <<validated, ledger, events, mixed>> /\ proc[p].kind # "idle"
  BY DEF WriteDecisions
<1>3. PICK made : /\ made.acts = Decisions(d, validated[d].acts) /\ made.ready = {}
                  /\ DailyOK(made) /\ ActsOK(validated[d])
                  /\ daily'[d] = made /\ \A e \in Dates \ {d} : daily'[e] = daily[e]
                  /\ latest' = Shown(d, made) /\ Go(p, "ledger", made)
  BY WriteDecisionsStep
<1>4. /\ \A q \in Procs \ {p} : proc'[q] = proc[q]
      /\ proc'[p].kind = proc[p].kind /\ proc'[p].date = d /\ proc'[p].step = "ledger" /\ proc'[p].got = made
  BY <1>1, <1>3, GoEffect
<1>5. PICK t : t = latest'
  OBVIOUS
<1>6. \A f \in Funds : t[f] \in LatestDecision
  BY <1>1, <1>3, <1>5, ShownType
<1>7. \A f \in Funds : \/ t[f] = latest[f] /\ latest[f].date > d /\ latest[f] # None
                       \/ t[f].date = d /\ t[f].act = made.acts[f] /\ t[f].ready = made.ready
  BY <1>3, <1>5 DEF Shown
<1>8. ASSUME NEW e \in Dates \ mixed' PROVE DateOK(e)'
  <2>1. e \notin mixed /\ DateOK(e)
    BY <1>2, <1>8 DEF Records
  <2>2. CASE e # d
    <3>1. ~ Writing(p, e)'
      BY <1>4, <2>2 DEF Writing
    <3>2. daily'[e] = daily[e] /\ validated'[e] = validated[e] /\ \E new : DailyOK(new) /\ latest' = Shown(d, new)
      BY <1>2, <1>3, <1>8, <2>2
    <3> QED
      BY <1>1, <1>2, <1>4, <1>8, <2>1, <2>2, <3>1, <3>2, Elsewhere
  <2>3. CASE e = d
    <3>1. Writing(p, e)
      BY <1>1, <1>2, <2>3 DEF Writing
    <3>2. \A q \in Procs \ {p} : ~ Writing(q, e)'
      BY <1>4, <1>8, <2>1, <3>1, Solo
    <3>3. Writing(p, e)' /\ At({"ledger"}, e)'
      BY <1>2, <1>4, <2>3 DEF Writing, At
    <3>4. ASSUME NEW f \in Funds
          PROVE  /\ made.acts[f].verb = validated'[e].acts[f].verb /\ made.acts[f].amount = validated'[e].acts[f].amount
                 /\ latest'[f] # None /\ latest'[f].date >= e
                 /\ latest'[f].date = e => latest'[f].act = made.acts[f] /\ latest'[f].ready = made.ready
      <4>1. made.acts[f].verb = validated[e].acts[f].verb /\ made.acts[f].amount = validated[e].acts[f].amount
        BY <1>3, <2>3 DEF Decisions
      <4>2. t[f] # None
        BY <1>6, NoneAssumption
      <4>3. t[f].date \in Nat /\ e \in Nat
        BY <1>6, <1>8, DatesType DEF LatestDecision
      <4>4. t[f].date >= e /\ (t[f].date = e => t[f].act = made.acts[f] /\ t[f].ready = made.ready)
        BY <1>7, <2>3, <4>3
      <4> QED
        BY <1>2, <1>5, <4>1, <4>2, <4>4
    <3>5. Recorded(e)'
      <4>1. daily'[e] = made
        BY <1>3, <2>3
      <4> QED
        BY <3>3, <3>4, <4>1 DEF Recorded
    <3>6. proc'[p].got = daily'[e] /\ proc'[p].step = "ledger"
      BY <1>3, <1>4, <2>3
    <3> QED
      BY <1>8, <3>2, <3>5, <3>6, SoloAfter
  <2> QED
    BY <2>2, <2>3
<1>9. ShowsLogged'
  <2>1. \A q \in Procs : proc'[q].kind = "update" /\ proc'[q].step = "show" => proc'[q] = proc[q]
    BY <1>4
  <2> QED
    BY <1>2, <2>1 DEF Records, ShowsLogged
<1>10. OutcomesAreLogged'
  <2>1. \A f \in Funds : t[f] = latest[f] \/ t[f].ready = {}
    BY <1>3, <1>7
  <2> QED
    BY <1>2, <1>5, <2>1 DEF Records, OutcomesAreLogged
<1> QED
  BY <1>8, <1>9, <1>10 DEF Records

LEMMA RecordsLedger ==
  ASSUME Shapes, Records, NEW p \in Procs, AppendLedger(p)
  PROVE  Records'
<1> DEFINE d == proc[p].date
<1>1. ChainOK(proc[p]) /\ Running(proc[p]) /\ d \in Dates /\ AllProcs /\ proc[p].step = "ledger"
  BY ChainAt DEF AppendLedger, Shapes
<1>2. UNCHANGED <<validated, daily, latest, events, mixed>> /\ proc[p].kind # "idle"
  BY DEF AppendLedger
<1>3. /\ Stop(p) /\ DailyOK(proc[p].got)
      /\ ledger' = ledger \cup {a \in {proc[p].got.acts[f] : f \in Funds} : a.id \notin Known}
  BY AppendLedgerStep
<1>4. (\A q \in Procs \ {p} : proc'[q] = proc[q]) /\ proc'[p] = Idle
  BY <1>1, <1>3, StopEffect
<1>5. ASSUME NEW f \in Funds
      PROVE  proc[p].got.acts[f] \in ledger' \/ \E e \in events : e[1] = proc[p].got.acts[f].id
  <2>1. PICK act : act = proc[p].got.acts[f]
    OBVIOUS
  <2>2. act \in DayAct
    BY <1>3, <2>1 DEF DailyOK
  <2>3. CASE act.id \notin Known
    BY <1>3, <2>1, <2>3
  <2>4. CASE \E a \in ledger : a.id = act.id
    <3>1. act \in ledger
      BY <2>2, <2>4, SameIdSameAct DEF Shapes, Files
    <3> QED
      BY <1>3, <2>1, <3>1
  <2>5. CASE \E e \in events : e[1] = act.id
    BY <2>1, <2>5
  <2> QED
    BY <2>3, <2>4, <2>5 DEF Known
<1>6. ASSUME NEW e \in Dates \ mixed' PROVE DateOK(e)'
  <2>1. e \notin mixed /\ DateOK(e)
    BY <1>2, <1>6 DEF Records
  <2>2. ~ Writing(p, e)'
    BY <1>4 DEF Writing, Idle
  <2>3. CASE e # d
    BY <1>1, <1>2, <1>3, <1>4, <1>6, <2>1, <2>2, <2>3, Elsewhere
  <2>4. CASE e = d
    <3>1. Writing(p, e) /\ proc[p].got = daily[e]
      BY <1>1, <1>2, <2>1, <2>4 DEF Writing, DateOK
    <3>2. /\ \A q \in Procs \ {p} : ~ Writing(q, e)'
          /\ ~ At({"validate", "daily"}, e) /\ ~ At({"log", "show"}, e)
      BY <1>1, <1>4, <1>6, <2>1, <3>1, Solo
    <3>3. daily[e] # None => Recorded(e)'
      <4>1. daily[e] # None => Recorded(e)
        BY <2>1, <3>2 DEF DateOK
      <4>2. \A f \in Funds : daily[e].acts[f] \in ledger' \/ \E v \in events : v[1] = daily[e].acts[f].id
        BY <1>5, <3>1
      <4> QED
        BY <1>2, <3>2, <4>1, <4>2 DEF Recorded
    <3> QED
      BY <1>2, <1>6, <2>2, <3>2, <3>3, SoloAfter
  <2> QED
    BY <2>3, <2>4
<1>7. ShowsLogged' /\ OutcomesAreLogged'
  BY <1>2, <1>4, LoggedKept DEF Records, Idle
<1> QED
  BY <1>6, <1>7 DEF Records

\* What Recorded says of a date before the one writer of it takes its step.
LEMMA WasRecorded ==
  ASSUME Shapes, NEW p \in Procs, NEW e \in Dates, DateOK(e), DailyOK(daily[e]),
         \/ Writing(p, e) /\ proc[p].step \in {"dump", "log", "show"}
         \/ \A q \in Procs : ~ Writing(q, e)
  PROVE  \A f \in Funds :
           LET act == daily[e].acts[f] IN
           /\ act.verb = validated[e].acts[f].verb /\ act.amount = validated[e].acts[f].amount
           /\ latest[f] # None /\ latest[f].date >= e
           /\ latest[f].date = e => latest[f].act = act
           /\ latest[f].date = e => latest[f].ready = daily[e].ready \/ At({"log", "show"}, e)
           /\ act \in ledger \/ \E v \in events : v[1] = act.id
<1>1. daily[e] # None
  BY NoneAssumption DEF DailyOK
<1>2. ~ At({"validate", "daily"}, e) /\ ~ At({"ledger"}, e)
  BY DEF DateOK, At
<1>3. Recorded(e)
  BY <1>1, <1>2 DEF DateOK
<1> QED
  BY <1>2, <1>3 DEF Recorded

LEMMA RecordsRead ==
  ASSUME Shapes, Records, NEW p \in Procs, ReadDaily(p)
  PROVE  Records'
<1> DEFINE d == proc[p].date
<1>1. UpdateOK(proc[p]) /\ Running(proc[p]) /\ d \in Dates /\ AllProcs /\ proc[p].step = "read" /\ proc[p].kind = "update"
  BY UpdateAt DEF ReadDaily, Shapes
<1>2. UNCHANGED <<validated, daily, latest, ledger, events>>
  BY DEF ReadDaily, official
<1>3. Enter(p, d) /\ \E got : Go(p, "dump", got) /\ got.made.acts = daily[d].acts
  BY ReadDailyStep
<1>4. /\ \A q \in Procs \ {p} : proc'[q] = proc[q]
      /\ proc'[p].kind = proc[p].kind /\ proc'[p].date = d /\ proc'[p].step = "dump" /\ proc'[p].got.made.acts = daily[d].acts
  BY <1>1, <1>3, GoEffect
<1>5. mixed' = IF Others(p, d) THEN mixed \cup {d} ELSE mixed
  BY <1>1, <1>3 DEF Enter
<1>6. ASSUME NEW e \in Dates \ mixed' PROVE DateOK(e)'
  <2>1. e \notin mixed /\ DateOK(e)
    BY <1>5, <1>6 DEF Records
  <2>2. CASE e # d
    <3>1. ~ Writing(p, e)'
      BY <1>4, <2>2 DEF Writing
    <3> QED
      BY <1>1, <1>2, <1>4, <1>6, <2>1, <2>2, <3>1, Elsewhere
  <2>3. CASE e = d
    <3>1. \A q \in Procs : ~ Writing(q, e)
      BY <1>1, <1>5, <1>6, <2>3 DEF Others, Writing
    <3>2. \A q \in Procs \ {p} : ~ Writing(q, e)'
      BY <1>4, <3>1 DEF Writing
    <3>3. DailyOK(daily[e]) /\ ~ At({"log", "show"}, e)
      BY <1>1, <2>3, <3>1 DEF UpdateOK, At
    <3>4. Recorded(e)'
      BY <1>2, <1>6, <2>1, <3>1, <3>3, WasRecorded DEF Recorded
    <3>5. proc'[p].step = "dump" /\ proc'[p].got.made.acts = daily'[e].acts
      BY <1>2, <1>4, <2>3
    <3> QED
      BY <1>6, <3>2, <3>4, <3>5, SoloAfter
  <2> QED
    BY <2>2, <2>3
<1>7. ShowsLogged' /\ OutcomesAreLogged'
  BY <1>2, <1>4, LoggedKept DEF Records
<1> QED
  BY <1>6, <1>7 DEF Records

LEMMA RecordsDump ==
  ASSUME Shapes, Records, NEW p \in Procs, DumpDaily(p)
  PROVE  Records'
<1> DEFINE d == proc[p].date
<1>1. UpdateOK(proc[p]) /\ Running(proc[p]) /\ d \in Dates /\ AllProcs /\ proc[p].step = "dump" /\ proc[p].kind = "update"
  BY UpdateAt DEF DumpDaily, Shapes
<1>2. UNCHANGED <<validated, latest, ledger, events, mixed>>
  BY DEF DumpDaily
<1>3. /\ Go(p, "log", proc[p].got) /\ daily'[d] = proc[p].got.made /\ \A e \in Dates \ {d} : daily'[e] = daily[e]
  BY DumpDailyStep
<1>4. /\ \A q \in Procs \ {p} : proc'[q] = proc[q]
      /\ proc'[p].kind = proc[p].kind /\ proc'[p].date = d /\ proc'[p].step = "log" /\ proc'[p].got = proc[p].got
  BY <1>1, <1>3, GoEffect
<1>5. ASSUME NEW e \in Dates \ mixed' PROVE DateOK(e)'
  <2>1. e \notin mixed /\ DateOK(e)
    BY <1>2, <1>5 DEF Records
  <2>2. CASE e # d
    <3>1. ~ Writing(p, e)'
      BY <1>4, <2>2 DEF Writing
    <3> QED
      BY <1>1, <1>2, <1>3, <1>4, <1>5, <2>1, <2>2, <3>1, Elsewhere
  <2>3. CASE e = d
    <3>1. Writing(p, e) /\ proc[p].got.made.acts = daily[e].acts
      BY <1>1, <2>1, <2>3 DEF Writing, DateOK
    <3>2. \A q \in Procs \ {p} : ~ Writing(q, e)'
      BY <1>4, <1>5, <2>1, <3>1, Solo
    <3>3. At({"log", "show"}, e)'
      BY <1>1, <1>4, <2>3 DEF Writing, At
    <3>4. daily'[e].acts = daily[e].acts /\ DailyOK(daily[e])
      BY <1>1, <1>3, <2>3, <3>1 DEF UpdateOK
    <3>5. Recorded(e)'
      <4>1. PICK acts : acts = daily[e].acts /\ acts = daily'[e].acts
        BY <3>4
      <4>2. \A f \in Funds :
              /\ acts[f].verb = validated[e].acts[f].verb /\ acts[f].amount = validated[e].acts[f].amount
              /\ latest[f] # None /\ latest[f].date >= e
              /\ latest[f].date = e => latest[f].act = acts[f]
              /\ acts[f] \in ledger \/ \E v \in events : v[1] = acts[f].id
        BY <1>1, <1>5, <2>1, <3>1, <3>4, <4>1, WasRecorded
      <4> QED
        BY <1>2, <3>3, <4>1, <4>2 DEF Recorded
    <3>6. proc'[p].step = "log" /\ proc'[p].got.made = daily'[e]
      BY <1>3, <1>4, <2>3
    <3> QED
      BY <1>5, <3>2, <3>5, <3>6, SoloAfter
  <2> QED
    BY <2>2, <2>3
<1>6. ShowsLogged' /\ OutcomesAreLogged'
  BY <1>2, <1>4, LoggedKept DEF Records
<1> QED
  BY <1>5, <1>6 DEF Records

LEMMA RecordsLog ==
  ASSUME Shapes, Records, NEW p \in Procs, LogOutcomes(p)
  PROVE  Records'
<1> DEFINE d == proc[p].date
<1>1. UpdateOK(proc[p]) /\ Running(proc[p]) /\ d \in Dates /\ AllProcs /\ proc[p].step = "log" /\ proc[p].kind = "update"
  BY UpdateAt DEF LogOutcomes, Shapes
<1>2. UNCHANGED <<validated, daily, latest, ledger, mixed>>
  BY DEF LogOutcomes
<1>3. /\ Go(p, "show", proc[p].got)
      /\ events' = events \cup {<<proc[p].got.made.acts[f].id, proc[p].got.made.ready>> : f \in Funds}
  BY DEF LogOutcomes
<1>4. /\ \A q \in Procs \ {p} : proc'[q] = proc[q]
      /\ proc'[p].kind = proc[p].kind /\ proc'[p].date = d /\ proc'[p].step = "show" /\ proc'[p].got = proc[p].got
  BY <1>1, <1>3, GoEffect
<1>5. ASSUME NEW e \in Dates \ mixed' PROVE DateOK(e)'
  <2>1. e \notin mixed /\ DateOK(e)
    BY <1>2, <1>5 DEF Records
  <2>2. CASE e # d
    <3>1. ~ Writing(p, e)'
      BY <1>4, <2>2 DEF Writing
    <3> QED
      BY <1>1, <1>2, <1>3, <1>4, <1>5, <2>1, <2>2, <3>1, Elsewhere
  <2>3. CASE e = d
    <3>1. Writing(p, e) /\ proc[p].got.made = daily[e] /\ DailyOK(daily[e])
      BY <1>1, <2>1, <2>3 DEF Writing, DateOK, UpdateOK
    <3>2. \A q \in Procs \ {p} : ~ Writing(q, e)'
      BY <1>4, <1>5, <2>1, <3>1, Solo
    <3>3. At({"log", "show"}, e)'
      BY <1>1, <1>4, <2>3 DEF Writing, At
    <3>4. Recorded(e)'
      <4>1. PICK acts : acts = daily[e].acts
        OBVIOUS
      <4>2. \A f \in Funds :
              /\ acts[f].verb = validated[e].acts[f].verb /\ acts[f].amount = validated[e].acts[f].amount
              /\ latest[f] # None /\ latest[f].date >= e
              /\ latest[f].date = e => latest[f].act = acts[f]
              /\ acts[f] \in ledger \/ \E v \in events : v[1] = acts[f].id
        BY <1>1, <1>5, <2>1, <3>1, <4>1, WasRecorded
      <4>3. \A f \in Funds : acts[f] \in ledger \/ \E v \in events' : v[1] = acts[f].id
        BY <1>3, <4>2
      <4> QED
        BY <1>2, <3>3, <4>1, <4>2, <4>3 DEF Recorded
    <3>5. proc'[p].step = "show" /\ proc'[p].got.made = daily'[e]
      BY <1>2, <1>4, <2>3, <3>1
    <3> QED
      BY <1>5, <3>2, <3>4, <3>5, SoloAfter
  <2> QED
    BY <2>2, <2>3
<1>6. ShowsLogged'
  <2> SUFFICES ASSUME NEW q \in Procs, proc'[q].kind = "update", proc'[q].step = "show", NEW f \in Funds
               PROVE  <<proc'[q].got.made.acts[f].id, proc'[q].got.made.ready>> \in events'
    BY DEF ShowsLogged
  <2>1. CASE q = p
    BY <1>3, <1>4, <2>1
  <2>2. CASE q # p
    BY <1>3, <1>4, <2>2 DEF Records, ShowsLogged
  <2> QED
    BY <2>1, <2>2
<1>7. OutcomesAreLogged'
  BY <1>2, <1>3 DEF Records, OutcomesAreLogged
<1> QED
  BY <1>5, <1>6, <1>7 DEF Records

LEMMA RecordsShow ==
  ASSUME Shapes, Records, NEW p \in Procs, ShowOutcomes(p)
  PROVE  Records'
<1> DEFINE d == proc[p].date
           made == proc[p].got.made
<1>1. UpdateOK(proc[p]) /\ Running(proc[p]) /\ d \in Dates /\ AllProcs /\ proc[p].step = "show" /\ proc[p].kind = "update"
  BY UpdateAt DEF ShowOutcomes, Shapes
<1>2. UNCHANGED <<validated, daily, ledger, events, mixed>>
  BY DEF ShowOutcomes
<1>3. /\ DailyOK(made) /\ latest' = Shown(d, made) /\ \A q \in Procs \ {p} : proc'[q] = proc[q]
      /\ proc'[p] = Idle \/ (Running(proc'[p]) /\ proc'[p].kind = "update" /\ proc'[p].step = "read")
  BY ShowOutcomesStep
<1>4. PICK t : t = latest'
  OBVIOUS
<1>5. \A f \in Funds : t[f] \in LatestDecision
  BY <1>1, <1>3, <1>4, ShownType
<1>6. \A f \in Funds : \/ t[f] = latest[f] /\ latest[f].date > d /\ latest[f] # None
                       \/ t[f].date = d /\ t[f].act = made.acts[f] /\ t[f].ready = made.ready
  BY <1>3, <1>4 DEF Shown
<1>7. \A e \in Dates : ~ Writing(p, e)'
  BY <1>3 DEF Writing, Idle
<1>8. ASSUME NEW e \in Dates \ mixed' PROVE DateOK(e)'
  <2>1. e \notin mixed /\ DateOK(e)
    BY <1>2, <1>8 DEF Records
  <2>2. CASE e # d
    <3>1. \E new : DailyOK(new) /\ latest' = Shown(d, new)
      BY <1>3
    <3> QED
      BY <1>1, <1>2, <1>3, <1>7, <1>8, <2>1, <2>2, <3>1, Elsewhere
  <2>3. CASE e = d
    <3>1. Writing(p, e) /\ made = daily[e] /\ DailyOK(daily[e])
      BY <1>1, <2>1, <2>3 DEF Writing, DateOK, UpdateOK
    <3>2. \A q \in Procs \ {p} : ~ Writing(q, e)'
      BY <1>3, <1>8, <2>1, <3>1, Solo
    <3>3. PICK day : day = daily[e]
      OBVIOUS
    <3>4. \A f \in Funds :
            /\ day.acts[f].verb = validated[e].acts[f].verb /\ day.acts[f].amount = validated[e].acts[f].amount
            /\ day.acts[f] \in ledger \/ \E v \in events : v[1] = day.acts[f].id
      BY <1>1, <1>8, <2>1, <3>1, <3>3, WasRecorded
    <3>5. \A f \in Funds : /\ t[f] # None /\ t[f].date >= e
                           /\ t[f].date = e => t[f].act = day.acts[f] /\ t[f].ready = day.ready
      <4> TAKE f \in Funds
      <4>1. t[f] # None /\ t[f].date \in Nat /\ e \in Nat
        BY <1>5, <1>8, NoneAssumption, DatesType DEF LatestDecision
      <4>2. \/ t[f].date > e
            \/ t[f].date = e /\ t[f].act = day.acts[f] /\ t[f].ready = day.ready
        BY <1>6, <2>3, <3>1, <3>3
      <4> QED
        BY <4>1, <4>2
    <3>6. Recorded(e)'
      BY <1>2, <1>4, <3>3, <3>4, <3>5 DEF Recorded
    <3> QED
      BY <1>7, <1>8, <3>2, <3>6, SoloAfter
  <2> QED
    BY <2>2, <2>3
<1>9. ShowsLogged'
  <2>1. \A q \in Procs : proc'[q].kind = "update" /\ proc'[q].step = "show" => proc'[q] = proc[q]
    BY <1>3 DEF Idle
  <2> QED
    BY <1>2, <2>1 DEF Records, ShowsLogged
<1>10. OutcomesAreLogged'
  <2> SUFFICES ASSUME NEW f \in Funds, t[f].ready # {}
               PROVE  <<t[f].act.id, t[f].ready>> \in events
    BY <1>2, <1>4 DEF OutcomesAreLogged
  <2>1. <<made.acts[f].id, made.ready>> \in events
    BY <1>1 DEF Records, ShowsLogged
  <2>2. latest[f] # None /\ latest[f].ready # {} => <<latest[f].act.id, latest[f].ready>> \in events
    BY DEF Records, OutcomesAreLogged
  <2> QED
    BY <1>6, <2>1, <2>2
<1> QED
  BY <1>8, <1>9, <1>10 DEF Records

LEMMA RecordsDie ==
  ASSUME Shapes, Records, NEW p \in Procs, Die(p)
  PROVE  Records'
<1> DEFINE d == proc[p].date
<1>1. Stop(p) /\ mixed' = mixed \cup {d} /\ d \in Dates
  BY DieStep
<1>2. UNCHANGED <<validated, daily, latest, ledger, events>>
  BY DEF Die, official
<1>3. (\A q \in Procs \ {p} : proc'[q] = proc[q]) /\ proc'[p] = Idle
  BY <1>1, StopEffect DEF Shapes
<1>4. ASSUME NEW e \in Dates \ mixed' PROVE DateOK(e)'
  <2>1. e \notin mixed /\ e # d /\ ~ Writing(p, e)'
    BY <1>1, <1>3, <1>4 DEF Writing, Idle
  <2> QED
    BY <1>1, <1>2, <1>3, <1>4, <2>1, Elsewhere
<1>5. ShowsLogged' /\ OutcomesAreLogged'
  BY <1>2, <1>3, LoggedKept DEF Records, Idle
<1> QED
  BY <1>4, <1>5 DEF Records

\* A step of a chain before it writes the official files.
LEMMA ChainQuiet ==
  ASSUME Shapes, Records, NEW p \in Procs, proc[p].kind # "idle",
         proc[p].step \in {"tickets", "packs", "debate", "debating"},
         UNCHANGED <<validated, daily, latest, ledger, events, mixed>>,
         Stop(p) \/ \E step \in {"packs", "debate", "debating", "preview"} : \E got : Go(p, step, got)
  PROVE  Records'
<1>1. ChainOK(proc[p]) /\ Running(proc[p]) /\ AllProcs
  BY ChainAt DEF Shapes
<1>2. /\ \A q \in Procs \ {p} : proc'[q] = proc[q]
      /\ proc'[p] = Idle \/ proc'[p].step \in {"packs", "debate", "debating", "preview"}
  <2>1. CASE Stop(p)
    BY <1>1, <2>1, StopEffect
  <2>2. ASSUME NEW step \in {"packs", "debate", "debating", "preview"}, NEW got, Go(p, step, got)
        PROVE  (\A q \in Procs \ {p} : proc'[q] = proc[q]) /\ proc'[p].step = step
    BY <1>1, <2>2, GoEffect
  <2> QED
    BY <2>1, <2>2
<1>3. \A d \in Dates : ~ Writing(p, d) /\ ~ Writing(p, d)'
  BY <1>2 DEF Writing, Idle
<1> QED
  BY <1>2, <1>3, RecordsQuiet DEF Idle

Inv == Safe /\ Records

LEMMA RecordsStep == Inv /\ [ChainNext]_vars => Inv'
<1> SUFFICES ASSUME Inv, [ChainNext]_vars PROVE Records'
  BY SafeStep DEF Inv
<1>0. Shapes /\ Records
  BY DEF Inv, Safe
<1>1. CASE UNCHANGED vars
  BY <1>0, <1>1, RecordsGiven DEF vars
<1>2. CASE NewDay \/ Priced \/ Revalue \/ Settle \/ Score \/ Remember
  BY <1>0, <1>2, GivenSteps, RecordsGiven
<1>3. ASSUME NEW p \in Procs, Step(p) PROVE Records'
  <2>1. ASSUME NEW kind \in ChainKinds, NEW d \in Dates, Start(p, kind, d) PROVE Records'
    <3>1. proc'[p].step \in {"debate", "tickets"} /\ (\A q \in Procs \ {p} : proc'[q] = proc[q]) /\ proc[p] = Idle
      BY <1>0, <2>1, StartStep DEF Start
    <3>2. \A e \in Dates : ~ Writing(p, e) /\ ~ Writing(p, e)'
      BY <3>1 DEF Writing, Idle
    <3>3. UNCHANGED <<validated, daily, latest, ledger, events, mixed>>
      BY <2>1 DEF Start, official
    <3> QED
      BY <1>0, <3>1, <3>2, <3>3, RecordsQuiet
  <2>2. CASE BuildTickets(p)
    BY <1>0, <2>2, BuildTicketsStep, ChainQuiet DEF BuildTickets, official
  <2>3. CASE BuildPacks(p)
    BY <1>0, <2>3, BuildPacksStep, ChainQuiet DEF BuildPacks, official
  <2>4. CASE OpenDebate(p)
    BY <1>0, <2>4, OpenDebateStep, ChainQuiet DEF OpenDebate, official
  <2>5. CASE CloseDebate(p)
    BY <1>0, <2>5, CloseDebateStep, ChainQuiet DEF CloseDebate, official
  <2>6. CASE StartUpdate(p)
    <3>1. /\ \A q \in Procs \ {p} : proc'[q] = proc[q]
          /\ proc[p] = Idle /\ (proc'[p] = Idle \/ proc'[p].step = "read")
      BY <1>0, <2>6, StartUpdateStep DEF StartUpdate
    <3>2. \A e \in Dates : ~ Writing(p, e) /\ ~ Writing(p, e)'
      BY <3>1 DEF Writing, Idle
    <3>3. UNCHANGED <<validated, daily, latest, ledger, events, mixed>>
      BY <2>6 DEF StartUpdate, official
    <3> QED
      BY <1>0, <3>1, <3>2, <3>3, RecordsQuiet DEF Idle
  <2> QED
    BY <1>0, <1>3, <2>1, <2>2, <2>3, <2>4, <2>5, <2>6, RecordsPublish, RecordsValidate, RecordsDecisions, RecordsLedger,
       RecordsRead, RecordsDump, RecordsLog, RecordsShow, RecordsDie
    DEF Step, ChainKinds
<1> QED
  BY <1>1, <1>2, <1>3 DEF ChainNext

LEMMA RecordsEnough == Inv => RecordsAgree
<1> SUFFICES ASSUME Inv PROVE RecordsAgree
  OBVIOUS
<1>1. ASSUME NEW d \in Have(daily), Still(d) PROVE Recorded(d) /\ ~ At({"log", "show"}, d) /\ ~ At({"ledger"}, d)
  <2>1. \A steps : ~ At(steps, d)
    BY <1>1 DEF Still, At
  <2>2. DateOK(d) /\ daily[d] # None
    BY <1>1 DEF Inv, Records, Still, Have
  <2> QED
    BY <2>1, <2>2 DEF DateOK
<1>2. FilesAgree
  BY <1>1 DEF FilesAgree, Recorded
<1>3. LatestIsNewest
  BY <1>1 DEF LatestIsNewest, Recorded
<1>4. LedgerHoldsDay
  BY <1>1 DEF LedgerHoldsDay, Recorded
<1> QED
  BY <1>2, <1>3, <1>4 DEF RecordsAgree, Inv, Records

\* The daily decisions, the latest decision of a fund, the ledger and the
\* outcomes tell the same of the validated advice on every date that no writer
\* died on and no two wrote at once, reruns and outcome updates included
\* (decision_ledger.py, update_decision_outcomes.py).
THEOREM RecordsStayAgreed == ChainSpec => []RecordsAgree
<1>1. ChainInit => Inv
  BY SafeInit, RecordsInit DEF Inv
<1>2. Inv /\ [ChainNext]_vars => Inv'
  BY RecordsStep
<1>3. Inv => RecordsAgree
  BY RecordsEnough
<1> QED
  BY <1>1, <1>2, <1>3, PTL DEF ChainSpec

-------------------------------------------------------------------------------
(***************************************************************************)
(* The page that compares what was validated with the tickets.              *)
(***************************************************************************)
\* The entry of a side with a key, and the fund that a key is of.
Of(side, key) == IF \E x \in side : x.key = key THEN CHOOSE x \in side : x.key = key ELSE None
FundOf(key) == IF key[1] \in {"action", "fund"} THEN key[2] ELSE key[1]
Words == {"action", "fund"}

\* A side whose keys and suggestions are its entries' own, and of their funds.
Lined(side, words) ==
  /\ \A x \in side : x \in Entries /\ FundOf(x.key) = x.fund /\ x.key[1] \in words \cup Funds
  /\ \A x, y \in side : (x.key = y.key \/ x.id = y.id) => x = y

\* A side before anything is matched.
Plain(side) ==
  /\ \A x \in side : x \in Entries /\ x.id = x.key /\ x.key[1] = x.fund
  /\ \A x, y \in side : x.key = y.key => x = y

LEMMA PlainIsLined == ASSUME NEW side, Plain(side) PROVE Lined(side, {})
<1>1. ASSUME NEW x \in side PROVE x \in Entries /\ FundOf(x.key) = x.fund /\ x.key[1] \in Funds
  <2>1. x \in Entries /\ x.key[1] = x.fund
    BY DEF Plain
  <2>2. x.fund \in Funds
    BY <2>1 DEF Entries
  <2> QED
    BY <2>1, <2>2, KeysAssumption DEF FundOf
<1>2. \A x, y \in side : (x.key = y.key \/ x.id = y.id) => x = y
  BY DEF Plain
<1> QED
  BY <1>1, <1>2 DEF Lined

\* What an entry is after a pass.
NewKey(a, by) == IF by = "action" THEN <<by, a.fund, a.label>> ELSE <<by, a.fund>>
Pass(a, mine, theirs, by) ==
  IF Counterparts(a, mine, theirs, by) = {} THEN a ELSE [a EXCEPT !.key = NewKey(a, by)]

LEMMA MatchedPass == \A mine, theirs, by : Matched(mine, theirs, by) = {Pass(a, mine, theirs, by) : a \in mine}
  BY DEF Matched, Pass, NewKey

LEMMA NewKeyIs ==
  ASSUME NEW a \in Entries, NEW by \in Words
  PROVE  /\ NewKey(a, by) \in Seq(Marks) /\ NewKey(a, by)[1] = by /\ NewKey(a, by)[2] = a.fund
         /\ by = "action" => NewKey(a, by)[3] = a.label
<1>1. a.fund \in Funds /\ a.label \in Verbs
  BY DEF Entries
<1>2. by \in Marks /\ a.fund \in Marks /\ a.label \in Marks
  BY <1>1 DEF Marks, Words
<1>3. CASE by = "action"
  <2>1. <<by, a.fund, a.label>> \in Seq(Marks)
    BY <1>2
  <2> QED
    BY <1>3, <2>1 DEF NewKey
<1>4. CASE by # "action"
  <2>1. <<by, a.fund>> \in Seq(Marks)
    BY <1>2
  <2> QED
    BY <1>4, <2>1 DEF NewKey
<1> QED
  BY <1>3, <1>4

LEMMA PassIs ==
  ASSUME NEW a \in Entries, NEW mine, NEW theirs, NEW by \in Words
  PROVE  LET b == Pass(a, mine, theirs, by) IN
         /\ b \in Entries /\ b.fund = a.fund /\ b.label = a.label /\ b.id = a.id
         /\ Counterparts(a, mine, theirs, by) = {} => b = a
         /\ Counterparts(a, mine, theirs, by) # {} => b.key = NewKey(a, by)
<1>1. CASE Counterparts(a, mine, theirs, by) = {}
  BY <1>1 DEF Pass
<1>2. CASE Counterparts(a, mine, theirs, by) # {}
  <2>1. Pass(a, mine, theirs, by) = [a EXCEPT !.key = NewKey(a, by)]
    BY <1>2 DEF Pass
  <2>2. NewKey(a, by) \in Seq(Marks)
    BY NewKeyIs
  <2> QED
    BY <1>2, <2>1, <2>2 DEF Entries
<1> QED
  BY <1>1, <1>2

LEMMA MatchedLined ==
  ASSUME NEW mine, NEW theirs, NEW words \in SUBSET Words, NEW by \in Words, by \notin words, Lined(mine, words)
  PROVE  Lined(Matched(mine, theirs, by), words \cup {by})
<1> DEFINE P(a) == Pass(a, mine, theirs, by)
<1>1. ASSUME NEW a \in mine
      PROVE  /\ P(a) \in Entries /\ FundOf(P(a).key) = P(a).fund /\ P(a).key[1] \in words \cup {by} \cup Funds
             /\ P(a).fund = a.fund /\ P(a).label = a.label /\ P(a).id = a.id
             /\ Counterparts(a, mine, theirs, by) = {} => P(a) = a
             /\ Counterparts(a, mine, theirs, by) # {} => P(a).key = NewKey(a, by)
  <2>1. a \in Entries /\ FundOf(a.key) = a.fund /\ a.key[1] \in words \cup Funds
    BY DEF Lined
  <2>2. /\ P(a) \in Entries /\ P(a).fund = a.fund /\ P(a).label = a.label /\ P(a).id = a.id
        /\ Counterparts(a, mine, theirs, by) = {} => P(a) = a
        /\ Counterparts(a, mine, theirs, by) # {} => P(a).key = NewKey(a, by)
    BY <2>1, PassIs
  <2>3. NewKey(a, by)[1] = by /\ NewKey(a, by)[2] = a.fund
    BY <2>1, NewKeyIs
  <2>4. FundOf(NewKey(a, by)) = a.fund
    BY <2>3 DEF FundOf, Words
  <2> HIDE DEF P
  <2> QED
    BY <2>1, <2>2, <2>3, <2>4
<1>2. ASSUME NEW a \in mine, NEW b \in mine, P(a).key = P(b).key
      PROVE  a = b
  <2> USE <1>2
  <2>1. a \in Entries /\ b \in Entries /\ a.key[1] # by /\ b.key[1] # by
    BY KeysAssumption DEF Lined, Words
  <2>2. NewKey(a, by)[1] = by /\ NewKey(a, by)[2] = a.fund /\ (by = "action" => NewKey(a, by)[3] = a.label)
    BY <2>1, NewKeyIs
  <2>3. NewKey(b, by)[1] = by /\ NewKey(b, by)[2] = b.fund /\ (by = "action" => NewKey(b, by)[3] = b.label)
    BY <2>1, NewKeyIs
  <2>4. CASE Counterparts(a, mine, theirs, by) = {} /\ Counterparts(b, mine, theirs, by) = {}
    <3>1. P(a) = a /\ P(b) = b
      BY <1>1, <2>4
    <3> HIDE DEF P
    <3> QED
      BY <3>1 DEF Lined
  <2>5. CASE Counterparts(a, mine, theirs, by) # {} /\ Counterparts(b, mine, theirs, by) # {}
    <3>1. P(a).key = NewKey(a, by) /\ P(b).key = NewKey(b, by)
      BY <1>1, <2>5
    <3>2. a.fund = b.fund /\ (by = "action" => a.label = b.label)
      <4> HIDE DEF P
      <4> QED
        BY <2>2, <2>3, <3>1
    <3>3. Alike(by, b, a)
      BY <3>2 DEF Alike
    <3> QED
      BY <2>5, <3>3 DEF Counterparts
  <2>6. CASE (Counterparts(a, mine, theirs, by) = {}) # (Counterparts(b, mine, theirs, by) = {})
    <3>1. \/ P(a).key = a.key /\ P(b).key = NewKey(b, by)
          \/ P(b).key = b.key /\ P(a).key = NewKey(a, by)
      BY <1>1, <2>6
    <3> HIDE DEF P
    <3> QED
      BY <2>1, <2>2, <2>3, <3>1
  <2> QED
    BY <2>4, <2>5, <2>6
<1>3. ASSUME NEW a \in mine, NEW b \in mine, P(a).id = P(b).id
      PROVE  a = b
  <2>1. a.id = b.id
    BY <1>1, <1>3
  <2> QED
    BY <2>1 DEF Lined
<1>4. Matched(mine, theirs, by) = {P(a) : a \in mine}
  BY MatchedPass
<1> HIDE DEF P
<1>5. ASSUME NEW x \in Matched(mine, theirs, by)
      PROVE  x \in Entries /\ FundOf(x.key) = x.fund /\ x.key[1] \in words \cup {by} \cup Funds
  <2>1. PICK a \in mine : x = P(a)
    BY <1>4
  <2> QED
    BY <1>1, <2>1
<1>6. ASSUME NEW x \in Matched(mine, theirs, by), NEW y \in Matched(mine, theirs, by), x.key = y.key \/ x.id = y.id
      PROVE  x = y
  <2>1. PICK a \in mine : x = P(a)
    BY <1>4
  <2>2. PICK b \in mine : y = P(b)
    BY <1>4
  <2> QED
    BY <1>2, <1>3, <1>6, <2>1, <2>2
<1> QED
  BY <1>5, <1>6 DEF Lined

LEMMA AlignedLined ==
  ASSUME NEW mine, NEW theirs, Plain(mine), Plain(theirs)
  PROVE  Lined(AlignedSide(mine, theirs), Words)
<1> DEFINE one == Matched(mine, theirs, "action")
           other == Matched(theirs, mine, "action")
<1>1. Lined(mine, {}) /\ "action" \in Words /\ "action" \notin {} /\ {} \in SUBSET Words
  BY PlainIsLined DEF Words
<1>2. Lined(one, {} \cup {"action"})
  BY <1>1, MatchedLined
<1>3. "fund" \in Words /\ "fund" \notin {} \cup {"action"} /\ {} \cup {"action"} \in SUBSET Words
  BY DEF Words
<1> HIDE DEF one, other
<1>4. Lined(Matched(one, other, "fund"), ({} \cup {"action"}) \cup {"fund"})
  BY <1>2, <1>3, MatchedLined
<1>5. ({} \cup {"action"}) \cup {"fund"} = Words
  BY DEF Words
<1> QED
  BY <1>4, <1>5 DEF AlignedSide, one, other

\* Every entry is still there after the two passes, and none is new.
LEMMA AlignedKeeps ==
  ASSUME NEW mine, NEW theirs, Plain(mine)
  PROVE  /\ \A a \in mine : \E x \in AlignedSide(mine, theirs) : x.id = a.id /\ x.fund = a.fund /\ x.label = a.label
         /\ \A x \in AlignedSide(mine, theirs) : \E a \in mine : x.id = a.id /\ x.fund = a.fund /\ x.label = a.label
<1> DEFINE one == Matched(mine, theirs, "action")
           other == Matched(theirs, mine, "action")
           P(a) == Pass(a, mine, theirs, "action")
           Q(a) == Pass(a, one, other, "fund")
<1>1. one = {P(a) : a \in mine} /\ AlignedSide(mine, theirs) = {Q(b) : b \in one}
  BY MatchedPass DEF AlignedSide
<1>2. ASSUME NEW a \in mine
      PROVE  /\ P(a) \in one /\ Q(P(a)) \in AlignedSide(mine, theirs)
             /\ Q(P(a)).id = a.id /\ Q(P(a)).fund = a.fund /\ Q(P(a)).label = a.label
  <2>1. a \in Entries /\ "action" \in Words /\ "fund" \in Words
    BY DEF Plain, Words
  <2>2. P(a) \in Entries /\ P(a).id = a.id /\ P(a).fund = a.fund /\ P(a).label = a.label
    BY <2>1, PassIs
  <2>3. Q(P(a)).id = P(a).id /\ Q(P(a)).fund = P(a).fund /\ Q(P(a)).label = P(a).label
    <3> HIDE DEF P, one, other
    <3> QED
      BY <2>1, <2>2, PassIs
  <2> HIDE DEF P, Q
  <2> QED
    BY <1>1, <2>2, <2>3
<1> HIDE DEF P, Q
<1>3. ASSUME NEW x \in AlignedSide(mine, theirs)
      PROVE  \E a \in mine : x.id = a.id /\ x.fund = a.fund /\ x.label = a.label
  <2>1. PICK b \in one : x = Q(b)
    BY <1>1
  <2>2. PICK a \in mine : b = P(a)
    BY <1>1
  <2> QED
    BY <1>2, <2>1, <2>2
<1> QED
  BY <1>2, <1>3

\* Side by side, each key is a row of its entry on either side.
LEMMA RowsAre ==
  ASSUME NEW mine, NEW theirs
  PROVE  LET os == AlignedSide(mine, theirs)
             ts == AlignedSide(theirs, mine)
         IN Rows(mine, theirs) = {[legacy |-> Of(os, key), shadow |-> Of(ts, key)] : key \in {x.key : x \in os \cup ts}}
  BY DEF Rows, Of

LEMMA OfKey ==
  ASSUME NEW side, NEW words, Lined(side, words)
  PROVE  /\ \A x \in side : Of(side, x.key) = x
         /\ \A key : Of(side, key) # None => Of(side, key) \in side /\ Of(side, key).key = key
         /\ None \notin side
<1>1. \A x, y \in side : x.key = y.key => x = y
  BY DEF Lined
<1>2. None \notin side
  BY KeysAssumption DEF Lined
<1> QED
  BY <1>1, <1>2 DEF Of

\* A row shows an entry of a side exactly once.
LEMMA ShownOnce ==
  ASSUME NEW mine, NEW theirs, Plain(mine), Plain(theirs)
  PROVE  /\ \A a \in mine : Cardinality({r \in Rows(mine, theirs) : Is(r.legacy, a)}) = 1
         /\ \A a \in theirs : Cardinality({r \in Rows(mine, theirs) : Is(r.shadow, a)}) = 1
<1> DEFINE os == AlignedSide(mine, theirs)
           ts == AlignedSide(theirs, mine)
           Row2(key) == [legacy |-> Of(os, key), shadow |-> Of(ts, key)]
<1>1. Lined(os, Words) /\ Lined(ts, Words)
  BY AlignedLined
<1>2. /\ \A a \in mine : \E x \in os : x.id = a.id
      /\ \A a \in theirs : \E x \in ts : x.id = a.id
  BY AlignedKeeps
<1>3. Rows(mine, theirs) = {Row2(key) : key \in {x.key : x \in os \cup ts}}
  BY RowsAre
<1> HIDE DEF os, ts
<1>4. /\ \A x \in os : Of(os, x.key) = x
      /\ \A key : Of(os, key) # None => Of(os, key) \in os /\ Of(os, key).key = key
      /\ None \notin os
  BY <1>1, OfKey
<1>5. /\ \A x \in ts : Of(ts, x.key) = x
      /\ \A key : Of(ts, key) # None => Of(ts, key) \in ts /\ Of(ts, key).key = key
      /\ None \notin ts
  BY <1>1, OfKey
<1>6. ASSUME NEW a \in mine PROVE Cardinality({r \in Rows(mine, theirs) : Is(r.legacy, a)}) = 1
  <2>1. PICK x \in os : x.id = a.id
    BY <1>2
  <2>2. Row2(x.key) \in Rows(mine, theirs) /\ Is(Row2(x.key).legacy, a)
    BY <1>3, <1>4, <2>1 DEF Is
  <2>3. ASSUME NEW r \in Rows(mine, theirs), Is(r.legacy, a) PROVE r = Row2(x.key)
    <3>1. PICK key : r = Row2(key)
      BY <1>3
    <3>2. Of(os, key) # None /\ Of(os, key).id = x.id
      BY <2>1, <2>3, <3>1 DEF Is
    <3>3. Of(os, key) = x /\ x.key = key
      BY <1>1, <1>4, <3>2 DEF Lined
    <3> QED
      BY <3>1, <3>3
  <2>4. {r \in Rows(mine, theirs) : Is(r.legacy, a)} = {Row2(x.key)}
    BY <2>2, <2>3
  <2> QED
    BY <2>4, FS_Singleton
<1>7. ASSUME NEW a \in theirs PROVE Cardinality({r \in Rows(mine, theirs) : Is(r.shadow, a)}) = 1
  <2>1. PICK x \in ts : x.id = a.id
    BY <1>2
  <2>2. Row2(x.key) \in Rows(mine, theirs) /\ Is(Row2(x.key).shadow, a)
    BY <1>3, <1>5, <2>1 DEF Is
  <2>3. ASSUME NEW r \in Rows(mine, theirs), Is(r.shadow, a) PROVE r = Row2(x.key)
    <3>1. PICK key : r = Row2(key)
      BY <1>3
    <3>2. Of(ts, key) # None /\ Of(ts, key).id = x.id
      BY <2>1, <2>3, <3>1 DEF Is
    <3>3. Of(ts, key) = x /\ x.key = key
      BY <1>1, <1>5, <3>2 DEF Lined
    <3> QED
      BY <3>1, <3>3
  <2>4. {r \in Rows(mine, theirs) : Is(r.shadow, a)} = {Row2(x.key)}
    BY <2>2, <2>3
  <2> QED
    BY <2>4, FS_Singleton
<1> QED
  BY <1>6, <1>7

\* What a row compares is of one fund, and was an entry of each side.
LEMMA RowsOfOneFund ==
  ASSUME NEW mine, NEW theirs, Plain(mine), Plain(theirs), NEW r \in Rows(mine, theirs)
  PROVE  /\ r.legacy # None => \E a \in mine : r.legacy.id = a.id /\ r.legacy.fund = a.fund /\ r.legacy.label = a.label
         /\ r.shadow # None => \E a \in theirs : r.shadow.id = a.id /\ r.shadow.fund = a.fund /\ r.shadow.label = a.label
         /\ r.legacy # None /\ r.shadow # None => r.legacy.fund = r.shadow.fund
<1> DEFINE os == AlignedSide(mine, theirs)
           ts == AlignedSide(theirs, mine)
<1>1. Lined(os, Words) /\ Lined(ts, Words)
  BY AlignedLined
<1>2. /\ \A x \in os : \E a \in mine : x.id = a.id /\ x.fund = a.fund /\ x.label = a.label
      /\ \A x \in ts : \E a \in theirs : x.id = a.id /\ x.fund = a.fund /\ x.label = a.label
  BY AlignedKeeps
<1>3. PICK key : r = [legacy |-> Of(os, key), shadow |-> Of(ts, key)]
  BY RowsAre
<1> HIDE DEF os, ts
<1>4. /\ Of(os, key) # None => Of(os, key) \in os /\ Of(os, key).key = key
      /\ Of(ts, key) # None => Of(ts, key) \in ts /\ Of(ts, key).key = key
  BY <1>1, OfKey
<1>5. r.legacy = Of(os, key) /\ r.shadow = Of(ts, key)
  BY <1>3
<1>6. /\ Of(os, key) # None => FundOf(key) = Of(os, key).fund
      /\ Of(ts, key) # None => FundOf(key) = Of(ts, key).fund
  BY <1>1, <1>4 DEF Lined
<1> QED
  BY <1>2, <1>4, <1>5, <1>6

\* A row shows something, and no two rows show the same.
LEMMA RowShowsSome ==
  ASSUME NEW mine, NEW theirs, Plain(mine), Plain(theirs), NEW r \in Rows(mine, theirs)
  PROVE  r.legacy # None \/ r.shadow # None
<1> DEFINE os == AlignedSide(mine, theirs)
           ts == AlignedSide(theirs, mine)
<1>1. Lined(os, Words) /\ Lined(ts, Words)
  BY AlignedLined
<1>2. PICK key \in {x.key : x \in os \cup ts} : r = [legacy |-> Of(os, key), shadow |-> Of(ts, key)]
  BY RowsAre
<1> HIDE DEF os, ts
<1>3. PICK x \in os \cup ts : key = x.key
  BY <1>2
<1>4. /\ x \in os => Of(os, key) = x /\ x # None
      /\ x \in ts => Of(ts, key) = x /\ x # None
  BY <1>1, <1>3, OfKey
<1> QED
  BY <1>2, <1>3, <1>4

LEMMA RowIsOnly ==
  ASSUME NEW mine, NEW theirs, Plain(mine), Plain(theirs), NEW r \in Rows(mine, theirs), NEW s \in Rows(mine, theirs)
  PROVE  /\ r.legacy # None /\ s.legacy # None /\ r.legacy.id = s.legacy.id => r = s
         /\ r.shadow # None /\ s.shadow # None /\ r.shadow.id = s.shadow.id => r = s
<1> DEFINE os == AlignedSide(mine, theirs)
           ts == AlignedSide(theirs, mine)
<1>1. Lined(os, Words) /\ Lined(ts, Words)
  BY AlignedLined
<1>2. PICK key : r = [legacy |-> Of(os, key), shadow |-> Of(ts, key)]
  BY RowsAre
<1>3. PICK word : s = [legacy |-> Of(os, word), shadow |-> Of(ts, word)]
  BY RowsAre
<1> HIDE DEF os, ts
<1>4. \A k : /\ Of(os, k) # None => Of(os, k) \in os /\ Of(os, k).key = k
             /\ Of(ts, k) # None => Of(ts, k) \in ts /\ Of(ts, k).key = k
  BY <1>1, OfKey
<1>5. /\ r.legacy = Of(os, key) /\ r.shadow = Of(ts, key)
      /\ s.legacy = Of(os, word) /\ s.shadow = Of(ts, word)
  BY <1>2, <1>3
<1>6. r.legacy # None /\ s.legacy # None /\ r.legacy.id = s.legacy.id => key = word
  BY <1>1, <1>4, <1>5 DEF Lined
<1>7. r.shadow # None /\ s.shadow # None /\ r.shadow.id = s.shadow.id => key = word
  BY <1>1, <1>4, <1>5 DEF Lined
<1> QED
  BY <1>2, <1>3, <1>6, <1>7

\* The only entries of a fund are matched by their fund, unless they already are.
LEMMA OnlyOnesMeet ==
  ASSUME NEW mine, NEW theirs, NEW a \in mine, NEW b \in theirs, a \in Entries, b \in Entries, a.fund = b.fund,
         \A x \in mine : x.fund = a.fund => x = a, \A x \in theirs : x.fund = a.fund => x = b
  PROVE  Pass(a, mine, theirs, "fund").key = Pass(b, theirs, mine, "fund").key
<1>1. "fund" \in Words
  BY DEF Words
<1>2. NewKey(a, "fund") = NewKey(b, "fund")
  BY DEF NewKey
<1>3. CASE a.key = b.key
  <2>1. Counterparts(a, mine, theirs, "fund") = {} /\ Counterparts(b, theirs, mine, "fund") = {}
    BY <1>3 DEF Counterparts, Alike
  <2> QED
    BY <1>3, <2>1 DEF Pass
<1>4. CASE a.key # b.key
  <2>1. b \in Counterparts(a, mine, theirs, "fund") /\ a \in Counterparts(b, theirs, mine, "fund")
    BY <1>4 DEF Counterparts, Alike
  <2>2. Counterparts(a, mine, theirs, "fund") # {} /\ Counterparts(b, theirs, mine, "fund") # {}
    BY <2>1
  <2> QED
    BY <1>1, <1>2, <2>2, PassIs
<1> QED
  BY <1>3, <1>4

LEMMA OnlyOnesShare ==
  ASSUME NEW mine, NEW theirs, Plain(mine), Plain(theirs), NEW a \in mine, NEW b \in theirs, a.fund = b.fund,
         \A x \in mine : x.fund = a.fund => x = a, \A x \in theirs : x.fund = a.fund => x = b
  PROVE  \E r \in Rows(mine, theirs) : Is(r.legacy, a) /\ Is(r.shadow, b)
<1> DEFINE os == AlignedSide(mine, theirs)
           ts == AlignedSide(theirs, mine)
           one == Matched(mine, theirs, "action")
           other == Matched(theirs, mine, "action")
           P(x) == Pass(x, mine, theirs, "action")
           Q(x) == Pass(x, theirs, mine, "action")
           p == Pass(P(a), one, other, "fund")
           q == Pass(Q(b), other, one, "fund")
<1>1. "action" \in Words /\ "fund" \in Words
  BY DEF Words
<1>2. /\ \A x \in mine : x \in Entries /\ P(x) \in Entries /\ P(x).fund = x.fund /\ P(x).id = x.id
      /\ \A x \in theirs : x \in Entries /\ Q(x) \in Entries /\ Q(x).fund = x.fund /\ Q(x).id = x.id
  <2>1. (\A x \in mine : x \in Entries) /\ (\A x \in theirs : x \in Entries)
    BY DEF Plain
  <2> QED
    BY <1>1, <2>1, PassIs
<1>3. one = {P(x) : x \in mine} /\ other = {Q(x) : x \in theirs}
  BY MatchedPass
<1>4. os = {Pass(x, one, other, "fund") : x \in one} /\ ts = {Pass(x, other, one, "fund") : x \in other}
  BY MatchedPass DEF AlignedSide
<1>5. p \in os /\ q \in ts
  <2> HIDE DEF P, Q
  <2> QED
    BY <1>3, <1>4
<1> HIDE DEF os, ts, P, Q
<1>6. P(a) \in one /\ Q(b) \in other
  BY <1>3
<1>7. (\A x \in one : x.fund = P(a).fund => x = P(a)) /\ (\A x \in other : x.fund = P(a).fund => x = Q(b))
  BY <1>2, <1>3
<1>8. P(a).fund = Q(b).fund /\ P(a) \in Entries /\ Q(b) \in Entries
  BY <1>2
<1> HIDE DEF one, other
<1>9. p.key = q.key
  BY <1>6, <1>7, <1>8, OnlyOnesMeet
<1>10. p.id = a.id /\ q.id = b.id
  BY <1>1, <1>2, <1>8, PassIs
<1> HIDE DEF p, q
<1>11. Lined(os, Words) /\ Lined(ts, Words)
  BY AlignedLined DEF os, ts
<1>12. Of(os, p.key) = p /\ Of(ts, q.key) = q /\ p # None /\ q # None
  BY <1>5, <1>11, OfKey
<1>13. [legacy |-> Of(os, p.key), shadow |-> Of(ts, p.key)] \in Rows(mine, theirs)
  BY <1>5, RowsAre DEF os, ts
<1> QED
  BY <1>9, <1>10, <1>12, <1>13 DEF Is

\* However many entries a side has, if its keys are its entries' own: a page
\* shows each once, never beside another fund's, and the only one of a fund
\* beside the only one of the other side.
THEOREM AnySidesMatch ==
  ASSUME NEW os, NEW ts, Plain(os), Plain(ts)
  PROVE  /\ \A o \in os : Cardinality({r \in Rows(os, ts) : Is(r.legacy, o)}) = 1
         /\ \A t \in ts : Cardinality({r \in Rows(os, ts) : Is(r.shadow, t)}) = 1
         /\ \A r \in Rows(os, ts) : r.legacy # None /\ r.shadow # None => r.legacy.fund = r.shadow.fund
         /\ \A o \in os, t \in ts :
              {x \in os : x.fund = o.fund} = {o} /\ {x \in ts : x.fund = o.fund} = {t}
                => \E r \in Rows(os, ts) : Is(r.legacy, o) /\ Is(r.shadow, t)
<1>1. ASSUME NEW o \in os, NEW t \in ts, {x \in os : x.fund = o.fund} = {o}, {x \in ts : x.fund = o.fund} = {t}
      PROVE  \E r \in Rows(os, ts) : Is(r.legacy, o) /\ Is(r.shadow, t)
  <2>1. o.fund = t.fund /\ (\A x \in os : x.fund = o.fund => x = o) /\ (\A x \in ts : x.fund = o.fund => x = t)
    BY <1>1
  <2> QED
    BY <2>1, OnlyOnesShare
<1> QED
  BY <1>1, ShownOnce, RowsOfOneFund

LEMMA SidesArePlain == \A side \in Sides : Plain(side)
<1> SUFFICES ASSUME NEW side \in Sides
             PROVE  Plain(side)
  OBVIOUS
<1>1. side \subseteq Kinds /\ \A x, y \in side : x.key = y.key => x = y
  BY DEF Sides
<1>2. ASSUME NEW x \in side
      PROVE  x \in Entries /\ x.id = x.key /\ x.key[1] = x.fund
  <2>1. PICK f \in Funds, label \in {"add", "hold"}, n \in 1 .. 3 : x = Entry(f, label, <<f, n>>)
    BY <1>1 DEF Kinds
  <2>2. f \in Marks /\ n \in Marks /\ label \in Verbs
    BY DEF Marks, Verbs
  <2>3. <<f, n>> \in Seq(Marks) /\ <<f, n>>[1] = f
    BY <2>2
  <2> QED
    BY <2>1, <2>2, <2>3 DEF Entry, Entries
<1> QED
  BY <1>1, <1>2 DEF Plain

LEMMA SidesMatch == AlignmentIsMatching
  BY SidesArePlain, AnySidesMatch DEF AlignmentIsMatching

-------------------------------------------------------------------------------
(***************************************************************************)
(* Steps and whose tickets were validated.                                  *)
(***************************************************************************)
LEMMA TracedInit == ChainInit => Traced
  BY DEF ChainInit, Traced, Chaining, ChainKinds, Idle

\* A step that writes neither tickets nor what was validated.
LEMMA TracedKept ==
  ASSUME Traced, NEW p \in Procs, UNCHANGED <<now, tickets, validated>>, \A q \in Procs \ {p} : proc'[q] = proc[q],
         \/ ~ Chaining(p)'
         \/ /\ Chaining(p) /\ proc'[p].at = proc[p].at /\ proc'[p].step # "tickets"
            /\ proc[p].step \in Late => proc'[p].step \in Late
            /\ Based(proc[p])'
  PROVE  Traced'
<1>1. \A q \in Procs : Chaining(q)' =>
        /\ Chaining(q) /\ proc'[q].at = proc[q].at /\ (proc'[q].step # "tickets" \/ proc'[q].step = proc[q].step)
        /\ proc[q].step \in Late => proc'[q].step \in Late
  BY DEF Chaining
<1>2. \A q \in Procs : Chaining(q)' => Based(proc[q])'
  <2> TAKE q \in Procs
  <2>1. CASE q = p
    BY <2>1
  <2>2. CASE q # p
    BY <2>2 DEF Chaining, Based, Traced
  <2> QED
    BY <2>1, <2>2
<1> QED
  BY <1>1, <1>2 DEF Traced

\* What the scripts read and others write, and starts.
LEMMA TracedGiven ==
  ASSUME Shapes, Traced, UNCHANGED <<proc, tickets, validated>>, now' \in {now, now + 1}
  PROVE  Traced'
<1>1. now \in Nat
  BY DEF Shapes, Given
<1>2. \A at \in 1 .. now : at \in 1 .. now'
  BY <1>1
<1> QED
  BY <1>2 DEF Traced, Chaining, Based

LEMMA TracedStart ==
  ASSUME Shapes, Traced, NEW p \in Procs, NEW kind \in ChainKinds, NEW d \in Dates, Start(p, kind, d)
  PROVE  Traced'
<1>1. proc'[p].at = now + 1 /\ now' = now + 1 /\ proc'[p].step # "validate" /\ \A q \in Procs \ {p} : proc'[q] = proc[q]
  BY StartStep
<1>2. UNCHANGED <<tickets, validated>> /\ now \in Nat
  BY DEF Start, shadow, official, Shapes, Given
<1>3. \A at \in 1 .. now : at \in 1 .. now' /\ at # now + 1
  BY <1>1, <1>2
<1>4. \A q \in Procs : Chaining(q)' =>
        q = p \/ (Chaining(q) /\ proc'[q] = proc[q])
  BY <1>1 DEF Chaining
<1>5. \A e \in Dates : (tickets[e] # None => tickets[e].at # now + 1) /\ (validated[e] # None => validated[e].at # now + 1)
  BY <1>3 DEF Traced
<1>6. \A q \in Procs : Chaining(q)' => Based(proc[q])'
  BY <1>1, <1>2, <1>4 DEF Traced, Based
<1> QED
  BY <1>1, <1>2, <1>3, <1>4, <1>5, <1>6 DEF Traced

\* Tickets of a chain are as new as it is, tickets of an advice follow it.
LEMMA TracedTickets ==
  ASSUME Safe, Traced, NEW p \in Procs, BuildTickets(p)
  PROVE  Traced'
<1> DEFINE d == proc[p].date
           here == PortfolioOf(d, proc[p].kind # "tickets") # None /\ (proc[p].kind = "tickets" => validated[d] # None)
<1>1. ChainOK(proc[p]) /\ Running(proc[p]) /\ d \in Dates /\ AllProcs /\ proc[p].step = "tickets" /\ Chaining(p)
  BY ChainAt DEF BuildTickets, Safe, Shapes, ChainOK, Chaining
<1>2. UNCHANGED <<now, validated>>
  BY DEF BuildTickets, given, official
<1>3. /\ \A q \in Procs \ {p} : proc'[q] = proc[q]
      /\ Chaining(p)' => /\ proc'[p].at = proc[p].at /\ proc'[p].step = "packs"
                         /\ proc[p].kind # "tickets"
  <2>1. Stop(p) \/ (proc[p].kind # "tickets" /\ Go(p, "packs", None))
    BY BuildTicketsStep DEF Safe
  <2>2. CASE Stop(p)
    BY <1>1, <2>2, StopEffect DEF Chaining, ChainKinds, Idle
  <2>3. CASE proc[p].kind # "tickets" /\ Go(p, "packs", None)
    BY <1>1, <2>3, GoEffect
  <2> QED
    BY <2>1, <2>2, <2>3
<1>4. CASE ~ here
  <2>1. tickets' = tickets
    BY <1>4 DEF BuildTickets
  <2>2. Chaining(p)' => Based(proc[p])' /\ proc[p].step \notin Late /\ proc'[p].step # "tickets"
    BY <1>1, <1>3 DEF Based, Late
  <2> QED
    BY <1>1, <1>2, <1>3, <2>1, <2>2, TracedKept
<1>5. CASE here
  <2>1. PICK t : t = TicketsOf(p, d)
    OBVIOUS
  <2>2. tickets'[d] = t /\ \A e \in Dates \ {d} : tickets'[e] = tickets[e]
    <3>1. tickets = [e \in Dates |-> tickets[e]] /\ tickets' = [tickets EXCEPT ![d] = t]
      BY <1>5, <2>1 DEF BuildTickets, Safe, Shapes, Files
    <3> QED
      BY <1>1, <3>1, Put
  <2>3. proc[p].at \in 1 .. now
    BY <1>1 DEF ChainOK
  <2>4. /\ t.at \in 1 .. now /\ (t.source = "native" => Fresh(t.tickets))
        /\ \A q \in Procs \ {p} : Chaining(q) /\ t.at = proc[q].at => proc[q].step \in Late
        /\ proc[p].kind # "tickets" => t.source = "native"
        /\ validated[d] # None /\ t.at = validated[d].at => Follows(validated[d].acts, t.tickets)
    <3>1. CASE proc[p].kind = "tickets"
      <4>1. t = [source |-> "validated", at |-> validated[d].at, asof |-> PortfolioOf(d, FALSE).asof,
                 tickets |-> ValidatedTickets(validated[d].acts, validated[d].mock)]
        BY <2>1, <3>1 DEF TicketsOf
      <4>2. validated[d] # None
        BY <1>5, <3>1
      <4>3. Follows(validated[d].acts, t.tickets)
        BY <4>1 DEF Follows, ValidatedTickets, Ticket
      <4> QED
        BY <1>1, <3>1, <4>1, <4>2, <4>3 DEF Traced
    <3>2. CASE proc[p].kind # "tickets"
      <4>1. t = [source |-> "native", at |-> proc[p].at, asof |-> PortfolioOf(d, TRUE).asof,
                 tickets |-> NativeTickets(PortfolioOf(d, TRUE).values, context[d].scores)]
        BY <2>1, <3>2 DEF TicketsOf
      <4>2. Fresh(t.tickets)
        BY <4>1 DEF Fresh, NativeTickets, Ticket, SeedVerb, Scored
      <4>3. \A q \in Procs \ {p} : Chaining(q) => proc[q].at # proc[p].at
        BY <1>1 DEF Safe, Debated
      <4>4. validated[d] # None => validated[d].at # proc[p].at
        BY <1>1 DEF Traced, Late
      <4> QED
        BY <2>3, <4>1, <4>2, <4>3, <4>4
    <3> QED
      BY <3>1, <3>2
  <2>5. \A q \in Procs : Chaining(q)' => Chaining(q) /\ proc'[q].at = proc[q].at /\ (q # p => proc'[q] = proc[q])
    BY <1>1, <1>3 DEF Chaining
  <2>6. ASSUME NEW q \in Procs, Chaining(q)' PROVE Based(proc[q])'
    <3>1. CASE q = p
      BY <1>3, <2>6, <3>1 DEF Based
    <3>2. CASE q # p
      <4>1. Based(proc[q]) /\ proc'[q] = proc[q] /\ Chaining(q)
        BY <2>5, <2>6, <3>2 DEF Traced
      <4>2. proc[q].step = "validate" => proc[q].date \in Dates /\ t.at # proc[q].at
        <5>1. Chaining(q) => proc[q].date \in Dates
          BY DatesType DEF Safe, Shapes, Given, AllProcs, ProcOK, Idle, ChainOK, UpdateOK, Chaining, ChainKinds
        <5> QED
          BY <2>4, <3>2, <4>1, <5>1 DEF Late
      <4> QED
        BY <2>2, <4>1, <4>2 DEF Based
    <3> QED
      BY <3>1, <3>2
  <2>7. ASSUME NEW q \in Procs, NEW e \in Dates, Chaining(q)', tickets'[e] # None, tickets'[e].at = proc'[q].at
        PROVE  proc'[q].step # "tickets" /\ (proc'[q].step \in Late \/ tickets'[e].source = "native")
    <3>1. CASE q = p
      <4>1. proc'[q].step = "packs" /\ proc[p].kind # "tickets"
        BY <1>3, <2>7, <3>1
      <4>2. CASE e = d
        BY <2>2, <2>4, <4>1, <4>2
      <4>3. CASE e # d
        BY <1>1, <1>3, <2>2, <2>7, <3>1, <4>3 DEF Traced
      <4> QED
        BY <4>1, <4>2, <4>3
    <3>2. CASE q # p
      <4>1. Chaining(q) /\ proc'[q] = proc[q]
        BY <2>5, <2>7, <3>2
      <4>2. CASE e = d
        BY <2>2, <2>4, <2>7, <3>2, <4>1, <4>2 DEF Late
      <4>3. CASE e # d
        BY <2>2, <2>7, <4>1, <4>3 DEF Traced
      <4> QED
        BY <4>2, <4>3
    <3> QED
      BY <3>1, <3>2
  <2>8. \A q \in Procs, e \in Dates : Chaining(q)' /\ validated'[e] # None /\ validated'[e].at = proc'[q].at => proc'[q].step \in Late
    BY <1>1, <1>2, <1>3, <2>5 DEF Traced, Late
  <2>9. \A e \in Dates : tickets'[e] # None => tickets'[e].at \in 1 .. now' /\ (tickets'[e].source = "native" => Fresh(tickets'[e].tickets))
    BY <1>2, <2>2, <2>4 DEF Traced
  <2>10. \A e \in Dates : tickets'[e] # None /\ validated'[e] # None /\ tickets'[e].at = validated'[e].at =>
           Follows(validated'[e].acts, tickets'[e].tickets)
    BY <1>2, <2>2, <2>4 DEF Traced
  <2> QED
    BY <1>2, <2>6, <2>7, <2>8, <2>9, <2>10 DEF Traced
<1> QED
  BY <1>4, <1>5

\* What is validated at a chain's time is of the tickets of that time.
LEMMA SizedFollows ==
  ASSUME NEW rows, Fresh(rows), NEW ok, NEW mock \in BOOLEAN, NEW values,
         NEW acts \in ValidatedActs(Preview(rows, ok, mock), values, mock)
  PROVE  Follows(acts, rows)
<1> SUFFICES ASSUME NEW f \in Funds
             PROVE  acts[f].verb = rows[f].verb \/ (acts[f].verb = "hold" /\ ~ rows[f].block)
  BY DEF Follows
<1> DEFINE row == Preview(rows, ok, mock)[f]
<1>1. acts[f] \in Validations(f, row, values[f], mock)
  BY DEF ValidatedActs
<1>2. row.verb = rows[f].verb
  BY DEF Preview, CommitteeDecision
<1>3. ~ rows[f].block /\ (Role[f] = "core_dca" => rows[f].verb = "scheduled_dca")
  BY DEF Fresh
<1>4. \A gate : Held(row, gate).verb = "hold"
  BY DEF Held
<1> HIDE DEF row
<1>5. CASE Role[f] = "core_dca" /\ ~ mock
  <2>1. acts[f].verb = "scheduled_dca"
    BY <1>1, <1>5 DEF Validations
  <2> QED
    BY <1>3, <1>5, <2>1
<1>6. CASE ~ (Role[f] = "core_dca" /\ ~ mock) /\ Role[f] = "tactical" /\ ~ mock /\ ~ row.veto /\ row.eligible
  <2>1. PICK one : one = [verb |-> row.verb, amount |-> Bounded(row, values[f]), model |-> row.verb,
                         asked |-> row.amount, gate |-> FALSE, veto |-> FALSE]
    OBVIOUS
  <2>2. acts[f] = Held(row, FALSE) \/ acts[f] = one
    BY <1>1, <1>6, <2>1 DEF Validations
  <2>3. one.verb = row.verb
    BY <2>1
  <2> QED
    BY <1>2, <1>3, <1>4, <2>2, <2>3
<1>7. CASE ~ (Role[f] = "core_dca" /\ ~ mock) /\ ~ (Role[f] = "tactical" /\ ~ mock /\ ~ row.veto /\ row.eligible)
  <2>1. acts[f].verb = "hold"
    BY <1>1, <1>4, <1>7 DEF Validations
  <2> QED
    BY <1>3, <2>1
<1> QED
  BY <1>5, <1>6, <1>7

LEMMA TracedValidate ==
  ASSUME Safe, Traced, NEW p \in Procs, Validate(p)
  PROVE  Traced'
<1> DEFINE d == proc[p].date
           made == proc[p].got
<1>1. ChainOK(proc[p]) /\ Running(proc[p]) /\ d \in Dates /\ AllProcs /\ proc[p].step = "validate" /\ Chaining(p)
  BY ChainAt DEF Validate, Safe, Shapes, ChainOK, Chaining
<1>2. UNCHANGED <<now, tickets>> /\ Go(p, "daily", None)
  BY DEF Validate, given, shadow
<1>3. /\ \A q \in Procs \ {p} : proc'[q] = proc[q]
      /\ proc'[p].kind = proc[p].kind /\ proc'[p].at = proc[p].at /\ proc'[p].step = "daily"
  BY <1>1, <1>2, GoEffect
<1>4. PICK acts \in ValidatedActs(made.decisions, portfolio.values, made.mock) :
        validated' = [validated EXCEPT ![d] = [at |-> made.at, mock |-> made.mock, acts |-> acts]]
  BY DEF Validate
<1>5. PICK v : v = [at |-> made.at, mock |-> made.mock, acts |-> acts]
  OBVIOUS
<1>6. validated'[d] = v /\ \A e \in Dates \ {d} : validated'[e] = validated[e]
  <2>1. validated = [e \in Dates |-> validated[e]] /\ validated' = [validated EXCEPT ![d] = v]
    BY <1>4, <1>5 DEF Safe, Shapes, Files
  <2> QED
    BY <1>1, <2>1, Put
<1>7. AdviceOK(made) /\ Based(proc[p]) /\ proc[p].at \in 1 .. now
  BY <1>1 DEF ChainOK, Traced
<1>8. made.at = proc[p].at /\ (tickets[d] # None /\ tickets[d].at = proc[p].at => made.ticket = tickets[d])
  BY <1>1, <1>7 DEF Based
<1>9. v.at = proc[p].at /\ v.acts = acts
  BY <1>5, <1>8
<1>10. tickets[d] # None /\ tickets[d].at = v.at => Follows(v.acts, tickets[d].tickets)
  <2> SUFFICES ASSUME tickets[d] # None, tickets[d].at = v.at
               PROVE  Follows(v.acts, tickets[d].tickets)
    OBVIOUS
  <2>1. Fresh(tickets[d].tickets) /\ made.ticket = tickets[d]
    BY <1>1, <1>8, <1>9 DEF Traced, Late
  <2>2. made.decisions = Preview(tickets[d].tickets, made.debate.ok, made.mock) /\ made.mock \in BOOLEAN
    BY <1>7, <2>1 DEF AdviceOK
  <2> HIDE DEF made
  <2> QED
    BY <1>4, <1>9, <2>1, <2>2, SizedFollows
<1>11. \A q \in Procs : Chaining(q)' => Chaining(q) /\ proc'[q].at = proc[q].at /\ (q # p => proc'[q] = proc[q])
  BY <1>1, <1>3 DEF Chaining
<1>12. ASSUME NEW q \in Procs, NEW e \in Dates, Chaining(q)', validated'[e] # None, validated'[e].at = proc'[q].at
       PROVE  proc'[q].step \in Late
  <2>1. CASE q = p
    BY <1>3, <2>1 DEF Late
  <2>2. CASE q # p /\ e = d
    BY <1>1, <1>6, <1>9, <1>11, <1>12, <2>2 DEF Safe, Debated
  <2>3. CASE q # p /\ e # d
    BY <1>6, <1>11, <1>12, <2>3 DEF Traced
  <2> QED
    BY <2>1, <2>2, <2>3
<1>13. \A q \in Procs, e \in Dates : Chaining(q)' /\ tickets'[e] # None /\ tickets'[e].at = proc'[q].at =>
         proc'[q].step # "tickets" /\ (proc'[q].step \in Late \/ tickets'[e].source = "native")
  BY <1>2, <1>3, <1>11 DEF Traced, Late
<1>14. \A q \in Procs : Chaining(q)' => Based(proc[q])'
  BY <1>2, <1>3, <1>11 DEF Traced, Based
<1>15. \A e \in Dates : validated'[e] # None => validated'[e].at \in 1 .. now'
  BY <1>2, <1>6, <1>7, <1>9 DEF Traced
<1>16. \A e \in Dates : tickets'[e] # None /\ validated'[e] # None /\ tickets'[e].at = validated'[e].at =>
         Follows(validated'[e].acts, tickets'[e].tickets)
  BY <1>2, <1>6, <1>10 DEF Traced
<1>17. \A e \in Dates : tickets'[e] # None => tickets'[e].at \in 1 .. now' /\ (tickets'[e].source = "native" => Fresh(tickets'[e].tickets))
  BY <1>2 DEF Traced
<1> QED
  BY <1>12, <1>13, <1>14, <1>15, <1>16, <1>17 DEF Traced

\* A chain's step between its tickets and what it validates, or after.
LEMMA TracedChain ==
  ASSUME Safe, Traced, NEW p \in Procs, UNCHANGED <<now, tickets, validated>>, proc[p].kind # "idle",
         proc[p].step \in {"packs", "debate", "debating", "preview", "daily", "ledger"},
         \/ Stop(p)
         \/ \E step, got : /\ Go(p, step, got) /\ step # "tickets" /\ (proc[p].step \in Late => step \in Late)
                           /\ step = "validate" =>
                                got.at = proc[p].at /\ got.ticket = tickets[proc[p].date]
  PROVE  Traced'
<1>1. ChainOK(proc[p]) /\ Running(proc[p]) /\ AllProcs /\ Chaining(p)
  BY ChainAt DEF Safe, Shapes, ChainOK, Chaining
<1>2. CASE Stop(p)
  <2>1. (\A q \in Procs \ {p} : proc'[q] = proc[q]) /\ ~ Chaining(p)'
    BY <1>1, <1>2, StopEffect DEF Chaining, ChainKinds, Idle
  <2> QED
    BY <2>1, TracedKept
<1>3. ASSUME NEW step, NEW got, Go(p, step, got), step # "tickets", proc[p].step \in Late => step \in Late,
             step = "validate" => got.at = proc[p].at /\ got.ticket = tickets[proc[p].date]
      PROVE  Traced'
  <2>1. /\ \A q \in Procs \ {p} : proc'[q] = proc[q]
        /\ proc'[p].date = proc[p].date /\ proc'[p].at = proc[p].at /\ proc'[p].step = step /\ proc'[p].got = got
    BY <1>1, <1>3, GoEffect
  <2>2. Based(proc[p])'
    BY <1>3, <2>1 DEF Based
  <2> QED
    BY <1>1, <1>3, <2>1, <2>2, TracedKept
<1> QED
  BY <1>2, <1>3

LEMMA TracedStep == Safe /\ Traced /\ [ChainNext]_vars => Traced'
<1> SUFFICES ASSUME Safe, Traced, [ChainNext]_vars PROVE Traced'
  OBVIOUS
<1> USE DEF Late
<1>1. CASE UNCHANGED vars
  BY <1>1, TracedGiven DEF Safe, vars, given, shadow, official
<1>2. CASE NewDay \/ Priced \/ Revalue \/ Settle \/ Score \/ Remember
  BY <1>2, TracedGiven DEF Safe, NewDay, Priced, Revalue, Settle, Score, Remember, Tick, shadow, official
<1>3. ASSUME NEW p \in Procs, Step(p) PROVE Traced'
  <2>1. ASSUME NEW kind \in ChainKinds, NEW d \in Dates, Start(p, kind, d) PROVE Traced'
    BY <2>1, TracedStart DEF Safe
  <2>2. CASE BuildTickets(p)
    BY <2>2, TracedTickets
  <2>3. CASE BuildPacks(p)
    <3>1. Stop(p) \/ Go(p, "debate", None)
      BY <2>3, BuildPacksStep DEF Safe
    <3> QED
      BY <2>3, <3>1, TracedChain DEF BuildPacks, given, official
  <2>4. CASE OpenDebate(p)
    <3>1. Stop(p) \/ \E got : Go(p, "debating", got)
      BY <2>4, OpenDebateStep DEF Safe
    <3> QED
      BY <2>4, <3>1, TracedChain DEF OpenDebate, given, official, shadow
  <2>5. CASE CloseDebate(p)
    <3>1. Stop(p) \/ Go(p, "preview", None)
      BY <2>5, CloseDebateStep DEF Safe
    <3> QED
      BY <2>5, <3>1, TracedChain DEF CloseDebate, given, official
  <2>6. CASE Publish(p)
    <3>1. Stop(p) \/ \E got : Go(p, "validate", got) /\ got.at = proc[p].at /\ got.ticket = tickets[proc[p].date]
      BY <2>6, PublishStep DEF Safe
    <3> QED
      BY <2>6, <3>1, TracedChain DEF Publish, given, shadow
  <2>7. CASE Validate(p)
    BY <2>7, TracedValidate
  <2>8. CASE WriteDecisions(p)
    <3>1. \E made : Go(p, "ledger", made)
      BY <2>8, WriteDecisionsStep DEF Safe
    <3> QED
      BY <2>8, <3>1, TracedChain DEF WriteDecisions, given, shadow
  <2>9. CASE AppendLedger(p)
    <3>1. Stop(p)
      BY <2>9, AppendLedgerStep DEF Safe
    <3> QED
      BY <2>9, <3>1, TracedChain DEF AppendLedger, given, shadow
  <2>10. CASE StartUpdate(p)
    <3>1. (\A q \in Procs \ {p} : proc'[q] = proc[q]) /\ ~ Chaining(p)'
      BY <2>10, StartUpdateStep DEF Safe, Chaining, ChainKinds, Idle
    <3> QED
      BY <2>10, <3>1, TracedKept DEF StartUpdate, given, shadow, official
  <2>11. ASSUME NEW step, NEW got, Go(p, step, got), proc[p].kind = "update"
         PROVE  (\A q \in Procs \ {p} : proc'[q] = proc[q]) /\ ~ Chaining(p)'
    <3>1. AllProcs /\ Running(proc[p])
      BY <2>11, UpdateAt DEF Safe, Shapes
    <3>2. (\A q \in Procs \ {p} : proc'[q] = proc[q]) /\ proc'[p].kind = proc[p].kind
      BY <2>11, <3>1, GoEffect
    <3> QED
      BY <2>11, <3>2 DEF Chaining, ChainKinds
  <2>12. CASE ReadDaily(p)
    <3>1. \E got : Go(p, "dump", got)
      BY <2>12, ReadDailyStep DEF Safe
    <3> QED
      BY <2>11, <2>12, <3>1, TracedKept DEF ReadDaily, given, shadow, official
  <2>13. CASE DumpDaily(p)
    BY <2>11, <2>13, TracedKept DEF DumpDaily, given, shadow
  <2>14. CASE LogOutcomes(p)
    BY <2>11, <2>14, TracedKept DEF LogOutcomes, given, shadow
  <2>15. CASE ShowOutcomes(p)
    <3>1. (\A q \in Procs \ {p} : proc'[q] = proc[q]) /\ ~ Chaining(p)'
      BY <2>15, ShowOutcomesStep DEF Safe, Chaining, ChainKinds, Idle
    <3> QED
      BY <2>15, <3>1, TracedKept DEF ShowOutcomes, given, shadow
  <2>16. CASE Die(p)
    <3>1. (\A q \in Procs \ {p} : proc'[q] = proc[q]) /\ ~ Chaining(p)'
      BY <2>16, DieStep, StopEffect DEF Safe, Shapes, Chaining, ChainKinds, Idle
    <3> QED
      BY <2>16, <3>1, TracedKept DEF Die, given, shadow, official
  <2> QED
    BY <1>3, <2>1, <2>2, <2>3, <2>4, <2>5, <2>6, <2>7, <2>8, <2>9, <2>10, <2>12, <2>13, <2>14, <2>15, <2>16
    DEF Step, ChainKinds
<1> QED
  BY <1>1, <1>2, <1>3 DEF ChainNext

-------------------------------------------------------------------------------
(***************************************************************************)
(* What the page shows of a date, and what the replay makes of it.          *)
(***************************************************************************)
LEMMA OfficialsArePlain ==
  ASSUME Shapes, NEW d \in Dates, validated[d] # None
  PROVE  Plain(Officials(d)) /\ \A f \in Funds : validated[d].acts[f].verb \in Verbs
<1>1. \A f \in Funds : validated[d].acts[f].verb \in Verbs
  BY DEF Shapes, Files, ActsOK, Act
<1>2. ASSUME NEW x \in Officials(d)
      PROVE  x \in Entries /\ x.id = x.key /\ x.key[1] = x.fund /\ \A y \in Officials(d) : x.fund = y.fund => x = y
  <2>1. PICK f \in Funds : x = Entry(f, validated[d].acts[f].verb, <<f, validated[d].acts[f].verb>>)
    BY DEF Officials, LegacyLabel
  <2>2. PICK verb : verb = validated[d].acts[f].verb
    OBVIOUS
  <2>3. verb \in Verbs /\ x = [fund |-> f, label |-> verb, id |-> <<f, verb>>, key |-> <<f, verb>>]
    BY <1>1, <2>1, <2>2 DEF Entry
  <2>4. f \in Marks /\ verb \in Marks
    BY <2>3 DEF Marks
  <2>5. <<f, verb>> \in Seq(Marks) /\ <<f, verb>>[1] = f
    BY <2>4
  <2>6. x \in Entries /\ x.id = x.key /\ x.key[1] = x.fund
    BY <2>3, <2>5 DEF Entries
  <2> QED
    BY <2>1, <2>6 DEF Officials, LegacyLabel, Entry
<1>3. \A x, y \in Officials(d) : x.key = y.key => x = y
  BY <1>2
<1> QED
  BY <1>1, <1>2, <1>3 DEF Plain

LEMMA TicketEntriesArePlain ==
  ASSUME Shapes, NEW d \in Dates, tickets[d] # None
  PROVE  Plain(TicketEntries(d))
<1>1. \A f \in Funds : tickets[d].tickets[f].verb \in Verbs
  BY DEF Shapes, Files, TicketsOK, TicketRow
<1> DEFINE Made(f) == LET verb == tickets[d].tickets[f].verb IN
             Entry(f, verb, IF tickets[d].source = "native" THEN <<f, verb, "native">> ELSE <<f, verb>>)
<1>2. TicketEntries(d) = {Made(f) : f \in Funds}
  BY DEF TicketEntries
<1>3. ASSUME NEW f \in Funds
      PROVE  Made(f) \in Entries /\ Made(f).id = Made(f).key /\ Made(f).key[1] = f /\ Made(f).fund = f
  <2>1. PICK verb : verb = tickets[d].tickets[f].verb
    OBVIOUS
  <2>2. PICK key : key = IF tickets[d].source = "native" THEN <<f, verb, "native">> ELSE <<f, verb>>
    OBVIOUS
  <2>3. verb \in Verbs /\ Made(f) = [fund |-> f, label |-> verb, id |-> key, key |-> key]
    BY <1>1, <2>1, <2>2 DEF Entry
  <2>4. f \in Marks /\ verb \in Marks /\ "native" \in Marks
    BY <2>3 DEF Marks
  <2>5. key \in Seq(Marks) /\ key[1] = f
    <3>1. CASE tickets[d].source = "native"
      BY <2>2, <2>4, <3>1
    <3>2. CASE tickets[d].source # "native"
      BY <2>2, <2>4, <3>2
    <3> QED
      BY <3>1, <3>2
  <2> HIDE DEF Made
  <2> QED
    BY <2>3, <2>5 DEF Entries
<1> HIDE DEF Made
<1> QED
  BY <1>2, <1>3 DEF Plain

LEMMA ChangesExplained == Safe /\ Traced => ChangesAreExplained
<1> SUFFICES ASSUME Safe, Traced, NEW d \in Have(validated), tickets[d] # None, tickets[d].at = validated[d].at,
                    NEW item \in ReviewItems(d)
             PROVE  /\ item.legacy # None /\ item.shadow # None
                    /\ Changed(item) => item.legacy.label = "hold" /\ ~ IsHigh(d, item)
  BY DEF ChangesAreExplained
<1>1. d \in Dates /\ validated[d] # None
  BY DEF Have
<1>2. Plain(Officials(d)) /\ Plain(TicketEntries(d))
  BY <1>1, OfficialsArePlain, TicketEntriesArePlain DEF Safe
<1>3. PICK acts, rows : acts = validated[d].acts /\ rows = tickets[d].tickets
  OBVIOUS
<1>4. /\ \A o \in Officials(d) : o.fund \in Funds /\ o.label = acts[o.fund].verb
      /\ \A t \in TicketEntries(d) : t.fund \in Funds /\ t.label = rows[t.fund].verb
      /\ \A f \in Funds : (\E o \in Officials(d) : o.fund = f) /\ (\E t \in TicketEntries(d) : t.fund = f)
      /\ \A x, y \in Officials(d) : x.fund = y.fund => x = y
      /\ \A x, y \in TicketEntries(d) : x.fund = y.fund => x = y
  <2> DEFINE O(f) == Entry(f, validated[d].acts[f].verb, <<f, validated[d].acts[f].verb>>)
             T(f) == LET verb == tickets[d].tickets[f].verb IN
               Entry(f, verb, IF tickets[d].source = "native" THEN <<f, verb, "native">> ELSE <<f, verb>>)
  <2>1. Officials(d) = {O(f) : f \in Funds} /\ TicketEntries(d) = {T(f) : f \in Funds}
    BY DEF Officials, TicketEntries, LegacyLabel
  <2>2. \A f \in Funds : O(f).fund = f /\ O(f).label = acts[f].verb /\ T(f).fund = f /\ T(f).label = rows[f].verb
    BY <1>3 DEF Entry
  <2> HIDE DEF O, T
  <2> QED
    BY <2>1, <2>2
<1>5. PICK os, ts : os = Officials(d) /\ ts = TicketEntries(d)
  OBVIOUS
<1>6. item \in Rows(os, ts) /\ Plain(os) /\ Plain(ts)
  BY <1>2, <1>5 DEF ReviewItems
<1>7. /\ item.legacy # None => \E o \in os : item.legacy.id = o.id /\ item.legacy.fund = o.fund /\ item.legacy.label = o.label
      /\ item.shadow # None => \E t \in ts : item.shadow.id = t.id /\ item.shadow.fund = t.fund /\ item.shadow.label = t.label
      /\ item.legacy # None /\ item.shadow # None => item.legacy.fund = item.shadow.fund
  BY <1>6, RowsOfOneFund
<1>8. \A o \in os, t \in ts : o.fund = t.fund => \E r \in Rows(os, ts) : Is(r.legacy, o) /\ Is(r.shadow, t)
  BY <1>4, <1>5, <1>6, OnlyOnesShare
<1>9. item.legacy # None \/ item.shadow # None
  BY <1>6, RowShowsSome
<1>10. item.legacy # None /\ item.shadow # None
  <2>1. CASE item.legacy # None
    <3>1. PICK o \in os : item.legacy.id = o.id
      BY <1>7, <2>1
    <3>2. PICK t \in ts : t.fund = o.fund
      BY <1>4, <1>5
    <3>3. PICK r \in Rows(os, ts) : Is(r.legacy, o) /\ Is(r.shadow, t)
      BY <1>8, <3>2
    <3>4. item = r
      BY <1>6, <2>1, <3>1, <3>3, RowIsOnly DEF Is
    <3> QED
      BY <3>3, <3>4 DEF Is
  <2>2. CASE item.shadow # None
    <3>1. PICK t \in ts : item.shadow.id = t.id
      BY <1>7, <2>2
    <3>2. PICK o \in os : o.fund = t.fund
      BY <1>4, <1>5
    <3>3. PICK r \in Rows(os, ts) : Is(r.legacy, o) /\ Is(r.shadow, t)
      BY <1>8, <3>2
    <3>4. item = r
      BY <1>6, <2>2, <3>1, <3>3, RowIsOnly DEF Is
    <3> QED
      BY <3>3, <3>4 DEF Is
  <2> QED
    BY <1>9, <2>1, <2>2
<1>11. Follows(acts, rows)
  BY <1>1, <1>3 DEF Traced
<1>12. item.legacy.label = acts[item.shadow.fund].verb /\ item.shadow.label = rows[item.shadow.fund].verb /\ item.shadow.fund \in Funds
  BY <1>4, <1>5, <1>7, <1>10
<1> QED
  BY <1>3, <1>10, <1>11, <1>12 DEF Changed, IsHigh, Follows

\* No guardrail that a ticket inherits holds what had been let through.
LEMMA ReplaySame ==
  ASSUME NEW acts \in [Funds -> Act], NEW mock \in BOOLEAN, NEW f \in Funds, ~ acts[f].veto
  PROVE  Replay(acts, mock)[f].verb = acts[f].verb /\ Replay(acts, mock)[f].amount = acts[f].amount
<1> DEFINE a == acts[f]
           t == ValidatedTickets(acts, mock)[f]
           c == Preview(ValidatedTickets(acts, mock), TRUE, FALSE)[f]
<1>1. t = Ticket(a.verb, a.amount, InferStatus(a), Blocks(a, mock))
  BY DEF ValidatedTickets
<1>2. a.amount \in Nat /\ (IF a.verb = "hold" THEN a.amount = 0 ELSE ~ a.gate)
  BY DEF Act
<1>3. /\ t.verb = a.verb /\ t.amount = a.amount /\ t.block = Blocks(a, mock) /\ t.status = InferStatus(a)
  BY <1>1 DEF Ticket
<1>4. c = CommitteeDecision(t, TRUE, FALSE)
  BY DEF Preview
<1> HIDE DEF c, t
<1>5. /\ c.verb = t.verb /\ c.amount = (IF t.verb = "hold" THEN 0 ELSE t.amount) /\ (c.veto <=> Veto(t, TRUE))
      /\ c.eligible <=> (t.verb # "hold" /\ ~ Veto(t, TRUE))
  <2>1. PICK verb, amount, veto, eligible :
          /\ verb = t.verb /\ amount = (IF t.verb = "hold" THEN 0 ELSE t.amount) /\ veto = Veto(t, TRUE)
          /\ eligible = (t.verb # "hold" /\ ~ Veto(t, TRUE) /\ ~ FALSE)
    OBVIOUS
  <2>2. c = [verb |-> verb, amount |-> amount, veto |-> veto, eligible |-> eligible]
    BY <1>4, <2>1 DEF CommitteeDecision
  <2>3. c.verb = verb
    BY <2>2
  <2>4. c.amount = amount
    BY <2>2
  <2>5. c.veto = veto
    BY <2>2
  <2>6. c.eligible = eligible
    BY <2>2
  <2> QED
    BY <2>1, <2>3, <2>4, <2>5, <2>6
<1>6. Replay(acts, mock)[f] = ReplayedAct(c)
  BY DEF Replay, c
<1>7. ReplayedAct(c).verb = FinalVerb(c) /\ ReplayedAct(c).amount = (IF FinalVerb(c) = "hold" THEN 0 ELSE c.amount)
  BY DEF ReplayedAct
<1>8. CASE a.verb = "hold"
  <2>1. FinalVerb(c) = "hold"
    BY <1>3, <1>5, <1>8 DEF FinalVerb
  <2> QED
    BY <1>2, <1>6, <1>7, <1>8, <2>1
<1>9. CASE a.verb # "hold"
  <2>1. ~ t.block /\ t.status \in {"adjusted", "shadow_only"}
    BY <1>2, <1>3, <1>9 DEF Blocks, InferStatus
  <2>2. ~ Veto(t, TRUE)
    BY <2>1 DEF Veto
  <2>3. FinalVerb(c) = a.verb
    BY <1>3, <1>5, <1>9, <2>2 DEF FinalVerb
  <2> QED
    BY <1>3, <1>5, <1>6, <1>7, <1>9, <2>3
<1> QED
  BY <1>8, <1>9

LEMMA ViewEnough == Safe /\ Traced => ViewExplains
<1>1. AlignmentIsMatching
  BY SidesMatch
<1>2. Safe => ReplayReproduces
  <2> SUFFICES ASSUME Safe, NEW d \in Have(validated), NEW f \in Funds, ~ validated[d].acts[f].veto
               PROVE  LET acts == validated[d].acts IN
                      /\ Replay(acts, validated[d].mock)[f].verb = acts[f].verb
                      /\ Replay(acts, validated[d].mock)[f].amount = acts[f].amount
    BY DEF ReplayReproduces, Comparable
  <2>1. validated[d].acts \in [Funds -> Act] /\ validated[d].mock \in BOOLEAN
    BY DEF Safe, Shapes, Files, ActsOK, Have
  <2> QED
    BY <2>1, ReplaySame
<1> QED
  BY <1>1, <1>2, ChangesExplained DEF ViewExplains

\* The page that compares the validated advice of a date with its tickets shows
\* each once and beside its own, every difference it shows of one run is a trade
\* that was held, and a replay reproduces the advice.
THEOREM ViewStaysExplained == ChainSpec => []ViewExplains
<1>1. ChainInit => Safe /\ Traced
  BY SafeInit, TracedInit
<1>2. Safe /\ Traced /\ [ChainNext]_vars => (Safe /\ Traced)'
  BY SafeStep, TracedStep
<1>3. Safe /\ Traced => ViewExplains
  BY ViewEnough
<1> QED
  BY <1>1, <1>2, <1>3, PTL DEF ChainSpec
===============================================================================
