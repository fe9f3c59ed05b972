------------------------------ MODULE Settlement ------------------------------
(***************************************************************************)
(* The execution ledger of scripts/execution_sync.py: recording a trade,   *)
(* waiting for its confirmation and settling it into the portfolio exactly *)
(* once.  Every file is written atomically (dump_json: temporary file plus *)
(* rename) but an operation writes several of them, one step per file, and *)
(* may fail or die between any two.  The two lock files of                 *)
(* common.file_lock serialise live processes; the lock of a dead process   *)
(* stays behind until it is older than stale_seconds and is broken.        *)
(*                                                                         *)
(*   record     db/execution_sync/actual_trades/<trade_date>.json          *)
(*   pending    db/execution_sync/pending_confirmations.json               *)
(*   counted    db/execution_status/<date>.json, amounts per suggestion    *)
(*   journal    db/execution_sync/settlement_journal/<key>.json            *)
(*   event      db/execution_sync/settlement_events/<key>.json             *)
(*   stateEvent db/portfolio_state/events/<date>/                          *)
(*              actual_trade_settlement_<token>.json                       *)
(*   current    db/portfolio_state/current.json                            *)
(***************************************************************************)
EXTENDS Integers, FiniteSets, Functions

CONSTANTS
  TradeIds,   \* trade_id of every trade that may be recorded
  Trade,      \* [TradeIds -> payload]; see Payload
  Procs,      \* web worker threads, the daily run, the command line tools
  Funds, Hub, \* see ApplyTrade
  InitVal,    \* current_value per fund before any settlement
  Statuses,   \* the "status" values clients send with a new record
  Days,       \* as_of dates, 0 .. LastDay
  MaxFaults,  \* bound: failed writes and crashes in a behaviour
  None, Free, Orphan

Keys == {Trade[t].key : t \in TradeIds}
StateKeys == {Trade[t].stateKey : t \in TradeIds}

\* key is the file name that settlement_event_path makes of the id, stateKey the
\* date and the token that portfolio_state_event_path makes of it (_safe_event_token
\* maps more characters to one than the former does); confirmDay and settleDay are
\* those of the trade's lifecycle, of a conversion's "in" leg.
Payload == [op: {"buy", "sell", "convert", "other"}, fund: Funds, to: Funds,
            amount: Nat, toAmount: Nat, confirmDay: Nat, settleDay: Nat,
            linked: BOOLEAN, key: Keys, stateKey: StateKeys]

JournalStates == {"prepared", "portfolio_applied", "completed", "conflict"}

\* A trade as db/execution_sync keeps it.
Entry == [status: {"submitted", "confirmed", "settled", "canceled"},
          applied: BOOLEAN,    \* portfolio_applied_at is set
          error: BOOLEAN]      \* portfolio_apply_error is set
JournalEntry == [status: JournalStates, of: TradeIds]

ASSUME SettlementAssumption ==
  /\ Trade \in [TradeIds -> Payload]
  /\ IsFiniteSet(Funds) /\ InitVal \in [Funds -> Int]
  /\ Days \subseteq Nat
  /\ MaxFaults \in Nat
  /\ Statuses \subseteq {"submitted", "confirmed", "settled", "canceled"}
  /\ None \notin TradeIds /\ None \notin Entry /\ None \notin JournalEntry
  /\ Free \notin Procs /\ Orphan \notin Procs /\ Free # Orphan

Portfolio == INSTANCE ApplyTrade

VARIABLES record, pending, counted, journal, event, stateEvent, current,
          syncLock,   \* db/locks/execution_sync.lock
          stateLock,  \* db/locks/portfolio_state.lock
          pc,         \* what a process does next
          cur,        \* the trade it works on
          entries,    \* its in-memory copy of the pending list
          todo,       \* the entries of that list it has not visited
          asOf,       \* the date of its update
          loaded,     \* the portfolio it read
          faults

files  == <<record, pending, counted, journal, event, stateEvent, current>>
locals == <<cur, entries, todo, asOf, loaded>>
vars   == <<files, syncLock, stateLock, pc, locals, faults>>

State == [val: [Funds -> Int], ids: SUBSET TradeIds, last: TradeIds \cup {None}]
NoEntries == [t \in TradeIds |-> None]
InitState == [val |-> InitVal, ids |-> {}, last |-> None]

RecordSteps == {"append", "enqueue", "count"}
ApplySteps  == {"check", "recover", "current", "stateEvent", "journal", "event", "complete"}
UpdateSteps == {"scan", "lock", "merge"} \cup ApplySteps

TypeOK ==
  /\ record  \in [TradeIds -> Entry \cup {None}]
  /\ pending \in [TradeIds -> Entry \cup {None}]
  /\ counted \in [TradeIds -> Nat]
  /\ journal \in [Keys -> JournalEntry \cup {None}]
  /\ event \subseteq Keys
  /\ stateEvent \subseteq StateKeys
  /\ current \in State
  /\ syncLock  \in Procs \cup {Free, Orphan}
  /\ stateLock \in Procs \cup {Free, Orphan}
  /\ pc  \in [Procs -> {"idle"} \cup RecordSteps \cup UpdateSteps]
  /\ cur \in [Procs -> TradeIds \cup {None}]
  /\ entries \in [Procs -> [TradeIds -> Entry \cup {None}]]
  /\ todo \in [Procs -> SUBSET TradeIds]
  /\ asOf \in [Procs -> Nat]
  /\ loaded \in [Procs -> State]
  /\ faults \in 0 .. MaxFaults

Init ==
  /\ record = NoEntries /\ pending = NoEntries
  /\ counted = [t \in TradeIds |-> 0]
  /\ journal = [k \in Keys |-> None]
  /\ event = {} /\ stateEvent = {}
  /\ current = InitState
  /\ syncLock = Free /\ stateLock = Free
  /\ pc = [p \in Procs |-> "idle"]
  /\ cur = [p \in Procs |-> None]
  /\ entries = [p \in Procs |-> NoEntries]
  /\ todo = [p \in Procs |-> {}]
  /\ asOf = [p \in Procs |-> 0]
  /\ loaded = [p \in Procs |-> InitState]
  /\ faults = 0

-------------------------------------------------------------------------------
\* Helpers.

Key(t) == Trade[t].key
StateKey(t) == Trade[t].stateKey

\* Mutant of lifecycle_status: a sale counts as settled when confirmed.
LifecycleWithoutSettlement(tr, day) ==
  IF day < tr.confirmDay THEN "submitted" ELSE "settled"
\* trade_lifecycle.lifecycle_status for the dates resolved at record time.
LifecycleStatus(tr, day) ==
  IF day < tr.confirmDay THEN "submitted"
  ELSE IF tr.op = "sell" /\ day < tr.settleDay THEN "confirmed"
  ELSE "settled"

\* Mutants of Active: everything settled is dropped; settled trades stay.
DropSettled(list) ==
  [t \in TradeIds |-> IF list[t] # None /\ list[t].status \notin {"canceled", "settled"}
                      THEN list[t] ELSE None]
KeepSettled(list) ==
  [t \in TradeIds |-> IF list[t] # None /\ list[t].status # "canceled" THEN list[t] ELSE None]

\* _write_pending_confirmations keeps what may still have to move the portfolio.
Active(list) ==
  [t \in TradeIds |->
     IF /\ list[t] # None
        /\ list[t].status # "canceled"
        /\ list[t].status = "settled" => ~list[t].applied
     THEN list[t] ELSE None]

\* Mutants of AlreadyApplied: only the settlement event is trusted; a journal is
\* taken for a completed one.
AppliedByEvent(entry, t, state) == entry.applied \/ Key(t) \in event
AppliedByJournal(entry, t, state) == AppliedByEvent(entry, t, state) \/ journal[Key(t)] # None

\* The portfolio already carries the trade: its entry says so, the settlement
\* event exists, or _portfolio_has_settlement.
AlreadyApplied(entry, t, state) ==
  \/ entry.applied
  \/ Key(t) \in event
  \/ t \in state.ids
  \/ state.last = t
  \/ StateKey(t) \in stateEvent

\* Mutant of OnFile: no look-up of the trade_id.
NeverOnFile(t) == FALSE
\* _find_record_by_trade_id.
OnFile(t) == record[t] # None

\* A new record with this status goes to the pending list.
Waits(status) == status \notin {"settled", "canceled"}

Goto(p, from, to) == pc[p] = from /\ pc' = [pc EXCEPT ![p] = to]

\* The operation returns or raises: file_lock releases and the frame is gone.
Return(p) ==
  /\ pc' = [pc EXCEPT ![p] = "idle"]
  /\ syncLock' = Free
  /\ cur' = [cur EXCEPT ![p] = None]
  /\ entries' = [entries EXCEPT ![p] = NoEntries]
  /\ todo' = [todo EXCEPT ![p] = {}]
  /\ asOf' = [asOf EXCEPT ![p] = 0]
  /\ loaded' = [loaded EXCEPT ![p] = InitState]

-------------------------------------------------------------------------------
\* record_actual_trade and record_conversion.

\* Take the execution_sync lock and build the item from the request.
RecordBegin(p, t, s) ==
  /\ syncLock = Free
  /\ Goto(p, "idle", "append")
  /\ syncLock' = p
  /\ cur' = [cur EXCEPT ![p] = t]
  /\ entries' = [entries EXCEPT ![p][t] = [status |-> s, applied |-> FALSE, error |-> FALSE]]
  /\ UNCHANGED <<files, stateLock, todo, asOf, loaded, faults>>

\* The id is already on file: an equal payload is answered as a replay and a
\* different one is rejected (_existing_record_result); neither writes.
RecordExisting(p) ==
  /\ pc[p] = "append"
  /\ OnFile(cur[p])
  /\ Return(p)
  /\ UNCHANGED <<files, stateLock, faults>>

RecordAppend(p) ==
  /\ Goto(p, "append", "enqueue")
  /\ ~OnFile(cur[p])
  /\ record' = [record EXCEPT ![cur[p]] = entries[p][cur[p]]]
  /\ UNCHANGED <<pending, counted, journal, event, stateEvent, current,
                 syncLock, stateLock, locals, faults>>

\* Replace the entry of this id in the pending list, unless it is closed.
RecordEnqueue(p) ==
  LET t == cur[p]
      e == entries[p][t]
      listed == [pending EXCEPT ![t] = IF Waits(e.status) THEN e ELSE None]
  IN /\ pc[p] = "enqueue"
     /\ pending' = Active(listed)
     /\ IF Trade[t].linked /\ Trade[t].op # "convert"
        THEN Goto(p, "enqueue", "count") /\ UNCHANGED <<syncLock, locals>>
        ELSE Return(p)
     /\ UNCHANGED <<record, counted, journal, event, stateEvent, current, stateLock, faults>>

\* upsert_execution_status adds the amount to what the suggestion already has.
RecordCount(p) ==
  /\ pc[p] = "count"
  /\ counted' = [counted EXCEPT ![cur[p]] = @ + 1]
  /\ Return(p)
  /\ UNCHANGED <<record, pending, journal, event, stateEvent, current, stateLock, faults>>

-------------------------------------------------------------------------------
\* update_pending_confirmations.

UpdateBegin(p, d) ==
  /\ syncLock = Free
  /\ Goto(p, "idle", "scan")
  /\ syncLock' = p
  /\ entries' = [entries EXCEPT ![p] = pending]
  /\ todo' = [todo EXCEPT ![p] = {t \in TradeIds : pending[t] # None}]
  /\ asOf' = [asOf EXCEPT ![p] = d]
  /\ UNCHANGED <<files, stateLock, cur, loaded, faults>>

\* The list is sorted by confirm_date, which conversions have none of, then by
\* settlement_date.
Earlier(t, u) ==
  LET ListDay(v) == IF Trade[v].op = "convert" THEN -1 ELSE Trade[v].confirmDay
  IN \/ ListDay(t) < ListDay(u)
     \/ ListDay(t) = ListDay(u) /\ Trade[t].settleDay <= Trade[u].settleDay

Visit(p, t) ==
  /\ t \in todo[p]
  /\ \A u \in todo[p] : Earlier(t, u)
  /\ todo' = [todo EXCEPT ![p] = @ \ {t}]

\* Not due yet: only the in-memory status changes.
UpdateNotDue(p, t) ==
  LET s == LifecycleStatus(Trade[t], asOf[p])
  IN /\ pc[p] = "scan"
     /\ Visit(p, t)
     /\ s # "settled"
     /\ entries' = [entries EXCEPT ![p][t].status = s]
     /\ UNCHANGED <<files, syncLock, stateLock, pc, cur, asOf, loaded, faults>>

\* Due: settle it, or, if its settlement event exists, mark it as settled.
UpdateDue(p, t) ==
  /\ Visit(p, t)
  /\ LifecycleStatus(Trade[t], asOf[p]) = "settled"
  /\ cur' = [cur EXCEPT ![p] = t]
  /\ \/ /\ ~entries[p][t].applied /\ Key(t) \notin event
        /\ Goto(p, "scan", "lock")
        /\ entries' = [entries EXCEPT ![p][t].status = "settled"]
     \/ /\ entries[p][t].applied \/ Key(t) \in event
        /\ Goto(p, "scan", "merge")
        /\ entries' = [entries EXCEPT ![p][t].status = "settled", ![p][t].applied = TRUE]
  /\ UNCHANGED <<files, syncLock, stateLock, asOf, loaded, faults>>

\* _update_actual_trade_record: the keys of the entry override the record's, so
\* an error noted earlier stays in the record after it left the entry.
UpdateMerge(p) ==
  LET t == cur[p]
      e == entries[p][t]
  IN /\ Goto(p, "merge", "scan")
     /\ record' = IF record[t] = None THEN record
                  ELSE [record EXCEPT ![t] = [status  |-> e.status,
                                              applied |-> e.applied \/ @.applied,
                                              error   |-> e.error \/ @.error]]
     /\ UNCHANGED <<pending, counted, journal, event, stateEvent, current,
                    syncLock, stateLock, locals, faults>>

UpdateStore(p) ==
  /\ pc[p] = "scan"
  /\ todo[p] = {}
  /\ pending' = Active(entries[p])
  /\ Return(p)
  /\ UNCHANGED <<record, counted, journal, event, stateEvent, current, stateLock, faults>>

-------------------------------------------------------------------------------
\* apply_settled_trade_to_portfolio, under the portfolio_state lock.

ApplyLock(p) ==
  /\ stateLock = Free
  /\ Goto(p, "lock", "check")
  /\ stateLock' = p
  /\ loaded' = [loaded EXCEPT ![p] = current]
  /\ UNCHANGED <<files, syncLock, cur, entries, todo, asOf, faults>>

\* The call returned ok, or raised; update_pending_confirmations notes which.
Answer(p, ok) ==
  /\ pc' = [pc EXCEPT ![p] = "merge"]
  /\ stateLock' = IF stateLock = p THEN Free ELSE stateLock
  /\ entries' = [entries EXCEPT ![p][cur[p]].applied = @ \/ ok, ![p][cur[p]].error = ~ok]
  /\ loaded' = [loaded EXCEPT ![p] = InitState]
  /\ UNCHANGED <<syncLock, cur, todo, asOf>>

\* Mutant of ForeignJournal: only a settlement under way is protected.
UnfinishedForeignJournal(t) ==
  journal[Key(t)] # None /\ journal[Key(t)].of # t /\ journal[Key(t)].status = "portfolio_applied"

\* The journal of this key was written for another trade (_settlement_trade_digest).
ForeignJournal(t) == journal[Key(t)] # None /\ journal[Key(t)].of # t

WriteJournal(t, status) == journal' = [journal EXCEPT ![Key(t)] = [status |-> status, of |-> t]]

\* The journal file belongs to another trade: mark the conflict and raise.
ApplyConflict(p) ==
  /\ pc[p] = "check"
  /\ ForeignJournal(cur[p])
  /\ journal' = [journal EXCEPT ![Key(cur[p])].status = "conflict"]
  /\ Answer(p, FALSE)
  /\ UNCHANGED <<record, pending, counted, event, stateEvent, current, faults>>

\* Already applied: rebuild the settlement event if a crash lost it ...
ApplyRecover(p) ==
  LET t == cur[p]
  IN /\ Goto(p, "check", "recover")
     /\ ~ForeignJournal(t)
     /\ AlreadyApplied(entries[p][t], t, loaded[p])
     /\ event' = event \cup {Key(t)}
     /\ UNCHANGED <<record, pending, counted, journal, stateEvent, current,
                    syncLock, stateLock, locals, faults>>

\* ... and complete the journal; the answer is ok, skipped.
ApplyRecovered(p) ==
  /\ pc[p] = "recover"
  /\ WriteJournal(cur[p], "completed")
  /\ Answer(p, TRUE)
  /\ UNCHANGED <<record, pending, counted, event, stateEvent, current, faults>>

ApplyPrepare(p) ==
  LET t == cur[p]
  IN /\ Goto(p, "check", "current")
     /\ ~ForeignJournal(t)
     /\ ~AlreadyApplied(entries[p][t], t, loaded[p])
     /\ WriteJournal(t, "prepared")
     /\ UNCHANGED <<record, pending, counted, event, stateEvent, current,
                    syncLock, stateLock, locals, faults>>

\* apply_trade raises, or the operation does not move the portfolio.
ApplyRefuse(p) ==
  /\ pc[p] = "current"
  /\ ~Portfolio!CanSettle(loaded[p].val, Trade[cur[p]])
  /\ Answer(p, FALSE)
  /\ UNCHANGED <<files, faults>>

\* The first write of _save_portfolio_state_unlocked: values and settlement ids
\* change in one rename.
ApplyCurrent(p) ==
  LET t == cur[p]
  IN /\ Goto(p, "current", "stateEvent")
     /\ Portfolio!CanSettle(loaded[p].val, Trade[t])
     /\ current' = [val  |-> Portfolio!AfterSettle(loaded[p].val, Trade[t]),
                    ids  |-> loaded[p].ids \cup {t},
                    last |-> t]
     /\ UNCHANGED <<record, pending, counted, journal, event, stateEvent,
                    syncLock, stateLock, locals, faults>>

ApplyStateEvent(p) ==
  /\ Goto(p, "stateEvent", "journal")
  /\ stateEvent' = stateEvent \cup {StateKey(cur[p])}
  /\ UNCHANGED <<record, pending, counted, journal, event, current,
                 syncLock, stateLock, locals, faults>>

ApplyJournal(p) ==
  /\ Goto(p, "journal", "event")
  /\ WriteJournal(cur[p], "portfolio_applied")
  /\ UNCHANGED <<record, pending, counted, event, stateEvent, current,
                 syncLock, stateLock, locals, faults>>

ApplyEvent(p) ==
  /\ Goto(p, "event", "complete")
  /\ event' = event \cup {Key(cur[p])}
  /\ UNCHANGED <<record, pending, counted, journal, stateEvent, current,
                 syncLock, stateLock, locals, faults>>

ApplyComplete(p) ==
  /\ pc[p] = "complete"
  /\ WriteJournal(cur[p], "completed")
  /\ Answer(p, TRUE)
  /\ UNCHANGED <<record, pending, counted, event, stateEvent, current, faults>>

-------------------------------------------------------------------------------
\* Failures.

Fault == faults < MaxFaults /\ faults' = faults + 1

\* A read, a write or the lock timeout raises inside the settlement: caught
\* (except Exception) and noted on the entry.
ApplyFault(p) ==
  /\ pc[p] \in {"lock"} \cup ApplySteps
  /\ Fault
  /\ Answer(p, FALSE)
  /\ UNCHANGED files

\* A write raises anywhere else: the operation is abandoned.
OperationFault(p) ==
  /\ pc[p] \in RecordSteps \cup {"scan", "merge"}
  /\ pc[p] = "scan" => todo[p] = {}
  /\ Fault
  /\ Return(p)
  /\ UNCHANGED <<files, stateLock>>

\* The process dies; its lock files stay.
Crash(p) ==
  /\ pc[p] # "idle"
  /\ Fault
  /\ pc' = [pc EXCEPT ![p] = "idle"]
  /\ syncLock' = Orphan
  /\ stateLock' = IF stateLock = p THEN Orphan ELSE stateLock
  /\ cur' = [cur EXCEPT ![p] = None]
  /\ entries' = [entries EXCEPT ![p] = NoEntries]
  /\ todo' = [todo EXCEPT ![p] = {}]
  /\ asOf' = [asOf EXCEPT ![p] = 0]
  /\ loaded' = [loaded EXCEPT ![p] = InitState]
  /\ UNCHANGED files

\* file_lock: a waiter unlinks a lock file older than stale_seconds.
BreakSyncLock ==
  /\ syncLock = Orphan
  /\ syncLock' = Free
  /\ UNCHANGED <<files, stateLock, pc, locals, faults>>

BreakStateLock ==
  /\ stateLock = Orphan
  /\ stateLock' = Free
  /\ UNCHANGED <<files, syncLock, pc, locals, faults>>

-------------------------------------------------------------------------------
Record(p) ==
  \/ \E t \in TradeIds, s \in Statuses : RecordBegin(p, t, s)
  \/ RecordExisting(p) \/ RecordAppend(p) \/ RecordEnqueue(p) \/ RecordCount(p)

Update(p) ==
  \/ \E d \in Days : UpdateBegin(p, d)
  \/ \E t \in TradeIds : UpdateNotDue(p, t) \/ UpdateDue(p, t)
  \/ UpdateMerge(p) \/ UpdateStore(p)

Apply(p) ==
  \/ ApplyLock(p) \/ ApplyConflict(p) \/ ApplyRecover(p) \/ ApplyRecovered(p)
  \/ ApplyPrepare(p) \/ ApplyRefuse(p) \/ ApplyCurrent(p) \/ ApplyStateEvent(p)
  \/ ApplyJournal(p) \/ ApplyEvent(p) \/ ApplyComplete(p)

Fail(p) == ApplyFault(p) \/ OperationFault(p) \/ Crash(p)

Next ==
  \/ \E p \in Procs : Record(p) \/ Update(p) \/ Apply(p) \/ Fail(p)
  \/ BreakSyncLock
  \/ BreakStateLock

Spec == Init /\ [][Next]_vars

\* Live processes keep running and stale locks get broken (weak fairness), and
\* the daily update is retried until it gets the lock on the last date (strong:
\* polling gives no turn to a waiter, but other requests are finite in number).
Step(p) ==
  \/ RecordExisting(p) \/ RecordAppend(p) \/ RecordEnqueue(p) \/ RecordCount(p)
  \/ \E t \in TradeIds : UpdateNotDue(p, t) \/ UpdateDue(p, t)
  \/ UpdateMerge(p) \/ UpdateStore(p) \/ Apply(p)

LastDay == CHOOSE d \in Days : \A e \in Days : e <= d

Fairness ==
  /\ \A p \in Procs : WF_vars(Step(p))
  /\ WF_vars(BreakSyncLock) /\ WF_vars(BreakStateLock)
  /\ SF_vars(\E p \in Procs : UpdateBegin(p, LastDay))

FairSpec == Spec /\ Fairness

-------------------------------------------------------------------------------
\* Properties.

\* The id of one trade is taken for that of the other: settlement_event_path
\* replaces "/", "\" and ":" by "_", _safe_event_token all but letters, digits,
\* "-" and "_".
Confused(t, u) == Key(t) = Key(u) \/ StateKey(t) = StateKey(u)

\* The portfolio has t or, where others' names are taken for it, one of them.
Accounted(t) ==
  \A some \in SUBSET TradeIds :
    t \in some /\ (\A u \in some, v \in TradeIds : Confused(u, v) => v \in some)
    => some \cap current.ids # {}

\* Nothing on file says that t was settled: no pending entry or trade record is
\* marked portfolio_applied_at, there is no settlement event and no portfolio
\* event, and no journal is past "prepared".
Unclaimed(t) ==
  /\ pending[t] # None => ~pending[t].applied
  /\ record[t] # None => ~record[t].applied
  /\ Key(t) \notin event /\ StateKey(t) \notin stateEvent
  /\ journal[Key(t)] # None => journal[Key(t)].status \in {"prepared", "conflict"}

\* Every durable claim that a trade was settled is true of current.json, which
\* has its effect and id; only if its names are confused with others', it may be
\* one of those instead.  update_pending_confirmations drops an entry on the
\* strength of such claims, so a false one loses the trade.
ClaimsAreApplied == \A t \in TradeIds : Accounted(t) \/ Unclaimed(t)

\* A step changes the portfolio only by settling, in full, one trade that was
\* not settled before, in an update whose date has reached its settlement.
SettlesOneDueTrade ==
  \E t \in TradeIds \ current.ids, p \in Procs :
    /\ current'.ids = current.ids \cup {t}
    /\ current'.val = Portfolio!AfterSettle(current.val, Trade[t])
    /\ asOf[p] >= Trade[t].confirmDay
    /\ Trade[t].op = "sell" => asOf[p] >= Trade[t].settleDay
OnlySettlements == [][SettlesOneDueTrade]_current

\* Conversions are between two funds other than the hub: one out of the hub takes
\* its amount from there twice.
ThreeFunds ==
  \A t \in TradeIds : Trade[t].op = "convert" =>
    Trade[t].fund # Trade[t].to /\ Hub \in Funds \ {Trade[t].fund, Trade[t].to}

\* A conversion is one order with two legs: settling it takes amount out of one
\* fund, puts toAmount into the other and keeps the total (the difference stays
\* in the cash hub), in a single replacement of current.json.
Total(val) == SumFunctionOnSet(val, Funds)
ConversionBalances ==
  [][\A t \in current'.ids \ current.ids :
       LET tr == Trade[t]
           Moved(f) == current'.val[f] - current.val[f]
       IN tr.op = "convert" => /\ Moved(tr.fund) = -tr.amount
                               /\ Moved(tr.to) = tr.toAmount
                               /\ Total(current'.val) = Total(current.val)]_current

\* A journal belongs to the trade it was opened for: another trade whose file
\* has the same name can mark it as a conflict but never takes it over, so what
\* a crash left half done is finished for the right trade.
JournalKeepsItsTrade ==
  [][\A k \in Keys : journal[k] # None =>
        journal'[k] # None /\ journal'[k].of = journal[k].of]_journal

\* An amount is added to a suggestion's execution status at most once: a
\* repeated request never gets as far as upsert_execution_status.
CountedOnce == \A t \in TradeIds : counted[t] <= 1

\* Seen through current.json and the trade files, the ledger does what
\* ExecutionLedger promises: one atomic, final settlement per recorded trade.
Phase == [t \in TradeIds |-> IF t \in current.ids THEN "settled"
                             ELSE IF record[t] # None THEN "recorded" ELSE "unknown"]
Ledger == INSTANCE ExecutionLedger WITH phase <- Phase, value <- current.val
ImplementsLedger == Ledger!Spec

\* A waiting trade is eventually settled, or it carries the reason why not; one
\* whose names are taken may pass for settled with the other.
Resolved(t) == \/ Accounted(t)
               \/ pending[t] # None /\ pending[t].error
EventuallyResolved == \A t \in TradeIds : pending[t] # None ~> Resolved(t)

\* Every open trade on file is eventually settled, or says why not.
RecordedIsResolved ==
  \A t \in TradeIds : record[t] # None /\ Waits(record[t].status) ~> Resolved(t)

\* A settled trade eventually leaves the pending list for good, with its event
\* written, whatever failed after current.json was replaced.
EventuallyClosed ==
  \A t \in TradeIds : t \in current.ids ~> [](pending[t] = None /\ Key(t) \in event)
===============================================================================
