---------------------------- MODULE MoneyProofs ----------------------------
(***************************************************************************)
(* The money.  First the ledger: Settlement for any number of processes,   *)
(* trades, funds, dates and failures.  Then what its trades and the other  *)
(* writers make of the positions: sums, conversions, and the values, units *)
(* and profits of Positions.  Last, how much may be traded: Sizing for any *)
(* portfolio, any wishes and any limits.                                   *)
(***************************************************************************)
EXTENDS Settlement, Positions, Sizing, FiniteSetTheorems, WellFoundedInduction, TLAPS

\* A lock belongs to the process whose program counter is inside it.
Locks ==
  \A p \in Procs : /\ syncLock = p <=> pc[p] # "idle"
                   /\ stateLock = p <=> pc[p] \in ApplySteps

\* The in-memory trade a process works on exists, and so do those it has to visit.
Frames ==
  \A p \in Procs :
    /\ pc[p] \notin {"idle", "scan"} => cur[p] \in TradeIds /\ entries[p][cur[p]] # None
    /\ \A t \in todo[p] : entries[p][t] # None

\* A trade is on file before anything else is known of it, and a process holds
\* a copy only of trades on file, or of the one it is appending.
Filed ==
  /\ \A t \in current.ids : record[t] # None
  /\ \A t \in TradeIds : pending[t] # None => record[t] # None
  /\ \A p \in Procs, t \in TradeIds : entries[p][t] # None =>
       /\ pc[p] # "idle"
       /\ pc[p] = "append" => t = cur[p]
       /\ pc[p] # "append" => record[t] # None

Due(t, d) == /\ d >= Trade[t].confirmDay
             /\ Trade[t].op = "sell" => d >= Trade[t].settleDay

\* What the settlement in progress relies on: the portfolio it read is still the
\* current one, does not carry its trade, and its date has reached the trade's.
Fresh ==
  \A p \in Procs :
    /\ pc[p] \in {"check", "current"} => loaded[p] = current
    /\ pc[p] = "current" => cur[p] \notin current.ids
    /\ pc[p] \in {"lock"} \cup ApplySteps => Due(cur[p], asOf[p])

Working == Locks /\ Frames /\ Filed /\ Fresh

\* The trades that are accounted for, and what a process takes for such.
Told == {t \in TradeIds : Accounted(t)}

Knows ==
  /\ current.last \in current.ids \cup {None}
  /\ \A p \in Procs :
       /\ pc[p] \in {"recover", "stateEvent", "journal", "event", "complete"} => cur[p] \in Told
       /\ \A t \in TradeIds : entries[p][t] # None /\ entries[p][t].applied => t \in Told

\* ClaimsAreApplied, of a set.
Claims ==
  \A t \in TradeIds :
    \/ t \in Told
    \/ /\ pending[t] # None => ~pending[t].applied
       /\ record[t] # None => ~record[t].applied
       /\ Key(t) \notin event /\ StateKey(t) \notin stateEvent
       /\ journal[Key(t)] # None => journal[Key(t)].status \in {"prepared", "conflict"}

\* No amount was added for a trade that is not on file, or that is being recorded.
Counting ==
  /\ \A t \in TradeIds : counted[t] \in {0, 1}
  /\ \A t \in TradeIds : record[t] = None => counted[t] = 0
  /\ \A p \in Procs : pc[p] \in {"enqueue", "count"} => counted[cur[p]] = 0

\* Past the check, the journal of the settlement in progress is nobody else's.
OwnJournal ==
  \A p \in Procs : pc[p] \in ApplySteps \ {"check"} => ~ForeignJournal(cur[p])

-------------------------------------------------------------------------------
(***************************************************************************)
(* Types.                                                                  *)
(***************************************************************************)

\* The lifecycle of a trade only has the status words an entry may hold.
LEMMA LifecycleType ==
  ASSUME NEW tr, NEW d
  PROVE  LifecycleStatus(tr, d) \in {"submitted", "confirmed", "settled"}
  BY DEF LifecycleStatus

\* The effect of a trade on the values of the portfolio is again a valuation.
LEMMA ValueType ==
  ASSUME NEW val \in [Funds -> Int], NEW tr \in Payload
  PROVE  Portfolio!AfterSettle(val, tr) \in [Funds -> Int]
<1>1. tr.amount \in Int /\ tr.toAmount \in Int
  BY DEF Payload
<1>2. ASSUME NEW v \in [Funds -> Int], NEW f, NEW amt \in Int
      PROVE  Portfolio!Buy(v, f, amt) \in [Funds -> Int] /\ Portfolio!Sell(v, f, amt) \in [Funds -> Int]
  BY <1>2 DEF Portfolio!Buy, Portfolio!Sell
<1>3. Portfolio!Buy(val, tr.fund, tr.amount) \in [Funds -> Int]
  BY <1>1, <1>2
<1>4. Portfolio!Sell(val, tr.fund, tr.amount) \in [Funds -> Int]
  BY <1>1, <1>2
<1>5. Portfolio!Buy(Portfolio!Sell(val, tr.fund, tr.amount), tr.to, tr.toAmount) \in [Funds -> Int]
  BY <1>1, <1>2, <1>4
<1> QED
  BY <1>3, <1>4, <1>5 DEF Portfolio!AfterSettle

\* Dropping closed entries keeps the list a list.
LEMMA ActiveType ==
  ASSUME NEW list \in [TradeIds -> Entry \cup {None}]
  PROVE  Active(list) \in [TradeIds -> Entry \cup {None}]
  BY DEF Active

\* Changing a field of an entry.
LEMMA EntryType ==
  ASSUME NEW e \in Entry, NEW s \in {"submitted", "confirmed", "settled", "canceled"},
         NEW b \in BOOLEAN, NEW c \in BOOLEAN
  PROVE  /\ [e EXCEPT !.status = s] \in Entry
         /\ [e EXCEPT !.status = s, !.applied = b] \in Entry
         /\ [e EXCEPT !.applied = b, !.error = c] \in Entry
         /\ [status |-> s, applied |-> b, error |-> c] \in Entry
  BY DEF Entry

\* The in-memory lists stay lists of the same trades.
SameLists ==
  /\ entries' \in [Procs -> [TradeIds -> Entry \cup {None}]]
  /\ \A q \in Procs, u \in TradeIds : entries'[q][u] # None <=> entries[q][u] # None

\* Rewriting an entry neither adds one to an in-memory list nor takes one away.
LEMMA EntryRewritten ==
  ASSUME TypeOK, NEW p \in Procs, NEW t \in TradeIds, NEW e \in Entry,
         entries[p][t] \in Entry,
         entries' = [entries EXCEPT ![p] = [entries[p] EXCEPT ![t] = e]]
  PROVE  SameLists
  BY SettlementAssumption DEF TypeOK, SameLists

\* What the three steps that rewrite one in-memory entry make of it.
LEMMA EntryAnswered ==
  ASSUME TypeOK, Frames, NEW p \in Procs, NEW ok \in BOOLEAN,
         Answer(p, ok), pc[p] \notin {"idle", "scan"}
  PROVE  /\ cur[p] \in TradeIds /\ entries[p][cur[p]] \in Entry
         /\ \E e \in Entry :
              /\ entries' = [entries EXCEPT ![p] = [entries[p] EXCEPT ![cur[p]] = e]]
              /\ e.applied => entries[p][cur[p]].applied \/ ok
         /\ SameLists
<1>1. cur[p] \in TradeIds /\ entries[p][cur[p]] \in Entry
  BY DEF TypeOK, Frames
<1> DEFINE e == [entries[p][cur[p]] EXCEPT !.applied = @ \/ ok, !.error = ~ok]
<1>2. e \in Entry /\ (e.applied => entries[p][cur[p]].applied \/ ok)
  BY <1>1 DEF Entry
<1>3. entries' = [entries EXCEPT ![p] = [entries[p] EXCEPT ![cur[p]] = e]]
  BY <1>1 DEF Answer, TypeOK
<1>4. SameLists
  BY <1>1, <1>2, <1>3, EntryRewritten
<1> QED
  BY <1>1, <1>2, <1>3, <1>4

LEMMA EntryNotDue ==
  ASSUME TypeOK, Frames, NEW p \in Procs, NEW t \in TradeIds, UpdateNotDue(p, t)
  PROVE  /\ entries[p][t] \in Entry
         /\ \E e \in Entry :
              /\ entries' = [entries EXCEPT ![p] = [entries[p] EXCEPT ![t] = e]]
              /\ e.applied => entries[p][t].applied
         /\ SameLists
<1>1. entries[p][t] \in Entry
  BY DEF UpdateNotDue, Visit, Frames, TypeOK
<1> DEFINE e == [entries[p][t] EXCEPT !.status = LifecycleStatus(Trade[t], asOf[p])]
<1>2. LifecycleStatus(Trade[t], asOf[p]) \in {"submitted", "confirmed", "settled"}
  BY LifecycleType
<1>3. e \in Entry /\ (e.applied => entries[p][t].applied)
  BY <1>1, <1>2 DEF Entry
<1>4. entries' = [entries EXCEPT ![p] = [entries[p] EXCEPT ![t] = e]]
  BY DEF UpdateNotDue, TypeOK
<1>5. SameLists
  BY <1>1, <1>3, <1>4, EntryRewritten
<1> QED
  BY <1>1, <1>3, <1>4, <1>5

LEMMA EntryDue ==
  ASSUME TypeOK, Frames, NEW p \in Procs, NEW t \in TradeIds, UpdateDue(p, t)
  PROVE  /\ entries[p][t] \in Entry
         /\ \E e \in Entry :
              /\ entries' = [entries EXCEPT ![p] = [entries[p] EXCEPT ![t] = e]]
              /\ e.applied => entries[p][t].applied \/ Key(t) \in event
         /\ SameLists
<1>1. entries[p][t] \in Entry
  BY DEF UpdateDue, Visit, Frames, TypeOK
<1> DEFINE e1 == [entries[p][t] EXCEPT !.status = "settled"]
           e2 == [entries[p][t] EXCEPT !.status = "settled", !.applied = TRUE]
<1>2. e1 \in Entry /\ (e1.applied => entries[p][t].applied) /\ e2 \in Entry
  BY <1>1 DEF Entry
<1>3. \/ entries' = [entries EXCEPT ![p] = [entries[p] EXCEPT ![t] = e1]]
      \/ /\ entries' = [entries EXCEPT ![p] = [entries[p] EXCEPT ![t] = e2]]
         /\ entries[p][t].applied \/ Key(t) \in event
  BY DEF UpdateDue, TypeOK
<1>4. SameLists
  BY <1>1, <1>2, <1>3, EntryRewritten
<1> QED
  BY <1>1, <1>2, <1>3, <1>4

\* What _update_actual_trade_record makes of the record it merges an entry into.
LEMMA RecordMerged ==
  ASSUME TypeOK, Frames, NEW p \in Procs, UpdateMerge(p)
  PROVE  /\ cur[p] \in TradeIds /\ entries[p][cur[p]] \in Entry
         /\ record' \in [TradeIds -> Entry \cup {None}]
         /\ \A t \in TradeIds :
              /\ record'[t] # None <=> record[t] # None
              /\ record'[t] # None /\ record'[t].applied =>
                   record[t].applied \/ (t = cur[p] /\ entries[p][t].applied)
<1>1. cur[p] \in TradeIds /\ entries[p][cur[p]] \in Entry
  <2>1. pc[p] \notin {"idle", "scan"}
    BY DEF UpdateMerge, Goto
  <2> QED
    BY <2>1 DEF Frames, TypeOK
<1> DEFINE t == cur[p]
           e == entries[p][t]
           m == [status |-> e.status, applied |-> e.applied \/ record[t].applied,
                 error |-> e.error \/ record[t].error]
<1>2. CASE record[t] = None
  BY <1>1, <1>2 DEF UpdateMerge, TypeOK
<1>3. CASE record[t] # None
  <2>1. m \in Entry /\ (m.applied => e.applied \/ record[t].applied)
    BY <1>1, <1>3 DEF Entry, TypeOK
  <2>2. record' = [record EXCEPT ![t] = m]
    BY <1>3 DEF UpdateMerge, TypeOK
  <2> HIDE DEF m
  <2> QED
    BY <1>1, <1>3, <2>1, <2>2, SettlementAssumption DEF TypeOK
<1> QED
  BY <1>2, <1>3

\* Every step keeps the types.
LEMMA TypeStep ==
  ASSUME TypeOK, Frames, [Next]_vars
  PROVE  TypeOK'
<1> USE SettlementAssumption DEF TypeOK, State, RecordSteps, ApplySteps, UpdateSteps
<1> DEFINE Steps == {"idle"} \cup RecordSteps \cup UpdateSteps
<1> InitState \in State /\ NoEntries \in [TradeIds -> Entry \cup {None}]
  BY DEF InitState, NoEntries
<1>1. ASSUME NEW p \in Procs, Return(p)
      PROVE  /\ pc' \in [Procs -> Steps] /\ syncLock' \in Procs \cup {Free, Orphan}
             /\ cur' \in [Procs -> TradeIds \cup {None}]
             /\ entries' \in [Procs -> [TradeIds -> Entry \cup {None}]]
             /\ todo' \in [Procs -> SUBSET TradeIds]
             /\ asOf' \in [Procs -> Nat] /\ loaded' \in [Procs -> State]
  BY <1>1 DEF Return
<1>2. ASSUME NEW p \in Procs, NEW ok \in BOOLEAN, Answer(p, ok), pc[p] \notin {"idle", "scan"}
      PROVE  /\ pc' \in [Procs -> Steps] /\ syncLock' \in Procs \cup {Free, Orphan}
             /\ stateLock' \in Procs \cup {Free, Orphan}
             /\ cur' \in [Procs -> TradeIds \cup {None}]
             /\ entries' \in [Procs -> [TradeIds -> Entry \cup {None}]]
             /\ todo' \in [Procs -> SUBSET TradeIds]
             /\ asOf' \in [Procs -> Nat] /\ loaded' \in [Procs -> State]
  <2>1. entries' \in [Procs -> [TradeIds -> Entry \cup {None}]]
    BY <1>2, EntryAnswered DEF SameLists
  <2> QED
    BY <1>2, <2>1 DEF Answer
<1>3. ASSUME NEW p \in Procs, NEW st \in JournalStates, cur[p] \in TradeIds, WriteJournal(cur[p], st)
      PROVE  journal' \in [Keys -> JournalEntry \cup {None}]
  BY <1>3 DEF WriteJournal, JournalEntry, Key, Keys
<1>4. CASE UNCHANGED vars
  BY <1>4 DEF vars, files, locals
<1>5. ASSUME NEW p \in Procs, NEW t \in TradeIds, NEW s \in Statuses, RecordBegin(p, t, s) PROVE TypeOK'
  <2>1. [status |-> s, applied |-> FALSE, error |-> FALSE] \in Entry
    BY DEF Entry
  <2> QED
    BY <1>5, <2>1 DEF RecordBegin, Goto, files
<1>6. ASSUME NEW p \in Procs, RecordExisting(p) PROVE TypeOK'
  BY <1>6, <1>1 DEF RecordExisting, files
<1>7. ASSUME NEW p \in Procs, RecordAppend(p) PROVE TypeOK'
  <2>1. cur[p] \in TradeIds
    BY <1>7 DEF RecordAppend, Goto, Frames
  <2> QED
    BY <1>7, <2>1 DEF RecordAppend, Goto, locals
<1>8. ASSUME NEW p \in Procs, RecordEnqueue(p) PROVE TypeOK'
  <2>1. cur[p] \in TradeIds /\ entries[p][cur[p]] \in Entry
    <3>1. pc[p] \notin {"idle", "scan"}
      BY <1>8 DEF RecordEnqueue
    <3> QED
      BY <1>8, <3>1 DEF Frames
  <2>2. pending' \in [TradeIds -> Entry \cup {None}]
    BY <1>8, <2>1, ActiveType DEF RecordEnqueue
  <2>3. CASE Return(p)
    BY <1>8, <2>2, <2>3, <1>1 DEF RecordEnqueue
  <2>4. CASE Goto(p, "enqueue", "count") /\ UNCHANGED <<syncLock, locals>>
    BY <1>8, <2>2, <2>4 DEF RecordEnqueue, Goto, locals
  <2> QED
    BY <1>8, <2>3, <2>4 DEF RecordEnqueue
<1>9. ASSUME NEW p \in Procs, RecordCount(p) PROVE TypeOK'
  <2>1. cur[p] \in TradeIds
    BY <1>9 DEF RecordCount, Frames
  <2> QED
    BY <1>9, <1>1, <2>1 DEF RecordCount
<1>10. ASSUME NEW p \in Procs, NEW d \in Days, UpdateBegin(p, d) PROVE TypeOK'
  BY <1>10 DEF UpdateBegin, Goto, files
<1>11. ASSUME NEW p \in Procs, NEW t \in TradeIds, UpdateNotDue(p, t) PROVE TypeOK'
  <2>1. entries' \in [Procs -> [TradeIds -> Entry \cup {None}]]
    BY <1>11, EntryNotDue DEF SameLists
  <2> QED
    BY <1>11, <2>1 DEF UpdateNotDue, Visit, files
<1>12. ASSUME NEW p \in Procs, NEW t \in TradeIds, UpdateDue(p, t) PROVE TypeOK'
  <2>1. entries' \in [Procs -> [TradeIds -> Entry \cup {None}]]
    BY <1>12, EntryDue DEF SameLists
  <2>2. pc' \in [Procs -> Steps]
    BY <1>12 DEF UpdateDue, Goto
  <2> QED
    BY <1>12, <2>1, <2>2 DEF UpdateDue, Visit, files
<1>13. ASSUME NEW p \in Procs, UpdateMerge(p) PROVE TypeOK'
  BY <1>13, RecordMerged DEF UpdateMerge, Goto, locals
<1>14. ASSUME NEW p \in Procs, UpdateStore(p) PROVE TypeOK'
  BY <1>14, <1>1, ActiveType DEF UpdateStore
<1>15. ASSUME NEW p \in Procs, ApplyLock(p) PROVE TypeOK'
  BY <1>15 DEF ApplyLock, Goto, files
<1>16. ASSUME NEW p \in Procs, ApplyConflict(p) PROVE TypeOK'
  <2>1. cur[p] \in TradeIds
    BY <1>16 DEF ApplyConflict, Frames
  <2>2. journal' \in [Keys -> JournalEntry \cup {None}]
    <3> DEFINE k == Key(cur[p])
               j == [journal[k] EXCEPT !.status = "conflict"]
    <3>1. k \in Keys /\ journal[k] \in JournalEntry
      BY <1>16, <2>1 DEF ApplyConflict, ForeignJournal, Key, Keys
    <3>2. j \in JournalEntry
      BY <3>1 DEF JournalEntry, JournalStates
    <3>3. journal' = [journal EXCEPT ![k] = j]
      BY <1>16 DEF ApplyConflict
    <3> QED
      BY <3>1, <3>2, <3>3
  <2> QED
    BY <1>16, <1>2, <2>2 DEF ApplyConflict
<1>17. ASSUME NEW p \in Procs, ApplyRecover(p) PROVE TypeOK'
  <2>1. cur[p] \in TradeIds
    BY <1>17 DEF ApplyRecover, Goto, Frames
  <2> QED
    BY <1>17, <2>1 DEF ApplyRecover, Goto, locals, Key, Keys
<1>18. ASSUME NEW p \in Procs, ApplyRecovered(p) PROVE TypeOK'
  <2>1. cur[p] \in TradeIds
    BY <1>18 DEF ApplyRecovered, Goto, Frames
  <2> QED
    BY <1>18, <2>1, <1>2, <1>3 DEF ApplyRecovered, JournalStates
<1>19. ASSUME NEW p \in Procs, ApplyPrepare(p) PROVE TypeOK'
  <2>1. cur[p] \in TradeIds
    BY <1>19 DEF ApplyPrepare, Goto, Frames
  <2> QED
    BY <1>19, <2>1, <1>3 DEF ApplyPrepare, Goto, locals, JournalStates
<1>20. ASSUME NEW p \in Procs, ApplyRefuse(p) PROVE TypeOK'
  BY <1>20, <1>2 DEF ApplyRefuse, files
<1>21. ASSUME NEW p \in Procs, ApplyCurrent(p) PROVE TypeOK'
  <2>1. cur[p] \in TradeIds
    BY <1>21 DEF ApplyCurrent, Goto, Frames
  <2>2. Portfolio!AfterSettle(loaded[p].val, Trade[cur[p]]) \in [Funds -> Int]
    BY <2>1, ValueType
  <2> QED
    BY <1>21, <2>1, <2>2 DEF ApplyCurrent, Goto, locals
<1>22. ASSUME NEW p \in Procs, ApplyStateEvent(p) PROVE TypeOK'
  <2>1. cur[p] \in TradeIds
    BY <1>22 DEF ApplyStateEvent, Goto, Frames
  <2> QED
    BY <1>22, <2>1 DEF ApplyStateEvent, Goto, locals, StateKey, StateKeys
<1>23. ASSUME NEW p \in Procs, ApplyJournal(p) PROVE TypeOK'
  <2>1. cur[p] \in TradeIds
    BY <1>23 DEF ApplyJournal, Goto, Frames
  <2> QED
    BY <1>23, <2>1, <1>3 DEF ApplyJournal, Goto, locals, JournalStates
<1>24. ASSUME NEW p \in Procs, ApplyEvent(p) PROVE TypeOK'
  <2>1. cur[p] \in TradeIds
    BY <1>24 DEF ApplyEvent, Goto, Frames
  <2> QED
    BY <1>24, <2>1 DEF ApplyEvent, Goto, locals, Key, Keys
<1>25. ASSUME NEW p \in Procs, ApplyComplete(p) PROVE TypeOK'
  <2>1. cur[p] \in TradeIds
    BY <1>25 DEF ApplyComplete, Goto, Frames
  <2> QED
    BY <1>25, <2>1, <1>2, <1>3 DEF ApplyComplete, JournalStates
<1>26. ASSUME NEW p \in Procs, ApplyFault(p) PROVE TypeOK'
  <2>1. pc[p] \notin {"idle", "scan"} /\ Answer(p, FALSE)
    BY <1>26 DEF ApplyFault
  <2>2. faults' \in 0 .. MaxFaults /\ UNCHANGED files
    BY <1>26 DEF ApplyFault, Fault
  <2> QED
    BY <1>26, <2>1, <2>2, <1>2 DEF files
<1>27. ASSUME NEW p \in Procs, OperationFault(p) PROVE TypeOK'
  BY <1>27, <1>1 DEF OperationFault, Fault, files
<1>28. ASSUME NEW p \in Procs, Crash(p) PROVE TypeOK'
  BY <1>28 DEF Crash, Fault, files
<1>29. CASE BreakSyncLock
  BY <1>29 DEF BreakSyncLock, files, locals
<1>30. CASE BreakStateLock
  BY <1>30 DEF BreakStateLock, files, locals
<1> QED
  BY <1>4, <1>5, <1>6, <1>7, <1>8, <1>9, <1>10, <1>11, <1>12, <1>13, <1>14, <1>15, <1>16, <1>17, <1>18, <1>19, <1>20, <1>21, <1>22, <1>23, <1>24, <1>25, <1>26, <1>27, <1>28, <1>29, <1>30 DEF Next, Record, Update, Apply, Fail

-------------------------------------------------------------------------------
(***************************************************************************)
(* What every process does between two files.                              *)
(***************************************************************************)

\* A lock is taken free and given back by its holder only.
LEMMA LocksStep ==
  ASSUME TypeOK, Locks, [Next]_vars
  PROVE  Locks'
<1> USE SettlementAssumption DEF TypeOK, files, locals, RecordSteps, ApplySteps, UpdateSteps, Locks
<1>1. CASE UNCHANGED vars
  BY <1>1 DEF vars
<1>2. ASSUME NEW p \in Procs, NEW t \in TradeIds, NEW s \in Statuses, RecordBegin(p, t, s) PROVE Locks'
  BY <1>2 DEF RecordBegin, Goto
<1>3. ASSUME NEW p \in Procs, RecordExisting(p) PROVE Locks'
  BY <1>3 DEF RecordExisting, Return
<1>4. ASSUME NEW p \in Procs, RecordAppend(p) PROVE Locks'
  BY <1>4 DEF RecordAppend, Goto
<1>5. ASSUME NEW p \in Procs, RecordEnqueue(p) PROVE Locks'
  BY <1>5 DEF RecordEnqueue, Goto, Return
<1>6. ASSUME NEW p \in Procs, RecordCount(p) PROVE Locks'
  BY <1>6 DEF RecordCount, Return
<1>7. ASSUME NEW p \in Procs, NEW d \in Days, UpdateBegin(p, d) PROVE Locks'
  BY <1>7 DEF UpdateBegin, Goto
<1>8. ASSUME NEW p \in Procs, NEW t \in TradeIds, UpdateNotDue(p, t) PROVE Locks'
  BY <1>8 DEF UpdateNotDue, Visit
<1>9. ASSUME NEW p \in Procs, NEW t \in TradeIds, UpdateDue(p, t) PROVE Locks'
  BY <1>9 DEF UpdateDue, Goto, Visit
<1>10. ASSUME NEW p \in Procs, UpdateMerge(p) PROVE Locks'
  BY <1>10 DEF UpdateMerge, Goto
<1>11. ASSUME NEW p \in Procs, UpdateStore(p) PROVE Locks'
  BY <1>11 DEF UpdateStore, Return
<1>12. ASSUME NEW p \in Procs, ApplyLock(p) PROVE Locks'
  BY <1>12 DEF ApplyLock, Goto
<1>13. ASSUME NEW p \in Procs, ApplyConflict(p) PROVE Locks'
  BY <1>13 DEF ApplyConflict, Answer
<1>14. ASSUME NEW p \in Procs, ApplyRecover(p) PROVE Locks'
  BY <1>14 DEF ApplyRecover, Goto
<1>15. ASSUME NEW p \in Procs, ApplyRecovered(p) PROVE Locks'
  BY <1>15 DEF ApplyRecovered, Answer
<1>16. ASSUME NEW p \in Procs, ApplyPrepare(p) PROVE Locks'
  BY <1>16 DEF ApplyPrepare, Goto
<1>17. ASSUME NEW p \in Procs, ApplyRefuse(p) PROVE Locks'
  BY <1>17 DEF ApplyRefuse, Answer
<1>18. ASSUME NEW p \in Procs, ApplyCurrent(p) PROVE Locks'
  BY <1>18 DEF ApplyCurrent, Goto
<1>19. ASSUME NEW p \in Procs, ApplyStateEvent(p) PROVE Locks'
  BY <1>19 DEF ApplyStateEvent, Goto
<1>20. ASSUME NEW p \in Procs, ApplyJournal(p) PROVE Locks'
  BY <1>20 DEF ApplyJournal, Goto
<1>21. ASSUME NEW p \in Procs, ApplyEvent(p) PROVE Locks'
  BY <1>21 DEF ApplyEvent, Goto
<1>22. ASSUME NEW p \in Procs, ApplyComplete(p) PROVE Locks'
  BY <1>22 DEF ApplyComplete, Answer
<1>23. ASSUME NEW p \in Procs, ApplyFault(p) PROVE Locks'
  BY <1>23 DEF ApplyFault, Answer
<1>24. ASSUME NEW p \in Procs, OperationFault(p) PROVE Locks'
  BY <1>24 DEF OperationFault, Return
<1>25. ASSUME NEW p \in Procs, Crash(p) PROVE Locks'
  BY <1>25 DEF Crash
<1>26. CASE BreakSyncLock
  BY <1>26 DEF BreakSyncLock
<1>27. CASE BreakStateLock
  BY <1>27 DEF BreakStateLock
<1> QED
  BY <1>1, <1>2, <1>3, <1>4, <1>5, <1>6, <1>7, <1>8, <1>9, <1>10, <1>11, <1>12, <1>13, <1>14, <1>15, <1>16, <1>17, <1>18, <1>19, <1>20, <1>21, <1>22, <1>23, <1>24, <1>25, <1>26, <1>27 DEF Next, Record, Update, Apply, Fail

\* A process that leaves "scan" takes a listed trade with it.
LEMMA FramesStep ==
  ASSUME TypeOK, Frames, [Next]_vars
  PROVE  Frames'
<1> USE SettlementAssumption DEF TypeOK, files, locals, RecordSteps, ApplySteps, UpdateSteps, Frames, NoEntries
<1>1. CASE UNCHANGED vars
  BY <1>1 DEF vars
<1>2. ASSUME NEW p \in Procs, NEW t \in TradeIds, NEW s \in Statuses, RecordBegin(p, t, s) PROVE Frames'
  <2>1. [status |-> s, applied |-> FALSE, error |-> FALSE] \in Entry
    BY DEF Entry
  <2> QED
    BY <1>2, <2>1 DEF RecordBegin, Goto
<1>3. ASSUME NEW p \in Procs, RecordExisting(p) PROVE Frames'
  BY <1>3 DEF RecordExisting, Return
<1>4. ASSUME NEW p \in Procs, RecordAppend(p) PROVE Frames'
  BY <1>4 DEF RecordAppend, Goto
<1>5. ASSUME NEW p \in Procs, RecordEnqueue(p) PROVE Frames'
  <2>1. CASE Return(p)
    BY <1>5, <2>1 DEF Return
  <2>2. CASE Goto(p, "enqueue", "count") /\ UNCHANGED <<syncLock, locals>>
    BY <1>5, <2>2 DEF Goto
  <2> QED
    BY <1>5, <2>1, <2>2 DEF RecordEnqueue
<1>6. ASSUME NEW p \in Procs, RecordCount(p) PROVE Frames'
  BY <1>6 DEF RecordCount, Return
<1>7. ASSUME NEW p \in Procs, NEW d \in Days, UpdateBegin(p, d) PROVE Frames'
  BY <1>7 DEF UpdateBegin, Goto
<1>8. ASSUME NEW p \in Procs, NEW t \in TradeIds, UpdateNotDue(p, t) PROVE Frames'
  <2>1. SameLists
    BY <1>8, EntryNotDue
  <2> QED
    BY <1>8, <2>1 DEF UpdateNotDue, Visit, SameLists
<1>9. ASSUME NEW p \in Procs, NEW t \in TradeIds, UpdateDue(p, t) PROVE Frames'
  <2>1. SameLists
    BY <1>9, EntryDue
  <2> QED
    BY <1>9, <2>1 DEF UpdateDue, Goto, Visit, SameLists
<1>10. ASSUME NEW p \in Procs, UpdateMerge(p) PROVE Frames'
  BY <1>10 DEF UpdateMerge, Goto
<1>11. ASSUME NEW p \in Procs, UpdateStore(p) PROVE Frames'
  BY <1>11 DEF UpdateStore, Return
<1>12. ASSUME NEW p \in Procs, ApplyLock(p) PROVE Frames'
  BY <1>12 DEF ApplyLock, Goto
<1>13. ASSUME NEW p \in Procs, ApplyConflict(p) PROVE Frames'
  <2>1. pc[p] \notin {"idle", "scan"} /\ \E ok \in BOOLEAN : Answer(p, ok)
    BY <1>13 DEF ApplyConflict
  <2>2. SameLists
    BY <2>1, EntryAnswered
  <2> QED
    BY <1>13, <2>1, <2>2 DEF Answer, SameLists
<1>14. ASSUME NEW p \in Procs, ApplyRecover(p) PROVE Frames'
  BY <1>14 DEF ApplyRecover, Goto
<1>15. ASSUME NEW p \in Procs, ApplyRecovered(p) PROVE Frames'
  <2>1. pc[p] \notin {"idle", "scan"} /\ \E ok \in BOOLEAN : Answer(p, ok)
    BY <1>15 DEF ApplyRecovered
  <2>2. SameLists
    BY <2>1, EntryAnswered
  <2> QED
    BY <1>15, <2>1, <2>2 DEF Answer, SameLists
<1>16. ASSUME NEW p \in Procs, ApplyPrepare(p) PROVE Frames'
  BY <1>16 DEF ApplyPrepare, Goto
<1>17. ASSUME NEW p \in Procs, ApplyRefuse(p) PROVE Frames'
  <2>1. pc[p] \notin {"idle", "scan"} /\ \E ok \in BOOLEAN : Answer(p, ok)
    BY <1>17 DEF ApplyRefuse
  <2>2. SameLists
    BY <2>1, EntryAnswered
  <2> QED
    BY <1>17, <2>1, <2>2 DEF Answer, SameLists
<1>18. ASSUME NEW p \in Procs, ApplyCurrent(p) PROVE Frames'
  BY <1>18 DEF ApplyCurrent, Goto
<1>19. ASSUME NEW p \in Procs, ApplyStateEvent(p) PROVE Frames'
  BY <1>19 DEF ApplyStateEvent, Goto
<1>20. ASSUME NEW p \in Procs, ApplyJournal(p) PROVE Frames'
  BY <1>20 DEF ApplyJournal, Goto
<1>21. ASSUME NEW p \in Procs, ApplyEvent(p) PROVE Frames'
  BY <1>21 DEF ApplyEvent, Goto
<1>22. ASSUME NEW p \in Procs, ApplyComplete(p) PROVE Frames'
  <2>1. pc[p] \notin {"idle", "scan"} /\ \E ok \in BOOLEAN : Answer(p, ok)
    BY <1>22 DEF ApplyComplete
  <2>2. SameLists
    BY <2>1, EntryAnswered
  <2> QED
    BY <1>22, <2>1, <2>2 DEF Answer, SameLists
<1>23. ASSUME NEW p \in Procs, ApplyFault(p) PROVE Frames'
  <2>1. pc[p] \notin {"idle", "scan"} /\ \E ok \in BOOLEAN : Answer(p, ok)
    BY <1>23 DEF ApplyFault
  <2>2. SameLists
    BY <2>1, EntryAnswered
  <2> QED
    BY <1>23, <2>1, <2>2 DEF Answer, SameLists
<1>24. ASSUME NEW p \in Procs, OperationFault(p) PROVE Frames'
  BY <1>24 DEF OperationFault, Return
<1>25. ASSUME NEW p \in Procs, Crash(p) PROVE Frames'
  BY <1>25 DEF Crash
<1>26. CASE BreakSyncLock
  BY <1>26 DEF BreakSyncLock
<1>27. CASE BreakStateLock
  BY <1>27 DEF BreakStateLock
<1> QED
  BY <1>1, <1>2, <1>3, <1>4, <1>5, <1>6, <1>7, <1>8, <1>9, <1>10, <1>11, <1>12, <1>13, <1>14, <1>15, <1>16, <1>17, <1>18, <1>19, <1>20, <1>21, <1>22, <1>23, <1>24, <1>25, <1>26, <1>27 DEF Next, Record, Update, Apply, Fail

\* A step that brings up a trade finds it on file; nothing is taken off file.
LEMMA FiledStep ==
  ASSUME TypeOK, Frames, Filed, Fresh, [Next]_vars
  PROVE  Filed'
<1> USE SettlementAssumption DEF TypeOK, files, locals, RecordSteps, ApplySteps, UpdateSteps, Filed, NoEntries, State
<1>1. CASE UNCHANGED vars
  BY <1>1 DEF vars
<1>2. ASSUME NEW p \in Procs, NEW t \in TradeIds, NEW s \in Statuses, RecordBegin(p, t, s) PROVE Filed'
  BY <1>2 DEF RecordBegin, Goto
<1>3. ASSUME NEW p \in Procs, RecordExisting(p) PROVE Filed'
  BY <1>3 DEF RecordExisting, Return
<1>4. ASSUME NEW p \in Procs, RecordAppend(p) PROVE Filed'
  <2>1. entries[p][cur[p]] # None /\ cur[p] \in TradeIds
    BY <1>4 DEF RecordAppend, Goto, Frames
  <2> QED
    BY <1>4, <2>1 DEF RecordAppend, Goto
<1>5. ASSUME NEW p \in Procs, RecordEnqueue(p) PROVE Filed'
  <2>1. CASE Return(p)
    BY <1>5, <2>1 DEF Return, RecordEnqueue, Active, Frames
  <2>2. CASE Goto(p, "enqueue", "count") /\ UNCHANGED <<syncLock, locals>>
    BY <1>5, <2>2 DEF Goto, RecordEnqueue, Active, Frames
  <2> QED
    BY <1>5, <2>1, <2>2 DEF RecordEnqueue
<1>6. ASSUME NEW p \in Procs, RecordCount(p) PROVE Filed'
  BY <1>6 DEF RecordCount, Return
<1>7. ASSUME NEW p \in Procs, NEW d \in Days, UpdateBegin(p, d) PROVE Filed'
  BY <1>7 DEF UpdateBegin, Goto
<1>8. ASSUME NEW p \in Procs, NEW t \in TradeIds, UpdateNotDue(p, t) PROVE Filed'
  <2>1. SameLists
    BY <1>8, EntryNotDue
  <2> QED
    BY <1>8, <2>1 DEF UpdateNotDue, Visit, SameLists
<1>9. ASSUME NEW p \in Procs, NEW t \in TradeIds, UpdateDue(p, t) PROVE Filed'
  <2>1. SameLists
    BY <1>9, EntryDue
  <2> QED
    BY <1>9, <2>1 DEF UpdateDue, Goto, Visit, SameLists
<1>10. ASSUME NEW p \in Procs, UpdateMerge(p) PROVE Filed'
  <2>1. \A t \in TradeIds : record'[t] # None <=> record[t] # None
    BY <1>10, RecordMerged
  <2> QED
    BY <1>10, <2>1 DEF UpdateMerge, Goto
<1>11. ASSUME NEW p \in Procs, UpdateStore(p) PROVE Filed'
  BY <1>11 DEF UpdateStore, Return, Active
<1>12. ASSUME NEW p \in Procs, ApplyLock(p) PROVE Filed'
  BY <1>12 DEF ApplyLock, Goto
<1>13. ASSUME NEW p \in Procs, ApplyConflict(p) PROVE Filed'
  <2>1. pc[p] \notin {"idle", "scan", "append"} /\ \E ok \in BOOLEAN : Answer(p, ok)
    BY <1>13 DEF ApplyConflict
  <2>2. SameLists
    BY <2>1, EntryAnswered
  <2> QED
    BY <1>13, <2>1, <2>2 DEF ApplyConflict, Answer, SameLists
<1>14. ASSUME NEW p \in Procs, ApplyRecover(p) PROVE Filed'
  BY <1>14 DEF ApplyRecover, Goto
<1>15. ASSUME NEW p \in Procs, ApplyRecovered(p) PROVE Filed'
  <2>1. pc[p] \notin {"idle", "scan", "append"} /\ \E ok \in BOOLEAN : Answer(p, ok)
    BY <1>15 DEF ApplyRecovered
  <2>2. SameLists
    BY <2>1, EntryAnswered
  <2> QED
    BY <1>15, <2>1, <2>2 DEF ApplyRecovered, Answer, SameLists
<1>16. ASSUME NEW p \in Procs, ApplyPrepare(p) PROVE Filed'
  BY <1>16 DEF ApplyPrepare, Goto
<1>17. ASSUME NEW p \in Procs, ApplyRefuse(p) PROVE Filed'
  <2>1. pc[p] \notin {"idle", "scan", "append"} /\ \E ok \in BOOLEAN : Answer(p, ok)
    BY <1>17 DEF ApplyRefuse
  <2>2. SameLists
    BY <2>1, EntryAnswered
  <2> QED
    BY <1>17, <2>1, <2>2 DEF ApplyRefuse, Answer, SameLists
<1>18. ASSUME NEW p \in Procs, ApplyCurrent(p) PROVE Filed'
  <2>1. current'.ids = current.ids \cup {cur[p]} /\ record[cur[p]] # None /\ cur[p] \in TradeIds
    BY <1>18 DEF ApplyCurrent, Goto, Fresh, Frames
  <2> QED
    BY <1>18, <2>1 DEF ApplyCurrent, Goto
<1>19. ASSUME NEW p \in Procs, ApplyStateEvent(p) PROVE Filed'
  BY <1>19 DEF ApplyStateEvent, Goto
<1>20. ASSUME NEW p \in Procs, ApplyJournal(p) PROVE Filed'
  BY <1>20 DEF ApplyJournal, Goto
<1>21. ASSUME NEW p \in Procs, ApplyEvent(p) PROVE Filed'
  BY <1>21 DEF ApplyEvent, Goto
<1>22. ASSUME NEW p \in Procs, ApplyComplete(p) PROVE Filed'
  <2>1. pc[p] \notin {"idle", "scan", "append"} /\ \E ok \in BOOLEAN : Answer(p, ok)
    BY <1>22 DEF ApplyComplete
  <2>2. SameLists
    BY <2>1, EntryAnswered
  <2> QED
    BY <1>22, <2>1, <2>2 DEF ApplyComplete, Answer, SameLists
<1>23. ASSUME NEW p \in Procs, ApplyFault(p) PROVE Filed'
  <2>1. pc[p] \notin {"idle", "scan", "append"} /\ \E ok \in BOOLEAN : Answer(p, ok)
    BY <1>23 DEF ApplyFault
  <2>2. SameLists
    BY <2>1, EntryAnswered
  <2> QED
    BY <1>23, <2>1, <2>2 DEF ApplyFault, Answer, SameLists
<1>24. ASSUME NEW p \in Procs, OperationFault(p) PROVE Filed'
  BY <1>24 DEF OperationFault, Return
<1>25. ASSUME NEW p \in Procs, Crash(p) PROVE Filed'
  BY <1>25 DEF Crash
<1>26. CASE BreakSyncLock
  BY <1>26 DEF BreakSyncLock
<1>27. CASE BreakStateLock
  BY <1>27 DEF BreakStateLock
<1> QED
  BY <1>1, <1>2, <1>3, <1>4, <1>5, <1>6, <1>7, <1>8, <1>9, <1>10, <1>11, <1>12, <1>13, <1>14, <1>15, <1>16, <1>17, <1>18, <1>19, <1>20, <1>21, <1>22, <1>23, <1>24, <1>25, <1>26, <1>27 DEF Next, Record, Update, Apply, Fail

\* A trade whose lifecycle says settled has reached its dates.
LEMMA SettledIsDue ==
  ASSUME NEW t \in TradeIds, NEW d \in Nat, LifecycleStatus(Trade[t], d) = "settled"
  PROVE  Due(t, d)
<1>1. Trade[t].confirmDay \in Nat /\ Trade[t].settleDay \in Nat
  BY SettlementAssumption DEF Payload
<1> QED
  BY <1>1 DEF LifecycleStatus, Due

\* The portfolio a settlement read stays the current one under the lock.
LEMMA FreshStep ==
  ASSUME TypeOK, Locks, Frames, Fresh, [Next]_vars
  PROVE  Fresh'
<1> USE SettlementAssumption DEF TypeOK, files, locals, RecordSteps, ApplySteps, UpdateSteps, Locks, Fresh
<1>1. CASE UNCHANGED vars
  BY <1>1 DEF vars
<1>2. ASSUME NEW p \in Procs, NEW t \in TradeIds, NEW s \in Statuses, RecordBegin(p, t, s) PROVE Fresh'
  BY <1>2 DEF RecordBegin, Goto
<1>3. ASSUME NEW p \in Procs, RecordExisting(p) PROVE Fresh'
  BY <1>3 DEF RecordExisting, Return
<1>4. ASSUME NEW p \in Procs, RecordAppend(p) PROVE Fresh'
  BY <1>4 DEF RecordAppend, Goto
<1>5. ASSUME NEW p \in Procs, RecordEnqueue(p) PROVE Fresh'
  BY <1>5 DEF RecordEnqueue, Goto, Return
<1>6. ASSUME NEW p \in Procs, RecordCount(p) PROVE Fresh'
  BY <1>6 DEF RecordCount, Return
<1>7. ASSUME NEW p \in Procs, NEW d \in Days, UpdateBegin(p, d) PROVE Fresh'
  BY <1>7 DEF UpdateBegin, Goto
<1>8. ASSUME NEW p \in Procs, NEW t \in TradeIds, UpdateNotDue(p, t) PROVE Fresh'
  BY <1>8 DEF UpdateNotDue, Visit
<1>9. ASSUME NEW p \in Procs, NEW t \in TradeIds, UpdateDue(p, t) PROVE Fresh'
  <2>1. t \in TradeIds /\ Due(t, asOf[p])
    BY <1>9, SettledIsDue DEF UpdateDue, Visit
  <2> QED
    BY <1>9, <2>1 DEF UpdateDue, Goto, Visit
<1>10. ASSUME NEW p \in Procs, UpdateMerge(p) PROVE Fresh'
  BY <1>10 DEF UpdateMerge, Goto
<1>11. ASSUME NEW p \in Procs, UpdateStore(p) PROVE Fresh'
  BY <1>11 DEF UpdateStore, Return
<1>12. ASSUME NEW p \in Procs, ApplyLock(p) PROVE Fresh'
  BY <1>12 DEF ApplyLock, Goto
<1>13. ASSUME NEW p \in Procs, ApplyConflict(p) PROVE Fresh'
  BY <1>13 DEF ApplyConflict, Answer
<1>14. ASSUME NEW p \in Procs, ApplyRecover(p) PROVE Fresh'
  BY <1>14 DEF ApplyRecover, Goto
<1>15. ASSUME NEW p \in Procs, ApplyRecovered(p) PROVE Fresh'
  BY <1>15 DEF ApplyRecovered, Answer
<1>16. ASSUME NEW p \in Procs, ApplyPrepare(p) PROVE Fresh'
  <2>1. cur[p] \notin current.ids
    BY <1>16 DEF ApplyPrepare, Goto, AlreadyApplied
  <2> QED
    BY <1>16, <2>1 DEF ApplyPrepare, Goto
<1>17. ASSUME NEW p \in Procs, ApplyRefuse(p) PROVE Fresh'
  BY <1>17 DEF ApplyRefuse, Answer
<1>18. ASSUME NEW p \in Procs, ApplyCurrent(p) PROVE Fresh'
  BY <1>18 DEF ApplyCurrent, Goto
<1>19. ASSUME NEW p \in Procs, ApplyStateEvent(p) PROVE Fresh'
  BY <1>19 DEF ApplyStateEvent, Goto
<1>20. ASSUME NEW p \in Procs, ApplyJournal(p) PROVE Fresh'
  BY <1>20 DEF ApplyJournal, Goto
<1>21. ASSUME NEW p \in Procs, ApplyEvent(p) PROVE Fresh'
  BY <1>21 DEF ApplyEvent, Goto
<1>22. ASSUME NEW p \in Procs, ApplyComplete(p) PROVE Fresh'
  BY <1>22 DEF ApplyComplete, Answer
<1>23. ASSUME NEW p \in Procs, ApplyFault(p) PROVE Fresh'
  BY <1>23 DEF ApplyFault, Answer
<1>24. ASSUME NEW p \in Procs, OperationFault(p) PROVE Fresh'
  BY <1>24 DEF OperationFault, Return
<1>25. ASSUME NEW p \in Procs, Crash(p) PROVE Fresh'
  BY <1>25 DEF Crash
<1>26. CASE BreakSyncLock
  BY <1>26 DEF BreakSyncLock
<1>27. CASE BreakStateLock
  BY <1>27 DEF BreakStateLock
<1> QED
  BY <1>1, <1>2, <1>3, <1>4, <1>5, <1>6, <1>7, <1>8, <1>9, <1>10, <1>11, <1>12, <1>13, <1>14, <1>15, <1>16, <1>17, <1>18, <1>19, <1>20, <1>21, <1>22, <1>23, <1>24, <1>25, <1>26, <1>27 DEF Next, Record, Update, Apply, Fail

\* Only one action replaces the values and the ids of the portfolio.
LEMMA CurrentChanges ==
  ASSUME [Next]_vars, current' # current
  PROVE  \E p \in Procs : ApplyCurrent(p)
<1> USE DEF files
<1>1. ASSUME NEW p \in Procs, Record(p) PROVE UNCHANGED current
  BY <1>1 DEF Record, RecordBegin, RecordExisting, RecordAppend, RecordEnqueue, RecordCount
<1>2. ASSUME NEW p \in Procs, Update(p) PROVE UNCHANGED current
  BY <1>2 DEF Update, UpdateBegin, UpdateNotDue, UpdateDue, UpdateMerge, UpdateStore
<1>3. ASSUME NEW p \in Procs, Apply(p) PROVE UNCHANGED current \/ ApplyCurrent(p)
  BY <1>3 DEF Apply, ApplyLock, ApplyConflict, ApplyRecover, ApplyRecovered, ApplyPrepare,
              ApplyRefuse, ApplyStateEvent, ApplyJournal, ApplyEvent, ApplyComplete
<1>4. ASSUME NEW p \in Procs, Fail(p) PROVE UNCHANGED current
  BY <1>4 DEF Fail, ApplyFault, OperationFault, Crash
<1>5. BreakSyncLock \/ BreakStateLock \/ UNCHANGED vars => UNCHANGED current
  BY DEF BreakSyncLock, BreakStateLock, vars
<1> QED
  BY <1>1, <1>2, <1>3, <1>4, <1>5 DEF Next

\* ids only grows, and by the trade in hand.
LEMMA IdsGrow ==
  ASSUME Fresh, NEW p \in Procs, ApplyCurrent(p)
  PROVE  current'.ids = current.ids \cup {cur[p]} /\ current'.last = cur[p]
  BY DEF ApplyCurrent, Goto, Fresh

\* What is in the portfolio is accounted for, with all that is confused with it,
\* and stays so.
LEMMA ToldSettled == ASSUME TypeOK PROVE current.ids \subseteq Told
  BY DEF TypeOK, State, Told, Accounted

LEMMA ToldSpreads ==
  ASSUME NEW t \in TradeIds, NEW u \in Told, Confused(t, u)
  PROVE  t \in Told
<1> SUFFICES ASSUME NEW some \in SUBSET TradeIds, t \in some,
                    \A v \in some, w \in TradeIds : Confused(v, w) => w \in some
             PROVE  some \cap current.ids # {}
  BY DEF Told, Accounted
<1>1. u \in TradeIds /\ Accounted(u)
  BY DEF Told
<1>2. u \in some
  BY <1>1
<1> QED
  BY <1>1, <1>2 DEF Accounted

LEMMA ToldGrows == ASSUME Fresh, [Next]_vars PROVE Told \subseteq Told'
<1>1. current.ids \subseteq current'.ids
  <2>1. CASE current' = current
    BY <2>1
  <2>2. CASE current' # current
    BY <2>2, CurrentChanges, IdsGrow
  <2> QED
    BY <2>1, <2>2
<1>2. ASSUME NEW t \in TradeIds, Accounted(t) PROVE Accounted(t)'
  <2> SUFFICES ASSUME NEW some \in SUBSET TradeIds, t \in some,
                      \A v \in some, w \in TradeIds : Confused(v, w) => w \in some
               PROVE  some \cap current'.ids # {}
    BY DEF Accounted, Confused, Key, StateKey
  <2>1. some \cap current.ids # {}
    BY <1>2 DEF Accounted
  <2> QED
    BY <1>1, <2>1
<1> QED
  BY <1>2 DEF Told

\* The tests of _portfolio_has_settlement find nothing but settled trades.
LEMMA AppliedIsSettled ==
  ASSUME TypeOK, Knows, Claims, NEW p \in Procs, NEW t \in TradeIds,
         entries[p][t] # None, AlreadyApplied(entries[p][t], t, current)
  PROVE  t \in Told
  BY SettlementAssumption, ToldSettled DEF AlreadyApplied, Knows, Claims

\* What a process knows of its trades stays true.
LEMMA KnowsStep ==
  ASSUME TypeOK, Frames, Fresh, Filed, Claims, Knows, [Next]_vars
  PROVE  Knows'
<1> USE SettlementAssumption DEF TypeOK, files, locals, RecordSteps, ApplySteps, UpdateSteps, Knows, NoEntries
<1>0. Told \subseteq Told' /\ current.ids \subseteq Told /\ Told \subseteq TradeIds
  BY ToldGrows, ToldSettled DEF Told
<1> USE <1>0
<1>1. CASE UNCHANGED vars
  BY <1>1 DEF vars
<1>2. ASSUME NEW p \in Procs, NEW t \in TradeIds, NEW s \in Statuses, RecordBegin(p, t, s) PROVE Knows'
  BY <1>2 DEF RecordBegin, Goto
<1>3. ASSUME NEW p \in Procs, RecordExisting(p) PROVE Knows'
  BY <1>3 DEF RecordExisting, Return
<1>4. ASSUME NEW p \in Procs, RecordAppend(p) PROVE Knows'
  BY <1>4 DEF RecordAppend, Goto
<1>5. ASSUME NEW p \in Procs, RecordEnqueue(p) PROVE Knows'
  BY <1>5 DEF RecordEnqueue, Goto, Return
<1>6. ASSUME NEW p \in Procs, RecordCount(p) PROVE Knows'
  BY <1>6 DEF RecordCount, Return
<1>7. ASSUME NEW p \in Procs, NEW d \in Days, UpdateBegin(p, d) PROVE Knows'
  <2>1. \A t \in TradeIds : pending[t] # None /\ pending[t].applied => t \in Told
    BY DEF Claims
  <2> QED
    BY <1>7, <2>1 DEF UpdateBegin, Goto
<1>8. ASSUME NEW p \in Procs, NEW t \in TradeIds, UpdateNotDue(p, t) PROVE Knows'
  <2>1. \E e \in Entry :
              /\ entries' = [entries EXCEPT ![p] = [entries[p] EXCEPT ![t] = e]]
              /\ e.applied => entries[p][t].applied
    BY <1>8, EntryNotDue
  <2>2. entries[p][t] \in Entry /\ (Key(t) \in event => t \in Told)
    BY <1>8, EntryNotDue DEF Claims
  <2> QED
    BY <1>8, <2>1, <2>2 DEF UpdateNotDue, Visit
<1>9. ASSUME NEW p \in Procs, NEW t \in TradeIds, UpdateDue(p, t) PROVE Knows'
  <2>1. \E e \in Entry :
              /\ entries' = [entries EXCEPT ![p] = [entries[p] EXCEPT ![t] = e]]
              /\ e.applied => entries[p][t].applied \/ Key(t) \in event
    BY <1>9, EntryDue
  <2>2. entries[p][t] \in Entry /\ (Key(t) \in event => t \in Told)
    BY <1>9, EntryDue DEF Claims
  <2> QED
    BY <1>9, <2>1, <2>2 DEF UpdateDue, Goto, Visit
<1>10. ASSUME NEW p \in Procs, UpdateMerge(p) PROVE Knows'
  BY <1>10 DEF UpdateMerge, Goto
<1>11. ASSUME NEW p \in Procs, UpdateStore(p) PROVE Knows'
  BY <1>11 DEF UpdateStore, Return
<1>12. ASSUME NEW p \in Procs, ApplyLock(p) PROVE Knows'
  BY <1>12 DEF ApplyLock, Goto
<1>13. ASSUME NEW p \in Procs, ApplyConflict(p) PROVE Knows'
  <2>1. pc[p] \notin {"idle", "scan"} /\ Answer(p, FALSE)
    BY <1>13 DEF ApplyConflict
  <2>2. PICK e \in Entry :
              /\ entries' = [entries EXCEPT ![p] = [entries[p] EXCEPT ![cur[p]] = e]]
              /\ e.applied => entries[p][cur[p]].applied \/ FALSE
    BY <1>13, <2>1, EntryAnswered
  <2>3. cur[p] \in TradeIds /\ entries[p][cur[p]] # None
    BY <1>13, <2>1 DEF Frames
  <2>4. pc' = [pc EXCEPT ![p] = "merge"] /\ UNCHANGED <<cur, current>>
    BY <1>13 DEF ApplyConflict, Answer
  <2>5. e.applied => cur[p] \in Told
    BY <1>13, <2>2, <2>3 DEF ApplyConflict
  <2> QED
    BY <1>13, <2>2, <2>3, <2>4, <2>5
<1>14. ASSUME NEW p \in Procs, ApplyRecover(p) PROVE Knows'
  <2>1. cur[p] \in Told
    <3>1. loaded[p] = current /\ cur[p] \in TradeIds /\ entries[p][cur[p]] # None
      BY <1>14 DEF ApplyRecover, Goto, Frames, Fresh
    <3>2. AlreadyApplied(entries[p][cur[p]], cur[p], current)
      BY <1>14, <3>1 DEF ApplyRecover
    <3> QED
      BY <1>14, <3>1, <3>2, AppliedIsSettled
  <2> QED
    BY <1>14, <2>1 DEF ApplyRecover, Goto
<1>15. ASSUME NEW p \in Procs, ApplyRecovered(p) PROVE Knows'
  <2>1. pc[p] \notin {"idle", "scan"} /\ Answer(p, TRUE)
    BY <1>15 DEF ApplyRecovered
  <2>2. PICK e \in Entry :
              /\ entries' = [entries EXCEPT ![p] = [entries[p] EXCEPT ![cur[p]] = e]]
              /\ e.applied => entries[p][cur[p]].applied \/ TRUE
    BY <1>15, <2>1, EntryAnswered
  <2>3. cur[p] \in TradeIds /\ entries[p][cur[p]] # None
    BY <1>15, <2>1 DEF Frames
  <2>4. pc' = [pc EXCEPT ![p] = "merge"] /\ UNCHANGED <<cur, current>>
    BY <1>15 DEF ApplyRecovered, Answer
  <2>5. e.applied => cur[p] \in Told
    BY <1>15, <2>2, <2>3 DEF ApplyRecovered
  <2> QED
    BY <1>15, <2>2, <2>3, <2>4, <2>5
<1>16. ASSUME NEW p \in Procs, ApplyPrepare(p) PROVE Knows'
  BY <1>16 DEF ApplyPrepare, Goto
<1>17. ASSUME NEW p \in Procs, ApplyRefuse(p) PROVE Knows'
  <2>1. pc[p] \notin {"idle", "scan"} /\ Answer(p, FALSE)
    BY <1>17 DEF ApplyRefuse
  <2>2. PICK e \in Entry :
              /\ entries' = [entries EXCEPT ![p] = [entries[p] EXCEPT ![cur[p]] = e]]
              /\ e.applied => entries[p][cur[p]].applied \/ FALSE
    BY <1>17, <2>1, EntryAnswered
  <2>3. cur[p] \in TradeIds /\ entries[p][cur[p]] # None
    BY <1>17, <2>1 DEF Frames
  <2>4. pc' = [pc EXCEPT ![p] = "merge"] /\ UNCHANGED <<cur, current>>
    BY <1>17 DEF ApplyRefuse, Answer
  <2>5. e.applied => cur[p] \in Told
    BY <1>17, <2>2, <2>3 DEF ApplyRefuse
  <2> QED
    BY <1>17, <2>2, <2>3, <2>4, <2>5
<1>18. ASSUME NEW p \in Procs, ApplyCurrent(p) PROVE Knows'
  <2>1. cur[p] \in TradeIds /\ pc' = [pc EXCEPT ![p] = "stateEvent"] /\ UNCHANGED <<cur, entries>>
    BY <1>18 DEF ApplyCurrent, Goto, Frames
  <2>2. current'.ids = current.ids \cup {cur[p]} /\ current'.last = cur[p]
    BY <1>18, IdsGrow
  <2>3. cur[p] \in Told'
    BY <2>1, <2>2 DEF Told, Accounted
  <2> QED
    BY <2>1, <2>2, <2>3
<1>19. ASSUME NEW p \in Procs, ApplyStateEvent(p) PROVE Knows'
  BY <1>19 DEF ApplyStateEvent, Goto
<1>20. ASSUME NEW p \in Procs, ApplyJournal(p) PROVE Knows'
  BY <1>20 DEF ApplyJournal, Goto
<1>21. ASSUME NEW p \in Procs, ApplyEvent(p) PROVE Knows'
  BY <1>21 DEF ApplyEvent, Goto
<1>22. ASSUME NEW p \in Procs, ApplyComplete(p) PROVE Knows'
  <2>1. pc[p] \notin {"idle", "scan"} /\ Answer(p, TRUE)
    BY <1>22 DEF ApplyComplete
  <2>2. PICK e \in Entry :
              /\ entries' = [entries EXCEPT ![p] = [entries[p] EXCEPT ![cur[p]] = e]]
              /\ e.applied => entries[p][cur[p]].applied \/ TRUE
    BY <1>22, <2>1, EntryAnswered
  <2>3. cur[p] \in TradeIds /\ entries[p][cur[p]] # None
    BY <1>22, <2>1 DEF Frames
  <2>4. pc' = [pc EXCEPT ![p] = "merge"] /\ UNCHANGED <<cur, current>>
    BY <1>22 DEF ApplyComplete, Answer
  <2>5. e.applied => cur[p] \in Told
    BY <1>22, <2>2, <2>3 DEF ApplyComplete
  <2> QED
    BY <1>22, <2>2, <2>3, <2>4, <2>5
<1>23. ASSUME NEW p \in Procs, ApplyFault(p) PROVE Knows'
  <2>1. pc[p] \notin {"idle", "scan"} /\ Answer(p, FALSE)
    BY <1>23 DEF ApplyFault
  <2>2. PICK e \in Entry :
              /\ entries' = [entries EXCEPT ![p] = [entries[p] EXCEPT ![cur[p]] = e]]
              /\ e.applied => entries[p][cur[p]].applied \/ FALSE
    BY <1>23, <2>1, EntryAnswered
  <2>3. cur[p] \in TradeIds /\ entries[p][cur[p]] # None
    BY <1>23, <2>1 DEF Frames
  <2>4. pc' = [pc EXCEPT ![p] = "merge"] /\ UNCHANGED <<cur, current>>
    BY <1>23 DEF ApplyFault, Answer
  <2>5. e.applied => cur[p] \in Told
    BY <1>23, <2>2, <2>3 DEF ApplyFault
  <2> QED
    BY <1>23, <2>2, <2>3, <2>4, <2>5
<1>24. ASSUME NEW p \in Procs, OperationFault(p) PROVE Knows'
  BY <1>24 DEF OperationFault, Return
<1>25. ASSUME NEW p \in Procs, Crash(p) PROVE Knows'
  BY <1>25 DEF Crash
<1>26. CASE BreakSyncLock
  BY <1>26 DEF BreakSyncLock
<1>27. CASE BreakStateLock
  BY <1>27 DEF BreakStateLock
<1> QED
  BY <1>1, <1>2, <1>3, <1>4, <1>5, <1>6, <1>7, <1>8, <1>9, <1>10, <1>11, <1>12, <1>13, <1>14, <1>15, <1>16, <1>17, <1>18, <1>19, <1>20, <1>21, <1>22, <1>23, <1>24, <1>25, <1>26, <1>27 DEF Next, Record, Update, Apply, Fail

\* A claim is written only for a trade in the portfolio.
LEMMA ClaimsStep ==
  ASSUME TypeOK, Frames, Fresh, Knows, Claims, [Next]_vars
  PROVE  Claims'
<1> USE SettlementAssumption DEF TypeOK, files, locals, RecordSteps, ApplySteps, UpdateSteps
<1>0. Told \subseteq Told' /\ current.ids \subseteq Told /\ Told \subseteq TradeIds
  BY ToldGrows, ToldSettled DEF Told
<1> USE <1>0
<1>1. CASE UNCHANGED vars
  BY <1>1 DEF vars, Claims
<1>2. ASSUME NEW p \in Procs, NEW t \in TradeIds, NEW s \in Statuses, RecordBegin(p, t, s) PROVE Claims'
  BY <1>2 DEF RecordBegin, Goto, Claims
<1>3. ASSUME NEW p \in Procs, RecordExisting(p) PROVE Claims'
  BY <1>3 DEF RecordExisting, Return, Claims
<1>4. ASSUME NEW p \in Procs, RecordAppend(p) PROVE Claims'
  <2>1. entries[p][cur[p]] # None /\ cur[p] \in TradeIds
    BY <1>4 DEF RecordAppend, Goto, Frames
  <2> QED
    BY <1>4, <2>1 DEF RecordAppend, Knows, Claims
<1>5. ASSUME NEW p \in Procs, RecordEnqueue(p) PROVE Claims'
  <2>1. \A t \in TradeIds : pending'[t] # None /\ pending'[t].applied => t \in Told
    <3>1. entries[p][cur[p]] # None /\ cur[p] \in TradeIds
      <4>1. pc[p] = "enqueue"
        BY <1>5 DEF RecordEnqueue
      <4> QED
        BY <1>5, <4>1 DEF Frames
    <3> QED
      BY <1>5, <3>1 DEF RecordEnqueue, Active, Knows, Claims
  <2>2. UNCHANGED <<record, journal, event, stateEvent, current>>
    BY <1>5 DEF RecordEnqueue
  <2> QED
    BY <2>1, <2>2 DEF Claims
<1>6. ASSUME NEW p \in Procs, RecordCount(p) PROVE Claims'
  BY <1>6 DEF RecordCount, Return, Claims
<1>7. ASSUME NEW p \in Procs, NEW d \in Days, UpdateBegin(p, d) PROVE Claims'
  BY <1>7 DEF UpdateBegin, Goto, Claims
<1>8. ASSUME NEW p \in Procs, NEW t \in TradeIds, UpdateNotDue(p, t) PROVE Claims'
  BY <1>8 DEF UpdateNotDue, Visit, Claims
<1>9. ASSUME NEW p \in Procs, NEW t \in TradeIds, UpdateDue(p, t) PROVE Claims'
  BY <1>9 DEF UpdateDue, Goto, Visit, Claims
<1>10. ASSUME NEW p \in Procs, UpdateMerge(p) PROVE Claims'
  <2>1. \A t \in TradeIds : record'[t] # None /\ record'[t].applied => t \in Told
    BY <1>10, RecordMerged DEF Knows, Claims
  <2> QED
    BY <1>10, <2>1 DEF UpdateMerge, Claims
<1>11. ASSUME NEW p \in Procs, UpdateStore(p) PROVE Claims'
  <2>1. \A t \in TradeIds : pending'[t] # None /\ pending'[t].applied => t \in Told
    BY <1>11 DEF UpdateStore, Active, Knows, Claims
  <2> QED
    BY <1>11, <2>1 DEF UpdateStore, Claims
<1>12. ASSUME NEW p \in Procs, ApplyLock(p) PROVE Claims'
  BY <1>12 DEF ApplyLock, Goto, Claims
<1>13. ASSUME NEW p \in Procs, ApplyConflict(p) PROVE Claims'
  <2>1. cur[p] \in TradeIds
    BY <1>13 DEF ApplyConflict, Frames
  <2>2. \A k \in Keys : journal'[k] # None =>
          journal[k] # None /\ (journal'[k].status = journal[k].status \/ journal'[k].status = "conflict")
    BY <1>13, <2>1 DEF ApplyConflict, ForeignJournal, Key, Keys
  <2>3. \A t \in TradeIds : Key(t) \in Keys
    BY DEF Key, Keys
  <2> QED
    BY <1>13, <2>2, <2>3 DEF ApplyConflict, Claims
<1>14. ASSUME NEW p \in Procs, ApplyRecover(p) PROVE Claims'
  <2>1. cur[p] \in Told /\ cur[p] \in TradeIds
    <3>1. loaded[p] = current /\ cur[p] \in TradeIds /\ entries[p][cur[p]] # None
      BY <1>14 DEF ApplyRecover, Goto, Frames, Fresh
    <3>2. AlreadyApplied(entries[p][cur[p]], cur[p], current)
      BY <1>14, <3>1 DEF ApplyRecover
    <3> QED
      BY <1>14, <3>1, <3>2, AppliedIsSettled
  <2>2. \A t \in TradeIds : Confused(t, cur[p]) => t \in Told
    BY <2>1, ToldSpreads
  <2> QED
    BY <1>14, <2>1, <2>2 DEF ApplyRecover, Claims, Confused
<1>15. ASSUME NEW p \in Procs, ApplyRecovered(p) PROVE Claims'
  <2>1. cur[p] \in Told /\ cur[p] \in TradeIds
    BY <1>15 DEF ApplyRecovered, Goto, Knows, State
  <2>2. \A t \in TradeIds : Confused(t, cur[p]) => t \in Told
    BY <2>1, ToldSpreads
  <2> QED
    BY <1>15, <2>1, <2>2 DEF ApplyRecovered, WriteJournal, Claims, Confused
<1>16. ASSUME NEW p \in Procs, ApplyPrepare(p) PROVE Claims'
  <2>1. cur[p] \in TradeIds
    BY <1>16 DEF ApplyPrepare, Goto, Frames
  <2>2. \A t \in TradeIds : journal'[Key(t)] = journal[Key(t)] \/ journal'[Key(t)].status = "prepared"
    BY <1>16, <2>1 DEF ApplyPrepare, WriteJournal, Key, Keys
  <2> QED
    BY <1>16, <2>2 DEF ApplyPrepare, Claims
<1>17. ASSUME NEW p \in Procs, ApplyRefuse(p) PROVE Claims'
  BY <1>17 DEF ApplyRefuse, Answer, Claims
<1>18. ASSUME NEW p \in Procs, ApplyCurrent(p) PROVE Claims'
  BY <1>18, IdsGrow DEF ApplyCurrent, Claims
<1>19. ASSUME NEW p \in Procs, ApplyStateEvent(p) PROVE Claims'
  <2>1. cur[p] \in Told /\ cur[p] \in TradeIds
    BY <1>19 DEF ApplyStateEvent, Goto, Knows, State
  <2>2. \A t \in TradeIds : Confused(t, cur[p]) => t \in Told
    BY <2>1, ToldSpreads
  <2> QED
    BY <1>19, <2>1, <2>2 DEF ApplyStateEvent, Claims, Confused
<1>20. ASSUME NEW p \in Procs, ApplyJournal(p) PROVE Claims'
  <2>1. cur[p] \in Told /\ cur[p] \in TradeIds
    BY <1>20 DEF ApplyJournal, Goto, Knows, State
  <2>2. \A t \in TradeIds : Confused(t, cur[p]) => t \in Told
    BY <2>1, ToldSpreads
  <2> QED
    BY <1>20, <2>1, <2>2 DEF ApplyJournal, WriteJournal, Claims, Confused
<1>21. ASSUME NEW p \in Procs, ApplyEvent(p) PROVE Claims'
  <2>1. cur[p] \in Told /\ cur[p] \in TradeIds
    BY <1>21 DEF ApplyEvent, Goto, Knows, State
  <2>2. \A t \in TradeIds : Confused(t, cur[p]) => t \in Told
    BY <2>1, ToldSpreads
  <2> QED
    BY <1>21, <2>1, <2>2 DEF ApplyEvent, Claims, Confused
<1>22. ASSUME NEW p \in Procs, ApplyComplete(p) PROVE Claims'
  <2>1. cur[p] \in Told /\ cur[p] \in TradeIds
    BY <1>22 DEF ApplyComplete, Goto, Knows, State
  <2>2. \A t \in TradeIds : Confused(t, cur[p]) => t \in Told
    BY <2>1, ToldSpreads
  <2> QED
    BY <1>22, <2>1, <2>2 DEF ApplyComplete, WriteJournal, Claims, Confused
<1>23. ASSUME NEW p \in Procs, ApplyFault(p) PROVE Claims'
  BY <1>23 DEF ApplyFault, Answer, Claims
<1>24. ASSUME NEW p \in Procs, OperationFault(p) PROVE Claims'
  BY <1>24 DEF OperationFault, Return, Claims
<1>25. ASSUME NEW p \in Procs, Crash(p) PROVE Claims'
  BY <1>25 DEF Crash, Claims
<1>26. CASE BreakSyncLock
  BY <1>26 DEF BreakSyncLock, Claims
<1>27. CASE BreakStateLock
  BY <1>27 DEF BreakStateLock, Claims
<1> QED
  BY <1>1, <1>2, <1>3, <1>4, <1>5, <1>6, <1>7, <1>8, <1>9, <1>10, <1>11, <1>12, <1>13, <1>14, <1>15, <1>16, <1>17, <1>18, <1>19, <1>20, <1>21, <1>22, <1>23, <1>24, <1>25, <1>26, <1>27 DEF Next, Record, Update, Apply, Fail

-------------------------------------------------------------------------------
(***************************************************************************)
(* The theorems.                                                           *)
(***************************************************************************)

LEMMA InitHolds ==
  Init => TypeOK /\ Working /\ Knows /\ Claims
<1> SUFFICES ASSUME Init PROVE TypeOK /\ Working /\ Knows /\ Claims
  OBVIOUS
<1> USE SettlementAssumption DEF Init, InitState, NoEntries, ApplySteps
<1>1. TypeOK
  BY DEF TypeOK, State, RecordSteps, UpdateSteps
<1>2. Locks /\ Frames /\ Filed /\ Fresh
  BY DEF Locks, Frames, Filed, Fresh
<1>3. Knows
  BY DEF Knows
<1>4. Claims
  BY DEF Claims, Key, Keys, StateKey
<1> QED
  BY <1>1, <1>2, <1>3, <1>4 DEF Working

LEMMA WorkingStep ==
  TypeOK /\ Working /\ [Next]_vars => TypeOK' /\ Working'
  BY TypeStep, LocksStep, FramesStep, FiledStep, FreshStep DEF Working

\* Whatever fails or dies and in whatever order: the files have the form the
\* code reads, locks have one holder, trades are on file before they move.
THEOREM WorkingHolds == Spec => [](TypeOK /\ Working)
<1>1. Init => TypeOK /\ Working
  BY InitHolds
<1> QED
  BY <1>1, WorkingStep, PTL DEF Spec

\* Every file and every local variable of a process keeps its type.
THEOREM TypeCorrect == Spec => []TypeOK
  BY WorkingHolds, PTL

\* A trade that a pending entry, a record, a settlement event, a portfolio event
\* or an advanced journal calls settled is accounted for, across crashes, failed
\* writes and retries.
THEOREM ClaimsHold == Spec => []ClaimsAreApplied
<1>1. Init => TypeOK /\ Working /\ Knows /\ Claims
  BY InitHolds
<1>2. TypeOK /\ Working /\ Knows /\ Claims /\ [Next]_vars => Knows' /\ Claims'
  BY KnowsStep, ClaimsStep DEF Working
<1>3. Claims => ClaimsAreApplied
  BY DEF Claims, ClaimsAreApplied, Unclaimed, Told
<1> QED
  BY <1>1, <1>2, <1>3, WorkingHolds, PTL DEF Spec

\* For a trade whose names are taken for no other's, accounted for is settled:
\* the claims about it are true, whatever happens to trades that are confused.
THEOREM OwnNamesAreApplied ==
  ASSUME NEW t \in TradeIds, \A u \in TradeIds : Confused(t, u) => u = t
  PROVE  Spec => [](t \in current.ids \/ Unclaimed(t))
<1>1. Accounted(t) => t \in current.ids
  <2>1. {t} \in SUBSET TradeIds /\ \A u \in {t}, v \in TradeIds : Confused(u, v) => v \in {t}
    OBVIOUS
  <2> QED
    BY <2>1 DEF Accounted
<1>2. ClaimsAreApplied => t \in current.ids \/ Unclaimed(t)
  BY <1>1 DEF ClaimsAreApplied
<1> QED
  BY <1>2, ClaimsHold, PTL

\* Writing current.json settles the trade in hand: it was open, it is on file, it
\* is due, and its full effect is what changes.
LEMMA CurrentSettles ==
  ASSUME TypeOK, Working, NEW p \in Procs, ApplyCurrent(p)
  PROVE  /\ cur[p] \in TradeIds \ current.ids
         /\ record[cur[p]] # None
         /\ Due(cur[p], asOf[p])
         /\ Portfolio!CanSettle(current.val, Trade[cur[p]])
         /\ current'.val = Portfolio!AfterSettle(current.val, Trade[cur[p]])
         /\ current'.ids = current.ids \cup {cur[p]}
<1>1. pc[p] = "current" /\ loaded[p] = current /\ cur[p] \notin current.ids /\ Due(cur[p], asOf[p])
  BY DEF ApplyCurrent, Goto, Working, Fresh, ApplySteps
<1>2. cur[p] \in TradeIds /\ entries[p][cur[p]] # None
  BY <1>1 DEF Working, Frames
<1>3. record[cur[p]] # None
  BY <1>1, <1>2 DEF Working, Filed
<1> QED
  BY <1>1, <1>2, <1>3 DEF ApplyCurrent

\* The portfolio changes only by one whole, due, not yet settled trade at a time,
\* however updates, records and failures interleave.
THEOREM OnlySettlementsHold == Spec => OnlySettlements
<1>1. TypeOK /\ Working /\ [Next]_vars => [SettlesOneDueTrade]_current
  <2> SUFFICES ASSUME TypeOK, Working, [Next]_vars, current' # current
               PROVE  SettlesOneDueTrade
    OBVIOUS
  <2>1. PICK p \in Procs : ApplyCurrent(p)
    BY CurrentChanges
  <2> QED
    BY <2>1, CurrentSettles DEF SettlesOneDueTrade, Due
<1> QED
  BY <1>1, WorkingHolds, PTL DEF Spec, OnlySettlements

\* A step that changes a trade file puts at most one new trade on file and takes
\* none off.
LEMMA RecordChanges ==
  ASSUME TypeOK, Working, [Next]_vars, record' # record
  PROVE  \E t \in TradeIds :
           /\ \A u \in TradeIds \ {t} : record'[u] # None <=> record[u] # None
           /\ record'[t] # None
<1> USE DEF files
<1>1. ASSUME NEW p \in Procs, Record(p), ~RecordAppend(p) PROVE UNCHANGED record
  BY <1>1 DEF Record, RecordBegin, RecordExisting, RecordEnqueue, RecordCount
<1>2. ASSUME NEW p \in Procs, Update(p), ~UpdateMerge(p) PROVE UNCHANGED record
  BY <1>2 DEF Update, UpdateBegin, UpdateNotDue, UpdateDue, UpdateStore
<1>3. ASSUME NEW p \in Procs, Apply(p) PROVE UNCHANGED record
  BY <1>3 DEF Apply, ApplyLock, ApplyConflict, ApplyRecover, ApplyRecovered, ApplyPrepare,
              ApplyRefuse, ApplyCurrent, ApplyStateEvent, ApplyJournal, ApplyEvent, ApplyComplete
<1>4. ASSUME NEW p \in Procs, Fail(p) PROVE UNCHANGED record
  BY <1>4 DEF Fail, ApplyFault, OperationFault, Crash
<1>5. BreakSyncLock \/ BreakStateLock \/ UNCHANGED vars => UNCHANGED record
  BY DEF BreakSyncLock, BreakStateLock, vars
<1>6. PICK p \in Procs : RecordAppend(p) \/ UpdateMerge(p)
  BY <1>1, <1>2, <1>3, <1>4, <1>5 DEF Next
<1>7. CASE RecordAppend(p)
  <2>1. cur[p] \in TradeIds /\ entries[p][cur[p]] # None
    BY <1>7 DEF RecordAppend, Goto, Working, Frames
  <2> QED
    BY <1>7, <2>1 DEF RecordAppend, TypeOK
<1>8. CASE UpdateMerge(p)
  <2>1. cur[p] \in TradeIds /\ \A t \in TradeIds : record'[t] # None <=> record[t] # None
    BY <1>8, RecordMerged DEF Working
  <2>2. record[cur[p]] # None
    BY <1>8 DEF UpdateMerge, TypeOK
  <2> QED
    BY <2>1, <2>2
<1> QED
  BY <1>6, <1>7, <1>8

\* The ledger implements its abstract specification: through the files a trade is
\* first recorded and then, at most once and in one step, settled; every crash,
\* retry and lock in between is a stutter.
THEOREM LedgerImplemented == Spec => ImplementsLedger
<1>1. Init => Ledger!Init
  BY SettlementAssumption DEF Init, InitState, NoEntries, Ledger!Init, Phase
<1>2. TypeOK /\ Working /\ TypeOK' /\ [Next]_vars => [Ledger!Next]_<<Phase, current.val>>
  <2> SUFFICES ASSUME TypeOK, Working, TypeOK', [Next]_vars
               PROVE  Ledger!Next \/ (Phase' = Phase /\ current'.val = current.val)
    OBVIOUS
  <2>1. CASE current' # current
    <3>1. PICK p \in Procs : ApplyCurrent(p)
      BY <2>1, CurrentChanges
    <3>2. record' = record
      BY <3>1 DEF ApplyCurrent
    <3>3. /\ cur[p] \in TradeIds \ current.ids /\ record[cur[p]] # None
          /\ Portfolio!CanSettle(current.val, Trade[cur[p]])
          /\ current'.val = Portfolio!AfterSettle(current.val, Trade[cur[p]])
          /\ current'.ids = current.ids \cup {cur[p]}
      BY <3>1, CurrentSettles
    <3>4. Phase[cur[p]] = "recorded" /\ Phase' = [Phase EXCEPT ![cur[p]] = "settled"]
      BY <3>2, <3>3 DEF Phase
    <3>5. Ledger!Settle(cur[p])
      BY <3>3, <3>4 DEF Ledger!Settle, Ledger!Portfolio!CanSettle, Ledger!Portfolio!AfterSettle,
           Portfolio!CanSettle, Portfolio!AfterSettle, Ledger!Portfolio!CanBuy, Ledger!Portfolio!CanSell,
           Ledger!Portfolio!Buy, Ledger!Portfolio!Sell, Portfolio!CanBuy, Portfolio!CanSell,
           Portfolio!Buy, Portfolio!Sell, Ledger!Portfolio!ThroughHub, Portfolio!ThroughHub
    <3> QED
      BY <3>3, <3>5 DEF Ledger!Next
  <2>2. CASE current' = current /\ record' # record
    <3>1. PICK t \in TradeIds : /\ \A u \in TradeIds \ {t} : record'[u] # None <=> record[u] # None
                                /\ record'[t] # None
      BY <2>2, RecordChanges
    <3>2. CASE record[t] # None \/ t \in current.ids
      BY <2>2, <3>1, <3>2 DEF Phase
    <3>3. CASE record[t] = None /\ t \notin current.ids
      <4>1. Phase[t] = "unknown" /\ Phase' = [Phase EXCEPT ![t] = "recorded"]
        BY <2>2, <3>1, <3>3 DEF Phase
      <4> QED
        BY <2>2, <4>1 DEF Ledger!Next, Ledger!Record
    <3> QED
      BY <3>2, <3>3
  <2>3. CASE current' = current /\ record' = record
    BY <2>3 DEF Phase
  <2> QED
    BY <2>1, <2>2, <2>3
<1> QED
  BY <1>1, <1>2, WorkingHolds, PTL DEF Spec, ImplementsLedger, Ledger!Spec

\* A process adds an amount at the end of the one operation that put its trade on
\* file, with the execution_sync lock held from the look-up on.
LEMMA CountingStep ==
  ASSUME TypeOK, Working, Counting, [Next]_vars
  PROVE  Counting'
<1> USE SettlementAssumption DEF TypeOK, files, locals, Counting
<1>1. CASE UNCHANGED vars
  BY <1>1 DEF vars
<1>2. ASSUME NEW p \in Procs, NEW t \in TradeIds, NEW s \in Statuses, RecordBegin(p, t, s) PROVE Counting'
  BY <1>2 DEF RecordBegin, Goto
<1>3. ASSUME NEW p \in Procs, RecordExisting(p) PROVE Counting'
  BY <1>3 DEF RecordExisting, Return
<1>4. ASSUME NEW p \in Procs, RecordAppend(p) PROVE Counting'
  <2>1. pc[p] = "append" /\ cur[p] \in TradeIds /\ record[cur[p]] = None
    BY <1>4 DEF RecordAppend, Goto, OnFile, Working, Frames
  <2>2. counted[cur[p]] = 0
    BY <2>1
  <2> QED
    BY <1>4, <2>1, <2>2 DEF RecordAppend, Goto
<1>5. ASSUME NEW p \in Procs, RecordEnqueue(p) PROVE Counting'
  BY <1>5 DEF RecordEnqueue, Goto, Return
<1>6. ASSUME NEW p \in Procs, RecordCount(p) PROVE Counting'
  <2>1. pc[p] = "count" /\ cur[p] \in TradeIds /\ counted[cur[p]] = 0
    BY <1>6 DEF RecordCount, Working, Frames
  <2>2. counted' = [counted EXCEPT ![cur[p]] = 1]
    BY <1>6, <2>1 DEF RecordCount
  <2>3. record[cur[p]] # None
    BY <2>1 DEF Working, Frames, Filed
  <2>4. record' = record /\ pc' = [pc EXCEPT ![p] = "idle"] /\ \A q \in Procs \ {p} : pc[q] = "idle"
    BY <1>6, <2>1 DEF RecordCount, Return, Working, Locks
  <2> QED
    BY <2>1, <2>2, <2>3, <2>4
<1>7. ASSUME NEW p \in Procs, NEW d \in Days, UpdateBegin(p, d) PROVE Counting'
  BY <1>7 DEF UpdateBegin, Goto
<1>8. ASSUME NEW p \in Procs, NEW t \in TradeIds, UpdateNotDue(p, t) PROVE Counting'
  BY <1>8 DEF UpdateNotDue, Visit
<1>9. ASSUME NEW p \in Procs, NEW t \in TradeIds, UpdateDue(p, t) PROVE Counting'
  BY <1>9 DEF UpdateDue, Goto, Visit
<1>10. ASSUME NEW p \in Procs, UpdateMerge(p) PROVE Counting'
  <2>1. \A t \in TradeIds : record'[t] # None <=> record[t] # None
    BY <1>10, RecordMerged DEF Working
  <2> QED
    BY <1>10, <2>1 DEF UpdateMerge, Goto
<1>11. ASSUME NEW p \in Procs, UpdateStore(p) PROVE Counting'
  BY <1>11 DEF UpdateStore, Return
<1>12. ASSUME NEW p \in Procs, ApplyLock(p) PROVE Counting'
  BY <1>12 DEF ApplyLock, Goto
<1>13. ASSUME NEW p \in Procs, ApplyConflict(p) PROVE Counting'
  BY <1>13 DEF ApplyConflict, Answer
<1>14. ASSUME NEW p \in Procs, ApplyRecover(p) PROVE Counting'
  BY <1>14 DEF ApplyRecover, Goto
<1>15. ASSUME NEW p \in Procs, ApplyRecovered(p) PROVE Counting'
  BY <1>15 DEF ApplyRecovered, Answer, WriteJournal
<1>16. ASSUME NEW p \in Procs, ApplyPrepare(p) PROVE Counting'
  BY <1>16 DEF ApplyPrepare, Goto, WriteJournal
<1>17. ASSUME NEW p \in Procs, ApplyRefuse(p) PROVE Counting'
  BY <1>17 DEF ApplyRefuse, Answer
<1>18. ASSUME NEW p \in Procs, ApplyCurrent(p) PROVE Counting'
  BY <1>18 DEF ApplyCurrent, Goto
<1>19. ASSUME NEW p \in Procs, ApplyStateEvent(p) PROVE Counting'
  BY <1>19 DEF ApplyStateEvent, Goto
<1>20. ASSUME NEW p \in Procs, ApplyJournal(p) PROVE Counting'
  BY <1>20 DEF ApplyJournal, Goto, WriteJournal
<1>21. ASSUME NEW p \in Procs, ApplyEvent(p) PROVE Counting'
  BY <1>21 DEF ApplyEvent, Goto
<1>22. ASSUME NEW p \in Procs, ApplyComplete(p) PROVE Counting'
  BY <1>22 DEF ApplyComplete, Answer, WriteJournal
<1>23. ASSUME NEW p \in Procs, ApplyFault(p) PROVE Counting'
  BY <1>23 DEF ApplyFault, Answer
<1>24. ASSUME NEW p \in Procs, OperationFault(p) PROVE Counting'
  BY <1>24 DEF OperationFault, Return
<1>25. ASSUME NEW p \in Procs, Crash(p) PROVE Counting'
  BY <1>25 DEF Crash
<1>26. CASE BreakSyncLock
  BY <1>26 DEF BreakSyncLock
<1>27. CASE BreakStateLock
  BY <1>27 DEF BreakStateLock
<1> QED
  BY <1>1, <1>2, <1>3, <1>4, <1>5, <1>6, <1>7, <1>8, <1>9, <1>10, <1>11, <1>12, <1>13, <1>14, <1>15, <1>16, <1>17, <1>18, <1>19, <1>20, <1>21, <1>22, <1>23, <1>24, <1>25, <1>26, <1>27 DEF Next, Record, Update, Apply, Fail

\* The check of the digest and every later write of the journal are made under
\* one tenure of the two locks.
LEMMA OwnJournalStep ==
  ASSUME TypeOK, Working, OwnJournal, [Next]_vars
  PROVE  OwnJournal'
<1> USE SettlementAssumption DEF TypeOK, files, locals, ApplySteps, OwnJournal, ForeignJournal, Key, Keys, JournalEntry, JournalStates, Working, Locks, Frames
<1>1. CASE UNCHANGED vars
  BY <1>1 DEF vars
<1>2. ASSUME NEW p \in Procs, NEW t \in TradeIds, NEW s \in Statuses, RecordBegin(p, t, s) PROVE OwnJournal'
  BY <1>2 DEF RecordBegin, Goto
<1>3. ASSUME NEW p \in Procs, RecordExisting(p) PROVE OwnJournal'
  BY <1>3 DEF RecordExisting, Return
<1>4. ASSUME NEW p \in Procs, RecordAppend(p) PROVE OwnJournal'
  BY <1>4 DEF RecordAppend, Goto
<1>5. ASSUME NEW p \in Procs, RecordEnqueue(p) PROVE OwnJournal'
  BY <1>5 DEF RecordEnqueue, Goto, Return
<1>6. ASSUME NEW p \in Procs, RecordCount(p) PROVE OwnJournal'
  BY <1>6 DEF RecordCount, Return
<1>7. ASSUME NEW p \in Procs, NEW d \in Days, UpdateBegin(p, d) PROVE OwnJournal'
  BY <1>7 DEF UpdateBegin, Goto
<1>8. ASSUME NEW p \in Procs, NEW t \in TradeIds, UpdateNotDue(p, t) PROVE OwnJournal'
  BY <1>8 DEF UpdateNotDue, Visit
<1>9. ASSUME NEW p \in Procs, NEW t \in TradeIds, UpdateDue(p, t) PROVE OwnJournal'
  BY <1>9 DEF UpdateDue, Goto, Visit
<1>10. ASSUME NEW p \in Procs, UpdateMerge(p) PROVE OwnJournal'
  BY <1>10 DEF UpdateMerge, Goto
<1>11. ASSUME NEW p \in Procs, UpdateStore(p) PROVE OwnJournal'
  BY <1>11 DEF UpdateStore, Return
<1>12. ASSUME NEW p \in Procs, ApplyLock(p) PROVE OwnJournal'
  BY <1>12 DEF ApplyLock, Goto
<1>13. ASSUME NEW p \in Procs, ApplyConflict(p) PROVE OwnJournal'
  BY <1>13 DEF ApplyConflict, Answer
<1>14. ASSUME NEW p \in Procs, ApplyRecover(p) PROVE OwnJournal'
  BY <1>14 DEF ApplyRecover, Goto
<1>15. ASSUME NEW p \in Procs, ApplyRecovered(p) PROVE OwnJournal'
  BY <1>15 DEF ApplyRecovered, Answer, WriteJournal
<1>16. ASSUME NEW p \in Procs, ApplyPrepare(p) PROVE OwnJournal'
  BY <1>16 DEF ApplyPrepare, Goto, WriteJournal
<1>17. ASSUME NEW p \in Procs, ApplyRefuse(p) PROVE OwnJournal'
  BY <1>17 DEF ApplyRefuse, Answer
<1>18. ASSUME NEW p \in Procs, ApplyCurrent(p) PROVE OwnJournal'
  BY <1>18 DEF ApplyCurrent, Goto
<1>19. ASSUME NEW p \in Procs, ApplyStateEvent(p) PROVE OwnJournal'
  BY <1>19 DEF ApplyStateEvent, Goto
<1>20. ASSUME NEW p \in Procs, ApplyJournal(p) PROVE OwnJournal'
  BY <1>20 DEF ApplyJournal, Goto, WriteJournal
<1>21. ASSUME NEW p \in Procs, ApplyEvent(p) PROVE OwnJournal'
  BY <1>21 DEF ApplyEvent, Goto
<1>22. ASSUME NEW p \in Procs, ApplyComplete(p) PROVE OwnJournal'
  BY <1>22 DEF ApplyComplete, Answer, WriteJournal
<1>23. ASSUME NEW p \in Procs, ApplyFault(p) PROVE OwnJournal'
  BY <1>23 DEF ApplyFault, Answer
<1>24. ASSUME NEW p \in Procs, OperationFault(p) PROVE OwnJournal'
  BY <1>24 DEF OperationFault, Return
<1>25. ASSUME NEW p \in Procs, Crash(p) PROVE OwnJournal'
  BY <1>25 DEF Crash
<1>26. CASE BreakSyncLock
  BY <1>26 DEF BreakSyncLock
<1>27. CASE BreakStateLock
  BY <1>27 DEF BreakStateLock
<1> QED
  BY <1>1, <1>2, <1>3, <1>4, <1>5, <1>6, <1>7, <1>8, <1>9, <1>10, <1>11, <1>12, <1>13, <1>14, <1>15, <1>16, <1>17, <1>18, <1>19, <1>20, <1>21, <1>22, <1>23, <1>24, <1>25, <1>26, <1>27 DEF Next, Record, Update, Apply, Fail

\* An execution status gets the amount of a trade at most once, however often the
\* request is repeated and wherever it dies.
THEOREM CountedOnceHolds == Spec => []CountedOnce
<1>1. Init => Counting
  BY DEF Init, NoEntries, Counting
<1>2. TypeOK /\ Working /\ Counting /\ [Next]_vars => Counting'
  BY CountingStep
<1>3. Counting => CountedOnce
  BY DEF Counting, CountedOnce
<1> QED
  BY <1>1, <1>2, <1>3, WorkingHolds, PTL DEF Spec

\* A step writes a journal that is absent or the trade's own, or marks another's.
LEMMA JournalKept ==
  ASSUME TypeOK, Working, OwnJournal, [Next]_vars, journal' # journal,
         NEW k \in Keys, journal[k] # None
  PROVE  journal'[k] # None /\ journal'[k].of = journal[k].of
<1> USE SettlementAssumption DEF files
<1>1. ASSUME NEW p \in Procs, Record(p) \/ Update(p) \/ Fail(p) PROVE UNCHANGED journal
  BY <1>1 DEF Record, RecordBegin, RecordExisting, RecordAppend, RecordEnqueue, RecordCount,
              Update, UpdateBegin, UpdateNotDue, UpdateDue, UpdateMerge, UpdateStore,
              Fail, ApplyFault, OperationFault, Crash
<1>2. ASSUME NEW p \in Procs, Apply(p)
      PROVE  \/ UNCHANGED journal
             \/ ApplyConflict(p)
             \/ /\ pc[p] \in ApplySteps /\ ~ForeignJournal(cur[p])
                /\ \E status \in JournalStates : WriteJournal(cur[p], status)
  BY <1>2 DEF Apply, ApplyLock, ApplyConflict, ApplyRecover, ApplyRecovered, ApplyPrepare,
              ApplyRefuse, ApplyCurrent, ApplyStateEvent, ApplyJournal, ApplyEvent, ApplyComplete,
              Goto, OwnJournal, ApplySteps, JournalStates
<1>3. BreakSyncLock \/ BreakStateLock \/ UNCHANGED vars => UNCHANGED journal
  BY DEF BreakSyncLock, BreakStateLock, vars
<1>4. PICK p \in Procs :
        \/ ApplyConflict(p)
        \/ /\ pc[p] \in ApplySteps /\ ~ForeignJournal(cur[p])
           /\ \E status \in JournalStates : WriteJournal(cur[p], status)
  BY <1>1, <1>2, <1>3 DEF Next
<1>5. cur[p] \in TradeIds /\ Key(cur[p]) \in Keys
  BY <1>4 DEF ApplyConflict, ApplySteps, Working, Frames, Key, Keys
<1>6. journal[k] \in JournalEntry
  BY DEF TypeOK
<1>7. CASE ApplyConflict(p)
  <2>1. journal' = [journal EXCEPT ![Key(cur[p])].status = "conflict"]
    BY <1>7 DEF ApplyConflict
  <2>2. journal'[k] \in JournalEntry /\ journal'[k].of = journal[k].of
    BY <1>5, <1>6, <2>1 DEF TypeOK, JournalEntry, JournalStates
  <2> QED
    BY <2>2
<1>8. CASE /\ pc[p] \in ApplySteps /\ ~ForeignJournal(cur[p])
           /\ \E status \in JournalStates : WriteJournal(cur[p], status)
  <2>1. PICK status \in JournalStates : journal' = [journal EXCEPT ![Key(cur[p])] = [status |-> status, of |-> cur[p]]]
    BY <1>8 DEF WriteJournal
  <2>2. [status |-> status, of |-> cur[p]] \in JournalEntry
    BY <1>5 DEF JournalEntry
  <2> QED
    BY <1>5, <1>6, <1>8, <2>1, <2>2 DEF TypeOK, ForeignJournal
<1> QED
  BY <1>4, <1>7, <1>8

\* What a crash left half done is finished for the trade it was begun for: no
\* other trade takes a journal over, not even one whose file name is the same.
THEOREM JournalKeepsItsTradeHolds == Spec => JournalKeepsItsTrade
<1>1. Init => OwnJournal
  BY DEF Init, OwnJournal, ApplySteps
<1>2. TypeOK /\ Working /\ OwnJournal /\ [Next]_vars => OwnJournal'
  BY OwnJournalStep
<1>3. TypeOK /\ Working /\ OwnJournal /\ [Next]_vars
      => [\A k \in Keys : journal[k] # None =>
            journal'[k] # None /\ journal'[k].of = journal[k].of]_journal
  BY JournalKept
<1> QED
  BY <1>1, <1>2, <1>3, WorkingHolds, PTL DEF Spec, JournalKeepsItsTrade

-------------------------------------------------------------------------------
(***************************************************************************)
(* Sums.  SumFunctionOnSet is a fold by a function that refers to itself,  *)
(* which a smallest set without one shows to exist.                        *)
(***************************************************************************)
\* A sum is a fold: the function it is computed by takes away, one at a time,
\* the element that CHOOSE finds.
Any(s) == CHOOSE x \in s : TRUE
IsFold(h, g, S) == h = [s \in SUBSET S |-> IF s = {} THEN 0 ELSE g[Any(s)] + h[s \ {Any(s)}]]
TheFold(g, S) == CHOOSE h : IsFold(h, g, S)

LEMMA SumIsFold == ASSUME NEW g, NEW S PROVE SumFunctionOnSet(g, S) = TheFold(g, S)[S]
  BY DEF SumFunctionOnSet, FoldFunctionOnSet, MapThenFoldSet, TheFold, IsFold, Any

LEMMA AnyIsIn == \A s : s # {} => Any(s) \in s
  BY DEF Any

\* Of finite sets, some set has fewest elements.
LEMMA SmallestSet ==
  ASSUME NEW F, F # {}, \A s \in F : IsFiniteSet(s)
  PROVE  \E s \in F : \A t \in F : ~ (Cardinality(t) < Cardinality(s))
<1> DEFINE N == {Cardinality(s) : s \in F}
<1>1. N \in SUBSET Nat /\ N # {}
  BY FS_CardinalityType
<1> HIDE DEF N
<1>2. PICK n \in N : \A m \in N : ~ (<<m, n>> \in OpToRel(<, Nat))
  BY <1>1, NatLessThanWellFounded, WFMin
<1>3. \A m \in N : ~ (m < n)
  BY <1>1, <1>2 DEF OpToRel
<1> USE DEF N
<1>4. PICK s \in F : n = Cardinality(s)
  OBVIOUS
<1> QED
  BY <1>3, <1>4

LEMMA Smaller ==
  ASSUME NEW s, IsFiniteSet(s), NEW x \in s
  PROVE  IsFiniteSet(s \ {x}) /\ Cardinality(s \ {x}) < Cardinality(s)
<1>1. IsFiniteSet(s \ {x}) /\ Cardinality(s \ {x}) = Cardinality(s) - 1
  BY FS_RemoveElement
<1>2. Cardinality(s) \in Nat
  BY FS_CardinalityType
<1> QED
  BY <1>1, <1>2

\* There is one such function on each set, and a larger one extends it.
LEMMA FoldsAgree ==
  ASSUME NEW g, NEW h, NEW k, NEW S, NEW T, IsFold(h, g, S), IsFold(k, g, T), IsFiniteSet(S)
  PROVE  \A s \in SUBSET S : s \subseteq T => h[s] = k[s]
<1> DEFINE F == {s \in SUBSET S : s \subseteq T /\ h[s] # k[s]}
<1> SUFFICES ASSUME F # {} PROVE FALSE
  OBVIOUS
<1>1. \A s \in F : IsFiniteSet(s)
  BY FS_Subset
<1> HIDE DEF F
<1>2. PICK s \in F : \A t \in F : ~ (Cardinality(t) < Cardinality(s))
  BY <1>1, SmallestSet
<1> USE DEF F
<1>3. h[s] = IF s = {} THEN 0 ELSE g[Any(s)] + h[s \ {Any(s)}]
  BY DEF IsFold
<1>4. k[s] = IF s = {} THEN 0 ELSE g[Any(s)] + k[s \ {Any(s)}]
  BY DEF IsFold
<1>5. s # {} /\ h[s \ {Any(s)}] # k[s \ {Any(s)}]
  BY <1>3, <1>4
<1>6. s \ {Any(s)} \in F
  BY <1>5
<1>7. Cardinality(s \ {Any(s)}) < Cardinality(s)
  BY <1>1, <1>5, AnyIsIn, Smaller
<1> QED
  BY <1>2, <1>6, <1>7

LEMMA FoldExists ==
  ASSUME NEW g, NEW S, IsFiniteSet(S)
  PROVE  IsFold(TheFold(g, S), g, S)
<1> DEFINE F == {s \in SUBSET S : ~ IsFold(TheFold(g, s), g, s)}
<1> SUFFICES ASSUME F # {} PROVE FALSE
  OBVIOUS
<1>1. \A s \in F : IsFiniteSet(s)
  BY FS_Subset
<1> HIDE DEF F
<1>2. PICK s \in F : \A t \in F : ~ (Cardinality(t) < Cardinality(s))
  BY <1>1, SmallestSet
<1> USE DEF F
<1>3. IsFiniteSet(s) /\ s \in SUBSET S
  BY <1>1
<1> DEFINE V(u) == TheFold(g, u)[u]
           H == [u \in SUBSET s |-> IF u = {} THEN 0 ELSE g[Any(u)] + V(u \ {Any(u)})]
<1>4. \A u \in SUBSET s : u # s => IsFiniteSet(u) /\ IsFold(TheFold(g, u), g, u)
  <2> SUFFICES ASSUME NEW u \in SUBSET s, u # s
               PROVE  IsFiniteSet(u) /\ IsFold(TheFold(g, u), g, u)
    OBVIOUS
  <2>1. IsFiniteSet(u) /\ Cardinality(u) < Cardinality(s)
    BY <1>3, FS_Subset, FS_CardinalityType
  <2> QED
    BY <1>2, <1>3, <2>1
<1>5. ASSUME NEW u \in SUBSET s, u # {}, u # s
      PROVE  V(u) = g[Any(u)] + V(u \ {Any(u)})
  <2> DEFINE w == u \ {Any(u)}
  <2>1. w \in SUBSET s /\ w # s /\ w \subseteq u
    BY <1>5, AnyIsIn
  <2>2. IsFiniteSet(u) /\ IsFiniteSet(w) /\ IsFold(TheFold(g, u), g, u) /\ IsFold(TheFold(g, w), g, w)
    BY <1>4, <1>5, <2>1
  <2>3. TheFold(g, u)[u] = g[Any(u)] + TheFold(g, u)[w]
    BY <1>5, <2>2 DEF IsFold
  <2> HIDE DEF w
  <2>4. TheFold(g, u)[w] = TheFold(g, w)[w]
    BY <2>1, <2>2, FoldsAgree
  <2> USE DEF w
  <2> QED
    BY <2>3, <2>4
<1>6. \A u \in SUBSET s : u # s => H[u] = V(u)
  <2> SUFFICES ASSUME NEW u \in SUBSET s, u # s
               PROVE  H[u] = V(u)
    OBVIOUS
  <2>1. CASE u # {}
    BY <1>5, <2>1
  <2>2. CASE u = {}
    <3>1. IsFold(TheFold(g, u), g, u)
      BY <1>4
    <3>2. V(u) = 0
      BY <2>2, <3>1 DEF IsFold
    <3> QED
      BY <2>2, <3>2
  <2> QED
    BY <2>1, <2>2
<1>7. \A u \in SUBSET s : u # {} => H[u \ {Any(u)}] = V(u \ {Any(u)})
  <2> SUFFICES ASSUME NEW u \in SUBSET s, u # {}
               PROVE  H[u \ {Any(u)}] = V(u \ {Any(u)})
    OBVIOUS
  <2>1. u \ {Any(u)} \in SUBSET s /\ u \ {Any(u)} # s
    BY AnyIsIn
  <2> HIDE DEF H, V
  <2> QED
    BY <1>6, <2>1
<1>8. IsFold(H, g, s)
  <2> DEFINE G == [u \in SUBSET s |-> IF u = {} THEN 0 ELSE g[Any(u)] + H[u \ {Any(u)}]]
  <2>1. \A u \in SUBSET s : H[u] = G[u]
    <3> SUFFICES ASSUME NEW u \in SUBSET s
                 PROVE  H[u] = G[u]
      OBVIOUS
    <3>1. G[u] = IF u = {} THEN 0 ELSE g[Any(u)] + H[u \ {Any(u)}]
      OBVIOUS
    <3>2. H[u] = IF u = {} THEN 0 ELSE g[Any(u)] + V(u \ {Any(u)})
      OBVIOUS
    <3> HIDE DEF H, V, G
    <3> QED
      BY <1>7, <3>1, <3>2
  <2>2. H = [u \in SUBSET s |-> H[u]]
    OBVIOUS
  <2>3. G = [u \in SUBSET s |-> G[u]]
    OBVIOUS
  <2> HIDE DEF H, G
  <2>4. H = G
    BY <2>1, <2>2, <2>3
  <2> QED
    BY <2>4 DEF IsFold, G
<1> HIDE DEF H
<1> QED
  BY <1>2, <1>8 DEF TheFold

LEMMA SumEmpty == \A g : SumFunctionOnSet(g, {}) = 0
<1> SUFFICES ASSUME NEW g PROVE SumFunctionOnSet(g, {}) = 0
  OBVIOUS
<1>1. IsFold(TheFold(g, {}), g, {})
  BY FoldExists, FS_EmptySet
<1>2. TheFold(g, {})[{}] = 0
  BY <1>1 DEF IsFold
<1> QED
  BY <1>2, SumIsFold

LEMMA SumOfAny ==
  ASSUME NEW g, NEW S, IsFiniteSet(S), S # {}
  PROVE  SumFunctionOnSet(g, S) = g[Any(S)] + SumFunctionOnSet(g, S \ {Any(S)})
<1> DEFINE T == S \ {Any(S)}
<1>1. IsFiniteSet(T) /\ T \subseteq S
  BY AnyIsIn, Smaller
<1>2. IsFold(TheFold(g, S), g, S) /\ IsFold(TheFold(g, T), g, T)
  BY <1>1, FoldExists
<1>3. TheFold(g, S)[S] = g[Any(S)] + TheFold(g, S)[T]
  BY <1>2 DEF IsFold
<1> HIDE DEF T
<1>4. TheFold(g, S)[T] = TheFold(g, T)[T]
  BY <1>1, <1>2, FoldsAgree
<1>5. SumFunctionOnSet(g, S) = TheFold(g, S)[S] /\ SumFunctionOnSet(g, T) = TheFold(g, T)[T]
  BY SumIsFold
<1> QED
  BY <1>3, <1>4, <1>5 DEF T

LEMMA SumIsInt ==
  ASSUME NEW g, NEW S, IsFiniteSet(S), \A x \in S : g[x] \in Int
  PROVE  \A s \in SUBSET S : SumFunctionOnSet(g, s) \in Int
<1> DEFINE F == {s \in SUBSET S : SumFunctionOnSet(g, s) \notin Int}
<1> SUFFICES ASSUME F # {} PROVE FALSE
  OBVIOUS
<1>1. \A s \in F : IsFiniteSet(s)
  BY FS_Subset
<1> HIDE DEF F
<1>2. PICK s \in F : \A t \in F : ~ (Cardinality(t) < Cardinality(s))
  BY <1>1, SmallestSet
<1> USE DEF F
<1>3. s # {}
  BY SumEmpty
<1>4. SumFunctionOnSet(g, s) = g[Any(s)] + SumFunctionOnSet(g, s \ {Any(s)})
  BY <1>1, <1>3, SumOfAny
<1>5. Any(s) \in s /\ g[Any(s)] \in Int
  BY <1>3, AnyIsIn
<1>6. SumFunctionOnSet(g, s \ {Any(s)}) \notin Int
  BY <1>4, <1>5
<1>7. Cardinality(s \ {Any(s)}) < Cardinality(s)
  BY <1>1, <1>5, Smaller
<1> QED
  BY <1>2, <1>6, <1>7

\* The order in which a sum takes its elements is of no matter.
LEMMA SumWithout ==
  ASSUME NEW g, NEW S, IsFiniteSet(S), \A x \in S : g[x] \in Int
  PROVE  \A s \in SUBSET S : \A x \in s : SumFunctionOnSet(g, s) = g[x] + SumFunctionOnSet(g, s \ {x})
<1> DEFINE F == {s \in SUBSET S : \E x \in s : SumFunctionOnSet(g, s) # g[x] + SumFunctionOnSet(g, s \ {x})}
<1> SUFFICES ASSUME F # {} PROVE FALSE
  OBVIOUS
<1>1. \A s \in F : IsFiniteSet(s)
  BY FS_Subset
<1> HIDE DEF F
<1>2. PICK s \in F : \A t \in F : ~ (Cardinality(t) < Cardinality(s))
  BY <1>1, SmallestSet
<1> USE DEF F
<1>3. PICK x \in s : SumFunctionOnSet(g, s) # g[x] + SumFunctionOnSet(g, s \ {x})
  OBVIOUS
<1> DEFINE y == Any(s)
<1>4. SumFunctionOnSet(g, s) = g[y] + SumFunctionOnSet(g, s \ {y}) /\ y \in s
  BY <1>1, SumOfAny, AnyIsIn
<1> HIDE DEF y
<1>5. x # y
  BY <1>3, <1>4
<1>6. \A t \in SUBSET S : \A z \in t : t \notin F => SumFunctionOnSet(g, t) = g[z] + SumFunctionOnSet(g, t \ {z})
  OBVIOUS
<1>7. s \in SUBSET S /\ s \ {x} \in SUBSET S /\ s \ {y} \in SUBSET S
  OBVIOUS
<1>8. s \ {x} \notin F /\ s \ {y} \notin F
  BY <1>1, <1>2, <1>4, Smaller
<1>9. SumFunctionOnSet(g, s \ {y}) = g[x] + SumFunctionOnSet(g, (s \ {y}) \ {x})
  BY <1>5, <1>6, <1>7, <1>8
<1>10. SumFunctionOnSet(g, s \ {x}) = g[y] + SumFunctionOnSet(g, (s \ {x}) \ {y})
  BY <1>4, <1>5, <1>6, <1>7, <1>8
<1>11. (s \ {x}) \ {y} = (s \ {y}) \ {x}
  OBVIOUS
<1>12. SumFunctionOnSet(g, (s \ {y}) \ {x}) \in Int /\ g[x] \in Int /\ g[y] \in Int
  BY <1>4, <1>7, SumIsInt
<1>13. \A m \in Int, j \in Int, k \in Int : m + (j + k) = j + (m + k)
  OBVIOUS
<1>14. g[y] + (g[x] + SumFunctionOnSet(g, (s \ {y}) \ {x})) = g[x] + (g[y] + SumFunctionOnSet(g, (s \ {y}) \ {x}))
  BY <1>12, <1>13
<1> QED
  BY <1>3, <1>4, <1>9, <1>10, <1>11, <1>14

LEMMA SumsAgree ==
  ASSUME NEW g, NEW h, NEW S, IsFiniteSet(S), \A x \in S : g[x] = h[x]
  PROVE  \A s \in SUBSET S : SumFunctionOnSet(g, s) = SumFunctionOnSet(h, s)
<1> DEFINE F == {s \in SUBSET S : SumFunctionOnSet(g, s) # SumFunctionOnSet(h, s)}
<1> SUFFICES ASSUME F # {} PROVE FALSE
  OBVIOUS
<1>1. \A s \in F : IsFiniteSet(s)
  BY FS_Subset
<1> HIDE DEF F
<1>2. PICK s \in F : \A t \in F : ~ (Cardinality(t) < Cardinality(s))
  BY <1>1, SmallestSet
<1> USE DEF F
<1>3. s # {}
  BY SumEmpty
<1>4. Any(s) \in s
  BY <1>3, AnyIsIn
<1>5. SumFunctionOnSet(g, s) = g[Any(s)] + SumFunctionOnSet(g, s \ {Any(s)})
  BY <1>1, <1>3, SumOfAny
<1>6. SumFunctionOnSet(h, s) = h[Any(s)] + SumFunctionOnSet(h, s \ {Any(s)})
  BY <1>1, <1>3, SumOfAny
<1>7. s \ {Any(s)} \in F
  BY <1>4, <1>5, <1>6
<1>8. Cardinality(s \ {Any(s)}) < Cardinality(s)
  BY <1>1, <1>4, Smaller
<1> QED
  BY <1>2, <1>7, <1>8

\* What one change of a function changes in its sum.
LEMMA SumChanges ==
  ASSUME NEW g, NEW h, NEW S, IsFiniteSet(S), \A x \in S : g[x] \in Int /\ h[x] \in Int,
         NEW x \in S, \A y \in S \ {x} : g[y] = h[y]
  PROVE  SumFunctionOnSet(h, S) = SumFunctionOnSet(g, S) + (h[x] - g[x])
<1>1. SumFunctionOnSet(g, S) = g[x] + SumFunctionOnSet(g, S \ {x})
  BY SumWithout
<1>2. SumFunctionOnSet(h, S) = h[x] + SumFunctionOnSet(h, S \ {x})
  BY SumWithout
<1>3. IsFiniteSet(S \ {x})
  BY Smaller
<1>4. SumFunctionOnSet(g, S \ {x}) = SumFunctionOnSet(h, S \ {x})
  BY <1>3, SumsAgree
<1>5. SumFunctionOnSet(g, S \ {x}) \in Int
  BY SumIsInt
<1> QED
  BY <1>1, <1>2, <1>4, <1>5

LEMMA ConversionKeepsTotal ==
  ASSUME NEW v \in [Funds -> Int], NEW tr \in Payload, tr.op = "convert", tr.fund # tr.to,
         Hub \in Funds \ {tr.fund, tr.to}
  PROVE  LET w == Portfolio!AfterSettle(v, tr) IN
         w[tr.fund] - v[tr.fund] = -tr.amount /\ w[tr.to] - v[tr.to] = tr.toAmount /\ Total(w) = Total(v)
<1>1. PICK f \in Funds, g \in Funds, m \in Int, n \in Int : f = tr.fund /\ g = tr.to /\ m = tr.amount /\ n = tr.toAmount
  BY DEF Payload
<1>2. PICK w : w = Portfolio!Buy(Portfolio!Sell(v, f, m), g, n) /\ w = Portfolio!AfterSettle(v, tr)
  BY <1>1 DEF Portfolio!AfterSettle
<1>3. f # g /\ f # Hub /\ g # Hub /\ Hub \in Funds
  BY <1>1
<1>4. w[f] = v[f] - m /\ w[g] = v[g] + n /\ w[Hub] = v[Hub] + m - n /\ w \in [Funds -> Int]
  BY <1>1, <1>2, <1>3 DEF Portfolio!Buy, Portfolio!Sell
<1>5. \A h \in Funds : h # f /\ h # g /\ h # Hub => w[h] = v[h]
  BY <1>1, <1>2, <1>3 DEF Portfolio!Buy, Portfolio!Sell
<1>6. PICK a : a = [v EXCEPT ![f] = w[f]]
  OBVIOUS
<1>7. PICK b : b = [a EXCEPT ![g] = w[g]]
  OBVIOUS
<1>8. a \in [Funds -> Int] /\ a[f] = w[f] /\ \A h \in Funds \ {f} : a[h] = v[h]
  BY <1>1, <1>4, <1>6
<1>9. b \in [Funds -> Int] /\ b[g] = w[g] /\ \A h \in Funds \ {g} : b[h] = a[h]
  BY <1>1, <1>4, <1>7, <1>8
<1>10. \A h \in Funds \ {Hub} : w[h] = b[h]
  BY <1>3, <1>5, <1>8, <1>9
<1>11. IsFiniteSet(Funds)
  BY SettlementAssumption
<1>12. SumFunctionOnSet(a, Funds) = SumFunctionOnSet(v, Funds) + (a[f] - v[f])
  BY <1>8, <1>11, SumChanges
<1>13. SumFunctionOnSet(b, Funds) = SumFunctionOnSet(a, Funds) + (b[g] - a[g])
  BY <1>8, <1>9, <1>11, SumChanges
<1>14. SumFunctionOnSet(w, Funds) = SumFunctionOnSet(b, Funds) + (w[Hub] - b[Hub])
  BY <1>3, <1>4, <1>9, <1>10, <1>11, SumChanges
<1>15. SumFunctionOnSet(v, Funds) \in Int
  BY <1>11, SumIsInt
<1>16. a[f] - v[f] = -m /\ b[g] - a[g] = n /\ w[Hub] - b[Hub] = m - n
  <2>1. a[g] = v[g] /\ b[Hub] = v[Hub] /\ v[f] \in Int /\ v[g] \in Int /\ v[Hub] \in Int
    BY <1>3, <1>8, <1>9
  <2> QED
    BY <1>1, <1>4, <1>8, <1>9, <2>1
<1>17. SumFunctionOnSet(w, Funds) = SumFunctionOnSet(v, Funds)
  BY <1>1, <1>12, <1>13, <1>14, <1>15, <1>16
<1>18. w[f] - v[f] = -m /\ w[g] - v[g] = n
  BY <1>1, <1>4
<1> QED
  BY <1>1, <1>2, <1>17, <1>18 DEF Total

\* Settling a conversion between two funds other than the hub takes its amount
\* out of the one, puts the other's into the other and keeps the total of the
\* portfolio, in the one step that replaces current.json.
THEOREM ConversionsBalance == ASSUME ThreeFunds PROVE Spec => ConversionBalances
<1> DEFINE Balanced ==
      \A t \in current'.ids \ current.ids :
        LET tr == Trade[t]
            Moved(f) == current'.val[f] - current.val[f]
        IN tr.op = "convert" => /\ Moved(tr.fund) = -tr.amount
                                /\ Moved(tr.to) = tr.toAmount
                                /\ Total(current'.val) = Total(current.val)
<1>1. TypeOK /\ Working /\ [Next]_vars => [Balanced]_current
  <2> SUFFICES ASSUME TypeOK, Working, [Next]_vars, current' # current
               PROVE  Balanced
    OBVIOUS
  <2>1. PICK p \in Procs : ApplyCurrent(p)
    BY CurrentChanges
  <2>2. PICK t, v, w :
          /\ t \in TradeIds /\ v = current.val /\ w = current'.val /\ w = Portfolio!AfterSettle(v, Trade[t])
          /\ current'.ids = current.ids \cup {t}
    BY <2>1, CurrentSettles
  <2>3. v \in [Funds -> Int] /\ Trade[t] \in Payload
    BY <2>2, SettlementAssumption DEF TypeOK, State
  <2>4. ASSUME Trade[t].op = "convert"
        PROVE  /\ w[Trade[t].fund] - v[Trade[t].fund] = -Trade[t].amount
               /\ w[Trade[t].to] - v[Trade[t].to] = Trade[t].toAmount
               /\ Total(w) = Total(v)
    BY <2>2, <2>3, <2>4, ConversionKeepsTotal DEF ThreeFunds
  <2> QED
    BY <2>2, <2>4
<1> QED
  BY <1>1, WorkingHolds, PTL DEF Spec, ConversionBalances

-------------------------------------------------------------------------------
(***************************************************************************)
(* What a position is made of.  A replay of the journal is a function like *)
(* that of a sum.  The invariant: snapshots are of the dates that          *)
(* settlements were due on, the newest is of the portfolio, and a fresh    *)
(* preview too.                                                            *)
(***************************************************************************)
\* A position as the writers leave it: nothing in it is negative, and a profit
\* that is confirmed has an amount.
Good ==
  {p \in [val: Nat, units: Nat, src: Sources, nav: Nat, seen: 0 .. MaxDay, pnl: Pnl] :
     p.pnl.status = "ok" => p.pnl.amount # Unset}

LEMMA MaxOfTwo == \A n \in Int : Max({0, n}) = IF n >= 0 THEN n ELSE 0
<1> SUFFICES ASSUME NEW n \in Int
             PROVE  Max({0, n}) = IF n >= 0 THEN n ELSE 0
  OBVIOUS
<1> DEFINE m == IF n >= 0 THEN n ELSE 0
<1>1. m \in {0, n} /\ \A y \in {0, n} : m >= y
  OBVIOUS
<1>2. \A x \in {0, n} : (\A y \in {0, n} : x >= y) => x = m
  OBVIOUS
<1> HIDE DEF m
<1>3. Max({0, n}) = m
  BY <1>1, <1>2 DEF Max
<1> QED
  BY <1>3 DEF m

LEMMA DivType == \A a \in Nat, b \in Nat \ {0} : a \div b \in Nat
  OBVIOUS

LEMMA EnsuredIs ==
  ASSUME NEW p \in Good
  PROVE  /\ Ensured(p) \in Good
         /\ Ensured(p).val = p.val /\ Ensured(p).src = p.src /\ Ensured(p).nav = p.nav
         /\ Ensured(p).seen = p.seen /\ Ensured(p).pnl = p.pnl
         /\ ~Derives(p) => Ensured(p) = p
<1>1. CASE ~Derives(p)
  BY <1>1 DEF Ensured
<1>2. CASE Derives(p)
  <2>1. p.val \div p.nav \in Nat
    BY <1>2, DivType DEF Derives, Good
  <2>2. Ensured(p) = [p EXCEPT !.units = p.val \div p.nav]
    BY <1>2 DEF Ensured
  <2> QED
    BY <1>2, <2>1, <2>2 DEF Good
<1> QED
  BY <1>1, <1>2

LEMMA ValueMovedIs ==
  ASSUME NEW p \in Good, NEW u \in {Lot, -Lot}, NEW nav \in Nat \ {0}, CanTrade(p, u, nav)
  PROVE  LET m == ValueMoved(p, u, nav) IN
         /\ m \in Good /\ m.seen = p.seen /\ m.pnl = p.pnl
         /\ ~Derives(p) => m.units = p.units
<1> DEFINE e == Ensured(p)
           v == e.val + u * nav
           m == ValueMoved(p, u, nav)
<1>1. e \in Good /\ e.val = p.val /\ e.seen = p.seen /\ e.pnl = p.pnl /\ (~Derives(p) => e = p)
  BY EnsuredIs
<1>2. p.val \in Nat /\ u \in Int /\ u # 0
  BY PositionsAssumption DEF Good
<1>3. m = [e EXCEPT !.val = v]
  BY DEF ValueMoved
<1> HIDE DEF e
<1>4. v \in Nat
  <2>1. CASE u < 0
    <3>1. u * nav \in Int /\ -u * nav \in Int /\ -u * nav = -(u * nav) /\ p.val >= -u * nav
      BY <1>2, <2>1 DEF CanTrade
    <3> DEFINE w == u * nav
    <3> HIDE DEF w
    <3>2. w \in Int /\ p.val >= -w /\ v = p.val + w
      BY <1>1, <3>1 DEF w
    <3> QED
      BY <1>2, <3>2
  <2>2. CASE u > 0
    <3>1. u * nav \in Nat
      BY <1>2, <2>2
    <3> QED
      BY <1>1, <1>2, <3>1
  <2> QED
    BY <1>2, <2>1, <2>2
<1> HIDE DEF v, m
<1>5. m \in Good /\ m.seen = e.seen /\ m.pnl = e.pnl /\ m.units = e.units
  BY <1>1, <1>3, <1>4 DEF Good
<1>6. ~Derives(p) => m.units = p.units
  BY <1>1, <1>5
<1>7. m.seen = p.seen /\ m.pnl = p.pnl
  BY <1>1, <1>5
<1> QED
  BY <1>5, <1>6, <1>7 DEF m

LEMMA AfterTradeIs ==
  ASSUME NEW p \in Good, NEW u \in {Lot, -Lot}, NEW nav \in Nat \ {0}, CanTrade(p, u, nav)
  PROVE  LET q == UnitsAfterTrade(p, u, nav) IN
         /\ q \in Good /\ q.seen = p.seen /\ q.pnl = p.pnl
         /\ ~Derives(p) /\ ~Derives(ValueMoved(p, u, nav)) /\ p.units + u >= 0 => q.units = p.units + u
<1> DEFINE m == ValueMoved(p, u, nav)
           e == Ensured(m)
           inUnits == u > 0 \/ e.units > 0
           n == IF inUnits THEN Max({0, e.units + u}) ELSE e.units
           s == IF inUnits THEN "actual_trade_units" ELSE e.src
<1>1. m \in Good /\ m.seen = p.seen /\ m.pnl = p.pnl /\ (~Derives(p) => m.units = p.units)
  BY ValueMovedIs
<1> HIDE DEF m
<1>2. e \in Good /\ e.seen = m.seen /\ e.pnl = m.pnl /\ (~Derives(m) => e = m)
  BY <1>1, EnsuredIs
<1>3. UnitsAfterTrade(p, u, nav) = [e EXCEPT !.units = n, !.src = s, !.nav = nav]
  BY DEF UnitsAfterTrade, m
<1> HIDE DEF e
<1>4. e.units \in Nat /\ e.src \in Sources /\ u \in Int /\ u # 0
  BY <1>2, PositionsAssumption DEF Good
<1>5. n \in Nat
  BY <1>4, MaxOfTwo
<1>6. e.units + u >= 0 => n = e.units + u
  BY <1>4, MaxOfTwo
<1>7. s \in Sources
  BY <1>4 DEF Sources
<1> HIDE DEF n, s
<1> DEFINE q == UnitsAfterTrade(p, u, nav)
<1>8. q \in Good /\ q.units = n /\ q.seen = e.seen /\ q.pnl = e.pnl
  BY <1>2, <1>3, <1>5, <1>7 DEF Good
<1> HIDE DEF q
<1>9. q.seen = p.seen /\ q.pnl = p.pnl
  BY <1>1, <1>2, <1>8
<1>10. ~Derives(p) /\ ~Derives(m) /\ p.units + u >= 0 => q.units = p.units + u
  BY <1>1, <1>2, <1>6, <1>8
<1> QED
  BY <1>8, <1>9, <1>10 DEF q, m

\* A portfolio, current or dated.
Folio(c) == DOMAIN c \subseteq Codes /\ c \in [DOMAIN c -> Good]

TradeType == [fund: Codes, units: {Lot, -Lot}, day: Dates, on: 0 .. MaxDay]

PreviewType ==
  [rows: SUBSET [name: Codes, val: Nat], items: SUBSET [fund: Codes, val: Nat], unmatched: SUBSET Codes,
   added: SUBSET Codes, missing: SUBSET Codes, fresh: BOOLEAN, known: BOOLEAN, day: Dates]

\* The types.
PosTypes ==
  /\ day \in Dates
  /\ navs \in [Codes -> Seq(Nat \ {0})] /\ \A f \in Codes : Len(navs[f]) = day
  /\ trades \in Seq(TradeType) /\ \A i \in DOMAIN trades : trades[i].day <= day
  /\ Folio(folio)
  /\ DOMAIN snaps = Dates /\ \A d \in Dates : snaps[d] # Unset => Folio(snaps[d]) /\ d <= day
  /\ defs \subseteq Codes /\ watch \subseteq Codes
  /\ clean \subseteq DOMAIN folio
  /\ shot # Unset => shot \in PreviewType

LEMMA DayType == ASSUME PosTypes PROVE day \in Nat /\ 1 <= day /\ day <= MaxDay /\ MaxDay \in Nat
  BY PositionsAssumption DEF PosTypes, Dates

LEMMA NavType == ASSUME PosTypes, NEW f \in Codes, NEW d \in 1 .. day PROVE navs[f][d] \in Nat \ {0}
<1>1. navs[f] \in Seq(Nat \ {0}) /\ Len(navs[f]) = day
  BY DEF PosTypes
<1>2. d \in 1 .. Len(navs[f])
  BY <1>1
<1> QED
  BY <1>1, <1>2

LEMMA TradeIs ==
  ASSUME PosTypes
  PROVE  /\ DOMAIN trades = 1 .. Len(trades) /\ Len(trades) \in Nat /\ IsFiniteSet(DOMAIN trades)
         /\ \A i \in DOMAIN trades : /\ trades[i] \in TradeType /\ trades[i].units \in Int
                                      /\ trades[i].fund \in Codes /\ trades[i].day \in 1 .. day
<1>1. trades \in Seq(TradeType)
  BY DEF PosTypes
<1>2. DOMAIN trades = 1 .. Len(trades) /\ Len(trades) \in Nat
  BY <1>1
<1>3. IsFiniteSet(1 .. Len(trades))
  BY <1>2, FS_Interval
<1>4. ASSUME NEW i \in DOMAIN trades
      PROVE  /\ trades[i] \in TradeType /\ trades[i].units \in Int
             /\ trades[i].fund \in Codes /\ trades[i].day \in 1 .. day
  <2>1. trades[i] \in TradeType
    BY <1>1, <1>2
  <2>2. trades[i].day <= day /\ day \in Nat
    BY DayType DEF PosTypes
  <2> QED
    BY <2>1, <2>2, PositionsAssumption DEF TradeType, Dates
<1> QED
  BY <1>2, <1>3, <1>4

LEMMA HeldType == ASSUME PosTypes, NEW f \in Codes, NEW d PROVE UnitsHeld(f, d) \in Int
<1> DEFINE g == [i \in DOMAIN trades |-> trades[i].units]
           S == {i \in DOMAIN trades : trades[i].fund = f /\ trades[i].day <= d}
<1>1. IsFiniteSet(DOMAIN trades) /\ \A i \in DOMAIN trades : g[i] \in Int
  BY TradeIs
<1>2. S \in SUBSET DOMAIN trades
  OBVIOUS
<1>3. UnitsHeld(f, d) = Opening[f] + SumFunctionOnSet(g, S) /\ Opening[f] \in Nat
  BY PositionsAssumption DEF UnitsHeld, UnitsOfTrades
<1> HIDE DEF g, S
<1>4. SumFunctionOnSet(g, S) \in Int
  BY <1>1, <1>2, SumIsInt
<1> QED
  BY <1>3, <1>4

LEMMA OfficialPnlIs ==
  ASSUME PosTypes, day > 1, NEW f \in Codes, NEW p \in Good, NEW q \in Quotes
  PROVE  LET w == OfficialPnl(f, p, q) IN
         /\ w \in Pnl /\ (w.status = "ok" => w.amount # Unset)
         /\ w.status = "ok" =>
              /\ w.date = NavDate(q) /\ w.date \in 2 .. day
              /\ w.amount = p.units * (navs[f][w.date] - navs[f][w.date - 1])
              /\ ~HasCashflow(f, w.date)
<1> DEFINE d == NavDate(q)
           again == [p.pnl EXCEPT !.status = "already_written"]
           blocked == [date |-> d, status |-> "blocked", amount |-> Unset]
<1>1. d \in 0 .. day /\ d \in 0 .. MaxDay
  BY DayType DEF NavDate
<1>2. p.pnl \in Pnl /\ p.units \in Nat
  BY DEF Good
<1>3. again \in Pnl /\ again.status # "ok"
  BY <1>2 DEF Pnl
<1>4. blocked \in Pnl /\ blocked.status # "ok"
  BY <1>1 DEF Pnl
<1>5. ASSUME d > 1
      PROVE  [date |-> d, status |-> "ok", amount |-> p.units * (navs[f][d] - navs[f][d - 1])] \in Pnl
             /\ p.units * (navs[f][d] - navs[f][d - 1]) # Unset
  <2>1. navs[f][d] \in Nat \ {0} /\ navs[f][d - 1] \in Nat \ {0}
    BY <1>1, <1>5, NavType, DayType
  <2>2. p.units * (navs[f][d] - navs[f][d - 1]) \in Int
    BY <1>2, <2>1
  <2> QED
    BY <1>1, <2>2, PositionsAssumption DEF Pnl
<1> HIDE DEF d
<1>6. CASE d <= 1 \/ q = "stale" \/ p.pnl.date = d \/ p.src \notin Trusted \/ p.units = 0 \/ HasCashflow(f, d)
  <2>1. OfficialPnl(f, p, q) \in {blocked, again}
    BY <1>6 DEF OfficialPnl, d
  <2> HIDE DEF blocked, again
  <2>2. OfficialPnl(f, p, q) \in Pnl /\ OfficialPnl(f, p, q).status # "ok"
    BY <1>3, <1>4, <2>1
  <2> QED
    BY <2>2
<1>7. CASE ~ (d <= 1 \/ q = "stale" \/ p.pnl.date = d \/ p.src \notin Trusted \/ p.units = 0 \/ HasCashflow(f, d))
  <2>1. OfficialPnl(f, p, q) = [date |-> d, status |-> "ok", amount |-> p.units * (navs[f][d] - navs[f][d - 1])]
    BY <1>7 DEF OfficialPnl, d
  <2>2. d > 1
    BY <1>1, <1>7
  <2> QED
    BY <1>1, <1>5, <1>7, <2>1, <2>2 DEF d
<1> QED
  BY <1>6, <1>7

LEMMA RevaluedIs ==
  ASSUME PosTypes, day > 1, NEW f \in Codes, NEW p \in Good, NEW q \in Quotes
  PROVE  LET w == Revalued(f, p, q) IN
         w \in Good /\ w.pnl = OfficialPnl(f, p, q) /\ (~Derives(p) => w.units = p.units)
<1> DEFINE w == [p EXCEPT !.pnl = OfficialPnl(f, p, q)]
           e == Ensured(w)
           d == NavDate(q)
<1>1. w \in Good /\ w.pnl = OfficialPnl(f, p, q) /\ w.units = p.units /\ w.nav = p.nav /\ w.val = p.val
  <2>1. OfficialPnl(f, p, q) \in Pnl /\ (OfficialPnl(f, p, q).status = "ok" => OfficialPnl(f, p, q).amount # Unset)
    BY OfficialPnlIs
  <2> QED
    BY <2>1 DEF Good
<1> HIDE DEF w
<1>2. ~Derives(p) => ~Derives(w)
  BY <1>1 DEF Derives
<1>3. e \in Good /\ e.pnl = w.pnl /\ (~Derives(w) => e = w)
  BY <1>1, EnsuredIs
<1>4. d \in 0 .. day
  BY DayType DEF NavDate
<1> HIDE DEF e, d
<1>5. CASE p.seen = day \/ d = 0 \/ e.units = 0
  <2>1. Revalued(f, p, q) \in {w, e}
    BY <1>5 DEF Revalued, w, e, d
  <2> QED
    BY <1>1, <1>2, <1>3, <2>1
<1>6. CASE ~ (p.seen = day \/ d = 0 \/ e.units = 0)
  <2>1. Revalued(f, p, q) = [e EXCEPT !.val = e.units * navs[f][d], !.nav = navs[f][d]]
    BY <1>6 DEF Revalued, w, e, d
  <2>2. navs[f][d] \in Nat
    BY <1>4, <1>6, NavType, DayType
  <2>3. e.units \in Nat
    BY <1>3 DEF Good
  <2>4. e.units * navs[f][d] \in Nat
    BY <2>2, <2>3
  <2>5. Revalued(f, p, q) \in Good /\ Revalued(f, p, q).pnl = e.pnl /\ Revalued(f, p, q).units = e.units
    BY <1>3, <2>1, <2>2, <2>4 DEF Good
  <2> QED
    BY <1>1, <1>2, <1>3, <2>5
<1> QED
  BY <1>5, <1>6

LEMMA UnitsOfIs ==
  ASSUME PosTypes, day > 1, NEW f \in Codes, NEW p \in Good, NEW q \in {"today", "delayed", "missing"}
  PROVE  LET w == UnitsOf(f, p, q) IN
         w \in Good /\ w.pnl = p.pnl /\ (~Derivable(p, q) => w = p)
<1>1. CASE ~Derivable(p, q)
  BY <1>1 DEF UnitsOf
<1>2. CASE Derivable(p, q)
  <2> DEFINE n == navs[f][NavDate(q)]
  <2>1. NavDate(q) \in 1 .. day
    BY <1>2, DayType DEF NavDate, Derivable
  <2>2. n \in Nat \ {0}
    BY <2>1, NavType
  <2>3. UnitsOf(f, p, q) = [p EXCEPT !.units = p.val \div n, !.nav = n, !.src = "derived_from_official_nav"]
    BY <1>2 DEF UnitsOf
  <2> HIDE DEF n
  <2>4. p.val \div n \in Nat
    BY <2>2, DivType DEF Good
  <2>5. "derived_from_official_nav" \in Sources
    BY DEF Sources
  <2> QED
    BY <1>2, <2>2, <2>3, <2>4, <2>5 DEF Good
<1> QED
  BY <1>1, <1>2

\* A set of numbers with a bound has a greatest.
LEMMA GreatestIs ==
  ASSUME NEW S \in SUBSET Int, NEW n \in Int, S # {}, \A x \in S : x <= n
  PROVE  Max(S) \in S /\ \A x \in S : x <= Max(S)
<1> DEFINE T == {n - x : x \in S}
<1>1. T \in SUBSET Nat /\ T # {}
  OBVIOUS
<1> HIDE DEF T
<1>2. PICK t \in T : \A u \in T : ~ (<<u, t>> \in OpToRel(<, Nat))
  BY <1>1, NatLessThanWellFounded, WFMin
<1>3. \A u \in T : ~ (u < t)
  BY <1>1, <1>2 DEF OpToRel
<1>4. PICK m \in S : t = n - m
  BY DEF T
<1>5. \A x \in S : m >= x
  <2> SUFFICES ASSUME NEW x \in S PROVE m >= x
    OBVIOUS
  <2>1. n - x \in T
    BY DEF T
  <2> QED
    BY <1>1, <1>3, <1>4, <2>1
<1>6. \E m1 \in S : \A y \in S : m1 >= y
  BY <1>5
<1>7. Max(S) \in S /\ \A x \in S : Max(S) >= x
  BY <1>6 DEF Max
<1> QED
  BY <1>7

LEMMA StartIs ==
  ASSUME PosTypes
  PROVE  /\ Start \in 0 .. day
         /\ Start = 0 \/ (Start \in Dates /\ snaps[Start] # Unset)
         /\ \A d \in Dates : snaps[d] # Unset => d <= Start
<1> DEFINE S == {0} \cup {d \in 1 .. day : snaps[d] # Unset}
<1>1. day \in Nat /\ 1 .. day \subseteq Dates
  BY DayType DEF Dates
<1>2. S \in SUBSET Int /\ S # {} /\ day \in Int /\ \A x \in S : x <= day
  BY <1>1
<1>3. Start = Max(S)
  BY DEF Start
<1> HIDE DEF S
<1>4. Start \in S /\ \A x \in S : x <= Start
  BY <1>2, <1>3, GreatestIs
<1>5. ASSUME NEW d \in Dates, snaps[d] # Unset PROVE d <= Start
  <2>1. d <= day /\ d \in Nat /\ 1 <= d
    BY <1>5 DEF PosTypes, Dates
  <2> QED
    BY <1>1, <1>4, <1>5, <2>1 DEF S
<1> QED
  BY <1>1, <1>4, <1>5 DEF S

\* A name that is read is matched with a candidate, and with its own if it is one.
LEMMA MatchIs ==
  ASSUME NEW name \in Codes
  PROVE  /\ Match(name) = Unset \/ Match(name) \in MatchCandidates
         /\ name \in MatchCandidates => Match(name) = name
<1> DEFINE close == {f \in MatchCandidates : Score(name, f) > 0}
           Rank(f) == 3 * Score(name, f) - Source(f)
           R == {Rank(f) : f \in close}
<1>1. \A f : Score(name, f) \in 0 .. 2 /\ Source(f) \in 0 .. 2 /\ (Score(name, f) = 2 <=> f = name)
  BY DEF Score, Source
<1>2. \A f : Rank(f) \in Int /\ Rank(f) <= 6
  BY <1>1
<1>3. Match(name) = IF close = {} THEN Unset ELSE CHOOSE f \in close : \A g \in close : Rank(f) >= Rank(g)
  BY DEF Match
<1> HIDE DEF Rank
<1>4. CASE close = {}
  <2>1. name \notin MatchCandidates
    BY <1>1, <1>4
  <2> QED
    BY <1>3, <1>4, <2>1
<1>5. CASE close # {}
  <2>1. R \in SUBSET Int /\ R # {} /\ 6 \in Int /\ \A x \in R : x <= 6
    BY <1>2, <1>5
  <2> HIDE DEF R
  <2>2. Max(R) \in R /\ \A x \in R : x <= Max(R)
    BY <2>1, GreatestIs
  <2>3. PICK f \in close : Max(R) = Rank(f)
    BY <2>2 DEF R
  <2>4. \A g \in close : Rank(f) >= Rank(g)
    BY <1>2, <2>2, <2>3 DEF R
  <2>5. Match(name) \in close /\ \A g \in close : Rank(Match(name)) >= Rank(g)
    <3> HIDE DEF close
    <3> QED
      BY <1>3, <1>5, <2>4
  <2>6. ASSUME name \in MatchCandidates PROVE Match(name) = name
    <3>1. name \in close
      BY <1>1, <2>6
    <3>2. Rank(Match(name)) >= Rank(name)
      BY <2>5, <3>1
    <3>3. Score(name, name) = 2 /\ Source(name) <= 2
      BY <1>1
    <3>4. Rank(name) >= 4
      BY <1>1, <3>3 DEF Rank
    <3>5. Score(name, Match(name)) = 2
      BY <1>1, <3>2, <3>4 DEF Rank
    <3> QED
      BY <1>1, <3>5
  <2> QED
    BY <2>5, <2>6
<1> QED
  BY <1>4, <1>5

\* The portfolio after the first trades of the journal, given the one before.
Base == IF Start = 0 THEN Restored ELSE snaps[Start]
AfterNext(c, n) ==
  LET t == trades[n]
      nav == navs[t.fund][t.day]
  IN IF c = Unset \/ ~Replayed(n) THEN c
     ELSE IF t.fund \notin DOMAIN c \/ ~CanTrade(c[t.fund], t.units, nav) THEN Unset
     ELSE [c EXCEPT ![t.fund] = UnitsAfterTrade(@, t.units, nav)]
IsReplay(h, m) == h = [n \in 0 .. m |-> IF n = 0 THEN Base ELSE AfterNext(h[n - 1], n)]
TheReplay(m) == CHOOSE h : IsReplay(h, m)

LEMMA RebuiltIs == Rebuilt = TheReplay(Len(trades))[Len(trades)]
  BY DEF Rebuilt, TheReplay, IsReplay, AfterNext, Base

\* Of numbers that something is true of, there is a first.
LEMMA FirstNumber ==
  ASSUME NEW F \in SUBSET Nat, F # {}
  PROVE  \E n \in F : \A m \in F : n <= m
<1>1. PICK n \in F : \A m \in F : ~ (<<m, n>> \in OpToRel(<, Nat))
  BY NatLessThanWellFounded, WFMin
<1>2. \A m \in F : ~ (m < n)
  BY <1>1 DEF OpToRel
<1>3. \A m \in F : n <= m
  BY <1>2
<1> QED
  BY <1>3

LEMMA ReplayExists == \A m \in Nat : \E h : IsReplay(h, m)
<1> DEFINE F == {m \in Nat : ~ \E h : IsReplay(h, m)}
<1> SUFFICES ASSUME F # {} PROVE FALSE
  OBVIOUS
<1> HIDE DEF F
<1>1. PICK m \in F : \A k \in F : m <= k
  BY FirstNumber DEF F
<1> USE DEF F
<1>2. m \in Nat /\ ~ \E h : IsReplay(h, m)
  OBVIOUS
<1>3. CASE m = 0
  <2> DEFINE h == [n \in 0 .. 0 |-> Base]
  <2>1. h = [n \in 0 .. 0 |-> IF n = 0 THEN Base ELSE AfterNext(h[n - 1], n)]
    OBVIOUS
  <2> HIDE DEF h
  <2>2. IsReplay(h, 0)
    BY <2>1 DEF IsReplay
  <2> QED
    BY <1>2, <1>3, <2>2
<1>4. CASE m # 0
  <2>1. m - 1 \in Nat /\ m - 1 \notin F
    BY <1>1, <1>2, <1>4
  <2>2. PICK k : IsReplay(k, m - 1)
    BY <2>1
  <2>3. DOMAIN k = 0 .. (m - 1) /\ \A n \in 0 .. (m - 1) : k[n] = IF n = 0 THEN Base ELSE AfterNext(k[n - 1], n)
    BY <2>2 DEF IsReplay
  <2> DEFINE h == [n \in 0 .. m |-> IF n = m THEN AfterNext(k[m - 1], m) ELSE k[n]]
             H == [n \in 0 .. m |-> IF n = 0 THEN Base ELSE AfterNext(h[n - 1], n)]
  <2>4. \A n \in 0 .. (m - 1) : h[n] = k[n] /\ n \in 0 .. m
    BY <1>2
  <2>5. h[m] = AfterNext(k[m - 1], m)
    BY <1>2
  <2>6. \A n \in 0 .. m : h[n] = IF n = 0 THEN Base ELSE AfterNext(h[n - 1], n)
    <3> HIDE DEF h, H
    <3> SUFFICES ASSUME NEW n \in 0 .. m
                 PROVE  h[n] = IF n = 0 THEN Base ELSE AfterNext(h[n - 1], n)
      OBVIOUS
    <3>1. CASE n = m
      <4>1. m - 1 \in 0 .. (m - 1)
        BY <1>2, <1>4
      <4>2. h[m - 1] = k[m - 1]
        BY <2>4, <4>1
      <4> QED
        BY <1>4, <2>5, <3>1, <4>2
    <3>2. CASE n # m
      <4>1. n \in 0 .. (m - 1)
        BY <1>2, <3>2
      <4>2. n # 0 => n - 1 \in 0 .. (m - 1)
        BY <1>2, <4>1
      <4>3. h[n] = k[n] /\ (n # 0 => h[n - 1] = k[n - 1])
        BY <2>4, <4>1, <4>2
      <4> QED
        BY <2>3, <4>1, <4>3
    <3> QED
      BY <3>1, <3>2
  <2>7. h = [n \in 0 .. m |-> h[n]]
    OBVIOUS
  <2> HIDE DEF h
  <2>8. h = H
    BY <2>6, <2>7
  <2>9. IsReplay(h, m)
    BY <2>8 DEF IsReplay
  <2> QED
    BY <1>2, <2>9
<1> QED
  BY <1>3, <1>4

LEMMA GoodIsPosition == Good \subseteq Position
  BY DEF Good, Position

LEMMA FolioIsSet == \A c : Folio(c) => c # Unset
<1> SUFFICES ASSUME NEW c, Folio(c) PROVE c # Unset
  OBVIOUS
<1>1. DOMAIN c \in SUBSET Codes /\ c \in [DOMAIN c -> Position]
  BY GoodIsPosition DEF Folio
<1> QED
  BY <1>1, UnsetAssumption

LEMMA NoPnlIs == NoPnl \in Pnl /\ NoPnl.status # "ok"
  BY PositionsAssumption DEF NoPnl, Pnl

LEMMA RestoredIs == Folio(Restored) /\ DOMAIN Restored = AtFirst /\ \A f \in AtFirst : Restored[f] = Opened(f)
<1>1. DOMAIN Restored = AtFirst /\ \A f \in AtFirst : Restored[f] = Opened(f)
  BY DEF Restored
<1>2. NoPnl \in Pnl /\ NoPnl.status # "ok"
  BY NoPnlIs
<1>3. ASSUME NEW f \in AtFirst PROVE Opened(f) \in Good
  <2> DEFINE u == IF f \in Unitless THEN 0 ELSE Opening[f]
             s == IF f \in Unitless THEN "" ELSE "stored"
  <2>1. Opening[f] \in Nat /\ 0 \in 0 .. MaxDay
    BY PositionsAssumption
  <2>2. u \in Nat /\ s \in Sources
    BY <2>1 DEF Sources
  <2>3. Opened(f) = [val |-> Opening[f], units |-> u, src |-> s, nav |-> 1, seen |-> 0, pnl |-> NoPnl]
    BY DEF Opened
  <2> HIDE DEF u, s
  <2> QED
    BY <1>2, <2>1, <2>2, <2>3 DEF Good
<1>4. Restored \in [AtFirst -> Good]
  BY <1>3 DEF Restored
<1> QED
  BY <1>1, <1>4, PositionsAssumption DEF Folio

LEMMA BaseIs == ASSUME PosTypes PROVE Folio(Base)
  BY StartIs, RestoredIs DEF Base, PosTypes

\* What a replay may make of a portfolio.
Like(c, d) == Folio(c) /\ DOMAIN c = DOMAIN d /\ \A f \in DOMAIN d : c[f].pnl = d[f].pnl

LEMMA TradedFolio ==
  ASSUME NEW c, Folio(c), NEW f \in DOMAIN c, NEW u \in {Lot, -Lot}, NEW nav \in Nat \ {0}, CanTrade(c[f], u, nav)
  PROVE  LET e == [c EXCEPT ![f] = UnitsAfterTrade(@, u, nav)] IN
         /\ Like(e, c) /\ \A g \in DOMAIN c : g # f => e[g] = c[g]
         /\ e[f] = UnitsAfterTrade(c[f], u, nav)
<1> DEFINE w == UnitsAfterTrade(c[f], u, nav)
           e == [c EXCEPT ![f] = w]
<1>1. c[f] \in Good
  BY DEF Folio
<1>2. w \in Good /\ w.pnl = c[f].pnl
  BY <1>1, AfterTradeIs
<1> HIDE DEF w
<1>3. DOMAIN e = DOMAIN c /\ e[f] = w /\ \A g \in DOMAIN c : g # f => e[g] = c[g]
  BY DEF Folio
<1>4. e \in [DOMAIN c -> Good]
  BY <1>2 DEF Folio
<1> HIDE DEF e
<1>5. Like(e, c)
  BY <1>2, <1>3, <1>4 DEF Like, Folio
<1> QED
  BY <1>3, <1>5 DEF e, w

LEMMA NextIs ==
  ASSUME PosTypes, NEW c, Folio(c), NEW n \in DOMAIN trades
  PROVE  /\ AfterNext(c, n) = Unset \/ Like(AfterNext(c, n), c)
         /\ ~Replayed(n) => AfterNext(c, n) = c
<1> DEFINE t == trades[n]
           nav == navs[t.fund][t.day]
<1>1. t.fund \in Codes /\ t.day \in 1 .. day /\ t.units \in {Lot, -Lot}
  BY TradeIs DEF TradeType
<1>2. nav \in Nat \ {0}
  BY <1>1, NavType
<1>3. AfterNext(c, n) = IF c = Unset \/ ~Replayed(n) THEN c
                    ELSE IF t.fund \notin DOMAIN c \/ ~CanTrade(c[t.fund], t.units, nav) THEN Unset
                    ELSE [c EXCEPT ![t.fund] = UnitsAfterTrade(@, t.units, nav)]
  BY DEF AfterNext
<1>4. Like(c, c)
  BY DEF Like
<1> HIDE DEF nav
<1>5. CASE Replayed(n) /\ t.fund \in DOMAIN c /\ CanTrade(c[t.fund], t.units, nav)
  <2>1. Like([c EXCEPT ![t.fund] = UnitsAfterTrade(@, t.units, nav)], c)
    BY <1>1, <1>2, <1>5, TradedFolio
  <2> QED
    BY <1>3, <1>4, <1>5, <2>1
<1>6. CASE ~ (Replayed(n) /\ t.fund \in DOMAIN c /\ CanTrade(c[t.fund], t.units, nav))
  BY <1>3, <1>4, <1>6
<1> QED
  BY <1>5, <1>6

LEMMA ReplayIs ==
  ASSUME PosTypes, NEW h, NEW m, m = Len(trades), IsReplay(h, m)
  PROVE  /\ h[m] = Unset \/ Like(h[m], Base)
         /\ (\A i \in DOMAIN trades : ~Replayed(i)) => h[m] = Base
<1>1. m \in Nat /\ DOMAIN trades = 1 .. m
  BY TradeIs
<1>2. \A n \in 0 .. m : h[n] = IF n = 0 THEN Base ELSE AfterNext(h[n - 1], n)
  BY DEF IsReplay
<1>3. Folio(Base) /\ Like(Base, Base)
  BY BaseIs DEF Like
<1> DEFINE P(n) == /\ h[n] = Unset \/ Like(h[n], Base)
                   /\ (\A i \in DOMAIN trades : ~Replayed(i)) => h[n] = Base
           F == {n \in 0 .. m : ~ P(n)}
<1>4. F = {}
  <2> SUFFICES ASSUME F # {} PROVE FALSE
    OBVIOUS
  <2>1. F \in SUBSET Nat
    BY <1>1
  <2> HIDE DEF F
  <2>2. PICK n \in F : \A k \in F : n <= k
    BY <2>1, FirstNumber
  <2> USE DEF F
  <2>3. n \in 0 .. m /\ ~ P(n)
    OBVIOUS
  <2>4. n # 0
    BY <1>2, <1>3, <2>3
  <2>5. n - 1 \in 0 .. m /\ n \in DOMAIN trades /\ n - 1 \notin F
    BY <1>1, <2>1, <2>2, <2>3, <2>4
  <2>6. P(n - 1)
    BY <2>5
  <2>7. h[n] = AfterNext(h[n - 1], n)
    BY <1>2, <2>3, <2>4
  <2>8. CASE h[n - 1] = Unset
    <3>1. AfterNext(h[n - 1], n) = h[n - 1]
      BY <2>8 DEF AfterNext
    <3>2. h[n] = h[n - 1]
      BY <2>7, <3>1
    <3> QED
      BY <2>3, <2>6, <3>2
  <2>9. CASE h[n - 1] # Unset
    <3>1. Like(h[n - 1], Base)
      BY <2>6, <2>9
    <3>2. Folio(h[n - 1])
      BY <3>1 DEF Like
    <3>3. (h[n] = Unset \/ Like(h[n], h[n - 1])) /\ (~Replayed(n) => h[n] = h[n - 1])
      BY <2>5, <2>7, <3>2, NextIs
    <3>4. Like(h[n], h[n - 1]) => Like(h[n], Base)
      BY <3>1 DEF Like
    <3> QED
      BY <2>3, <2>5, <2>6, <3>3, <3>4
  <2> QED
    BY <2>8, <2>9
<1>5. P(m)
  BY <1>1, <1>4
<1> QED
  BY <1>5

LEMMA RebuiltLike ==
  ASSUME PosTypes
  PROVE  /\ Rebuilt # Unset => Like(Rebuilt, Base)
         /\ (\A i \in DOMAIN trades : ~Replayed(i)) => Rebuilt = Base
<1> DEFINE m == Len(trades)
<1>1. m \in Nat
  BY TradeIs
<1> HIDE DEF m
<1>2. IsReplay(TheReplay(m), m)
  BY <1>1, ReplayExists DEF TheReplay
<1>3. Rebuilt = TheReplay(m)[m]
  BY RebuiltIs DEF m
<1> QED
  BY <1>2, <1>3, ReplayIs DEF m

\* A settled trade was due, and left a snapshot of the date it was due on.
LeftSnapshot ==
  \A i \in DOMAIN trades : Settled(i) => trades[i].day < day /\ snaps[trades[i].day + 1] # Unset

\* The newest snapshot has the profits of the portfolio, and while every trade
\* was settled on the day it was due it is the portfolio.
Newest(d) == d \in Dates /\ snaps[d] # Unset /\ \A e \in Dates : snaps[e] # Unset => e <= d
OnTime == \A i \in DOMAIN trades : Settled(i) => trades[i].on = trades[i].day + 1
Mirrors(d) == Like(snaps[d], folio) /\ (OnTime => snaps[d] = folio)
Saved ==
  \/ (\A d \in Dates : snaps[d] = Unset) /\ folio = Restored
  \/ \E d \in Dates : Newest(d) /\ Mirrors(d)

\* A fresh preview is of the portfolio, and each name was read once.
FundsOf(items) == {i.fund : i \in items}
Lacks(items) == {f \in DOMAIN folio : folio[f].val > 0 /\ f \notin FundsOf(items)}
Previewed ==
  shot # Unset =>
    /\ \A r, s \in shot.rows : r.name = s.name => r = s
    /\ shot.known => shot.items = {[fund |-> r.name, val |-> r.val] : r \in shot.rows}
    /\ shot.fresh => shot.added = FundsOf(shot.items) \ DOMAIN folio /\ shot.missing = Lacks(shot.items)

\* The inductive invariant.
PosInv == PosTypes /\ LeftSnapshot /\ Saved /\ Previewed /\ UnitsAreTraded

LEMMA AgedIs ==
  ASSUME PosTypes, Aged
  PROVE  shot' # Unset =>
           /\ shot # Unset /\ shot' \in PreviewType
           /\ shot'.rows = shot.rows /\ shot'.items = shot.items /\ shot'.added = shot.added
           /\ shot'.missing = shot.missing /\ shot'.known = shot.known
           /\ shot'.fresh => shot.fresh /\ folio' = folio
<1> SUFFICES ASSUME shot' # Unset
             PROVE  /\ shot # Unset /\ shot' \in PreviewType
                    /\ shot'.rows = shot.rows /\ shot'.items = shot.items /\ shot'.added = shot.added
                    /\ shot'.missing = shot.missing /\ shot'.known = shot.known
                    /\ shot'.fresh => shot.fresh /\ folio' = folio
  OBVIOUS
<1>1. CASE shot = Unset \/ folio' = folio
  BY <1>1 DEF Aged, PosTypes
<1>2. CASE ~ (shot = Unset \/ folio' = folio)
  <2>1. shot' = [shot EXCEPT !.fresh = FALSE]
    BY <1>2 DEF Aged
  <2>2. shot \in PreviewType
    BY <1>2 DEF PosTypes
  <2>3. PICK rows, items, unmatched, added, missing, fresh, known, on :
          shot = [rows |-> rows, items |-> items, unmatched |-> unmatched, added |-> added,
                  missing |-> missing, fresh |-> fresh, known |-> known, day |-> on]
    BY <2>2 DEF PreviewType
  <2>4. shot' = [rows |-> rows, items |-> items, unmatched |-> unmatched, added |-> added,
                 missing |-> missing, fresh |-> FALSE, known |-> known, day |-> on]
    BY <2>1, <2>3
  <2>5. shot'.fresh = FALSE /\ shot'.rows = shot.rows /\ shot'.items = shot.items /\ shot'.added = shot.added
        /\ shot'.missing = shot.missing /\ shot'.unmatched = shot.unmatched /\ shot'.day = shot.day
    BY <2>3, <2>4
  <2>6. shot'.known = shot.known
    BY <2>3, <2>4
  <2>7. shot' \in PreviewType
    BY <2>1, <2>2 DEF PreviewType
  <2> QED
    BY <1>2, <2>5, <2>6, <2>7
<1> QED
  BY <1>1, <1>2

LEMMA PreviewedKept == ASSUME PosTypes, Previewed, Aged PROVE Previewed'
<1> SUFFICES ASSUME shot' # Unset
             PROVE  /\ \A r, s \in shot'.rows : r.name = s.name => r = s
                    /\ shot'.known => shot'.items = {[fund |-> r.name, val |-> r.val] : r \in shot'.rows}
                    /\ shot'.fresh => shot'.added = FundsOf(shot'.items) \ DOMAIN folio' /\ shot'.missing = Lacks(shot.items)'
  <2>1. shot' # Unset => shot'.items = shot.items
    BY AgedIs
  <2> QED
    BY <2>1 DEF Previewed, Lacks, FundsOf
<1>1. /\ shot # Unset /\ shot'.rows = shot.rows /\ shot'.items = shot.items /\ shot'.added = shot.added
      /\ shot'.missing = shot.missing /\ shot'.known = shot.known
      /\ shot'.fresh => shot.fresh /\ folio' = folio
  BY AgedIs
<1>2. \A r, s \in shot'.rows : r.name = s.name => r = s
  BY <1>1 DEF Previewed
<1>3. ASSUME shot'.known PROVE shot'.items = {[fund |-> r.name, val |-> r.val] : r \in shot'.rows}
  <2>1. shot.known
    BY <1>1, <1>3
  <2> QED
    BY <1>1, <2>1 DEF Previewed
<1>4. ASSUME shot'.fresh PROVE shot'.added = FundsOf(shot'.items) \ DOMAIN folio' /\ shot'.missing = Lacks(shot.items)'
  <2>1. shot.fresh /\ folio' = folio
    BY <1>1, <1>4
  <2>2. shot.added = FundsOf(shot.items) \ DOMAIN folio /\ shot.missing = Lacks(shot.items)
    BY <1>1, <2>1 DEF Previewed
  <2>3. Lacks(shot.items)' = Lacks(shot.items)
    BY <1>1, <2>1 DEF Lacks, FundsOf
  <2> QED
    BY <1>1, <2>1, <2>2, <2>3 DEF FundsOf
<1> QED
  BY <1>2, <1>3, <1>4

\* What saving a state does to the snapshots.
LEMMA SavesIs ==
  ASSUME PosTypes, NEW c, Folio(c), NEW when \in 1 .. day, SaveState(c, when)
  PROVE  /\ folio' = c /\ DOMAIN snaps' = Dates /\ when \in Dates
         /\ \A d \in Dates : snaps'[d] # Unset => Folio(snaps'[d]) /\ d <= day
         /\ \A d \in Dates : d # when => snaps'[d] = snaps[d]
         /\ snaps'[when] = c /\ c # Unset
<1>1. when \in Dates /\ when <= day
  BY DayType DEF Dates
<1>2. folio' = c /\ snaps' = [snaps EXCEPT ![when] = c] /\ c # Unset
  BY FolioIsSet DEF SaveState
<1>3. DOMAIN snaps' = Dates /\ snaps'[when] = c /\ \A d \in Dates : d # when => snaps'[d] = snaps[d]
  BY <1>1, <1>2 DEF PosTypes
<1> QED
  BY <1>1, <1>2, <1>3 DEF PosTypes

\* A state that is saved under today's date is the newest.
LEMMA SavedToday ==
  ASSUME PosTypes, NEW c, Folio(c), SaveState(c, day), day' = day, trades' = trades, LeftSnapshot
  PROVE  Saved' /\ LeftSnapshot'
<1>1. day \in 1 .. day /\ day \in Nat
  BY DayType
<1>2. /\ folio' = c /\ DOMAIN snaps' = Dates /\ day \in Dates
      /\ \A d \in Dates : snaps'[d] # Unset => Folio(snaps'[d]) /\ d <= day
      /\ \A d \in Dates : d # day => snaps'[d] = snaps[d]
      /\ snaps'[day] = c /\ c # Unset
  BY <1>1, SavesIs
<1>3. Like(c, c)
  BY DEF Like
<1>4. PICK d \in Dates : d = day
  BY <1>2
<1>5. Newest(d)' /\ Mirrors(d)'
  BY <1>2, <1>3, <1>4 DEF Newest, Mirrors
<1>6. Saved'
  BY <1>5 DEF Saved
<1>7. LeftSnapshot'
  <2> SUFFICES ASSUME NEW i \in DOMAIN trades, Settled(i)'
               PROVE  (trades[i].day < day /\ snaps[trades[i].day + 1] # Unset)'
    BY DEF LeftSnapshot
  <2>1. Settled(i) /\ trades'[i].day = trades[i].day
    BY DEF Settled
  <2>2. trades[i].day < day /\ snaps[trades[i].day + 1] # Unset
    BY <2>1 DEF LeftSnapshot
  <2>3. trades[i].day + 1 \in Dates
    BY <2>2, TradeIs, DayType DEF Dates
  <2> QED
    BY <1>2, <2>1, <2>2, <2>3
<1> QED
  BY <1>6, <1>7

\* The settled trades that a fund's units are made of.
SettledOf(f) == {i \in DOMAIN trades : trades[i].fund = f /\ Settled(i)}

LEMMA PosInitHolds == PositionsInit => PosInv
<1> SUFFICES ASSUME PositionsInit PROVE PosInv
  OBVIOUS
<1>1. /\ day = 1 /\ navs \in [Codes -> {<<1>>}] /\ trades = <<>> /\ folio = Restored
      /\ snaps = [d \in Dates |-> Unset] /\ defs = AtFirst /\ watch \subseteq Codes
      /\ shot = Unset /\ clean = AtFirst \ Unitless
  BY DEF PositionsInit
<1>2. Folio(Restored) /\ DOMAIN Restored = AtFirst /\ \A f \in AtFirst : Restored[f] = Opened(f)
  BY RestoredIs
<1>3. PosTypes
  <2>1. 1 \in Dates
    BY PositionsAssumption DEF Dates
  <2>2. <<1>> \in Seq(Nat \ {0}) /\ Len(<<1>>) = 1
    OBVIOUS
  <2>3. navs \in [Codes -> Seq(Nat \ {0})] /\ \A f \in Codes : Len(navs[f]) = day
    BY <1>1, <2>2
  <2>4. trades \in Seq(TradeType) /\ \A i \in DOMAIN trades : trades[i].day <= day
    BY <1>1
  <2>5. AtFirst \subseteq Codes
    BY PositionsAssumption
  <2> QED
    BY <1>1, <1>2, <2>1, <2>3, <2>4, <2>5 DEF PosTypes
<1>4. LeftSnapshot
  BY <1>1 DEF LeftSnapshot
<1>5. Saved
  BY <1>1 DEF Saved
<1>6. Previewed
  BY <1>1 DEF Previewed
<1>7. UnitsAreTraded
  <2> SUFFICES ASSUME NEW f \in AtFirst \ Unitless
               PROVE  folio[f].units = Opening[f] + UnitsOfTrades(SettledOf(f))
    BY <1>1 DEF UnitsAreTraded, SettledOf
  <2>1. SettledOf(f) = {}
    BY <1>1 DEF SettledOf
  <2>2. UnitsOfTrades({}) = 0
    BY SumEmpty DEF UnitsOfTrades
  <2>3. UnitsOfTrades(SettledOf(f)) = 0
    BY <2>1, <2>2
  <2>4. folio[f] = Opened(f) /\ f \in AtFirst /\ f \notin Unitless
    BY <1>1, <1>2
  <2>5. Opened(f).units = Opening[f] /\ Opening[f] \in Nat
    BY <2>4, PositionsAssumption DEF Opened
  <2> QED
    BY <2>3, <2>4, <2>5
<1> QED
  BY <1>3, <1>4, <1>5, <1>6, <1>7 DEF PosInv

LEMMA UnitsType == ASSUME PosTypes, NEW f PROVE UnitsOfTrades(SettledOf(f)) \in Int
<1> DEFINE g == [i \in DOMAIN trades |-> trades[i].units]
<1>1. IsFiniteSet(DOMAIN trades) /\ \A i \in DOMAIN trades : g[i] \in Int
  BY TradeIs
<1>2. SettledOf(f) \in SUBSET DOMAIN trades
  BY DEF SettledOf
<1> HIDE DEF g
<1>3. SumFunctionOnSet(g, SettledOf(f)) \in Int
  BY <1>1, <1>2, SumIsInt
<1> QED
  BY <1>3 DEF UnitsOfTrades, g

LEMMA UnitsOfSettled ==
  ASSUME PosTypes, NEW i \in DOMAIN trades, ~Settled(i), trades' = [trades EXCEPT ![i].on = day], NEW f \in Codes
  PROVE  UnitsOfTrades(SettledOf(f))' =
           UnitsOfTrades(SettledOf(f)) + (IF f = trades[i].fund THEN trades[i].units ELSE 0)
<1> DEFINE g == [j \in DOMAIN trades |-> trades[j].units]
           h == [j \in DOMAIN trades' |-> trades'[j].units]
           S == SettledOf(f)
           T == {j \in DOMAIN trades' : trades'[j].fund = f /\ trades'[j].on # 0}
<1>1. day # 0
  BY DayType
<1>2. DOMAIN trades' = DOMAIN trades /\ \A j \in DOMAIN trades :
        /\ trades'[j].units = trades[j].units /\ trades'[j].fund = trades[j].fund
        /\ trades'[j].on = IF j = i THEN day ELSE trades[j].on
  <2>1. trades \in Seq(TradeType) /\ \A j \in DOMAIN trades : trades[j] \in TradeType
    BY TradeIs DEF PosTypes
  <2> QED
    BY <2>1 DEF TradeType
<1>3. g = h
  BY <1>2
<1>4. IsFiniteSet(DOMAIN trades) /\ \A j \in DOMAIN trades : g[j] \in Int
  BY TradeIs
<1>5. UnitsOfTrades(SettledOf(f))' = SumFunctionOnSet(h, T) /\ UnitsOfTrades(SettledOf(f)) = SumFunctionOnSet(g, S)
  BY DEF UnitsOfTrades, SettledOf, Settled
<1>6. g[i] = trades[i].units
  OBVIOUS
<1>7. T = IF f = trades[i].fund THEN S \cup {i} ELSE S
  BY <1>1, <1>2 DEF SettledOf, Settled
<1>8. i \notin S /\ S \subseteq DOMAIN trades
  BY DEF SettledOf
<1> HIDE DEF g, h, S, T
<1>9. CASE f = trades[i].fund
  <2>1. T \in SUBSET DOMAIN trades /\ i \in T /\ T \ {i} = S
    BY <1>7, <1>8, <1>9
  <2>2. SumFunctionOnSet(g, T) = g[i] + SumFunctionOnSet(g, S)
    BY <1>4, <2>1, SumWithout
  <2>3. SumFunctionOnSet(g, S) \in Int /\ g[i] \in Int
    BY <1>4, <1>8, SumIsInt
  <2> QED
    BY <1>3, <1>5, <1>6, <1>9, <2>2, <2>3
<1>10. CASE f # trades[i].fund
  <2>1. SumFunctionOnSet(g, S) \in Int
    BY <1>4, <1>8, SumIsInt
  <2> QED
    BY <1>3, <1>5, <1>7, <1>10, <2>1
<1> QED
  BY <1>9, <1>10

LEMMA TradedKept ==
  ASSUME PosTypes, UnitsAreTraded, trades' = trades,
         \A f \in clean' \cap DOMAIN folio' : f \in clean \cap DOMAIN folio /\ folio'[f].units = folio[f].units
  PROVE  UnitsAreTraded'
  BY DEF UnitsAreTraded, UnitsOfTrades, Settled

LEMMA NextDayStep == PosInv /\ NextDay => PosInv'
<1> SUFFICES ASSUME PosInv, NextDay PROVE PosInv'
  OBVIOUS
<1> USE DEF PosInv
<1>1. UNCHANGED <<trades, folio, snaps, defs, watch, shot, clean, saves>> /\ day' = day + 1 /\ day < MaxDay
  BY DEF NextDay
<1>2. PosTypes'
  <2>1. day' \in Dates /\ day \in Nat
    BY <1>1, DayType DEF Dates
  <2>2. PICK n \in [Codes -> UNION {Navs[f] : f \in Codes}] :
          (\A f \in Codes : n[f] \in Navs[f]) /\ navs' = [f \in Codes |-> Append(navs[f], n[f])]
    BY DEF NextDay
  <2>3. ASSUME NEW f \in Codes
        PROVE  Append(navs[f], n[f]) \in Seq(Nat \ {0}) /\ Len(Append(navs[f], n[f])) = day + 1
    <3>1. n[f] \in Nat \ {0}
      BY <2>2, PositionsAssumption
    <3>2. navs[f] \in Seq(Nat \ {0}) /\ Len(navs[f]) = day
      BY DEF PosTypes
    <3> QED
      BY <3>1, <3>2
  <2>4. navs' \in [Codes -> Seq(Nat \ {0})] /\ \A f \in Codes : Len(navs'[f]) = day'
    BY <1>1, <2>2, <2>3
  <2>5. \A i \in DOMAIN trades : trades[i].day <= day'
    BY <1>1, <2>1, TradeIs
  <2>6. \A d \in Dates : snaps[d] # Unset => Folio(snaps[d]) /\ d <= day'
    <3>1. \A d \in Dates : d <= day => d <= day + 1
      BY <2>1 DEF Dates
    <3> QED
      BY <1>1, <3>1 DEF PosTypes
  <2> QED
    BY <1>1, <2>1, <2>4, <2>5, <2>6 DEF PosTypes
<1>3. LeftSnapshot'
  <2>1. \A i \in DOMAIN trades : trades[i].day < day => trades[i].day < day'
    BY <1>1, TradeIs, DayType
  <2> QED
    BY <1>1, <2>1 DEF LeftSnapshot, Settled
<1>4. Saved'
  BY <1>1 DEF Saved, Newest, Mirrors, OnTime, Settled
<1>5. Previewed'
  BY <1>1 DEF Previewed, Lacks, FundsOf
<1>6. UnitsAreTraded'
  BY <1>1, TradedKept
<1> QED
  BY <1>2, <1>3, <1>4, <1>5, <1>6

LEMMA RecordStep == PosInv /\ RecordTrade => PosInv'
<1> SUFFICES ASSUME PosInv, RecordTrade PROVE PosInv'
  OBVIOUS
<1> USE DEF PosInv
<1>1. UNCHANGED <<day, navs, folio, snaps, defs, watch, shot, clean, saves>>
  BY DEF RecordTrade
<1>2. PICK f \in DOMAIN folio, u \in {Lot, -Lot} :
        trades' = Append(trades, [fund |-> f, units |-> u, day |-> day, on |-> 0])
  BY DEF RecordTrade
<1> DEFINE m == Len(trades) + 1
           t == [fund |-> f, units |-> u, day |-> day, on |-> 0]
<1>3. t \in TradeType /\ t.day = day /\ t.on = 0
  BY PositionsAssumption DEF PosTypes, Folio, TradeType
<1>4. trades \in Seq(TradeType) /\ Len(trades) \in Nat /\ DOMAIN trades = 1 .. Len(trades)
  BY TradeIs DEF PosTypes
<1> HIDE DEF t
<1>5. trades' \in Seq(TradeType) /\ DOMAIN trades' = DOMAIN trades \cup {m} /\ m \notin DOMAIN trades
      /\ trades'[m] = t /\ \A i \in DOMAIN trades : trades'[i] = trades[i]
  BY <1>2, <1>3, <1>4 DEF t
<1>6. PosTypes'
  <2>1. \A i \in DOMAIN trades' : trades'[i].day <= day'
    BY <1>1, <1>3, <1>5, TradeIs, DayType
  <2> QED
    BY <1>1, <1>5, <2>1 DEF PosTypes
<1>7. \A i \in DOMAIN trades' : Settled(i)' => i \in DOMAIN trades /\ Settled(i) /\ trades'[i] = trades[i]
  BY <1>3, <1>5 DEF Settled
<1>8. LeftSnapshot'
  BY <1>1, <1>7 DEF LeftSnapshot
<1>9. OnTime' => OnTime
  BY <1>5 DEF OnTime, Settled
<1>10. Saved'
  BY <1>1, <1>9 DEF Saved, Newest, Mirrors
<1>11. Previewed'
  BY <1>1 DEF Previewed, Lacks, FundsOf
<1>12. ASSUME NEW g \in Codes PROVE UnitsOfTrades(SettledOf(g))' = UnitsOfTrades(SettledOf(g))
  <2> DEFINE a == [j \in DOMAIN trades |-> trades[j].units]
             b == [j \in DOMAIN trades' |-> trades'[j].units]
             S == SettledOf(g)
             T == {j \in DOMAIN trades' : trades'[j].fund = g /\ trades'[j].on # 0}
  <2>1. UnitsOfTrades(SettledOf(g))' = SumFunctionOnSet(b, T) /\ UnitsOfTrades(SettledOf(g)) = SumFunctionOnSet(a, S)
    BY DEF UnitsOfTrades, SettledOf, Settled
  <2>2. S = T
    BY <1>3, <1>5 DEF SettledOf, Settled
  <2>3. \A j \in DOMAIN trades : a[j] = b[j]
    BY <1>5
  <2>4. IsFiniteSet(DOMAIN trades) /\ S \in SUBSET DOMAIN trades
    BY TradeIs DEF SettledOf
  <2> HIDE DEF a, b, S, T
  <2>5. SumFunctionOnSet(a, S) = SumFunctionOnSet(b, S)
    BY <2>3, <2>4, SumsAgree
  <2> QED
    BY <2>1, <2>2, <2>5
<1>13. UnitsAreTraded'
  <2> SUFFICES ASSUME NEW g \in clean' \cap DOMAIN folio'
               PROVE  folio'[g].units = Opening[g] + UnitsOfTrades(SettledOf(g))'
    BY DEF UnitsAreTraded, SettledOf
  <2>1. g \in clean \cap DOMAIN folio /\ g \in Codes
    BY <1>1 DEF PosTypes, Folio
  <2>2. folio[g].units = Opening[g] + UnitsOfTrades(SettledOf(g))
    BY <2>1 DEF UnitsAreTraded, SettledOf
  <2> QED
    BY <1>1, <1>12, <2>1, <2>2
<1> QED
  BY <1>6, <1>8, <1>10, <1>11, <1>13

LEMMA RevalueStep == PosInv /\ Revalue => PosInv'
<1> SUFFICES ASSUME PosInv, Revalue PROVE PosInv'
  OBVIOUS
<1> USE DEF PosInv
<1>1. /\ day > 1 /\ Aged /\ UNCHANGED <<day, navs, trades, defs, watch>>
      /\ clean' = {f \in clean : f \in DOMAIN folio => ~Derives(folio[f])}
  BY DEF Revalue
<1>2. PICK q \in Quotes : SaveState([f \in DOMAIN folio |-> Revalued(f, folio[f], q)], day)
  BY DEF Revalue
<1> DEFINE c == [f \in DOMAIN folio |-> Revalued(f, folio[f], q)]
<1>3. ASSUME NEW f \in DOMAIN folio
      PROVE  Revalued(f, folio[f], q) \in Good /\ (~Derives(folio[f]) => Revalued(f, folio[f], q).units = folio[f].units)
  <2>1. f \in Codes /\ folio[f] \in Good
    BY DEF PosTypes, Folio
  <2> QED
    BY <1>1, <2>1, RevaluedIs
<1>4. Folio(c) /\ DOMAIN c = DOMAIN folio /\ \A f \in DOMAIN folio : ~Derives(folio[f]) => c[f].units = folio[f].units
  BY <1>3 DEF Folio, PosTypes
<1> HIDE DEF c
<1>5. Saved' /\ LeftSnapshot'
  BY <1>1, <1>2, <1>4, SavedToday DEF c
<1>6. /\ folio' = c /\ DOMAIN snaps' = Dates
      /\ \A d \in Dates : snaps'[d] # Unset => Folio(snaps'[d]) /\ d <= day
  <2>1. day \in 1 .. day
    BY DayType
  <2> QED
    BY <1>2, <1>4, <2>1, SavesIs DEF c
<1>7. PosTypes'
  <2>1. shot' # Unset => shot' \in PreviewType
    BY <1>1, AgedIs
  <2> QED
    BY <1>1, <1>4, <1>6, <2>1 DEF PosTypes
<1>8. Previewed'
  BY <1>1, PreviewedKept
<1>9. UnitsAreTraded'
  BY <1>1, <1>4, <1>6, TradedKept
<1> QED
  BY <1>5, <1>7, <1>8, <1>9

LEMMA SyncUnitsStep == PosInv /\ SyncUnits => PosInv'
<1> SUFFICES ASSUME PosInv, SyncUnits PROVE PosInv'
  OBVIOUS
<1> USE DEF PosInv
<1>1. day > 1 /\ Aged /\ UNCHANGED <<day, navs, trades, defs, watch>>
  BY DEF SyncUnits
<1>2. PICK q \in {"today", "delayed", "missing"} :
        /\ SaveState([f \in DOMAIN folio |-> UnitsOf(f, folio[f], q)], day)
        /\ clean' = {f \in clean : f \in DOMAIN folio => ~Derivable(folio[f], q)}
  BY DEF SyncUnits
<1> DEFINE c == [f \in DOMAIN folio |-> UnitsOf(f, folio[f], q)]
<1>3. ASSUME NEW f \in DOMAIN folio
      PROVE  UnitsOf(f, folio[f], q) \in Good /\ (~Derivable(folio[f], q) => UnitsOf(f, folio[f], q).units = folio[f].units)
  <2>1. f \in Codes /\ folio[f] \in Good
    BY DEF PosTypes, Folio
  <2> QED
    BY <1>1, <2>1, UnitsOfIs
<1>4. Folio(c) /\ DOMAIN c = DOMAIN folio /\ \A f \in DOMAIN folio : ~Derivable(folio[f], q) => c[f].units = folio[f].units
  BY <1>3 DEF Folio, PosTypes
<1> HIDE DEF c
<1>5. Saved' /\ LeftSnapshot'
  BY <1>1, <1>2, <1>4, SavedToday DEF c
<1>6. /\ folio' = c /\ DOMAIN snaps' = Dates
      /\ \A d \in Dates : snaps'[d] # Unset => Folio(snaps'[d]) /\ d <= day
  <2>1. day \in 1 .. day
    BY DayType
  <2> QED
    BY <1>2, <1>4, <2>1, SavesIs DEF c
<1>7. PosTypes'
  <2>1. shot' # Unset => shot' \in PreviewType
    BY <1>1, AgedIs
  <2> QED
    BY <1>1, <1>2, <1>4, <1>6, <2>1 DEF PosTypes
<1>8. Previewed'
  BY <1>1, PreviewedKept
<1>9. UnitsAreTraded'
  BY <1>1, <1>2, <1>4, <1>6, TradedKept
<1> QED
  BY <1>5, <1>7, <1>8, <1>9

LEMMA RebuildStep == PosInv /\ Rebuild => PosInv'
<1> SUFFICES ASSUME PosInv, Rebuild PROVE PosInv'
  OBVIOUS
<1> USE DEF PosInv
<1>1. /\ Aged /\ UNCHANGED <<day, navs, trades, defs, watch>>
      /\ Rebuilt # Unset /\ SaveState(Rebuilt, day)
      /\ clean' = {f \in clean : f \in DOMAIN folio' /\ f \in DOMAIN folio /\ folio'[f].units = folio[f].units}
  BY DEF Rebuild
<1>2. PICK c : c = Rebuilt
  OBVIOUS
<1>3. Folio(c) /\ SaveState(c, day)
  BY <1>1, <1>2, RebuiltLike DEF Like
<1>4. Saved' /\ LeftSnapshot'
  BY <1>1, <1>3, SavedToday
<1>5. /\ folio' = c /\ DOMAIN snaps' = Dates
      /\ \A d \in Dates : snaps'[d] # Unset => Folio(snaps'[d]) /\ d <= day
  <2>1. day \in 1 .. day
    BY DayType
  <2> QED
    BY <1>3, <2>1, SavesIs
<1>6. PosTypes'
  <2>1. shot' # Unset => shot' \in PreviewType
    BY <1>1, AgedIs
  <2> QED
    BY <1>1, <1>3, <1>5, <2>1 DEF PosTypes
<1>7. Previewed'
  BY <1>1, PreviewedKept
<1>8. UnitsAreTraded'
  BY <1>1, TradedKept
<1> QED
  BY <1>4, <1>6, <1>7, <1>8

LEMMA RegisterStep == PosInv /\ Register => PosInv'
<1> SUFFICES ASSUME PosInv, Register PROVE PosInv'
  OBVIOUS
<1> USE DEF PosInv
<1>1. UNCHANGED <<day, navs, trades, folio, snaps, shot, clean, saves>> /\ shot # Unset
  BY DEF Register
<1>2. PICK f \in shot.unmatched : defs' = defs \cup {f} /\ watch' = watch \cup {f}
  BY DEF Register
<1>3. f \in Codes
  BY <1>1 DEF PosTypes, PreviewType
<1>4. PosTypes'
  BY <1>1, <1>2, <1>3 DEF PosTypes
<1>5. LeftSnapshot' /\ Saved' /\ Previewed'
  BY <1>1 DEF LeftSnapshot, Saved, Newest, Mirrors, OnTime, Settled, Previewed, Lacks, FundsOf
<1>6. UnitsAreTraded'
  BY <1>1, TradedKept
<1> QED
  BY <1>4, <1>5, <1>6

LEMMA PreviewStep == PosInv /\ PreviewSync => PosInv'
<1> SUFFICES ASSUME PosInv, PreviewSync PROVE PosInv'
  OBVIOUS
<1> USE DEF PosInv
<1>1. UNCHANGED <<day, navs, trades, folio, snaps, defs, watch, clean, saves>>
  BY DEF PreviewSync
<1>2. PICK read \in Readings :
        LET rows == Rows(read)
            items == {[fund |-> Match(r.name), val |-> r.val] : r \in {x \in rows : Match(x.name) # Unset}}
        IN shot' = [rows |-> rows, items |-> items,
                    unmatched |-> {f \in read : Match(f) = Unset},
                    added |-> {i.fund : i \in items} \ DOMAIN folio,
                    missing |-> {f \in DOMAIN folio : folio[f].val > 0 /\ f \notin {i.fund : i \in items}},
                    fresh |-> TRUE, known |-> read \subseteq MatchCandidates, day |-> day]
  BY DEF PreviewSync
<1>3. PICK rows : rows = Rows(read)
  OBVIOUS
<1>4. PICK items : items = {[fund |-> Match(r.name), val |-> r.val] : r \in {x \in rows : Match(x.name) # Unset}}
  OBVIOUS
<1>5. PICK known \in BOOLEAN : known <=> read \subseteq MatchCandidates
  OBVIOUS
<1>6. shot' = [rows |-> rows, items |-> items, unmatched |-> {f \in read : Match(f) = Unset},
               added |-> FundsOf(items) \ DOMAIN folio, missing |-> Lacks(items),
               fresh |-> TRUE, known |-> known, day |-> day]
  <2>1. known = (read \subseteq MatchCandidates)
    BY <1>5
  <2> QED
    BY <1>2, <1>3, <1>4, <2>1 DEF FundsOf, Lacks
<1>7. read \subseteq Codes /\ \A f \in read : UnitsHeld(f, day - 1) * navs[f][day] \in Nat
  <2>1. read \subseteq Codes /\ \A f \in read : UnitsHeld(f, day - 1) > 0
    BY DEF Readings, Screen
  <2>2. ASSUME NEW f \in read PROVE UnitsHeld(f, day - 1) * navs[f][day] \in Nat
    <3>1. UnitsHeld(f, day - 1) \in Int /\ UnitsHeld(f, day - 1) > 0
      BY <2>1, HeldType
    <3>2. day \in 1 .. day
      BY DayType
    <3>3. navs[f][day] \in Nat \ {0}
      BY <2>1, <3>2, NavType
    <3>4. PICK k \in Int, n \in Nat : k = UnitsHeld(f, day - 1) /\ n = navs[f][day]
      BY <3>1, <3>3
    <3>5. k * n \in Nat
      BY <3>1, <3>4
    <3> QED
      BY <3>4, <3>5
  <2> QED
    BY <2>1, <2>2
<1>8. rows \subseteq [name: Codes, val: Nat] /\ \A r, s \in rows : r.name = s.name => r = s
  <2>1. rows = {[name |-> f, val |-> UnitsHeld(f, day - 1) * navs[f][day]] : f \in read}
    BY <1>3 DEF Rows
  <2> QED
    BY <1>7, <2>1
<1>9. MatchCandidates \subseteq Codes
  BY DEF MatchCandidates, PosTypes, Folio
<1>10. items \subseteq [fund: Codes, val: Nat]
  <2> SUFFICES ASSUME NEW r \in rows, Match(r.name) # Unset
               PROVE  [fund |-> Match(r.name), val |-> r.val] \in [fund: Codes, val: Nat]
    BY <1>4
  <2>1. r.name \in Codes /\ r.val \in Nat
    BY <1>8
  <2>2. Match(r.name) \in Codes
    BY <1>9, <2>1, MatchIs
  <2> QED
    BY <2>1, <2>2
<1>11. ASSUME known PROVE items = {[fund |-> r.name, val |-> r.val] : r \in rows}
  <2>1. ASSUME NEW r \in rows PROVE Match(r.name) = r.name /\ r.name # Unset
    <3>1. r.name \in read
      BY <1>3 DEF Rows
    <3>2. r.name \in MatchCandidates /\ r.name \in Codes
      BY <1>5, <1>7, <1>11, <3>1
    <3> QED
      BY <3>2, MatchIs, PositionsAssumption
  <2> QED
    BY <1>4, <2>1
<1>12. shot' \in PreviewType
  <2>1. FundsOf(items) \ DOMAIN folio \subseteq Codes /\ Lacks(items) \subseteq Codes
    BY <1>10 DEF FundsOf, Lacks, PosTypes, Folio
  <2>2. {f \in read : Match(f) = Unset} \subseteq Codes /\ day \in Dates
    BY <1>7 DEF PosTypes
  <2> QED
    BY <1>6, <1>8, <1>10, <2>1, <2>2 DEF PreviewType
<1>13. PosTypes'
  BY <1>1, <1>12 DEF PosTypes
<1>14. LeftSnapshot' /\ Saved'
  BY <1>1 DEF LeftSnapshot, Saved, Newest, Mirrors, OnTime, Settled
<1>15. Previewed'
  <2>1. shot'.rows = rows /\ shot'.items = items /\ shot'.added = FundsOf(items) \ DOMAIN folio /\ shot'.missing = Lacks(items)
    BY <1>6
  <2>2. shot'.known <=> known
    BY <1>6
  <2>3. \A r, s \in shot'.rows : r.name = s.name => r = s
    BY <1>8, <2>1
  <2>4. shot'.known => shot'.items = {[fund |-> r.name, val |-> r.val] : r \in shot'.rows}
    BY <1>11, <2>1, <2>2
  <2>5. Lacks(shot'.items) = Lacks(items)
    BY <2>1
  <2>6. Lacks(shot.items)' = Lacks(items)
    BY <1>1, <2>1 DEF Lacks, FundsOf
  <2>7. shot'.added = FundsOf(shot'.items) \ DOMAIN folio' /\ shot'.missing = Lacks(shot.items)'
    BY <1>1, <2>1, <2>6
  <2> QED
    BY <2>3, <2>4, <2>7 DEF Previewed, Lacks, FundsOf
<1>16. UnitsAreTraded'
  BY <1>1, TradedKept
<1> QED
  BY <1>13, <1>14, <1>15, <1>16

LEMMA SettleStep == \A i \in DOMAIN trades : PosInv /\ SettleTrade(i) => PosInv'
<1> SUFFICES ASSUME NEW i \in DOMAIN trades, PosInv, SettleTrade(i) PROVE PosInv'
  OBVIOUS
<1> USE DEF PosInv
<1> DEFINE t == trades[i]
           f == t.fund
           nav == navs[f][t.day]
           when == t.day + 1
           c == [folio EXCEPT ![f] = UnitsAfterTrade(@, t.units, nav)]
<1>1. /\ ~Settled(i) /\ t.day < day /\ f \in DOMAIN folio /\ CanTrade(folio[f], t.units, nav)
      /\ SaveState(c, when) /\ trades' = [trades EXCEPT ![i].on = day]
      /\ clean' = IF \/ Derives(folio[f]) \/ Derives(ValueMoved(folio[f], t.units, nav))
                     \/ folio[f].units + t.units < 0
                  THEN clean \ {f} ELSE clean
      /\ Aged /\ UNCHANGED <<day, navs, defs, watch>>
  BY DEF SettleTrade
<1>2. f \in Codes /\ t.day \in 1 .. day /\ t.units \in {Lot, -Lot} /\ t.units \in Int
  BY TradeIs DEF TradeType
<1>3. when \in 1 .. day /\ when \in Dates /\ day \in Nat /\ day # 0
  BY <1>1, <1>2, DayType DEF Dates
<1>4. nav \in Nat \ {0}
  BY <1>2, NavType
<1>5. Folio(folio) /\ folio[f] \in Good
  BY <1>1 DEF PosTypes, Folio
<1>6. /\ Like(c, folio) /\ \A g \in DOMAIN folio : g # f => c[g] = folio[g]
      /\ c[f] = UnitsAfterTrade(folio[f], t.units, nav)
  <2> HIDE DEF nav
  <2> QED
    BY <1>1, <1>2, <1>4, <1>5, TradedFolio
<1>7. ~Derives(folio[f]) /\ ~Derives(ValueMoved(folio[f], t.units, nav)) /\ folio[f].units + t.units >= 0
        => c[f].units = folio[f].units + t.units
  <2> HIDE DEF nav, c
  <2> QED
    BY <1>1, <1>2, <1>4, <1>5, <1>6, AfterTradeIs
<1> HIDE DEF nav, c
<1>8. Folio(c) /\ DOMAIN c = DOMAIN folio
  BY <1>6 DEF Like
<1>9. /\ folio' = c /\ DOMAIN snaps' = Dates
      /\ \A d \in Dates : snaps'[d] # Unset => Folio(snaps'[d]) /\ d <= day
      /\ \A d \in Dates : d # when => snaps'[d] = snaps[d]
      /\ snaps'[when] = c /\ c # Unset
  BY <1>1, <1>3, <1>8, SavesIs
<1>10. DOMAIN trades' = DOMAIN trades /\ \A j \in DOMAIN trades :
         /\ trades'[j].units = trades[j].units /\ trades'[j].fund = trades[j].fund /\ trades'[j].day = trades[j].day
         /\ trades'[j].on = IF j = i THEN day ELSE trades[j].on
  <2>1. trades \in Seq(TradeType) /\ \A j \in DOMAIN trades : trades[j] \in TradeType
    BY TradeIs DEF PosTypes
  <2> QED
    BY <1>1, <2>1 DEF TradeType
<1>11. trades' \in Seq(TradeType)
  <2>1. trades \in Seq(TradeType) /\ t \in TradeType
    BY TradeIs DEF PosTypes
  <2>2. [t EXCEPT !.on = day] \in TradeType
    BY <1>3, <2>1, DayType DEF TradeType
  <2>3. trades' = [trades EXCEPT ![i] = [t EXCEPT !.on = day]]
    BY <1>1
  <2> QED
    BY <2>1, <2>2, <2>3
<1>12. PosTypes'
  <2>1. shot' # Unset => shot' \in PreviewType
    BY <1>1, AgedIs
  <2>2. \A j \in DOMAIN trades' : trades'[j].day <= day'
    BY <1>1, <1>10 DEF PosTypes
  <2>3. clean' \subseteq DOMAIN folio'
    BY <1>1, <1>8, <1>9 DEF PosTypes
  <2> QED
    BY <1>1, <1>8, <1>9, <1>11, <2>1, <2>2, <2>3 DEF PosTypes
<1>13. LeftSnapshot'
  <2> SUFFICES ASSUME NEW j \in DOMAIN trades, trades'[j].on # 0
               PROVE  trades'[j].day < day' /\ snaps'[trades'[j].day + 1] # Unset
    BY <1>10 DEF LeftSnapshot, Settled
  <2>1. trades'[j].day = trades[j].day
    BY <1>10
  <2>2. CASE j = i
    BY <1>1, <1>9, <2>1, <2>2
  <2>3. CASE j # i
    <3>1. Settled(j)
      BY <1>10, <2>3 DEF Settled
    <3>2. trades[j].day < day /\ snaps[trades[j].day + 1] # Unset
      BY <3>1 DEF LeftSnapshot
    <3>3. trades[j].day + 1 \in Dates
      BY <3>2, TradeIs, DayType DEF Dates
    <3> QED
      BY <1>1, <1>9, <2>1, <3>2, <3>3
  <2> QED
    BY <2>2, <2>3
<1>14. OnTime' => OnTime /\ when = day
  <2> SUFFICES ASSUME OnTime' PROVE OnTime /\ when = day
    OBVIOUS
  <2>1. \A j \in DOMAIN trades : trades'[j].on # 0 => trades'[j].on = trades'[j].day + 1
    BY <1>10 DEF OnTime, Settled
  <2>2. when = day
    BY <1>3, <1>10, <2>1
  <2>3. OnTime
    BY <1>1, <1>10, <2>1 DEF OnTime, Settled
  <2> QED
    BY <2>2, <2>3
<1>15. Saved'
  <2>1. PICK d1 \in Dates : d1 = when
    BY <1>3
  <2>2. Like(c, c)
    BY <1>8 DEF Like
  <2>3. CASE \A e \in Dates : snaps[e] # Unset => e <= d1
    <3>1. \A e \in Dates : snaps'[e] # Unset => e <= d1
      BY <1>9, <2>1, <2>3 DEF Dates
    <3>2. Newest(d1)' /\ Mirrors(d1)'
      BY <1>9, <2>1, <2>2, <3>1 DEF Newest, Mirrors
    <3> QED
      BY <3>2 DEF Saved
  <2>4. CASE ~ \A e \in Dates : snaps[e] # Unset => e <= d1
    <3>1. PICK d2 \in Dates : Newest(d2) /\ Mirrors(d2)
      BY <2>4 DEF Saved
    <3>2. d2 > d1 /\ d2 # when
      BY <2>1, <2>4, <3>1 DEF Newest, Dates
    <3>3. snaps'[d2] = snaps[d2] /\ snaps[d2] # Unset
      BY <1>9, <3>1, <3>2 DEF Newest
    <3>4. \A e \in Dates : snaps'[e] # Unset => e <= d2
      BY <1>9, <2>1, <3>1, <3>2 DEF Newest, Dates
    <3>5. Like(snaps[d2], c)
      BY <1>6, <3>1 DEF Mirrors, Like
    <3>6. ~ OnTime'
      <4>1. d2 <= day
        BY <3>3 DEF PosTypes
      <4> QED
        BY <1>3, <1>14, <2>1, <3>2, <4>1 DEF Dates
    <3>7. Newest(d2)' /\ Mirrors(d2)'
      BY <1>9, <3>3, <3>4, <3>5, <3>6 DEF Newest, Mirrors
    <3> QED
      BY <3>7 DEF Saved
  <2> QED
    BY <2>3, <2>4
<1>16. Previewed'
  BY <1>1, PreviewedKept
<1>17. UnitsAreTraded'
  <2> SUFFICES ASSUME NEW g \in clean' \cap DOMAIN folio'
               PROVE  folio'[g].units = Opening[g] + UnitsOfTrades(SettledOf(g))'
    BY DEF UnitsAreTraded, SettledOf
  <2>1. g \in clean \cap DOMAIN folio /\ g \in Codes
    BY <1>1, <1>8, <1>9 DEF PosTypes, Folio
  <2>2. folio[g].units = Opening[g] + UnitsOfTrades(SettledOf(g))
    BY <2>1 DEF UnitsAreTraded, SettledOf
  <2>3. UnitsOfTrades(SettledOf(g))' = UnitsOfTrades(SettledOf(g)) + (IF g = f THEN t.units ELSE 0)
    BY <1>1, <2>1, UnitsOfSettled
  <2>4. UnitsOfTrades(SettledOf(g)) \in Int /\ Opening[g] \in Int
    BY <2>1, UnitsType, PositionsAssumption
  <2>5. CASE g = f
    <3>1. ~Derives(folio[f]) /\ ~Derives(ValueMoved(folio[f], t.units, nav)) /\ ~ (folio[f].units + t.units < 0)
      BY <1>1, <2>5
    <3>2. folio[f].units \in Nat
      BY <1>5 DEF Good
    <3>3. c[f].units = folio[f].units + t.units
      BY <1>2, <1>7, <3>1, <3>2
    <3> QED
      BY <1>2, <1>9, <2>2, <2>3, <2>4, <2>5, <3>3
  <2>6. CASE g # f
    <3>1. c[g] = folio[g]
      BY <1>6, <2>1, <2>6
    <3> QED
      BY <1>9, <2>2, <2>3, <2>4, <2>6, <3>1
  <2> QED
    BY <2>5, <2>6
<1> QED
  BY <1>12, <1>13, <1>15, <1>16, <1>17

\* The funds that a synchronisation writes, and those it empties.
Written(add) == FundsOf(shot.items) \cap (DOMAIN folio \cup (IF add THEN shot.added ELSE {}))
Zeroed(drop) == IF drop THEN shot.missing \cap DOMAIN folio ELSE {}

LEMMA SyncIs ==
  ASSUME PosTypes, NEW add \in BOOLEAN, NEW drop \in BOOLEAN, ApplySync(add, drop)
  PROVE  /\ Folio(folio') /\ SaveState(folio', day) /\ DOMAIN folio' = DOMAIN folio \cup Written(add)
         /\ defs' = defs \cup Written(add) /\ clean' = clean \ Zeroed(drop) /\ Written(add) \subseteq Codes
         /\ \A f \in DOMAIN folio : folio'[f].pnl = folio[f].pnl /\ (f \notin Zeroed(drop) => folio'[f].units = folio[f].units)
         /\ \A f \in Zeroed(drop) : folio'[f].val = 0
         /\ \A f \in Written(add) \ Zeroed(drop) : \E j \in shot.items : j.fund = f /\ folio'[f].val = j.val
         /\ \A f \in DOMAIN folio \ (Written(add) \cup Zeroed(drop)) : folio'[f].val = folio[f].val
<1>1. shot # Unset /\ shot \in PreviewType
  BY DEF ApplySync, PosTypes
<1> DEFINE written == Written(add)
           zeroed == Zeroed(drop)
           now == DOMAIN folio \cup written
           P(f) == IF f \in DOMAIN folio THEN folio[f] ELSE Added
           Zero(f) == [P(f) EXCEPT !.val = 0, !.units = 0, !.seen = day, !.src = "screenshot_sync_missing_zero"]
<1>2. PICK shown \in [written -> shot.items] :
        /\ \A f \in written : shown[f].fund = f
        /\ SaveState([f \in now |->
             LET p == IF f \in DOMAIN folio THEN folio[f] ELSE Added
             IN IF f \in zeroed
                  THEN [p EXCEPT !.val = 0, !.units = 0, !.seen = day, !.src = "screenshot_sync_missing_zero"]
                ELSE IF f \in written
                  THEN [p EXCEPT !.val = shown[f].val, !.seen = day, !.src = "screenshot_sync_value_only"]
                ELSE p], day)
  BY DEF ApplySync, Written, Zeroed, FundsOf
<1>3. defs' = defs \cup written /\ clean' = clean \ zeroed
  BY DEF ApplySync, Written, Zeroed, FundsOf
<1> DEFINE Shown(f) == [P(f) EXCEPT !.val = shown[f].val, !.seen = day, !.src = "screenshot_sync_value_only"]
           New(f) == IF f \in zeroed THEN Zero(f) ELSE IF f \in written THEN Shown(f) ELSE P(f)
           c == [f \in now |-> New(f)]
<1>4. SaveState(c, day) /\ folio' = c
  BY <1>2 DEF SaveState
<1>5. written \subseteq Codes /\ now \subseteq Codes /\ zeroed \subseteq DOMAIN folio
  BY <1>1 DEF PosTypes, Folio, PreviewType, Written, Zeroed, FundsOf
<1>6. ASSUME NEW f \in now
      PROVE  /\ New(f) \in Good /\ (f \in DOMAIN folio => New(f).pnl = folio[f].pnl)
             /\ f \in DOMAIN folio /\ f \notin zeroed => New(f).units = folio[f].units
             /\ f \in zeroed => New(f).val = 0
             /\ f \in written \ zeroed => New(f).val = shown[f].val
             /\ f \notin written \cup zeroed => New(f).val = folio[f].val
  <2>1. Added \in Good
    <3>1. NoPnl \in Pnl /\ NoPnl.status # "ok" /\ 0 \in 0 .. MaxDay /\ "" \in Sources
      BY NoPnlIs, PositionsAssumption DEF Sources
    <3> QED
      BY <3>1 DEF Added, Good
  <2>2. P(f) \in Good /\ (f \in DOMAIN folio => P(f) = folio[f])
    BY <2>1 DEF PosTypes, Folio
  <2>3. day \in 0 .. MaxDay
    BY DayType
  <2> HIDE DEF P, written, zeroed
  <2>4. Zero(f) \in Good /\ Zero(f).pnl = P(f).pnl /\ Zero(f).val = 0
    BY <2>2, <2>3 DEF Good, Sources
  <2>5. ASSUME f \in written
        PROVE  Shown(f) \in Good /\ Shown(f).units = P(f).units /\ Shown(f).pnl = P(f).pnl /\ Shown(f).val = shown[f].val
    <3>1. shot.items \subseteq [fund: Codes, val: Nat]
      BY <1>1 DEF PreviewType
    <3>2. shown[f] \in shot.items
      BY <1>2, <2>5
    <3>3. shown[f].val \in Nat
      BY <3>1, <3>2
    <3> QED
      BY <2>2, <2>3, <3>3 DEF Good, Sources
  <2>6. f \notin written => f \in DOMAIN folio
    OBVIOUS
  <2> HIDE DEF Zero, Shown
  <2>7. CASE f \in zeroed
    BY <2>2, <2>4, <2>7
  <2>8. CASE f \notin zeroed /\ f \in written
    BY <2>2, <2>5, <2>8
  <2>9. CASE f \notin zeroed /\ f \notin written
    BY <2>2, <2>6, <2>9
  <2> QED
    BY <2>7, <2>8, <2>9
<1>7. DOMAIN c = now /\ \A f \in now : c[f] = New(f)
  OBVIOUS
<1> HIDE DEF c, New, written, zeroed
<1>8. Folio(c)
  <2>1. c = [f \in now |-> New(f)]
    BY DEF c
  <2> QED
    BY <1>5, <1>6, <1>7, <2>1 DEF Folio
<1>9. \A f \in written \ zeroed : \E j \in shot.items : j.fund = f /\ folio'[f].val = j.val
  BY <1>2, <1>4, <1>6, <1>7
<1> QED
  BY <1>3, <1>4, <1>5, <1>6, <1>7, <1>8, <1>9 DEF written, zeroed

LEMMA ApplySyncStep == \A add, drop \in BOOLEAN : PosInv /\ ApplySync(add, drop) => PosInv'
<1> SUFFICES ASSUME NEW add \in BOOLEAN, NEW drop \in BOOLEAN, PosInv, ApplySync(add, drop) PROVE PosInv'
  OBVIOUS
<1> USE DEF PosInv
<1>1. Aged /\ UNCHANGED <<day, navs, trades, watch>>
  BY DEF ApplySync
<1>2. PICK c : c = folio'
  OBVIOUS
<1>3. /\ Folio(c) /\ SaveState(c, day) /\ DOMAIN c = DOMAIN folio \cup Written(add)
      /\ defs' = defs \cup Written(add) /\ clean' = clean \ Zeroed(drop) /\ Written(add) \subseteq Codes
      /\ \A f \in DOMAIN folio : f \notin Zeroed(drop) => c[f].units = folio[f].units
  BY <1>2, SyncIs
<1>4. Saved' /\ LeftSnapshot'
  BY <1>1, <1>3, SavedToday
<1>5. /\ DOMAIN snaps' = Dates
      /\ \A d \in Dates : snaps'[d] # Unset => Folio(snaps'[d]) /\ d <= day
  <2>1. day \in 1 .. day
    BY DayType
  <2> QED
    BY <1>3, <2>1, SavesIs
<1>6. PosTypes'
  <2>1. shot' # Unset => shot' \in PreviewType
    BY <1>1, AgedIs
  <2>2. clean' \subseteq DOMAIN folio'
    BY <1>2, <1>3 DEF PosTypes
  <2>3. defs' \subseteq Codes
    BY <1>3 DEF PosTypes
  <2> QED
    BY <1>1, <1>2, <1>3, <1>5, <2>1, <2>2, <2>3 DEF PosTypes
<1>7. Previewed'
  BY <1>1, PreviewedKept
<1>8. UnitsAreTraded'
  <2>1. ASSUME NEW f \in clean' \cap DOMAIN folio'
        PROVE  f \in clean \cap DOMAIN folio /\ folio'[f].units = folio[f].units
    BY <1>2, <1>3 DEF PosTypes
  <2> QED
    BY <1>1, <2>1, TradedKept
<1> QED
  BY <1>4, <1>6, <1>7, <1>8

LEMMA PosStep == PosInv /\ [PositionsNext]_positionsVars => PosInv'
<1> SUFFICES ASSUME PosInv, [PositionsNext]_positionsVars PROVE PosInv'
  OBVIOUS
<1>1. CASE UNCHANGED positionsVars
  <2>1. PosTypes' /\ LeftSnapshot' /\ Saved'
    BY <1>1 DEF PosInv, positionsVars, PosTypes, LeftSnapshot, Saved, Newest, Mirrors, OnTime, Settled
  <2>2. Previewed'
    BY <1>1 DEF PosInv, positionsVars, Previewed, Lacks, FundsOf
  <2>3. UnitsAreTraded'
    BY <1>1, TradedKept DEF PosInv, positionsVars
  <2> QED
    BY <2>1, <2>2, <2>3 DEF PosInv
<1>2. CASE NextDay
  BY <1>2, NextDayStep
<1>3. CASE RecordTrade
  BY <1>3, RecordStep
<1>4. CASE \E i \in DOMAIN trades : SettleTrade(i)
  BY <1>4, SettleStep
<1>5. CASE Revalue
  BY <1>5, RevalueStep
<1>6. CASE SyncUnits
  BY <1>6, SyncUnitsStep
<1>7. CASE PreviewSync
  BY <1>7, PreviewStep
<1>8. CASE Register
  BY <1>8, RegisterStep
<1>9. CASE \E add, drop \in BOOLEAN : ApplySync(add, drop)
  BY <1>9, ApplySyncStep
<1>10. CASE Rebuild
  BY <1>10, RebuildStep
<1> QED
  BY <1>1, <1>2, <1>3, <1>4, <1>5, <1>6, <1>7, <1>8, <1>9, <1>10 DEF PositionsNext

LEMMA PosInvHolds == PositionsSpec => []PosInv
  BY PosInitHolds, PosStep, PTL DEF PositionsSpec

\* Whatever revaluations, screenshots and rebuilds come between: the types, and
\* units that only settled trades have written are those of the opening and of
\* each settled trade once.
THEOREM HoldingsStayTraded == PositionsSpec => []HoldingsAreTraded
<1>1. PosInv => HoldingsAreTraded
  <2> SUFFICES ASSUME PosInv PROVE HoldingsAreTraded
    OBVIOUS
  <2>1. \A f \in DOMAIN folio : folio[f] \in Position /\ (folio[f].pnl.status = "ok" => folio[f].pnl.amount # Unset)
    BY GoodIsPosition DEF PosInv, PosTypes, Folio, Good
  <2>2. PositionsTypeOK
    BY <2>1 DEF PosInv, PosTypes, Folio, PositionsTypeOK
  <2> QED
    BY <2>2 DEF PosInv, HoldingsAreTraded
<1> QED
  BY <1>1, PosInvHolds, PTL

\* No step changes the profit of a fund but a revaluation.
LEMMA RebuildKeepsPnl ==
  ASSUME PosInv, Rebuild, NEW f \in DOMAIN folio \cap DOMAIN folio'
  PROVE  folio'[f].pnl = folio[f].pnl
<1> USE DEF PosInv
<1>1. Rebuilt # Unset /\ folio' = Rebuilt
  BY DEF Rebuild, SaveState
<1>2. Like(folio', Base)
  BY <1>1, RebuiltLike
<1>3. CASE (\A d \in Dates : snaps[d] = Unset) /\ folio = Restored
  <2>1. Base = folio
    BY <1>3, StartIs DEF Base
  <2> QED
    BY <1>2, <2>1 DEF Like
<1>4. ASSUME NEW d \in Dates, Newest(d), Mirrors(d) PROVE folio'[f].pnl = folio[f].pnl
  <2>1. Start = d
    BY <1>4, StartIs DEF Newest, Dates
  <2>2. d # 0
    BY DEF Dates
  <2>3. Base = snaps[d]
    BY <2>1, <2>2 DEF Base
  <2>4. DOMAIN snaps[d] = DOMAIN folio /\ snaps[d][f].pnl = folio[f].pnl
    BY <1>4 DEF Mirrors, Like
  <2> QED
    BY <1>2, <2>3, <2>4 DEF Like
<1> QED
  BY <1>3, <1>4 DEF Saved

\* What a revaluation writes as the profit of a date.
LEMMA RevaluePnl ==
  ASSUME PosInv, Revalue, NEW f \in clean \cap DOMAIN folio \cap DOMAIN folio', folio'[f].pnl.status = "ok",
         \A i \in DOMAIN trades : trades[i].fund = f /\ trades[i].day < day => Settled(i)
  PROVE  LET p == folio'[f].pnl IN
         p.amount = UnitsHeld(f, p.date - 1) * (navs[f][p.date] - navs[f][p.date - 1])
<1> USE DEF PosInv
<1>1. PICK q \in Quotes : folio' = [g \in DOMAIN folio |-> Revalued(g, folio[g], q)]
  BY DEF Revalue, SaveState
<1>2. day > 1
  BY DEF Revalue
<1>3. f \in Codes /\ folio[f] \in Good
  BY DEF PosTypes, Folio
<1> DEFINE p == OfficialPnl(f, folio[f], q)
<1>4. folio'[f].pnl = p
  BY <1>1, <1>2, <1>3, RevaluedIs
<1>5. p.status = "ok"
  BY <1>4
<1>6. /\ p.date = NavDate(q) /\ p.date \in 2 .. day
      /\ p.amount = folio[f].units * (navs[f][p.date] - navs[f][p.date - 1])
      /\ ~HasCashflow(f, p.date)
  BY <1>2, <1>3, <1>5, OfficialPnlIs
<1> HIDE DEF p
<1>7. p.date >= day - 1
  BY <1>2, <1>6, DayType DEF NavDate
<1>8. folio[f].units = Opening[f] + UnitsOfTrades(SettledOf(f))
  BY DEF UnitsAreTraded, SettledOf
<1> DEFINE H == {i \in DOMAIN trades : trades[i].fund = f /\ trades[i].day <= p.date - 1}
<1>9. H = SettledOf(f)
  <2>1. ASSUME NEW i \in DOMAIN trades, trades[i].fund = f
        PROVE  trades[i].day <= p.date - 1 <=> Settled(i)
    <3>1. trades[i].day \in 1 .. day /\ day \in Nat
      BY TradeIs, DayType
    <3>2. Settled(i) => trades[i].day < day
      BY DEF LeftSnapshot
    <3>3. ~ (p.date - 1 < trades[i].day /\ trades[i].day <= p.date)
      BY <1>6, <2>1 DEF HasCashflow, Journal
    <3>4. CASE trades[i].day <= p.date - 1
      <4>1. trades[i].day < day
        BY <1>6, <3>1, <3>4
      <4> QED
        BY <2>1, <3>4, <4>1
    <3>5. CASE Settled(i)
      <4>1. trades[i].day <= p.date
        BY <1>6, <1>7, <3>1, <3>2, <3>5
      <4> QED
        BY <1>6, <3>1, <3>3, <3>5, <4>1
    <3> QED
      BY <3>4, <3>5
  <2> QED
    BY <2>1 DEF SettledOf
<1>10. UnitsHeld(f, p.date - 1) = Opening[f] + UnitsOfTrades(H)
  BY DEF UnitsHeld
<1> HIDE DEF H
<1>11. UnitsHeld(f, p.date - 1) = folio[f].units
  BY <1>8, <1>9, <1>10
<1> QED
  BY <1>4, <1>6, <1>11

LEMMA SettleKeepsPnl ==
  ASSUME PosTypes, NEW i \in DOMAIN trades, SettleTrade(i), NEW g \in DOMAIN folio
  PROVE  folio'[g].pnl = folio[g].pnl
<1>1. PICK f \in DOMAIN folio, u \in {Lot, -Lot}, nav \in Nat \ {0} :
        CanTrade(folio[f], u, nav) /\ folio' = [folio EXCEPT ![f] = UnitsAfterTrade(@, u, nav)]
  <2> DEFINE t == trades[i]
  <2>1. /\ t.fund \in DOMAIN folio /\ CanTrade(folio[t.fund], t.units, navs[t.fund][t.day])
        /\ folio' = [folio EXCEPT ![t.fund] = UnitsAfterTrade(@, t.units, navs[t.fund][t.day])]
    BY DEF SettleTrade, SaveState
  <2>2. t.fund \in Codes /\ t.day \in 1 .. day /\ t.units \in {Lot, -Lot}
    BY TradeIs DEF TradeType
  <2>3. navs[t.fund][t.day] \in Nat \ {0}
    BY <2>2, NavType
  <2> QED
    BY <2>1, <2>2, <2>3
<1>2. Folio(folio)
  BY DEF PosTypes
<1>3. /\ folio'[f] = UnitsAfterTrade(folio[f], u, nav)
      /\ \A h \in DOMAIN folio : h # f => folio'[h] = folio[h]
  BY <1>1
<1>4. folio[f] \in Good /\ u \in Int
  BY <1>2, PositionsAssumption DEF Folio
<1>5. folio'[f].pnl = folio[f].pnl
  BY <1>1, <1>3, <1>4, AfterTradeIs
<1> QED
  BY <1>3, <1>5

LEMMA PnlIsHeld == PosInv /\ PositionsNext => PnlIsOfHeldUnits
<1> SUFFICES ASSUME PosInv, PositionsNext, NEW f \in clean \cap DOMAIN folio \cap DOMAIN folio',
                    folio'[f].pnl # folio[f].pnl, folio'[f].pnl.status = "ok",
                    \A i \in DOMAIN trades : trades[i].fund = f /\ trades[i].day < day => Settled(i)
             PROVE  LET p == folio'[f].pnl IN
                    p.amount = UnitsHeld(f, p.date - 1) * (navs[f][p.date] - navs[f][p.date - 1])
  BY DEF PnlIsOfHeldUnits
<1>1. f \in Codes /\ folio[f] \in Good
  BY DEF PosInv, PosTypes, Folio
<1>2. CASE Revalue
  BY <1>2, RevaluePnl
<1>3. CASE Rebuild
  BY <1>3, RebuildKeepsPnl
<1>4. CASE SyncUnits
  <2>1. PICK q \in {"today", "delayed", "missing"} : folio' = [g \in DOMAIN folio |-> UnitsOf(g, folio[g], q)] /\ day > 1
    BY <1>4 DEF SyncUnits, SaveState
  <2>2. UnitsOf(f, folio[f], q).pnl = folio[f].pnl
    BY <1>1, <2>1, UnitsOfIs DEF PosInv
  <2> QED
    BY <2>1, <2>2
<1>5. ASSUME NEW i \in DOMAIN trades, SettleTrade(i) PROVE folio'[f].pnl = folio[f].pnl
  BY <1>5, SettleKeepsPnl DEF PosInv
<1>6. ASSUME NEW add \in BOOLEAN, NEW drop \in BOOLEAN, ApplySync(add, drop) PROVE folio'[f].pnl = folio[f].pnl
  BY <1>6, SyncIs DEF PosInv
<1>7. CASE NextDay \/ RecordTrade \/ PreviewSync \/ Register
  BY <1>7 DEF NextDay, RecordTrade, PreviewSync, Register
<1> QED
  BY <1>2, <1>3, <1>4, <1>5, <1>6, <1>7 DEF PositionsNext

LEMMA RebuildIdles == PosInv => RebuildIsIdle
<1> SUFFICES ASSUME PosInv, Rebuild,
                    \A i \in DOMAIN trades : IF Settled(i) THEN trades[i].on = trades[i].day + 1 ELSE trades[i].day <= Start
             PROVE  folio' = folio
  BY DEF RebuildIsIdle
<1> USE DEF PosInv
<1>1. Start \in 0 .. day /\ \A d \in Dates : snaps[d] # Unset => d <= Start
  BY StartIs
<1>2. ASSUME NEW i \in DOMAIN trades PROVE ~Replayed(i)
  <2>1. trades[i].day \in 1 .. day /\ day \in Nat
    BY TradeIs, DayType
  <2>2. CASE Settled(i)
    <3>1. trades[i].day < day /\ snaps[trades[i].day + 1] # Unset
      BY <2>2 DEF LeftSnapshot
    <3>2. trades[i].day + 1 \in Dates
      BY <2>1, <3>1, DayType DEF Dates
    <3>3. trades[i].day + 1 <= Start
      BY <1>1, <3>1, <3>2
    <3> QED
      BY <1>1, <2>1, <3>3 DEF Replayed
  <2>3. CASE ~Settled(i)
    BY <1>1, <2>1, <2>3 DEF Replayed
  <2> QED
    BY <2>2, <2>3
<1>3. folio' = Base
  BY <1>2, RebuiltLike DEF Rebuild, SaveState
<1>4. OnTime
  BY DEF OnTime
<1>5. CASE (\A d \in Dates : snaps[d] = Unset) /\ folio = Restored
  BY <1>3, <1>5, StartIs DEF Base
<1>6. ASSUME NEW d \in Dates, Newest(d), Mirrors(d) PROVE folio' = folio
  <2>1. Start = d /\ d # 0
    BY <1>6, StartIs DEF Newest, Dates
  <2> QED
    BY <1>3, <1>4, <1>6, <2>1 DEF Base, Mirrors
<1> QED
  BY <1>5, <1>6 DEF Saved

LEMMA SyncedIs == PosInv => SyncedIsScreen
<1> SUFFICES ASSUME PosInv, ApplySync(TRUE, TRUE), shot.fresh, shot.known, NEW f \in Codes
             PROVE  (IF f \in DOMAIN folio' THEN folio'[f].val ELSE 0) =
                       SumFunctionOnSet([r \in shot.rows |-> r.val], {r \in shot.rows : r.name = f})
  BY DEF SyncedIsScreen
<1> USE DEF PosInv
<1> DEFINE g == [r \in shot.rows |-> r.val]
           S == {r \in shot.rows : r.name = f}
<1>1. shot # Unset /\ shot \in PreviewType
  BY DEF ApplySync, PosTypes
<1>2. /\ \A r, s \in shot.rows : r.name = s.name => r = s
      /\ shot.items = {[fund |-> r.name, val |-> r.val] : r \in shot.rows}
      /\ shot.added = FundsOf(shot.items) \ DOMAIN folio /\ shot.missing = Lacks(shot.items)
  BY <1>1 DEF Previewed
<1>3. PICK written, zeroed : written = Written(TRUE) /\ zeroed = Zeroed(TRUE)
  OBVIOUS
<1>4. written = FundsOf(shot.items) /\ zeroed = Lacks(shot.items)
  BY <1>2, <1>3 DEF Written, Zeroed, Lacks
<1>5. written \cap zeroed = {}
  BY <1>4 DEF Lacks
<1>6. /\ DOMAIN folio' = DOMAIN folio \cup written
      /\ \A h \in zeroed : folio'[h].val = 0
      /\ \A h \in written \ zeroed : \E j \in shot.items : j.fund = h /\ folio'[h].val = j.val
      /\ \A h \in DOMAIN folio \ (written \cup zeroed) : folio'[h].val = folio[h].val
  BY <1>3, SyncIs
<1>7. f \in written <=> S # {}
  <2>1. ASSUME f \in written PROVE S # {}
    <3>1. PICK j \in shot.items : j.fund = f
      BY <1>4, <2>1 DEF FundsOf
    <3>2. PICK r \in shot.rows : j = [fund |-> r.name, val |-> r.val]
      BY <1>2
    <3> QED
      BY <3>1, <3>2
  <2>2. ASSUME S # {} PROVE f \in written
    <3>1. PICK r \in shot.rows : r.name = f
      BY <2>2
    <3>2. [fund |-> r.name, val |-> r.val] \in shot.items
      BY <1>2
    <3> QED
      BY <1>4, <3>1, <3>2 DEF FundsOf
  <2> QED
    BY <2>1, <2>2
<1>8. CASE f \in written
  <2>1. PICK j \in shot.items : j.fund = f /\ folio'[f].val = j.val
    BY <1>5, <1>6, <1>8
  <2>2. PICK r \in shot.rows : j = [fund |-> r.name, val |-> r.val]
    BY <1>2
  <2>3. S = {r} /\ g[r] = r.val /\ folio'[f].val = r.val
    BY <1>2, <2>1, <2>2
  <2>4. r.val \in Nat
    BY <1>1 DEF PreviewType
  <2> HIDE DEF S, g
  <2>5. IsFiniteSet(S) /\ r \in S /\ S \ {r} = {} /\ (\A x \in S : g[x] \in Int) /\ S \in SUBSET S
    <3>1. IsFiniteSet({r})
      BY FS_Singleton
    <3>2. IsFiniteSet(S)
      BY <2>3, <3>1
    <3>3. r \in S /\ S \ {r} = {} /\ (\A x \in S : g[x] \in Int)
      BY <2>3, <2>4
    <3> QED
      BY <3>2, <3>3
  <2>6. SumFunctionOnSet(g, S) = g[r] + SumFunctionOnSet(g, S \ {r})
    BY <2>5, SumWithout
  <2>7. SumFunctionOnSet(g, S) = r.val
    BY <2>3, <2>4, <2>5, <2>6, SumEmpty
  <2> QED
    BY <1>6, <1>8, <2>3, <2>7 DEF S, g
<1>9. CASE f \notin written
  <2>1. S = {}
    BY <1>7, <1>9
  <2> HIDE DEF S, g
  <2>2. SumFunctionOnSet(g, S) = 0
    BY <2>1, SumEmpty
  <2>3. ASSUME f \in DOMAIN folio' PROVE folio'[f].val = 0
    <3>1. f \in DOMAIN folio
      BY <1>6, <1>9, <2>3
    <3>2. folio[f].val \in Nat
      BY <3>1 DEF PosTypes, Folio, Good
    <3>3. CASE f \in zeroed
      BY <1>6, <3>3
    <3>4. CASE f \notin zeroed
      <4>1. ~ (folio[f].val > 0)
        BY <1>4, <1>9, <3>1, <3>4 DEF Lacks
      <4> QED
        BY <1>6, <1>9, <3>1, <3>2, <3>4, <4>1
    <3> QED
      BY <3>3, <3>4
  <2> QED
    BY <2>2, <2>3 DEF S, g
<1> QED
  BY <1>8, <1>9

\* A profit that is newly confirmed is that of the units held over its date, a
\* rebuild after settlements in time changes nothing, and a full synchronisation
\* makes the portfolio what the screen shows.
THEOREM WritersStayExact == PositionsSpec => WritersAreExact
<1>1. PosInv /\ [PositionsNext]_positionsVars => [PnlIsOfHeldUnits /\ RebuildIsIdle /\ SyncedIsScreen]_positionsVars
  BY PnlIsHeld, RebuildIdles, SyncedIs
<1> QED
  BY <1>1, PosInvHolds, PTL DEF PositionsSpec, WritersAreExact

-------------------------------------------------------------------------------
(***************************************************************************)
(* Sums and the order of the values they are of.                           *)
(***************************************************************************)
LEMMA SumOfFunction == ASSUME NEW g PROVE SumFunction(g) = SumFunctionOnSet(g, DOMAIN g)
  BY DEF SumFunction

LEMMA SumType ==
  ASSUME NEW S, IsFiniteSet(S), NEW g \in [S -> Int]
  PROVE  SumFunction(g) \in Int
<1>1. SumFunction(g) = SumFunctionOnSet(g, S)
  BY SumOfFunction
<1>2. \A s \in SUBSET S : SumFunctionOnSet(g, s) \in Int
  BY SumIsInt
<1> QED
  BY <1>1, <1>2

LEMMA SumOfNone == ASSUME NEW g, DOMAIN g = {} PROVE SumFunction(g) = 0
  BY SumEmpty, SumOfFunction

\* A sum of values none of which is larger is not larger.
LEMMA SumGrows ==
  ASSUME NEW S, IsFiniteSet(S), NEW g \in [S -> Int], NEW h \in [S -> Int], \A x \in S : g[x] <= h[x]
  PROVE  SumFunction(g) <= SumFunction(h)
<1> DEFINE F == {s \in SUBSET S : ~ (SumFunctionOnSet(g, s) <= SumFunctionOnSet(h, s))}
<1>1. ASSUME F # {} PROVE FALSE
  <2>1. \A s \in F : IsFiniteSet(s)
    BY FS_Subset
  <2> HIDE DEF F
  <2>2. PICK s \in F : \A t \in F : ~ (Cardinality(t) < Cardinality(s))
    BY <1>1, <2>1, SmallestSet
  <2> USE DEF F
  <2>3. s # {}
    BY SumEmpty
  <2>4. PICK x : x = Any(s) /\ x \in s
    BY <2>3, AnyIsIn
  <2>5. /\ SumFunctionOnSet(g, s) = g[x] + SumFunctionOnSet(g, s \ {x})
        /\ SumFunctionOnSet(h, s) = h[x] + SumFunctionOnSet(h, s \ {x})
    BY <2>1, <2>3, <2>4, SumOfAny
  <2>6. s \ {x} \in SUBSET S /\ Cardinality(s \ {x}) < Cardinality(s)
    BY <2>1, <2>4, Smaller
  <2>7. s \ {x} \notin F
    BY <2>2, <2>6
  <2>8. SumFunctionOnSet(g, s \ {x}) <= SumFunctionOnSet(h, s \ {x})
    BY <2>6, <2>7
  <2>9. \A u \in SUBSET S : SumFunctionOnSet(g, u) \in Int /\ SumFunctionOnSet(h, u) \in Int
    BY SumIsInt
  <2>10. PICK m \in Int, n \in Int : m = SumFunctionOnSet(g, s \ {x}) /\ n = SumFunctionOnSet(h, s \ {x})
    BY <2>6, <2>9
  <2>11. g[x] + m <= h[x] + n
    BY <2>4, <2>8, <2>10
  <2> QED
    BY <2>5, <2>10, <2>11
<1> HIDE DEF F
<1>2. F = {}
  BY <1>1
<1>3. SumFunctionOnSet(g, S) <= SumFunctionOnSet(h, S)
  BY <1>2 DEF F
<1> QED
  BY <1>3, SumOfFunction

\* A sum of numbers is one, and is not smaller than any of them.
LEMMA SumIsNat ==
  ASSUME NEW S, IsFiniteSet(S), NEW g \in [S -> Nat]
  PROVE  SumFunction(g) \in Nat /\ \A x \in S : g[x] <= SumFunction(g)
<1>1. g \in [S -> Int] /\ SumFunction(g) \in Int
  BY SumType
<1> DEFINE Only(x) == [y \in S |-> IF y = x THEN g[x] ELSE 0]
           zero == [y \in S |-> 0]
<1>2. SumFunction(zero) = 0
  <2> DEFINE F == {s \in SUBSET S : SumFunctionOnSet(zero, s) # 0}
  <2>1. ASSUME F # {} PROVE FALSE
    <3>1. \A s \in F : IsFiniteSet(s)
      BY FS_Subset
    <3> HIDE DEF F
    <3>2. PICK s \in F : \A t \in F : ~ (Cardinality(t) < Cardinality(s))
      BY <2>1, <3>1, SmallestSet
    <3> USE DEF F
    <3>3. s # {}
      BY SumEmpty
    <3>4. PICK x : x = Any(s) /\ x \in s
      BY <3>3, AnyIsIn
    <3>5. SumFunctionOnSet(zero, s) = zero[x] + SumFunctionOnSet(zero, s \ {x})
      BY <3>1, <3>3, <3>4, SumOfAny
    <3>6. s \ {x} \in SUBSET S /\ Cardinality(s \ {x}) < Cardinality(s)
      BY <3>1, <3>4, Smaller
    <3>7. s \ {x} \notin F
      BY <3>2, <3>6
    <3>8. SumFunctionOnSet(zero, s \ {x}) = 0 /\ zero[x] = 0
      BY <3>4, <3>6, <3>7
    <3> QED
      BY <3>5, <3>8
  <2> HIDE DEF F
  <2>2. F = {}
    BY <2>1
  <2> HIDE DEF zero
  <2>3. SumFunctionOnSet(zero, S) = 0
    BY <2>2 DEF F
  <2> QED
    BY <2>3, SumOfFunction DEF zero
<1>3. SumFunction(zero) <= SumFunction(g)
  <2>1. zero \in [S -> Int] /\ \A x \in S : zero[x] <= g[x]
    OBVIOUS
  <2> HIDE DEF zero
  <2> QED
    BY <1>1, <2>1, SumGrows
<1>4. SumFunction(g) \in Nat
  <2> HIDE DEF zero
  <2> QED
    BY <1>1, <1>2, <1>3
<1>5. ASSUME NEW x \in S PROVE g[x] <= SumFunction(g)
  <2>1. SumFunctionOnSet(g, S) = g[x] + SumFunctionOnSet(g, S \ {x})
    BY <1>1, SumWithout
  <2> DEFINE h == [y \in S |-> IF y = x THEN 0 ELSE g[y]]
  <2>2. h \in [S -> Int] /\ h[x] = 0 /\ \A y \in S : zero[y] <= h[y]
    OBVIOUS
  <2>3. \A y \in S \ {x} : h[y] = g[y]
    OBVIOUS
  <2>4. zero \in [S -> Int]
    OBVIOUS
  <2> HIDE DEF h, zero
  <2>5. SumFunction(zero) <= SumFunction(h)
    BY <2>2, <2>4, SumGrows
  <2>6. SumFunctionOnSet(h, S) = h[x] + SumFunctionOnSet(h, S \ {x})
    BY <2>2, SumWithout
  <2>7. IsFiniteSet(S \ {x})
    BY Smaller
  <2>8. SumFunctionOnSet(h, S \ {x}) = SumFunctionOnSet(g, S \ {x})
    BY <2>3, <2>7, SumsAgree
  <2>9. SumFunction(h) = SumFunctionOnSet(h, S) /\ SumFunction(g) = SumFunctionOnSet(g, S)
    BY <2>2, SumOfFunction
  <2>10. SumFunctionOnSet(g, S \ {x}) \in Int
    BY <1>1, SumIsInt
  <2> QED
    BY <1>2, <2>1, <2>2, <2>5, <2>6, <2>8, <2>9, <2>10
<1> QED
  BY <1>4, <1>5

\* Nor is it smaller than a sum of some of them, and any other.
LEMMA SumOfPart ==
  ASSUME NEW S, IsFiniteSet(S), NEW T \in SUBSET S, NEW g \in [S -> Nat], NEW h \in [T -> Nat],
         \A x \in T : h[x] = g[x]
  PROVE  SumFunction(h) <= SumFunction(g) /\ \A x \in S \ T : SumFunction(h) + g[x] <= SumFunction(g)
<1> DEFINE F == {s \in SUBSET S : ~ (SumFunctionOnSet(g, s \cap T) <= SumFunctionOnSet(g, s))}
<1>1. \A u \in SUBSET S : SumFunctionOnSet(g, u) \in Int
  BY SumIsInt
<1>2. ASSUME F # {} PROVE FALSE
  <2>1. \A s \in F : IsFiniteSet(s)
    BY FS_Subset
  <2> HIDE DEF F
  <2>2. PICK s \in F : \A t \in F : ~ (Cardinality(t) < Cardinality(s))
    BY <1>2, <2>1, SmallestSet
  <2> USE DEF F
  <2>3. s # {}
    <3>1. {} \in SUBSET S /\ {} \cap T = {}
      OBVIOUS
    <3> QED
      BY <1>1, <3>1
  <2>4. PICK x : x = Any(s) /\ x \in s
    BY <2>3, AnyIsIn
  <2>5. SumFunctionOnSet(g, s) = g[x] + SumFunctionOnSet(g, s \ {x})
    BY <2>1, <2>3, <2>4, SumOfAny
  <2>6. s \ {x} \in SUBSET S /\ Cardinality(s \ {x}) < Cardinality(s)
    BY <2>1, <2>4, Smaller
  <2>7. s \ {x} \notin F
    BY <2>2, <2>6
  <2>8. SumFunctionOnSet(g, (s \ {x}) \cap T) <= SumFunctionOnSet(g, s \ {x})
    BY <2>6, <2>7
  <2>9. PICK m \in Int, n \in Int : m = SumFunctionOnSet(g, (s \ {x}) \cap T) /\ n = SumFunctionOnSet(g, s \ {x})
    BY <1>1, <2>6
  <2>10. g[x] \in Nat
    BY <2>4
  <2>11. CASE x \in T
    <3>1. s \cap T \in SUBSET S /\ x \in s \cap T
      BY <2>4, <2>11
    <3>2. SumFunctionOnSet(g, s \cap T) = g[x] + SumFunctionOnSet(g, (s \cap T) \ {x})
      BY <3>1, SumWithout
    <3>3. (s \cap T) \ {x} = (s \ {x}) \cap T
      OBVIOUS
    <3> QED
      BY <2>5, <2>8, <2>9, <2>10, <3>2, <3>3
  <2>12. CASE x \notin T
    <3>1. s \cap T = (s \ {x}) \cap T
      BY <2>12
    <3> QED
      BY <2>5, <2>8, <2>9, <2>10, <3>1
  <2> QED
    BY <2>11, <2>12
<1> HIDE DEF F
<1>3. F = {}
  BY <1>2
<1>4. \A s \in SUBSET S : SumFunctionOnSet(g, s \cap T) <= SumFunctionOnSet(g, s)
  BY <1>3 DEF F
<1>5. SumFunctionOnSet(h, T) = SumFunctionOnSet(g, T)
  <2>1. IsFiniteSet(T)
    BY FS_Subset
  <2> QED
    BY <2>1, SumsAgree
<1>6. S \cap T = T
  OBVIOUS
<1>7. SumFunction(h) = SumFunctionOnSet(g, T) /\ SumFunction(g) = SumFunctionOnSet(g, S)
  BY <1>5, SumOfFunction
<1>8. SumFunction(h) <= SumFunction(g)
  BY <1>4, <1>6, <1>7
<1>9. ASSUME NEW x \in S \ T PROVE SumFunction(h) + g[x] <= SumFunction(g)
  <2>1. (S \ {x}) \cap T = T /\ S \ {x} \in SUBSET S
    OBVIOUS
  <2>2. SumFunctionOnSet(g, T) <= SumFunctionOnSet(g, S \ {x})
    BY <1>4, <2>1
  <2>3. SumFunctionOnSet(g, S) = g[x] + SumFunctionOnSet(g, S \ {x})
    BY SumWithout
  <2>4. PICK m \in Int, n \in Int : m = SumFunctionOnSet(g, T) /\ n = SumFunctionOnSet(g, S \ {x})
    BY <1>1, <2>1
  <2> QED
    BY <1>7, <2>2, <2>3, <2>4
<1> QED
  BY <1>8, <1>9

LEMMA ImageIsFinite == ASSUME NEW S, IsFiniteSet(S), NEW g PROVE IsFiniteSet({g[x] : x \in S})
<1> DEFINE T == {g[x] : x \in S}
           k == [x \in S |-> g[x]]
<1>1. k \in Surjection(S, T)
  BY DEF Surjection
<1> HIDE DEF k
<1> QED
  BY <1>1, FS_Surjection

\* The smallest and the largest of a finite set of integers.
LEMMA Smallest ==
  ASSUME NEW S \in SUBSET Int, IsFiniteSet(S), S # {}
  PROVE  Min(S) \in S /\ \A x \in S : Min(S) <= x
<1> DEFINE F == {s \in SUBSET S : s # {} /\ ~ \E x \in s : \A y \in s : x <= y}
<1>1. ASSUME F # {} PROVE FALSE
  <2>1. \A s \in F : IsFiniteSet(s)
    BY FS_Subset
  <2> HIDE DEF F
  <2>2. PICK s \in F : \A t \in F : ~ (Cardinality(t) < Cardinality(s))
    BY <1>1, <2>1, SmallestSet
  <2> USE DEF F
  <2>3. PICK x \in s : TRUE
    OBVIOUS
  <2>4. s \ {x} \in SUBSET S /\ Cardinality(s \ {x}) < Cardinality(s)
    BY <2>1, Smaller
  <2>5. s \ {x} \notin F
    BY <2>2, <2>4
  <2>6. CASE s \ {x} = {}
    BY <2>6
  <2>7. CASE s \ {x} # {}
    <3>1. PICK y \in s \ {x} : \A z \in s \ {x} : y <= z
      BY <2>4, <2>5, <2>7
    <3>2. x \in Int /\ y \in Int /\ \A z \in s : z \in Int
      BY <2>4
    <3>3. CASE x <= y
      <4>1. \A z \in s : x <= z
        BY <3>1, <3>2, <3>3
      <4> QED
        BY <4>1
    <3>4. CASE ~ (x <= y)
      <4>1. \A z \in s : y <= z
        BY <3>1, <3>2, <3>4
      <4> QED
        BY <4>1
    <3> QED
      BY <3>3, <3>4
  <2> QED
    BY <2>6, <2>7
<1> HIDE DEF F
<1>2. F = {}
  BY <1>1
<1>3. \E x \in S : \A y \in S : x <= y
  BY <1>2 DEF F
<1> QED
  BY <1>3 DEF Min

LEMMA Largest ==
  ASSUME NEW S \in SUBSET Int, IsFiniteSet(S), S # {}
  PROVE  Max(S) \in S /\ \A x \in S : x <= Max(S)
<1> DEFINE neg == [x \in S |-> -x]
           N == {neg[x] : x \in S}
<1>1. N \in SUBSET Int /\ N # {}
  <2>1. \A x \in S : neg[x] \in Int
    <3> SUFFICES ASSUME NEW x \in S PROVE neg[x] \in Int
      OBVIOUS
    <3>1. x \in Int
      OBVIOUS
    <3> QED
      BY <3>1
  <2>2. PICK x \in S : TRUE
    OBVIOUS
  <2>3. neg[x] \in N
    OBVIOUS
  <2> HIDE DEF neg
  <2> QED
    BY <2>1, <2>3
<1>2. IsFiniteSet(N)
  BY ImageIsFinite
<1>3. Min(N) \in N /\ \A y \in N : Min(N) <= y
  <2> HIDE DEF N
  <2> QED
    BY <1>1, <1>2, Smallest
<1>4. PICK x \in S : neg[x] = Min(N)
  BY <1>3
<1>5. \A y \in S : neg[x] <= neg[y]
  BY <1>3, <1>4
<1>6. \A y \in S : x >= y
  <2> TAKE y \in S
  <2>1. x \in Int /\ y \in Int /\ -x <= -y
    BY <1>5
  <2> QED
    BY <2>1
<1>7. Max(S) \in S /\ \A y \in S : Max(S) >= y
  BY <1>6 DEF Max
<1> QED
  BY <1>7

-------------------------------------------------------------------------------
(***************************************************************************)
(* The order of the search: total, so that of finitely many combinations   *)
(* one comes last.                                                         *)
(***************************************************************************)
LEMMA PlaceIs ==
  /\ IsFiniteSet(Book)
  /\ \A f \in Book : Place(f) \in Nat
  /\ \A f, g \in Book : Place(f) = Place(g) => f = g
<1>1. Order \in [1 .. Len(Order) -> Book] /\ Len(Order) \in Nat /\ DOMAIN Order = 1 .. Len(Order)
  BY OrderAssumption DEF Book
<1>2. Book = {Order[i] : i \in 1 .. Len(Order)}
  BY <1>1 DEF Book, Range
<1>3. IsFiniteSet(1 .. Len(Order))
  BY <1>1, FS_Interval
<1>4. IsFiniteSet(Book)
  BY <1>2, <1>3, ImageIsFinite
<1>5. \A f \in Book : Place(f) \in DOMAIN Order /\ Order[Place(f)] = f
  BY <1>1, <1>2 DEF Place
<1> QED
  BY <1>1, <1>4, <1>5

LEMMA BookSubsets ==
  /\ \A S \in SUBSET Book : IsFiniteSet(S) /\ Cardinality(S) \in Nat
  /\ IsFiniteSet(SUBSET Book)
<1>1. \A S \in SUBSET Book : IsFiniteSet(S) /\ Cardinality(S) \in Nat
  BY PlaceIs, FS_Subset, FS_CardinalityType
<1>2. IsFiniteSet(SUBSET Book)
  BY PlaceIs, FS_SUBSET
<1> QED
  BY <1>1, <1>2

\* The place of a fund that only one of two combinations has, and no fund
\* before it.
Parts(S, T, f) == f \in S \ T /\ \A g \in (S \ T) \cup (T \ S) : Place(f) <= Place(g)

LEMMA PartsTransitive ==
  ASSUME NEW S \in SUBSET Book, NEW T \in SUBSET Book, NEW U \in SUBSET Book,
         NEW f, NEW g, Parts(S, T, f), Parts(T, U, g)
  PROVE  \E h : Parts(S, U, h)
<1>1. f \in Book /\ g \in Book /\ f \in S /\ f \notin T /\ g \in T /\ g \notin U /\ Place(f) \in Nat /\ Place(g) \in Nat
  BY PlaceIs DEF Parts
<1>2. \A k \in Book : ~ (Place(f) <= Place(k)) => (k \in S <=> k \in T)
  BY DEF Parts
<1>3. \A k \in Book : ~ (Place(g) <= Place(k)) => (k \in T <=> k \in U)
  BY DEF Parts
<1>4. Place(f) # Place(g)
  BY <1>1, PlaceIs
<1>5. CASE Place(f) < Place(g)
  <2>1. f \in S \ U
    BY <1>1, <1>3, <1>5
  <2>2. ASSUME NEW k \in (S \ U) \cup (U \ S) PROVE Place(f) <= Place(k)
    <3>1. k \in Book /\ Place(k) \in Nat /\ ~ (k \in S <=> k \in U)
      BY PlaceIs
    <3>2. ASSUME ~ (Place(f) <= Place(k)) PROVE FALSE
      <4>1. ~ (Place(g) <= Place(k))
        BY <1>1, <1>5, <3>1, <3>2
      <4> QED
        BY <1>2, <1>3, <3>1, <3>2, <4>1
    <3> QED
      BY <3>2
  <2> QED
    BY <2>1, <2>2 DEF Parts
<1>6. CASE Place(g) < Place(f)
  <2>1. g \in S \ U
    BY <1>1, <1>2, <1>6
  <2>2. ASSUME NEW k \in (S \ U) \cup (U \ S) PROVE Place(g) <= Place(k)
    <3>1. k \in Book /\ Place(k) \in Nat /\ ~ (k \in S <=> k \in U)
      BY PlaceIs
    <3>2. ASSUME ~ (Place(g) <= Place(k)) PROVE FALSE
      <4>1. ~ (Place(f) <= Place(k))
        BY <1>1, <1>6, <3>1, <3>2
      <4> QED
        BY <1>2, <1>3, <3>1, <3>2, <4>1
    <3> QED
      BY <3>2
  <2> QED
    BY <2>1, <2>2 DEF Parts
<1> QED
  BY <1>1, <1>4, <1>5, <1>6

\* What one set has and the other has not parts them, one way or the other.
LEMMA PartsTotal ==
  ASSUME NEW S \in SUBSET Book, NEW T \in SUBSET Book, S # T
  PROVE  \E f : Parts(S, T, f) \/ Parts(T, S, f)
<1> DEFINE D == (S \ T) \cup (T \ S)
           place == [f \in D |-> Place(f)]
           N == {place[f] : f \in D}
<1>1. D # {} /\ D \subseteq Book
  OBVIOUS
<1>2. N # {} /\ N \in SUBSET Int
  <2>1. \A f \in D : place[f] \in Int
    BY <1>1, PlaceIs
  <2>2. PICK f \in D : TRUE
    BY <1>1
  <2>3. place[f] \in N
    OBVIOUS
  <2> HIDE DEF place
  <2> QED
    BY <2>1, <2>3
<1>3. IsFiniteSet(N)
  <2>1. IsFiniteSet(D)
    BY <1>1, BookSubsets
  <2> HIDE DEF D, place
  <2> QED
    BY <2>1, ImageIsFinite
<1>4. Min(N) \in N /\ \A n \in N : Min(N) <= n
  <2> HIDE DEF N
  <2> QED
    BY <1>2, <1>3, Smallest
<1>5. PICK f \in D : place[f] = Min(N)
  BY <1>4
<1>6. \A g \in D : Place(f) <= Place(g)
  BY <1>4, <1>5
<1> QED
  BY <1>5, <1>6 DEF Parts

LEMMA BeforeIs ==
  ASSUME NEW S \in SUBSET Book, NEW T \in SUBSET Book
  PROVE  Before(S, T) <=> \/ Cardinality(S) < Cardinality(T)
                          \/ Cardinality(S) = Cardinality(T) /\ \E f : Parts(S, T, f)
  BY DEF Before, Parts

LEMMA BeforeIsTransitive ==
  ASSUME NEW S \in SUBSET Book, NEW T \in SUBSET Book, NEW U \in SUBSET Book, Before(S, T), Before(T, U)
  PROVE  Before(S, U)
<1>1. Cardinality(S) \in Nat /\ Cardinality(T) \in Nat /\ Cardinality(U) \in Nat
  BY BookSubsets
<1>2. CASE Cardinality(S) < Cardinality(T) \/ Cardinality(T) < Cardinality(U)
  BY <1>1, <1>2, BeforeIs
<1>3. CASE Cardinality(S) = Cardinality(T) /\ Cardinality(T) = Cardinality(U)
  <2>1. PICK f, g : Parts(S, T, f) /\ Parts(T, U, g)
    BY <1>1, <1>3, BeforeIs
  <2>2. \E h : Parts(S, U, h)
    BY <2>1, PartsTransitive
  <2> QED
    BY <1>3, <2>2, BeforeIs
<1> QED
  BY <1>1, <1>2, <1>3, BeforeIs

LEMMA BeforeIsTotal ==
  ASSUME NEW S \in SUBSET Book, NEW T \in SUBSET Book, S # T
  PROVE  Before(S, T) \/ Before(T, S)
<1>1. Cardinality(S) \in Nat /\ Cardinality(T) \in Nat
  BY BookSubsets
<1>2. PICK f : Parts(S, T, f) \/ Parts(T, S, f)
  BY PartsTotal
<1> QED
  BY <1>1, <1>2, BeforeIs

LEMMA LatestIs ==
  ASSUME NEW C \in SUBSET (SUBSET Book), C # {}
  PROVE  Latest(C) \in C /\ \A T \in C \ {Latest(C)} : Before(T, Latest(C))
<1> DEFINE Last(s, S) == S \in s /\ \A T \in s \ {S} : Before(T, S)
           F == {s \in SUBSET C : s # {} /\ ~ \E S : Last(s, S)}
<1>1. ASSUME F # {} PROVE FALSE
  <2>1. \A s \in F : IsFiniteSet(s)
    BY BookSubsets, FS_Subset
  <2> HIDE DEF F
  <2>2. PICK s \in F : \A t \in F : ~ (Cardinality(t) < Cardinality(s))
    BY <1>1, <2>1, SmallestSet
  <2> USE DEF F
  <2>3. PICK S : S \in s
    OBVIOUS
  <2>4. s \ {S} \in SUBSET C /\ Cardinality(s \ {S}) < Cardinality(s)
    BY <2>1, <2>3, Smaller
  <2>5. s \ {S} \notin F
    BY <2>2, <2>4
  <2>6. CASE s \ {S} = {}
    <3>1. Last(s, S)
      BY <2>3, <2>6
    <3> QED
      BY <3>1
  <2>7. CASE s \ {S} # {}
    <3>1. PICK T : Last(s \ {S}, T)
      BY <2>4, <2>5, <2>7
    <3>2. S \in SUBSET Book /\ T \in SUBSET Book /\ T \in s /\ S # T /\ \A U \in s : U \in SUBSET Book
      BY <2>3, <2>4, <3>1
    <3>3. CASE Before(S, T)
      <4>1. Last(s, T)
        BY <3>1, <3>2, <3>3
      <4> QED
        BY <4>1
    <3>4. CASE Before(T, S)
      <4>1. \A U \in s \ {S} : Before(U, S)
        BY <3>1, <3>2, <3>4, BeforeIsTransitive
      <4>2. Last(s, S)
        BY <2>3, <4>1
      <4> QED
        BY <4>2
    <3> QED
      BY <3>2, <3>3, <3>4, BeforeIsTotal
  <2> QED
    BY <2>6, <2>7
<1> HIDE DEF F
<1>2. F = {}
  BY <1>1
<1>3. \E S \in C : \A T \in C \ {S} : Before(T, S)
  BY <1>2 DEF F
<1> QED
  BY <1>3 DEF Latest

-------------------------------------------------------------------------------
(***************************************************************************)
(* The search is a fold like a sum: it takes away the combination that      *)
(* comes last.                                                             *)
(***************************************************************************)
Nothing == [funds |-> {}, score |-> 0]
IsSearch(h, x, C) == h = [s \in SUBSET C |-> IF s = {} THEN Nothing ELSE Better(x, h[s \ {Latest(s)}], Latest(s))]
TheSearch(x, C) == CHOOSE h : IsSearch(h, x, C)

LEMMA BestIsSearch == ASSUME NEW x PROVE Best(x) = TheSearch(x, Combinations(x))[Combinations(x)]
  BY DEF Best, MapThenFoldSet, TheSearch, IsSearch, Nothing

LEMMA LatestIn ==
  ASSUME NEW C \in SUBSET (SUBSET Book)
  PROVE  /\ IsFiniteSet(C)
         /\ C # {} => Latest(C) \in C /\ Cardinality(C \ {Latest(C)}) < Cardinality(C)
<1>1. IsFiniteSet(C)
  BY BookSubsets, FS_Subset
<1> QED
  BY <1>1, LatestIs, Smaller

LEMMA SearchesAgree ==
  ASSUME NEW x, NEW h, NEW k, NEW C \in SUBSET (SUBSET Book), NEW D, IsSearch(h, x, C), IsSearch(k, x, D)
  PROVE  \A s \in SUBSET C : s \subseteq D => h[s] = k[s]
<1> DEFINE F == {s \in SUBSET C : s \subseteq D /\ h[s] # k[s]}
<1> SUFFICES ASSUME F # {} PROVE FALSE
  OBVIOUS
<1>1. \A s \in F : IsFiniteSet(s)
  BY LatestIn
<1> HIDE DEF F
<1>2. PICK s \in F : \A t \in F : ~ (Cardinality(t) < Cardinality(s))
  BY <1>1, SmallestSet
<1> USE DEF F
<1>3. h[s] = IF s = {} THEN Nothing ELSE Better(x, h[s \ {Latest(s)}], Latest(s))
  BY DEF IsSearch
<1>4. k[s] = IF s = {} THEN Nothing ELSE Better(x, k[s \ {Latest(s)}], Latest(s))
  BY DEF IsSearch
<1>5. s # {} /\ h[s \ {Latest(s)}] # k[s \ {Latest(s)}]
  BY <1>3, <1>4
<1>6. s \ {Latest(s)} \in F
  BY <1>5
<1>7. Cardinality(s \ {Latest(s)}) < Cardinality(s)
  BY <1>5, LatestIn
<1> QED
  BY <1>2, <1>6, <1>7

LEMMA SearchExists ==
  ASSUME NEW x, NEW C \in SUBSET (SUBSET Book)
  PROVE  IsSearch(TheSearch(x, C), x, C)
<1> DEFINE F == {s \in SUBSET C : ~ IsSearch(TheSearch(x, s), x, s)}
<1> SUFFICES ASSUME F # {} PROVE FALSE
  OBVIOUS
<1>1. \A s \in F : IsFiniteSet(s)
  BY LatestIn
<1> HIDE DEF F
<1>2. PICK s \in F : \A t \in F : ~ (Cardinality(t) < Cardinality(s))
  BY <1>1, SmallestSet
<1> USE DEF F
<1>3. s \in SUBSET C /\ s \in SUBSET (SUBSET Book) /\ IsFiniteSet(s)
  BY <1>1
<1> DEFINE V(u) == TheSearch(x, u)[u]
           H == [u \in SUBSET s |-> IF u = {} THEN Nothing ELSE Better(x, V(u \ {Latest(u)}), Latest(u))]
<1>4. \A u \in SUBSET s : u # s => IsSearch(TheSearch(x, u), x, u)
  <2> SUFFICES ASSUME NEW u \in SUBSET s, u # s
               PROVE  IsSearch(TheSearch(x, u), x, u)
    OBVIOUS
  <2>1. IsFiniteSet(u) /\ Cardinality(u) < Cardinality(s)
    BY <1>3, FS_Subset, FS_CardinalityType
  <2> QED
    BY <1>2, <1>3, <2>1
<1>5. ASSUME NEW u \in SUBSET s, u # {}, u # s
      PROVE  V(u) = Better(x, V(u \ {Latest(u)}), Latest(u))
  <2> DEFINE w == u \ {Latest(u)}
  <2>1. u \in SUBSET (SUBSET Book) /\ w \in SUBSET s /\ w # s /\ w \subseteq u
    BY <1>3, <1>5
  <2>2. IsSearch(TheSearch(x, u), x, u) /\ IsSearch(TheSearch(x, w), x, w)
    BY <1>4, <1>5, <2>1
  <2>3. TheSearch(x, u)[u] = Better(x, TheSearch(x, u)[w], Latest(u))
    BY <1>5, <2>2 DEF IsSearch
  <2> HIDE DEF w
  <2>4. TheSearch(x, u)[w] = TheSearch(x, w)[w]
    BY <2>1, <2>2, SearchesAgree
  <2> USE DEF w
  <2> QED
    BY <2>3, <2>4
<1>6. \A u \in SUBSET s : u # s => H[u] = V(u)
  <2> SUFFICES ASSUME NEW u \in SUBSET s, u # s
               PROVE  H[u] = V(u)
    OBVIOUS
  <2>1. CASE u # {}
    BY <1>5, <2>1
  <2>2. CASE u = {}
    <3>1. IsSearch(TheSearch(x, u), x, u)
      BY <1>4
    <3>2. V(u) = Nothing
      BY <2>2, <3>1 DEF IsSearch
    <3> QED
      BY <2>2, <3>2
  <2> QED
    BY <2>1, <2>2
<1>7. \A u \in SUBSET s : u # {} => H[u \ {Latest(u)}] = V(u \ {Latest(u)})
  <2> SUFFICES ASSUME NEW u \in SUBSET s, u # {}
               PROVE  H[u \ {Latest(u)}] = V(u \ {Latest(u)})
    OBVIOUS
  <2>1. u \in SUBSET (SUBSET Book)
    BY <1>3
  <2>2. u \ {Latest(u)} \in SUBSET s /\ u \ {Latest(u)} # s
    BY <2>1, LatestIn
  <2> HIDE DEF H, V
  <2> QED
    BY <1>6, <2>2
<1>8. IsSearch(H, x, s)
  <2> DEFINE G == [u \in SUBSET s |-> IF u = {} THEN Nothing ELSE Better(x, H[u \ {Latest(u)}], Latest(u))]
  <2>1. \A u \in SUBSET s : H[u] = G[u]
    <3> SUFFICES ASSUME NEW u \in SUBSET s
                 PROVE  H[u] = G[u]
      OBVIOUS
    <3>1. G[u] = IF u = {} THEN Nothing ELSE Better(x, H[u \ {Latest(u)}], Latest(u))
      OBVIOUS
    <3>2. H[u] = IF u = {} THEN Nothing ELSE Better(x, V(u \ {Latest(u)}), Latest(u))
      OBVIOUS
    <3> HIDE DEF H, V, G
    <3> QED
      BY <1>7, <3>1, <3>2
  <2>2. H = [u \in SUBSET s |-> H[u]]
    OBVIOUS
  <2>3. G = [u \in SUBSET s |-> G[u]]
    OBVIOUS
  <2> HIDE DEF H, G
  <2>4. H = G
    BY <2>1, <2>2, <2>3
  <2> QED
    BY <2>4 DEF IsSearch, G
<1> HIDE DEF H
<1> QED
  BY <1>2, <1>8 DEF TheSearch

\* What the search has found of the combinations s: the best of those that may
\* be done, the first of those as good, or that none is worth anything.
Found(x, s, r) ==
  \/ /\ r = Nothing
     /\ \A S \in s : Feasible(x, S) => ~ (TotalScore(x, S) > 0)
  \/ /\ r.funds \in s /\ Feasible(x, r.funds) /\ r.score = TotalScore(x, r.funds) /\ r.score > 0
     /\ \A S \in s \ {r.funds} : Feasible(x, S) =>
          \/ TotalScore(x, S) < r.score
          \/ TotalScore(x, S) = r.score /\ Before(r.funds, S)

LEMMA BetterIsFound ==
  ASSUME NEW x, NEW s \in SUBSET (SUBSET Book), \A S \in SUBSET Book : TotalScore(x, S) \in Int,
         NEW L \in s, \A T \in s \ {L} : Before(T, L), NEW r, Found(x, s \ {L}, r)
  PROVE  Found(x, s, Better(x, r, L))
<1>1. \A S \in s : TotalScore(x, S) \in Int
  OBVIOUS
<1>2. r.score \in Int /\ r.score >= 0
  BY <1>1 DEF Found, Nothing
<1>3. CASE Feasible(x, L) /\ TotalScore(x, L) > r.score
  <2>1. PICK q : q = Better(x, r, L) /\ q.funds = L /\ q.score = TotalScore(x, L)
    <3>1. PICK n : n = TotalScore(x, L)
      OBVIOUS
    <3>2. Better(x, r, L) = [funds |-> L, score |-> n]
      BY <1>3, <3>1 DEF Better
    <3> QED
      BY <3>1, <3>2
  <2>2. q.score > 0
    BY <1>1, <1>2, <1>3, <2>1
  <2>3. ASSUME NEW S \in s \ {L}, Feasible(x, S) PROVE TotalScore(x, S) < q.score
    <3>1. TotalScore(x, S) <= r.score
      BY <1>1, <1>2, <2>3 DEF Found, Nothing
    <3> QED
      BY <1>1, <1>2, <1>3, <2>1, <3>1
  <2> QED
    BY <1>3, <2>1, <2>2, <2>3 DEF Found
<1>4. CASE ~ (Feasible(x, L) /\ TotalScore(x, L) > r.score)
  <2>1. Better(x, r, L) = r
    BY <1>4 DEF Better
  <2>2. CASE r = Nothing /\ \A S \in s \ {L} : Feasible(x, S) => ~ (TotalScore(x, S) > 0)
    <3>1. r.score = 0
      BY <2>2 DEF Nothing
    <3> QED
      BY <1>4, <2>1, <2>2, <3>1 DEF Found
  <2>3. CASE /\ r.funds \in s \ {L} /\ Feasible(x, r.funds) /\ r.score = TotalScore(x, r.funds) /\ r.score > 0
             /\ \A S \in (s \ {L}) \ {r.funds} : Feasible(x, S) =>
                  \/ TotalScore(x, S) < r.score
                  \/ TotalScore(x, S) = r.score /\ Before(r.funds, S)
    <3>1. Feasible(x, L) => TotalScore(x, L) < r.score \/ (TotalScore(x, L) = r.score /\ Before(r.funds, L))
      BY <1>1, <1>2, <1>4, <2>3
    <3>2. \A S \in s \ {r.funds} : Feasible(x, S) =>
            TotalScore(x, S) < r.score \/ (TotalScore(x, S) = r.score /\ Before(r.funds, S))
      BY <2>3, <3>1
    <3> QED
      BY <2>1, <2>3, <3>2 DEF Found
  <2> QED
    BY <2>2, <2>3 DEF Found
<1> QED
  BY <1>3, <1>4

LEMMA BestIsFound ==
  ASSUME NEW x, \A S \in SUBSET Book : TotalScore(x, S) \in Int
  PROVE  Found(x, Combinations(x), Best(x))
<1> DEFINE C == Combinations(x)
           h == TheSearch(x, C)
           F == {s \in SUBSET C : ~ Found(x, s, h[s])}
<1>1. C \in SUBSET (SUBSET Book)
  BY DEF Combinations, Candidates, OfRole
<1> HIDE DEF C
<1>2. IsSearch(h, x, C)
  BY <1>1, SearchExists
<1> HIDE DEF h
<1>3. ASSUME F # {} PROVE FALSE
  <2>1. \A s \in F : IsFiniteSet(s)
    BY <1>1, LatestIn
  <2> HIDE DEF F
  <2>2. PICK s \in F : \A t \in F : ~ (Cardinality(t) < Cardinality(s))
    BY <1>3, <2>1, SmallestSet
  <2> USE DEF F
  <2>3. s \in SUBSET C /\ s \in SUBSET (SUBSET Book)
    BY <1>1
  <2>4. CASE s = {}
    <3>1. h[s] = Nothing
      BY <1>2, <2>3, <2>4 DEF IsSearch
    <3> QED
      BY <2>4, <3>1 DEF Found
  <2>5. CASE s # {}
    <3>1. PICK L : L = Latest(s)
      OBVIOUS
    <3>2. L \in s /\ (\A T \in s \ {L} : Before(T, L)) /\ Cardinality(s \ {L}) < Cardinality(s)
      BY <2>3, <2>5, <3>1, LatestIs, LatestIn
    <3>3. h[s] = Better(x, h[s \ {L}], L)
      BY <1>2, <2>3, <2>5, <3>1 DEF IsSearch
    <3>4. Found(x, s \ {L}, h[s \ {L}])
      BY <2>2, <2>3, <3>2
    <3>5. Found(x, s, Better(x, h[s \ {L}], L))
      BY <2>3, <3>2, <3>4, BetterIsFound
    <3> QED
      BY <3>3, <3>5
  <2> QED
    BY <2>4, <2>5
<1> HIDE DEF F
<1>4. F = {}
  BY <1>3
<1>5. Found(x, C, h[C])
  BY <1>4 DEF F
<1> QED
  BY <1>5, BestIsSearch DEF h, C

-------------------------------------------------------------------------------
(***************************************************************************)
(* The input of the guardrails, and what the constraints of one fund are.  *)
(***************************************************************************)
Ordered == [id: Nat \X Book, fund: Book, day: Nat, op: {"buy", "dca", "sell"}, amount: Nat \ {0},
            status: {"submitted", "settled"}]
Inputs == [funds: [Book -> Fund], trades: SUBSET Ordered, day: Nat, wants: [Book -> Want], gate: Gate,
           strategy: Strategy]
IsInput(x) == x \in Inputs /\ IsPortfolio(x.funds) /\ IsFiniteSet(x.trades)

LEMMA MinOfTwo == \A m, n \in Int : Min({m, n}) = IF m <= n THEN m ELSE n
<1> SUFFICES ASSUME NEW m \in Int, NEW n \in Int
             PROVE  Min({m, n}) = IF m <= n THEN m ELSE n
  OBVIOUS
<1> DEFINE k == IF m <= n THEN m ELSE n
<1>1. k \in {m, n} /\ \A y \in {m, n} : k <= y
  OBVIOUS
<1>2. \A z \in {m, n} : (\A y \in {m, n} : z <= y) => z = k
  OBVIOUS
<1> QED
  BY <1>1, <1>2 DEF Min

LEMMA LargerOfTwo == \A m, n \in Int : Max({m, n}) = IF m >= n THEN m ELSE n
<1> SUFFICES ASSUME NEW m \in Int, NEW n \in Int
             PROVE  Max({m, n}) = IF m >= n THEN m ELSE n
  OBVIOUS
<1> DEFINE k == IF m >= n THEN m ELSE n
<1>1. k \in {m, n} /\ \A y \in {m, n} : k >= y
  OBVIOUS
<1>2. \A z \in {m, n} : (\A y \in {m, n} : z >= y) => z = k
  OBVIOUS
<1> QED
  BY <1>1, <1>2 DEF Max

\* A sum of the amounts of some trades is a number.
LEMMA AmountsSum ==
  ASSUME NEW x, IsInput(x), NEW T \in SUBSET x.trades
  PROVE  SumFunction([t \in T |-> t.amount]) \in Nat /\ \A t \in T : t.amount <= SumFunction([u \in T |-> u.amount])
<1>1. IsFiniteSet(T)
  BY FS_Subset DEF IsInput
<1>2. \A t \in T : t.amount \in Nat
  BY DEF IsInput, Inputs, Ordered
<1> DEFINE g == [t \in T |-> t.amount]
<1>3. g \in [T -> Nat] /\ \A t \in T : g[t] = t.amount
  BY <1>2
<1>4. SumFunction(g) \in Nat /\ \A t \in T : g[t] <= SumFunction(g)
  <2> HIDE DEF g
  <2> QED
    BY <1>1, <1>3, SumIsNat
<1> QED
  BY <1>3, <1>4

LEMMA LockedIs ==
  ASSUME NEW x, IsInput(x), NEW f \in Book
  PROVE  /\ x.funds[f].value \in Nat /\ Locked(x, f) \in Nat /\ Locked(x, f) <= x.funds[f].value
         /\ Available(x, f) \in Nat /\ Available(x, f) <= x.funds[f].value
<1>1. x.funds[f].value \in Nat
  BY DEF IsInput, Inputs, Fund
<1>2. \A ops : Traded(x, f, ops) \in Nat
  <2> SUFFICES ASSUME NEW ops PROVE Traded(x, f, ops) \in Nat
    OBVIOUS
  <2> DEFINE recent == {t \in x.trades : t.fund = f /\ t.op \in ops /\ x.day - t.day \in 0 .. MinHold(x.funds[f]) - 1}
  <2>1. recent \in SUBSET x.trades
    OBVIOUS
  <2>2. Traded(x, f, ops) = SumFunction([t \in recent |-> t.amount])
    BY DEF Traded
  <2> HIDE DEF recent
  <2> QED
    BY <2>1, <2>2, AmountsSum
<1>3. PICK v \in Nat, b \in Nat, s \in Nat :
        v = x.funds[f].value /\ b = Traded(x, f, {"buy", "dca", "convert_in"}) /\ s = Traded(x, f, {"sell", "convert_out"})
  BY <1>1, <1>2
<1>4. PICK m \in Nat : m = AtLeast0(b - s)
  BY DEF AtLeast0
<1>5. Locked(x, f) = Min({v, m})
  BY <1>3, <1>4 DEF Locked
<1>6. Locked(x, f) = IF v <= m THEN v ELSE m
  BY <1>5, MinOfTwo
<1> QED
  BY <1>3, <1>6 DEF Available

LEMMA Hundreds == \A a \in Nat : (a \div 100) * 100 \in Nat /\ (a \div 100) * 100 <= a
  OBVIOUS

LEMMA SizedIs ==
  ASSUME NEW n \in Int, NEW c \in Nat, NEW e \in BOOLEAN
  PROVE  Sized(n, c, e) \in Nat /\ Sized(n, c, e) <= c
<1>1. Min({n, c}) = IF n <= c THEN n ELSE c
  BY MinOfTwo
<1>2. PICK a \in Nat : a = AtLeast0(Min({n, c})) /\ a <= c
  BY <1>1 DEF AtLeast0
<1>3. Sized(n, c, e) = IF e /\ c > 0 /\ 100 * a >= 85 * c THEN c ELSE IF a < 100 THEN 0 ELSE (a \div 100) * 100
  BY <1>2 DEF Sized
<1>4. PICK k \in Nat : k = (a \div 100) * 100 /\ k <= a
  BY Hundreds
<1> QED
  BY <1>2, <1>3, <1>4

\* What a fund is sold for is not more than it is worth, nor than what is not
\* locked of it, unless that is nothing; what is added keeps its cap.
LEMMA AmountIs ==
  ASSUME NEW x, IsInput(x), NEW f \in Book
  PROVE  /\ Amount(x, f) \in Nat
         /\ Amount(x, f) > 0 => x.wants[f].verb \in Tactical
         /\ x.wants[f].verb = "add" /\ Amount(x, f) > 0 => x.funds[f].value + Amount(x, f) <= x.funds[f].cap
         /\ x.wants[f].verb # "add" =>
              /\ Amount(x, f) <= x.funds[f].value
              /\ Amount(x, f) <= Available(x, f) \/ Available(x, f) = 0
<1>1. PICK v \in Nat, c \in Int, n \in Int, a \in Nat :
        v = x.funds[f].value /\ c = x.funds[f].cap /\ n = x.wants[f].amount /\ a = Available(x, f) /\ a <= v
  <2>1. x.funds[f] \in Fund /\ x.wants[f] \in Want
    BY DEF IsInput, Inputs
  <2>2. x.funds[f].cap \in Int /\ x.wants[f].amount \in Int
    BY <2>1 DEF Fund, Want
  <2> QED
    BY <2>2, LockedIs
<1>2. PICK e \in BOOLEAN : e = x.strategy.exit
  BY DEF IsInput, Inputs, Strategy
<1>3. PICK w : w = x.wants[f].verb
  OBVIOUS
<1>4. CASE w = "add"
  <2>1. PICK room \in Nat : room = AtLeast0(c - v) /\ (room > 0 => v + room = c)
    BY DEF AtLeast0
  <2>2. Amount(x, f) = Sized(n, room, FALSE)
    BY <1>1, <1>3, <1>4, <2>1 DEF Amount
  <2>3. PICK k \in Nat : k = Sized(n, room, FALSE) /\ k <= room
    BY SizedIs
  <2>4. k > 0 => v + k <= c
    <3> SUFFICES ASSUME k > 0 PROVE v + k <= c
      OBVIOUS
    <3>1. k \in Nat /\ room \in Nat /\ v \in Nat /\ c \in Int /\ k <= room
      BY <2>3
    <3>2. room > 0
      BY <3>1
    <3>3. v + room = c
      BY <2>1, <3>2
    <3> QED
      BY <3>1, <3>3
  <2>5. w \in Tactical
    BY <1>4 DEF Tactical
  <2>6. Amount(x, f) = k
    BY <2>2, <2>3
  <2> HIDE DEF Tactical
  <2> QED
    BY <1>1, <1>3, <1>4, <2>4, <2>5, <2>6
<1>5. CASE w \in {"reduce", "switch_out"}
  <2>1. PICK most \in Nat : most = Sellable(x, f) /\ most <= v /\ (most = a \/ a = 0)
    BY <1>1 DEF Sellable
  <2>2. Amount(x, f) = Sized(n, most, e)
    <3>1. w # "add"
      BY <1>5
    <3> QED
      BY <1>1, <1>2, <1>3, <1>5, <2>1, <3>1 DEF Amount
  <2>3. PICK k \in Nat : k = Sized(n, most, e) /\ k <= most
    BY SizedIs
  <2> QED
    BY <1>1, <1>3, <1>5, <2>1, <2>2, <2>3 DEF Tactical
<1>6. CASE w \notin {"add", "reduce", "switch_out"}
  <2>1. Amount(x, f) = 0
    BY <1>3, <1>6 DEF Amount
  <2> QED
    BY <1>1, <1>3, <1>6, <2>1
<1> QED
  BY <1>4, <1>5, <1>6

-------------------------------------------------------------------------------
(***************************************************************************)
(* Percents and what is more concentrated.                                 *)
(***************************************************************************)
LEMMA DivBounds == \A a \in Nat, d \in Nat \ {0} : d * (a \div d) <= a /\ a < d * ((a \div d) + 1)
  OBVIOUS

LEMMA ProductGrows == \A d \in Nat, m \in Nat, n \in Nat : m <= n => d * m <= d * n
  OBVIOUS

LEMMA DivGrows == \A a \in Nat, b \in Nat, d \in Nat \ {0} : a <= b => a \div d <= b \div d
<1> SUFFICES ASSUME NEW a \in Nat, NEW b \in Nat, NEW d \in Nat \ {0}, a <= b
             PROVE  a \div d <= b \div d
  OBVIOUS
<1>1. PICK m \in Nat, n \in Nat : m = a \div d /\ n = b \div d
  BY DivType
<1>2. d * m <= a /\ b < d * (n + 1)
  BY <1>1, DivBounds
<1>3. ASSUME n + 1 <= m PROVE FALSE
  <2>1. PICK k \in Nat : k = n + 1
    OBVIOUS
  <2>2. d * k <= d * m
    BY <1>3, <2>1, ProductGrows
  <2>3. PICK i \in Nat, j \in Nat : i = d * k /\ j = d * m
    BY <2>1
  <2> QED
    BY <1>2, <2>1, <2>2, <2>3
<1> QED
  BY <1>1, <1>3

LEMMA PctIs ==
  ASSUME NEW total \in Int
  PROVE  /\ \A v \in Int : Pct(v, total) \in Nat
         /\ \A v, w \in Int : v <= w => Pct(v, total) <= Pct(w, total)
<1>1. CASE total <= 0
  BY <1>1 DEF Pct
<1>2. CASE total > 0
  <2>1. total \in Nat /\ 2 * total \in Nat \ {0}
    BY <1>2
  <2>2. PICK d \in Nat \ {0} : d = 2 * total
    BY <2>1
  <2>3. \A v \in Int : 20000 * AtLeast0(v) + total \in Nat /\ Pct(v, total) = (20000 * AtLeast0(v) + total) \div d
    BY <1>2, <2>1, <2>2 DEF Pct, AtLeast0
  <2>4. \A v, w \in Int : v <= w => 20000 * AtLeast0(v) + total <= 20000 * AtLeast0(w) + total
    BY <2>1 DEF AtLeast0
  <2>5. ASSUME NEW v \in Int PROVE Pct(v, total) \in Nat
    <3>1. PICK a \in Nat : a = 20000 * AtLeast0(v) + total
      BY <2>3
    <3> QED
      BY <2>3, <3>1, DivType
  <2>6. ASSUME NEW v \in Int, NEW w \in Int, v <= w PROVE Pct(v, total) <= Pct(w, total)
    <3>1. PICK a \in Nat, b \in Nat : a = 20000 * AtLeast0(v) + total /\ b = 20000 * AtLeast0(w) + total
      BY <2>3
    <3>2. a <= b
      BY <2>4, <2>6, <3>1
    <3> QED
      BY <2>3, <3>1, <3>2, DivGrows
  <2> QED
    BY <2>5, <2>6
<1> QED
  BY <1>1, <1>2

\* A portfolio with the funds of x and other values of them.
LikeFunds(x, p) ==
  /\ p \in [Book -> Fund]
  /\ \A f \in Book : /\ p[f].style = x.funds[f].style /\ p[f].company = x.funds[f].company
                     /\ p[f].role = x.funds[f].role /\ p[f].bucket = x.funds[f].bucket

LEMMA AfterIs ==
  ASSUME NEW x, IsInput(x), NEW S \in SUBSET Book
  PROVE  /\ LikeFunds(x, After(x, S))
         /\ \A f \in Book : f \notin Adds(x, S) => After(x, S)[f].value <= x.funds[f].value
<1> SUFFICES ASSUME NEW f \in Book
             PROVE  /\ After(x, S)[f] \in Fund
                    /\ After(x, S)[f].style = x.funds[f].style /\ After(x, S)[f].company = x.funds[f].company
                    /\ After(x, S)[f].role = x.funds[f].role /\ After(x, S)[f].bucket = x.funds[f].bucket
                    /\ f \notin Adds(x, S) => After(x, S)[f].value <= x.funds[f].value
  <2>1. After(x, S) = [f \in Book |-> After(x, S)[f]]
    BY DEF After
  <2> QED
    BY <2>1 DEF LikeFunds
<1>1. PICK r \in Fund : r = x.funds[f] /\ r.value \in Nat
  BY DEF IsInput, Inputs, Fund
<1>2. PICK n \in Nat : n = Amount(x, f)
  BY AmountIs
<1>3. f \in S \ Adds(x, S) => n <= r.value
  BY <1>1, <1>2, AmountIs DEF Adds
<1>4. PICK v \in Nat : /\ v = (IF f \notin S THEN r.value ELSE IF f \in Adds(x, S) THEN r.value + n ELSE r.value - n)
                       /\ f \notin Adds(x, S) => v <= r.value
  BY <1>1, <1>3
<1>5. After(x, S)[f] = [r EXCEPT !.value = v]
  BY <1>1, <1>2, <1>4 DEF After
<1>6. PICK q : q = [r EXCEPT !.value = v]
  OBVIOUS
<1>7. /\ q \in Fund /\ q.value = v /\ q.style = r.style /\ q.company = r.company
      /\ q.role = r.role /\ q.bucket = r.bucket
  BY <1>6 DEF Fund
<1> QED
  BY <1>1, <1>4, <1>5, <1>6, <1>7

LEMMA FundsLike == ASSUME NEW x, IsInput(x) PROVE LikeFunds(x, x.funds)
  BY DEF IsInput, Inputs, LikeFunds

LEMMA ValueIs ==
  ASSUME NEW x, IsInput(x), NEW p, LikeFunds(x, p), NEW T \in SUBSET Book
  PROVE  Value(p, T) \in Nat
<1> DEFINE g == [f \in T |-> p[f].value]
<1>1. g \in [T -> Nat]
  BY DEF LikeFunds, Fund
<1>2. SumFunction(g) \in Nat
  <2> HIDE DEF g
  <2> QED
    BY <1>1, BookSubsets, SumIsNat
<1> QED
  BY <1>2 DEF Value

LEMMA WorthIs == ASSUME NEW x, IsInput(x) PROVE Worth(x) \in Nat
  BY FundsLike, ValueIs DEF Worth

\* The value of some funds only rises if one of them is added to.
LEMMA ValueRises ==
  ASSUME NEW x, IsInput(x), NEW S \in SUBSET Book, NEW T \in SUBSET Book, T \cap Adds(x, S) = {}
  PROVE  Pct(Value(After(x, S), T), Worth(x)) <= Pct(Value(x.funds, T), Worth(x))
<1>1. PICK p : p = After(x, S) /\ LikeFunds(x, p) /\ \A f \in T : p[f].value <= x.funds[f].value
  BY AfterIs
<1> DEFINE g == [f \in T |-> p[f].value]
           h == [f \in T |-> x.funds[f].value]
<1>2. g \in [T -> Int] /\ h \in [T -> Int] /\ \A f \in T : g[f] <= h[f]
  <2>1. \A f \in T : p[f].value \in Int /\ x.funds[f].value \in Int
    BY <1>1, FundsLike DEF LikeFunds, Fund
  <2> QED
    BY <1>1, <2>1
<1>3. SumFunction(g) <= SumFunction(h)
  <2> HIDE DEF g, h
  <2> QED
    BY <1>2, BookSubsets, SumGrows
<1>4. Value(p, T) <= Value(x.funds, T)
  BY <1>3 DEF Value
<1>5. Value(p, T) \in Int /\ Value(x.funds, T) \in Int /\ Worth(x) \in Int
  BY <1>1, FundsLike, ValueIs, WorthIs
<1> QED
  BY <1>1, <1>4, <1>5, PctIs

OfTheme(x, t) == {f \in Book : Theme(x.funds[f]) = t}
OfCompany(x, c) == {f \in Book : x.funds[f].company = c}

LEMMA PctsOf ==
  ASSUME NEW x, IsInput(x), NEW p, LikeFunds(x, p)
  PROVE  /\ \A t : ThemePct(x, p, t) = Pct(Value(p, OfTheme(x, t)), Worth(x))
         /\ \A c : CompanyPct(x, p, c) = Pct(Value(p, OfCompany(x, c)), Worth(x))
<1>1. \A f \in Book : Theme(p[f]) = Theme(x.funds[f])
  BY DEF LikeFunds, Theme
<1>2. \A t : {f \in Book : Theme(p[f]) = t} = OfTheme(x, t)
  BY <1>1 DEF OfTheme
<1>3. \A c : {f \in Book : p[f].company = c} = OfCompany(x, c)
  BY DEF LikeFunds, OfCompany
<1> QED
  BY <1>2, <1>3 DEF ThemePct, CompanyPct

LEMMA PctsType ==
  ASSUME NEW x, IsInput(x), NEW p, LikeFunds(x, p)
  PROVE  /\ \A t : ThemePct(x, p, t) \in Nat
         /\ \A c : CompanyPct(x, p, c) \in Nat
         /\ \A f \in Book : FundPct(x, p, f) \in Nat
         /\ \A b : BucketPct(x, p, b) \in Nat
<1>1. \A T \in SUBSET Book : Pct(Value(p, T), Worth(x)) \in Nat
  BY ValueIs, WorthIs, PctIs
<1>2. \A t : OfTheme(x, t) \in SUBSET Book /\ OfCompany(x, t) \in SUBSET Book
  BY DEF OfTheme, OfCompany
<1>3. \A f \in Book : FundPct(x, p, f) \in Nat
  <2>1. \A f \in Book : p[f].value \in Int
    BY DEF LikeFunds, Fund
  <2>2. PICK total \in Int : total = Worth(x)
    BY WorthIs
  <2>3. \A v \in Int : Pct(v, total) \in Nat
    BY PctIs
  <2> QED
    BY <2>1, <2>2, <2>3 DEF FundPct
<1>4. \A b : BucketPct(x, p, b) \in Nat
  BY <1>1 DEF BucketPct
<1> QED
  BY <1>1, <1>2, <1>3, <1>4, PctsOf

\* The volatile themes hold more together only if one of them does, and the
\* three largest funds only if some fund does.
LEMMA HighVolatilityIs == IsFiniteSet(HighVolatility)
<1>1. IsFiniteSet({}) /\ HighVolatility =
        ((({} \cup {"growth_cluster"}) \cup {"energy_transition"}) \cup {"cyclical_resources"}) \cup {"global_growth"}
  BY FS_EmptySet DEF HighVolatility
<1>2. \A A, e : IsFiniteSet(A) => IsFiniteSet(A \cup {e})
  BY FS_AddElement
<1> QED
  BY <1>1, <1>2

LEMMA VolatileRises ==
  ASSUME NEW x, IsInput(x), NEW p, LikeFunds(x, p), NEW q, LikeFunds(x, q),
         \A t \in HighVolatility : ThemePct(x, p, t) <= ThemePct(x, q, t)
  PROVE  VolatilePct(x, p) <= VolatilePct(x, q)
<1> DEFINE g == [t \in HighVolatility |-> ThemePct(x, p, t)]
           h == [t \in HighVolatility |-> ThemePct(x, q, t)]
<1>1. g \in [HighVolatility -> Int] /\ h \in [HighVolatility -> Int] /\ \A t \in HighVolatility : g[t] <= h[t]
  BY PctsType
<1>2. SumFunction(g) <= SumFunction(h)
  <2> HIDE DEF g, h
  <2> QED
    BY <1>1, HighVolatilityIs, SumGrows
<1> QED
  BY <1>2 DEF VolatilePct

LEMMA VolatileType == ASSUME NEW x, IsInput(x), NEW p, LikeFunds(x, p) PROVE VolatilePct(x, p) \in Int
<1> DEFINE g == [t \in HighVolatility |-> ThemePct(x, p, t)]
<1>1. g \in [HighVolatility -> Int]
  BY PctsType
<1>2. SumFunction(g) \in Int
  <2> HIDE DEF g
  <2> QED
    BY <1>1, HighVolatilityIs, SumType
<1> QED
  BY <1>2 DEF VolatilePct

Three == {S \in SUBSET Book : Cardinality(S) = Min({3, Cardinality(Book)})}

LEMMA ThreeExist == Three # {} /\ IsFiniteSet(Three)
<1>1. PICK n \in Nat : n = Cardinality(Book)
  BY PlaceIs, FS_CardinalityType
<1>2. PICK m \in Nat : m = Min({3, n}) /\ m <= n
  BY MinOfTwo
<1> DEFINE F == {S \in SUBSET Book : Cardinality(S) >= m}
<1>3. Book \in F
  BY <1>1, <1>2
<1>4. \A S \in F : IsFiniteSet(S)
  BY BookSubsets
<1> HIDE DEF F
<1>5. PICK S \in F : \A T \in F : ~ (Cardinality(T) < Cardinality(S))
  BY <1>3, <1>4, SmallestSet
<1> USE DEF F
<1>6. S \in SUBSET Book /\ IsFiniteSet(S) /\ Cardinality(S) \in Nat /\ Cardinality(S) >= m
  BY BookSubsets
<1>7. Cardinality(S) = m
  <2> SUFFICES ASSUME Cardinality(S) # m PROVE FALSE
    OBVIOUS
  <2>1. Cardinality(S) > m /\ S # {}
    BY <1>6, FS_EmptySet
  <2>2. PICK f \in S : TRUE
    BY <2>1
  <2>3. Cardinality(S \ {f}) = Cardinality(S) - 1
    BY <1>6, FS_RemoveElement
  <2>4. S \ {f} \in F /\ Cardinality(S \ {f}) < Cardinality(S)
    BY <1>6, <2>1, <2>3
  <2> QED
    BY <1>5, <2>4
<1>8. S \in Three
  BY <1>1, <1>2, <1>6, <1>7 DEF Three
<1>9. IsFiniteSet(Three)
  BY BookSubsets, FS_Subset DEF Three
<1> QED
  BY <1>8, <1>9

LEMMA Top3Is ==
  ASSUME NEW x, IsInput(x), NEW p, LikeFunds(x, p)
  PROVE  /\ \A S \in Three : SumFunction([f \in S |-> FundPct(x, p, f)]) \in Int
         /\ \E S \in Three : Top3Pct(x, p) = SumFunction([f \in S |-> FundPct(x, p, f)])
         /\ \A S \in Three : SumFunction([f \in S |-> FundPct(x, p, f)]) <= Top3Pct(x, p)
<1> DEFINE sum == [S \in Three |-> SumFunction([f \in S |-> FundPct(x, p, f)])]
           N == {sum[S] : S \in Three}
<1>1. ASSUME NEW S \in Three PROVE SumFunction([f \in S |-> FundPct(x, p, f)]) \in Int
  <2> DEFINE g == [f \in S |-> FundPct(x, p, f)]
  <2>1. S \in SUBSET Book
    BY DEF Three
  <2>2. g \in [S -> Int] /\ IsFiniteSet(S)
    BY <2>1, PctsType, BookSubsets
  <2> HIDE DEF g
  <2>3. SumFunction(g) \in Int
    BY <2>2, SumType
  <2> QED
    BY <2>3 DEF g
<1>2. \A S \in Three : sum[S] \in Int /\ sum[S] = SumFunction([f \in S |-> FundPct(x, p, f)])
  BY <1>1
<1>3. Top3Pct(x, p) = Max({SumFunction([f \in S |-> FundPct(x, p, f)]) : S \in Three})
  BY DEF Top3Pct, Three
<1>4. {SumFunction([f \in S |-> FundPct(x, p, f)]) : S \in Three} = N
  OBVIOUS
<1> HIDE DEF sum
<1>5. N \in SUBSET Int /\ N # {} /\ IsFiniteSet(N)
  <2>1. IsFiniteSet(N)
    BY ThreeExist, ImageIsFinite
  <2> QED
    BY <1>2, <2>1, ThreeExist
<1>6. Max(N) \in N /\ \A n \in N : n <= Max(N)
  <2> HIDE DEF N
  <2> QED
    BY <1>5, Largest
<1>7. Top3Pct(x, p) = Max(N)
  BY <1>3, <1>4
<1>8. \E S \in Three : Top3Pct(x, p) = sum[S]
  BY <1>6, <1>7
<1>9. \A S \in Three : sum[S] <= Top3Pct(x, p)
  BY <1>6, <1>7
<1> QED
  BY <1>1, <1>2, <1>8, <1>9

LEMMA Top3Rises ==
  ASSUME NEW x, IsInput(x), NEW p, LikeFunds(x, p), NEW q, LikeFunds(x, q),
         \A f \in Book : FundPct(x, p, f) <= FundPct(x, q, f)
  PROVE  Top3Pct(x, p) <= Top3Pct(x, q)
<1>1. PICK S \in Three : Top3Pct(x, p) = SumFunction([f \in S |-> FundPct(x, p, f)])
  BY Top3Is
<1> DEFINE g == [f \in S |-> FundPct(x, p, f)]
           h == [f \in S |-> FundPct(x, q, f)]
<1>2. S \in SUBSET Book /\ IsFiniteSet(S)
  BY BookSubsets DEF Three
<1>3. g \in [S -> Int] /\ h \in [S -> Int] /\ \A f \in S : g[f] <= h[f]
  BY <1>2, PctsType
<1>4. SumFunction(g) <= SumFunction(h)
  <2> HIDE DEF g, h
  <2> QED
    BY <1>2, <1>3, SumGrows
<1>5. SumFunction(h) <= Top3Pct(x, q)
  BY Top3Is
<1>6. PICK S2 \in Three : Top3Pct(x, q) = SumFunction([f \in S2 |-> FundPct(x, q, f)])
  BY Top3Is
<1>7. Top3Pct(x, p) \in Int /\ Top3Pct(x, q) \in Int /\ SumFunction(h) \in Int
  BY <1>1, <1>6, Top3Is
<1>8. Top3Pct(x, p) = SumFunction(g)
  BY <1>1
<1> HIDE DEF g, h
<1> QED
  BY <1>4, <1>5, <1>7, <1>8

\* Combinations that spread the portfolio make nothing more concentrated that
\* is over its limit.
Risen(old, new, limit) == old > limit /\ new > old

LEMMA SpreadHolds ==
  ASSUME NEW x, IsInput(x), NEW S \in SUBSET Book, Spread(x, S)
  PROVE  LET then == After(x, S) IN
         /\ \A f \in Book :
              /\ ~ Risen(ThemePct(x, x.funds, Theme(x.funds[f])), ThemePct(x, then, Theme(x.funds[f])), ThemeLimit)
              /\ x.funds[f].company # "unknown" =>
                   ~ Risen(CompanyPct(x, x.funds, x.funds[f].company), CompanyPct(x, then, x.funds[f].company), CompanyLimit)
         /\ ~ Risen(VolatilePct(x, x.funds), VolatilePct(x, then), VolatileLimit)
         /\ ~ Risen(Top3Pct(x, x.funds), Top3Pct(x, then), Top3Limit)
<1>1. PICK p : p = After(x, S) /\ LikeFunds(x, p) /\ \A f \in Book : f \notin Adds(x, S) => p[f].value <= x.funds[f].value
  BY AfterIs
<1>2. LikeFunds(x, x.funds)
  BY FundsLike
<1>3. ASSUME NEW f \in Adds(x, S)
      PROVE  LET t == Theme(x.funds[f])
                 c == x.funds[f].company
             IN /\ ~ Risen(ThemePct(x, x.funds, t), ThemePct(x, p, t), ThemeLimit)
                /\ t \in HighVolatility => ~ Risen(VolatilePct(x, x.funds), VolatilePct(x, p), VolatileLimit)
                /\ FundPct(x, p, f) > FundPct(x, x.funds, f) => Top3Pct(x, p) <= Top3Limit
                /\ c # "unknown" => ~ Risen(CompanyPct(x, x.funds, c), CompanyPct(x, p, c), CompanyLimit)
  BY <1>1 DEF Spread, Risen
<1>4. ASSUME NEW t, OfTheme(x, t) \cap Adds(x, S) = {} PROVE ThemePct(x, p, t) <= ThemePct(x, x.funds, t)
  <2>1. OfTheme(x, t) \in SUBSET Book
    BY DEF OfTheme
  <2>2. Pct(Value(p, OfTheme(x, t)), Worth(x)) <= Pct(Value(x.funds, OfTheme(x, t)), Worth(x))
    BY <1>1, <1>4, <2>1, ValueRises
  <2> QED
    BY <1>1, <1>2, <2>2, PctsOf
<1>5. ASSUME NEW c, OfCompany(x, c) \cap Adds(x, S) = {} PROVE CompanyPct(x, p, c) <= CompanyPct(x, x.funds, c)
  <2>1. OfCompany(x, c) \in SUBSET Book
    BY DEF OfCompany
  <2>2. Pct(Value(p, OfCompany(x, c)), Worth(x)) <= Pct(Value(x.funds, OfCompany(x, c)), Worth(x))
    BY <1>1, <1>5, <2>1, ValueRises
  <2> QED
    BY <1>1, <1>2, <2>2, PctsOf
<1>6. ASSUME NEW t PROVE ~ Risen(ThemePct(x, x.funds, t), ThemePct(x, p, t), ThemeLimit)
  <2>1. ThemePct(x, x.funds, t) \in Nat /\ ThemePct(x, p, t) \in Nat
    BY <1>1, <1>2, PctsType
  <2>2. CASE OfTheme(x, t) \cap Adds(x, S) = {}
    BY <1>4, <2>1, <2>2 DEF Risen
  <2>3. CASE \E f \in Adds(x, S) : f \in OfTheme(x, t)
    BY <1>3, <2>3 DEF OfTheme
  <2> QED
    BY <2>2, <2>3
<1>7. ASSUME NEW c, c # "unknown" PROVE ~ Risen(CompanyPct(x, x.funds, c), CompanyPct(x, p, c), CompanyLimit)
  <2>1. CompanyPct(x, x.funds, c) \in Nat /\ CompanyPct(x, p, c) \in Nat
    BY <1>1, <1>2, PctsType
  <2>2. CASE OfCompany(x, c) \cap Adds(x, S) = {}
    BY <1>5, <2>1, <2>2 DEF Risen
  <2>3. CASE \E f \in Adds(x, S) : f \in OfCompany(x, c)
    BY <1>3, <1>7, <2>3 DEF OfCompany
  <2> QED
    BY <2>2, <2>3
<1>8. ~ Risen(VolatilePct(x, x.funds), VolatilePct(x, p), VolatileLimit)
  <2>1. VolatilePct(x, x.funds) \in Int /\ VolatilePct(x, p) \in Int
    BY <1>1, <1>2, VolatileType
  <2>2. CASE \E f \in Adds(x, S) : Theme(x.funds[f]) \in HighVolatility
    BY <1>3, <2>2
  <2>3. CASE \A f \in Adds(x, S) : Theme(x.funds[f]) \notin HighVolatility
    <3>1. \A t \in HighVolatility : OfTheme(x, t) \cap Adds(x, S) = {}
      BY <2>3 DEF OfTheme
    <3>2. \A t \in HighVolatility : ThemePct(x, p, t) <= ThemePct(x, x.funds, t)
      BY <1>4, <3>1
    <3>3. VolatilePct(x, p) <= VolatilePct(x, x.funds)
      BY <1>1, <1>2, <3>2, VolatileRises
    <3> QED
      BY <2>1, <3>3 DEF Risen
  <2> QED
    BY <2>2, <2>3
<1>9. ~ Risen(Top3Pct(x, x.funds), Top3Pct(x, p), Top3Limit)
  <2>1. Top3Pct(x, x.funds) \in Int /\ Top3Pct(x, p) \in Int
    BY <1>1, <1>2, Top3Is
  <2>2. \A f \in Book : FundPct(x, p, f) \in Nat /\ FundPct(x, x.funds, f) \in Nat
    BY <1>1, <1>2, PctsType
  <2>3. CASE \E f \in Adds(x, S) : FundPct(x, p, f) > FundPct(x, x.funds, f)
    <3>1. Top3Pct(x, p) <= Top3Limit
      BY <1>3, <2>3
    <3> QED
      BY <2>1, <3>1 DEF Risen, Top3Limit
  <2>4. CASE \A f \in Adds(x, S) : ~ (FundPct(x, p, f) > FundPct(x, x.funds, f))
    <3>1. ASSUME NEW f \in Book PROVE FundPct(x, p, f) <= FundPct(x, x.funds, f)
      <4>1. CASE f \in Adds(x, S)
        BY <2>2, <2>4, <4>1
      <4>2. CASE f \notin Adds(x, S)
        <5>1. p[f].value \in Int /\ x.funds[f].value \in Int /\ p[f].value <= x.funds[f].value
          BY <1>1, <1>2, <4>2 DEF LikeFunds, Fund
        <5>2. PICK total \in Int : total = Worth(x)
          BY WorthIs
        <5>3. Pct(p[f].value, total) <= Pct(x.funds[f].value, total)
          BY <5>1, PctIs
        <5> QED
          BY <5>2, <5>3 DEF FundPct
      <4> QED
        BY <4>1, <4>2
    <3>2. Top3Pct(x, p) <= Top3Pct(x, x.funds)
      BY <1>1, <1>2, <3>1, Top3Rises
    <3> QED
      BY <2>1, <3>2 DEF Risen
  <2> QED
    BY <2>3, <2>4
<1> QED
  BY <1>1, <1>6, <1>7, <1>8, <1>9

-------------------------------------------------------------------------------
(***************************************************************************)
(* The score of a combination is a number.                                 *)
(***************************************************************************)
LEMMA TargetIs == \A b : Target(b) \in Int
  BY DEF Target

LEMMA ObjectiveIs == ASSUME NEW x, IsInput(x), NEW f \in Book PROVE Objective(x, f) \in Int
<1>1. x.funds[f] \in Fund /\ x.wants[f] \in Want
  BY DEF IsInput, Inputs
<1>2. PICK w \in Want : w = x.wants[f]
  BY <1>1
<1>3. PICK cf \in Int, pr \in Int, su \in Int, ev \in Int, ri \in Int :
        cf = w.confidence /\ pr = w.priority /\ su = w.supports /\ ev = w.evidence /\ ri = w.risks
  BY DEF Want
<1>4. PICK n \in Nat : n = Amount(x, f)
  BY AmountIs
<1>5. Fee(x.funds[f]) \in Int
  <2>1. x.funds[f].fee \in Int \cup {Absent}
    BY <1>1 DEF Fund
  <2> QED
    BY <2>1 DEF Fee
<1>6. PICK c \in Int : c = Cost(x, f)
  <2>1. PICK e \in Int : e = Fee(x.funds[f])
    BY <1>5
  <2>2. PICK i \in Int : i = n * e + 50
    OBVIOUS
  <2>3. i \div 100 \in Int
    OBVIOUS
  <2> QED
    BY <1>4, <2>1, <2>2, <2>3 DEF Cost
<1>7. PICK d \in Int : d = Target(Bucket(x.funds[f])) - BucketPct(x, x.funds, Bucket(x.funds[f]))
  BY FundsLike, PctsType, TargetIs
<1>8. PICK m \in Int : m = Min({n * 100, 40000})
  <2>1. n * 100 \in Int
    OBVIOUS
  <2> QED
    BY <2>1, MinOfTwo
<1>9. PICK a \in Int : a = AtLeast0(160000 - pr * 15000)
  BY DEF AtLeast0
<1>10. PICK e \in Int : e = (IF w.verb = "add" THEN (IF d > 0 THEN 80000 ELSE -60000)
                             ELSE IF d < 0 THEN 80000 ELSE 40000)
  OBVIOUS
<1>11. Objective(x, f) = cf * 10000 + a + su * 30000 + ev * 12000 - ri * 40000 - c * 8 + m + e
  BY <1>2, <1>3, <1>4, <1>6, <1>7, <1>8, <1>9, <1>10 DEF Objective
<1> QED
  BY <1>11

LEMMA DriftIs == ASSUME NEW x, IsInput(x), NEW p, LikeFunds(x, p)
  PROVE SumFunction([b \in Buckets |-> LET d == BucketPct(x, p, b) - Target(b) IN IF d < 0 THEN -d ELSE d]) \in Int
<1> DEFINE g == [b \in Buckets |-> LET d == BucketPct(x, p, b) - Target(b) IN IF d < 0 THEN -d ELSE d]
<1>1. IsFiniteSet(Buckets)
  <2>1. IsFiniteSet({}) /\ Buckets =
          ((({} \cup {"core_long_term"}) \cup {"satellite_mid_term"}) \cup {"tactical_short_term"}) \cup {"cash_defense"}
    BY FS_EmptySet DEF Buckets
  <2>2. \A A, e : IsFiniteSet(A) => IsFiniteSet(A \cup {e})
    BY FS_AddElement
  <2> QED
    BY <2>1, <2>2
<1>2. g \in [Buckets -> Int]
  <2> SUFFICES ASSUME NEW b \in Buckets
               PROVE  (LET d == BucketPct(x, p, b) - Target(b) IN IF d < 0 THEN -d ELSE d) \in Int
    OBVIOUS
  <2>1. PICK d \in Int : d = BucketPct(x, p, b) - Target(b)
    BY PctsType, TargetIs
  <2> QED
    BY <2>1
<1>3. SumFunction(g) \in Int
  <2> HIDE DEF g
  <2> QED
    BY <1>1, <1>2, SumType
<1> QED
  BY <1>3

LEMMA ScoreIs == ASSUME NEW x, IsInput(x), NEW S \in SUBSET Book PROVE TotalScore(x, S) \in Int
<1> DEFINE g == [f \in S |-> Objective(x, f)]
           Drift(p) == SumFunction([b \in Buckets |-> LET d == BucketPct(x, p, b) - Target(b) IN IF d < 0 THEN -d ELSE d])
           adds == Adds(x, S)
           themes == {Theme(x.funds[f]) : f \in adds}
<1>1. g \in [S -> Int]
  BY ObjectiveIs
<1>2. PICK o \in Int : o = SumFunction(g)
  <2> HIDE DEF g
  <2> QED
    BY <1>1, BookSubsets, SumType
<1>3. PICK d \in Int, e \in Int : d = Drift(x.funds) /\ e = Drift(After(x, S))
  BY FundsLike, AfterIs, DriftIs
<1>4. PICK a \in Nat : a = Cardinality(adds)
  BY BookSubsets DEF Adds
<1>5. PICK t \in Nat : t = Cardinality(themes)
  <2> DEFINE theme == [f \in adds |-> Theme(x.funds[f])]
  <2>1. themes = {theme[f] : f \in adds}
    OBVIOUS
  <2>2. IsFiniteSet(adds)
    BY BookSubsets DEF Adds
  <2> HIDE DEF theme, adds
  <2>3. IsFiniteSet({theme[f] : f \in adds})
    BY <2>2, ImageIsFinite
  <2> QED
    BY <2>1, <2>3, FS_CardinalityType
<1>6. PICK n \in Nat : n = Cardinality(S)
  BY BookSubsets
<1>7. PICK z \in Int : z = AtLeast0(a - 1)
  BY DEF AtLeast0
<1>8. TotalScore(x, S) = o + (d - e) * 140 - (a - t) * 80000 - (n - 1) * 15000 - z * 30000
  BY <1>2, <1>3, <1>4, <1>5, <1>6, <1>7 DEF TotalScore
<1> QED
  BY <1>8

-------------------------------------------------------------------------------
(***************************************************************************)
(* The combination that is chosen and the actions it becomes.              *)
(***************************************************************************)
LEMMA ChosenIs ==
  ASSUME NEW x, IsInput(x), NEW S, S = Best(x).funds
  PROVE  /\ Found(x, Combinations(x), Best(x))
         /\ S \in SUBSET Candidates(x) /\ S \in SUBSET Book
         /\ Cardinality(S) <= x.strategy.actions
         /\ S # {} => Feasible(x, S)
         /\ Spread(x, S)
<1>1. Found(x, Combinations(x), Best(x))
  BY ScoreIs, BestIsFound
<1>2. x.strategy.actions \in Nat
  BY DEF IsInput, Inputs, Strategy
<1>3. S = {} \/ (S \in Combinations(x) /\ Feasible(x, S))
  BY <1>1 DEF Found, Nothing
<1>4. Candidates(x) \in SUBSET Book
  BY DEF Candidates, OfRole
<1>5. CASE S = {}
  <2>1. Cardinality(S) = 0
    BY <1>5, FS_EmptySet
  <2>2. Spread(x, S)
    BY <1>5 DEF Spread, Adds
  <2> QED
    BY <1>1, <1>2, <1>5, <2>1, <2>2
<1>6. CASE S \in Combinations(x) /\ Feasible(x, S)
  <2>1. S \in SUBSET Candidates(x) /\ Cardinality(S) \in 1 .. x.strategy.actions
    BY <1>6 DEF Combinations
  <2>2. Spread(x, S)
    BY <1>6 DEF Feasible
  <2> QED
    BY <1>1, <1>2, <1>4, <1>6, <2>1, <2>2
<1> QED
  BY <1>3, <1>5, <1>6

LEMMA CandidateIs ==
  ASSUME NEW x, IsInput(x), NEW f \in Candidates(x)
  PROVE  /\ f \in Book /\ x.funds[f].role = "tactical" /\ f \notin x.gate.stopped /\ Eligible(x)
         /\ x.gate.mode \notin {"blocked", "hold_only"} /\ f \notin Dca(x)
         /\ Amount(x, f) \in Nat /\ Amount(x, f) > 0 /\ x.wants[f].verb \in Tactical
<1>1. /\ f \in Book /\ x.funds[f].role = "tactical" /\ f \notin x.gate.stopped /\ Eligible(x)
      /\ x.gate.mode \notin {"blocked", "hold_only"} /\ Amount(x, f) > 0
  BY DEF Candidates, OfRole
<1>2. f \notin Dca(x)
  BY <1>1 DEF Dca, OfRole
<1> QED
  BY <1>1, <1>2, AmountIs

\* The action of a fund: chosen, fixed, or none.
LEMMA ActionIs ==
  ASSUME NEW x, IsInput(x), NEW S, S = Best(x).funds, NEW f \in Book, NEW a, a = Validated(x)[f]
  PROVE  /\ f \in S => a.verb = x.wants[f].verb /\ a.amount = Amount(x, f)
         /\ f \in Dca(x) => a.verb = "scheduled_dca" /\ a.amount = x.funds[f].daily
         /\ f \notin S \cup Dca(x) => a.verb = "hold" /\ a.amount = 0
<1>1. f \in Dca(x) => f \notin S
  BY ChosenIs, CandidateIs
<1>2. a = IF f \in S THEN [verb |-> x.wants[f].verb, amount |-> Amount(x, f)]
          ELSE IF f \in Dca(x) THEN [verb |-> "scheduled_dca", amount |-> x.funds[f].daily]
          ELSE [verb |-> "hold", amount |-> 0]
  BY DEF Validated
<1>3. CASE f \in S
  <2>1. PICK v, n : v = x.wants[f].verb /\ n = Amount(x, f)
    OBVIOUS
  <2>2. a = [verb |-> v, amount |-> n]
    BY <1>2, <1>3, <2>1
  <2> QED
    BY <1>1, <1>3, <2>1, <2>2
<1>4. CASE f \in Dca(x)
  <2>1. PICK n : n = x.funds[f].daily
    OBVIOUS
  <2>2. a = [verb |-> "scheduled_dca", amount |-> n]
    BY <1>1, <1>2, <1>4, <2>1
  <2> QED
    BY <1>1, <1>4, <2>1, <2>2
<1>5. CASE f \notin S \cup Dca(x)
  BY <1>2, <1>5
<1> QED
  BY <1>3, <1>4, <1>5

\* Every action has a verb that the role of its fund allows, and an amount that
\* the fund can bear.
LEMMA ActionType ==
  ASSUME NEW x, IsInput(x), NEW f \in Book, NEW a, a = Validated(x)[f]
  PROVE  /\ a.verb \in Tactical \cup {"scheduled_dca", "hold"} /\ a.amount \in Nat
         /\ a.verb = "hold" <=> a.amount = 0
         /\ a.verb \in Tactical => x.funds[f].role = "tactical" /\ a.verb = x.wants[f].verb
         /\ a.verb = "scheduled_dca" => x.funds[f].role = "core_dca"
         /\ a.verb \in {"reduce", "switch_out"} => a.amount <= x.funds[f].value
<1>1. PICK S : S = Best(x).funds
  OBVIOUS
<1>2. CASE f \in S
  <2>1. f \in Candidates(x)
    BY <1>1, <1>2, ChosenIs
  <2>2. PICK n \in Nat : n = Amount(x, f) /\ n > 0 /\ a.amount = n
    BY <1>1, <1>2, <2>1, ActionIs, CandidateIs
  <2>3. PICK v : v = x.wants[f].verb /\ a.verb = v /\ v \in Tactical /\ x.funds[f].role = "tactical"
    BY <1>1, <1>2, <2>1, ActionIs, CandidateIs
  <2>4. v # "add" => n <= x.funds[f].value
    BY <2>2, <2>3, AmountIs
  <2> QED
    BY <2>2, <2>3, <2>4 DEF Tactical
<1>3. CASE f \in Dca(x)
  <2>1. a.verb = "scheduled_dca" /\ a.amount = x.funds[f].daily
    BY <1>1, <1>3, ActionIs
  <2>2. x.funds[f].role = "core_dca"
    BY <1>3 DEF Dca, OfRole
  <2>3. x.funds[f].daily \in Nat /\ x.funds[f].daily > 0
    BY <2>2 DEF IsInput, IsPortfolio, Fund
  <2> QED
    BY <2>1, <2>2, <2>3 DEF Tactical
<1>4. CASE f \notin S \cup Dca(x)
  BY <1>1, <1>4, ActionIs DEF Tactical
<1> QED
  BY <1>2, <1>3, <1>4

\* The funds the actions are of.
LEMMA ActingIs ==
  ASSUME NEW x, IsInput(x), NEW S, S = Best(x).funds, NEW acts, acts = Validated(x)
  PROVE  /\ {f \in Book : acts[f].verb \in Tactical} = S
         /\ {f \in Book : acts[f].verb \in {"add"}} = Adds(x, S)
         /\ {f \in Book : acts[f].verb \in {"scheduled_dca"}} = Dca(x)
         /\ {f \in Book : acts[f].verb \in Tactical \cup {"scheduled_dca"}} = S \cup Dca(x)
<1>1. S \in SUBSET Book /\ Dca(x) \in SUBSET Book
  BY ChosenIs DEF Dca, OfRole
<1>2. ASSUME NEW f \in Book
      PROVE  /\ acts[f].verb \in Tactical <=> f \in S
             /\ acts[f].verb = "add" <=> f \in Adds(x, S)
             /\ acts[f].verb = "scheduled_dca" <=> f \in Dca(x)
  <2>1. CASE f \in S
    <3>1. f \in Candidates(x)
      BY <2>1, ChosenIs
    <3>2. acts[f].verb = x.wants[f].verb /\ x.wants[f].verb \in Tactical /\ f \notin Dca(x)
      BY <2>1, <3>1, ActionIs, CandidateIs
    <3> QED
      BY <2>1, <3>2 DEF Adds, Tactical
  <2>2. CASE f \in Dca(x)
    <3>1. acts[f].verb = "scheduled_dca" /\ f \notin S
      BY <2>2, ActionIs, ChosenIs, CandidateIs
    <3> QED
      BY <2>2, <3>1 DEF Adds, Tactical
  <2>3. CASE f \notin S \cup Dca(x)
    <3>1. acts[f].verb = "hold"
      BY <2>3, ActionIs
    <3> QED
      BY <2>3, <3>1 DEF Adds, Tactical
  <2> QED
    BY <2>1, <2>2, <2>3
<1> QED
  BY <1>1, <1>2 DEF Adds

-------------------------------------------------------------------------------
(***************************************************************************)
(* What the chosen combination may move.                                   *)
(***************************************************************************)
LEMMA GrossIs ==
  ASSUME NEW x, IsInput(x), NEW T \in SUBSET Book
  PROVE  Gross(x, T) \in Nat /\ \A f \in T : Amount(x, f) <= Gross(x, T)
<1> DEFINE g == [f \in T |-> Amount(x, f)]
<1>1. g \in [T -> Nat] /\ \A f \in T : g[f] = Amount(x, f)
  BY AmountIs
<1>2. SumFunction(g) \in Nat /\ \A f \in T : g[f] <= SumFunction(g)
  <2> HIDE DEF g
  <2> QED
    BY <1>1, BookSubsets, SumIsNat
<1> QED
  BY <1>1, <1>2 DEF Gross

LEMMA GrossOfPart ==
  ASSUME NEW x, IsInput(x), NEW S \in SUBSET Book, NEW T \in SUBSET S, NEW f \in S \ T
  PROVE  Gross(x, T) + Amount(x, f) <= Gross(x, S)
<1> DEFINE g == [h \in S |-> Amount(x, h)]
           k == [h \in T |-> Amount(x, h)]
<1>1. g \in [S -> Nat] /\ k \in [T -> Nat] /\ \A h \in T : k[h] = g[h]
  BY AmountIs
<1>2. SumFunction(k) + g[f] <= SumFunction(g)
  <2> HIDE DEF g, k
  <2> QED
    BY <1>1, BookSubsets, SumOfPart
<1> QED
  BY <1>2 DEF Gross

LEMMA DcaIs == ASSUME NEW x, IsInput(x) PROVE Dca(x) \in SUBSET Book /\ DcaTotal(x) \in Nat
<1> DEFINE g == [f \in Dca(x) |-> x.funds[f].daily]
<1>1. Dca(x) \in SUBSET Book
  BY DEF Dca, OfRole
<1>2. g \in [Dca(x) -> Nat]
  BY <1>1 DEF IsInput, Inputs, Fund
<1>3. SumFunction(g) \in Nat
  <2> HIDE DEF g
  <2> QED
    BY <1>1, <1>2, BookSubsets, SumIsNat
<1> QED
  BY <1>1, <1>3 DEF DcaTotal

LEMMA ActingSums ==
  ASSUME NEW x, IsInput(x), NEW S, S = Best(x).funds, NEW acts, acts = Validated(x)
  PROVE  /\ SumFunction([f \in S |-> acts[f].amount]) = Gross(x, S)
         /\ SumFunction([f \in Adds(x, S) |-> acts[f].amount]) = NetBuy(x, S)
         /\ SumFunction([f \in Dca(x) |-> acts[f].amount]) = DcaTotal(x)
<1>1. S \in SUBSET Book /\ Dca(x) \in SUBSET Book /\ Adds(x, S) \in SUBSET S
  BY ChosenIs, DcaIs DEF Adds
<1>2. \A f \in S : acts[f].amount = Amount(x, f)
  BY <1>1, ActionIs
<1>3. \A f \in Dca(x) : acts[f].amount = x.funds[f].daily
  BY <1>1, ActionIs
<1>4. [f \in S |-> acts[f].amount] = [f \in S |-> Amount(x, f)]
  BY <1>2
<1>5. [f \in Adds(x, S) |-> acts[f].amount] = [f \in Adds(x, S) |-> Amount(x, f)]
  BY <1>1, <1>2
<1>6. [f \in Dca(x) |-> acts[f].amount] = [f \in Dca(x) |-> x.funds[f].daily]
  BY <1>3
<1> QED
  BY <1>4, <1>5, <1>6 DEF Gross, NetBuy, DcaTotal

LEMMA AtLeast0Is == \A m \in Int, n \in Nat : n > 0 /\ n <= AtLeast0(m) => n <= m
  BY DEF AtLeast0

LEMMA ChosenBudgets ==
  ASSUME NEW x, IsInput(x), NEW S, S = Best(x).funds
  PROVE  /\ S # {} => DcaTotal(x) + Gross(x, S) <= x.strategy.gross
         /\ Adds(x, S) # {} => DcaTotal(x) + NetBuy(x, S) <= x.strategy.net
         /\ Adds(x, S) # {} => NetBuy(x, S) > 0 /\ NetBuy(x, S) <= Cash(x)
<1>1. S \in SUBSET Book /\ Adds(x, S) \in SUBSET S /\ \A f \in S : Amount(x, f) \in Nat /\ Amount(x, f) > 0
  BY ChosenIs, CandidateIs DEF Adds
<1>2. PICK g \in Nat, n \in Nat, d \in Nat : g = Gross(x, S) /\ n = NetBuy(x, S) /\ d = DcaTotal(x)
  BY <1>1, GrossIs, DcaIs DEF NetBuy
<1>3. PICK gg \in Int, nn \in Int : gg = x.strategy.gross /\ nn = x.strategy.net
  BY DEF IsInput, Inputs, Strategy
<1>4. ASSUME S # {} PROVE d + g <= gg
  <2>1. g <= AtLeast0(gg - d)
    BY <1>2, <1>3, <1>4, ChosenIs DEF Feasible
  <2>2. PICK f \in S : Amount(x, f) <= g
    BY <1>1, <1>2, <1>4, GrossIs
  <2>3. g > 0
    BY <1>1, <2>2
  <2>4. PICK m \in Int : m = gg - d
    OBVIOUS
  <2>5. g <= m
    BY <2>1, <2>3, <2>4, AtLeast0Is
  <2> QED
    BY <2>4, <2>5
<1>5. ASSUME Adds(x, S) # {} PROVE d + n <= nn /\ n > 0 /\ n <= Cash(x)
  <2>1. n <= AtLeast0(nn - d) /\ n <= Cash(x)
    BY <1>1, <1>2, <1>3, <1>5, ChosenIs DEF Feasible
  <2>2. PICK f \in Adds(x, S) : Amount(x, f) <= n
    BY <1>1, <1>2, <1>5, GrossIs DEF NetBuy
  <2>3. n > 0
    BY <1>1, <2>2
  <2>4. PICK m \in Int : m = nn - d
    OBVIOUS
  <2>5. n <= m
    BY <2>1, <2>3, <2>4, AtLeast0Is
  <2> QED
    BY <2>1, <2>3, <2>4, <2>5
<1> QED
  BY <1>2, <1>3, <1>4, <1>5

\* The only hub.
LEMMA HubIs ==
  ASSUME NEW p, IsPortfolio(p)
  PROVE  \E h \in Book : p[h].role = "cash_hub" /\ {f \in Book : p[f].role = "cash_hub"} = {h}
  BY DEF IsPortfolio

LEMMA CashIs ==
  ASSUME NEW x, IsInput(x), NEW h \in Book, OfRole(x, "cash_hub") = {h}
  PROVE  /\ Cash(x) \in Int
         /\ Cash(x) > 0 => x.funds[h].value - Cash(x) >= x.strategy.floor + Locked(x, h)
<1>1. PICK v \in Nat, l \in Nat : v = x.funds[h].value /\ l = Locked(x, h)
  BY LockedIs
<1>2. PICK fl \in Int : fl = x.strategy.floor
  BY DEF IsInput, Inputs, Strategy
<1>3. PICK k \in Int : k = x.funds[h].locked
  <2>1. x.funds[h] \in Fund
    BY DEF IsInput, Inputs
  <2> QED
    BY <2>1 DEF Fund
<1>4. PICK m \in Int : m = Max({k, l}) /\ m >= l
  BY LargerOfTwo
<1>5. (CHOOSE f \in {h} : \A g \in {h} : Place(g) <= Place(f)) = h
  BY PlaceIs
<1>6. Cash(x) = AtLeast0(v - fl - m)
  BY <1>1, <1>2, <1>3, <1>4, <1>5 DEF Cash
<1>7. Cash(x) \in Int /\ (Cash(x) > 0 => Cash(x) = v - fl - m)
  BY <1>6 DEF AtLeast0
<1> QED
  BY <1>1, <1>2, <1>4, <1>7

\* Nothing is sold with proceeds on their way.
LEMMA DelayedIs ==
  ASSUME NEW x, IsInput(x), NEW t \in x.trades, t.op = "sell", t.status # "settled", t.day <= x.day
  PROVE  Delayed(x) > 0
<1> DEFINE open == {u \in x.trades : /\ u.op \in {"sell", "convert_out"} /\ u.day <= x.day
                                    /\ u.status \notin {"", "settled", "canceled", "failed"}}
<1>1. PICK n \in Nat \ {0} : n = t.amount
  BY DEF IsInput, Inputs, Ordered
<1>2. t.status = "submitted"
  BY DEF IsInput, Inputs, Ordered
<1>3. t \in open /\ open \in SUBSET x.trades
  BY <1>2
<1>4. Delayed(x) = SumFunction([u \in open |-> u.amount])
  BY DEF Delayed
<1> HIDE DEF open
<1>5. Delayed(x) \in Nat /\ n <= Delayed(x)
  BY <1>1, <1>3, <1>4, AmountsSum
<1> QED
  BY <1>5

LEMMA ChosenSells ==
  ASSUME NEW x, IsInput(x), NEW S, S = Best(x).funds, NEW f \in S \ Adds(x, S)
  PROVE  ~ (Delayed(x) > 0)
<1>1. S \in SUBSET Book /\ Adds(x, S) \in SUBSET S /\ Amount(x, f) \in Nat /\ Amount(x, f) > 0
  BY ChosenIs, CandidateIs DEF Adds
<1>2. PICK g \in Nat, n \in Nat : g = Gross(x, S) /\ n = NetBuy(x, S)
  BY <1>1, GrossIs DEF NetBuy
<1>3. n + Amount(x, f) <= g
  BY <1>1, <1>2, GrossOfPart DEF NetBuy
<1>4. g > n
  BY <1>1, <1>3
<1> QED
  BY <1>2, <1>4, ChosenIs DEF Feasible

-------------------------------------------------------------------------------
(***************************************************************************)
(* The invariant of the days: what is on file has its types, the newest    *)
(* order is not of a later day, and the day's advice is of what is on file. *)
(***************************************************************************)
Advised ==
  /\ sized = [input |-> sized.input, actions |-> Validated(sized.input)]
  /\ sized.input \in Inputs
  /\ sized.input.funds = funds /\ sized.input.trades = orders
  /\ sized.input.day = date /\ sized.input.strategy = strategy

SizingInv ==
  /\ date \in Nat /\ strategy \in Strategy
  /\ IsPortfolio(funds)
  /\ orders \in SUBSET Ordered /\ IsFiniteSet(orders) /\ \A t \in orders : t.day <= date
  /\ sized # Absent => Advised

LEMMA SizingInitHolds == SizingInit => SizingInv
<1> SUFFICES ASSUME SizingInit PROVE SizingInv
  OBVIOUS
<1>1. orders \in SUBSET Ordered /\ IsFiniteSet(orders) /\ \A t \in orders : t.day <= date
  BY FS_EmptySet DEF SizingInit
<1> QED
  BY <1>1, SizingAssumption DEF SizingInit, SizingInv

LEMMA AdviseStep == \A wants \in Wants, gate \in Gates : SizingInv /\ Advise(wants, gate) => SizingInv'
<1> SUFFICES ASSUME NEW wants \in Wants, NEW gate \in Gates, SizingInv, Advise(wants, gate)
             PROVE  SizingInv'
  OBVIOUS
<1>1. PICK x : x = [funds |-> funds, trades |-> orders, day |-> date, wants |-> wants, gate |-> gate, strategy |-> strategy]
  OBVIOUS
<1>2. wants \in [Book -> Want] /\ gate \in Gate
  BY SizingAssumption
<1>3. x \in Inputs /\ x.funds = funds /\ x.trades = orders /\ x.day = date /\ x.strategy = strategy
  BY <1>1, <1>2 DEF Inputs, SizingInv, IsPortfolio
<1>4. sized' = [input |-> x, actions |-> Validated(x)]
  BY <1>1 DEF Advise
<1>5. UNCHANGED <<funds, orders, date, strategy>>
  BY DEF Advise
<1>6. PICK a : a = Validated(x)
  OBVIOUS
<1>7. sized' = [input |-> x, actions |-> a]
  BY <1>4, <1>6
<1>8. sized'.input = x
  BY <1>7
<1>9. Advised'
  BY <1>3, <1>4, <1>5, <1>8 DEF Advised
<1> QED
  BY <1>5, <1>9 DEF SizingInv

LEMMA IgnoreStep == \A arrives \in BOOLEAN : SizingInv /\ Ignore(arrives) => SizingInv'
<1> SUFFICES ASSUME NEW arrives \in BOOLEAN, SizingInv, Ignore(arrives)
             PROVE  SizingInv'
  OBVIOUS
<1>1. funds' = funds /\ date' = date + 1 /\ sized' = Absent /\ strategy' = strategy
  BY DEF Ignore, EndDay
<1> DEFINE settled == [t \in orders |-> [t EXCEPT !.status = "settled"]]
           O == {settled[t] : t \in orders}
<1>2. ASSUME NEW t \in orders
      PROVE  settled[t] \in Ordered /\ settled[t].day = t.day
  <2>1. t \in Ordered
    BY DEF SizingInv
  <2>2. PICK u : u = [t EXCEPT !.status = "settled"]
    OBVIOUS
  <2>3. u \in Ordered /\ u.day = t.day
    BY <2>1, <2>2 DEF Ordered
  <2> QED
    BY <2>2, <2>3
<1>3. orders' = orders \/ orders' = O
  BY DEF Ignore
<1>4. \A t \in orders : t.day \in Nat /\ t.day <= date
  BY DEF SizingInv, Ordered
<1> HIDE DEF settled
<1>5. O \in SUBSET Ordered /\ IsFiniteSet(O) /\ \A t \in O : t.day <= date
  <2>1. IsFiniteSet(O)
    BY ImageIsFinite DEF SizingInv
  <2> QED
    BY <1>2, <1>4, <2>1
<1>6. date \in Nat
  BY DEF SizingInv
<1>7. orders' \in SUBSET Ordered /\ IsFiniteSet(orders') /\ \A t \in orders' : t.day <= date
  <2> HIDE DEF O
  <2> QED
    BY <1>3, <1>5 DEF SizingInv
<1>8. \A t \in orders' : t.day <= date + 1
  <2> SUFFICES ASSUME NEW t \in orders' PROVE t.day <= date + 1
    OBVIOUS
  <2>1. t.day \in Nat /\ t.day <= date
    BY <1>7 DEF Ordered
  <2> QED
    BY <1>6, <2>1
<1>9. date' \in Nat /\ strategy' \in Strategy /\ IsPortfolio(funds')
  BY <1>1, <1>6 DEF SizingInv
<1>10. \A t \in orders' : t.day <= date'
  BY <1>1, <1>8
<1> QED
  BY <1>1, <1>7, <1>9, <1>10 DEF SizingInv

\* What the day's advice is made of.
LEMMA AdviceIs ==
  ASSUME SizingInv, sized # Absent
  PROVE  \E x : /\ x = sized.input /\ sized.actions = Validated(x) /\ IsInput(x)
                /\ x.funds = funds /\ x.trades = orders /\ x.day = date /\ x.strategy = strategy
<1>1. PICK x, a : x = sized.input /\ a = Validated(x) /\ sized = [input |-> x, actions |-> a]
  BY DEF SizingInv, Advised
<1>2. sized.actions = a
  BY <1>1
<1>3. x \in Inputs /\ x.funds = funds /\ x.trades = orders /\ x.day = date /\ x.strategy = strategy
  BY <1>1 DEF SizingInv, Advised
<1>4. IsInput(x)
  BY <1>3 DEF IsInput, SizingInv
<1> QED
  BY <1>1, <1>2, <1>3, <1>4

LEMMA BoughtIs ==
  ASSUME NEW acts, \A f \in Book : acts[f].amount \in Nat
  PROVE  Bought(acts) \in Nat
<1> DEFINE g == [f \in Book |-> AtLeast0(Change(acts[f]))]
<1>1. g \in [Book -> Nat]
  <2> SUFFICES ASSUME NEW f \in Book PROVE AtLeast0(Change(acts[f])) \in Nat
    OBVIOUS
  <2>1. Change(acts[f]) \in Int
    BY DEF Change
  <2> QED
    BY <2>1 DEF AtLeast0
<1>2. SumFunction(g) \in Nat
  <2> HIDE DEF g
  <2> QED
    BY <1>1, PlaceIs, SumIsNat
<1> QED
  BY <1>2 DEF Bought

LEMMA FollowStep == SizingInv /\ Follow => SizingInv'
<1> SUFFICES ASSUME SizingInv, Follow PROVE SizingInv'
  OBVIOUS
<1>1. PICK x, acts : /\ x = sized.input /\ acts = sized.actions /\ acts = Validated(x) /\ IsInput(x)
                     /\ x.funds = funds /\ x.trades = orders /\ x.day = date /\ x.strategy = strategy
  BY AdviceIs DEF Follow
<1>2. PICK hub \in Book : funds[hub].role = "cash_hub" /\ OfRole(x, "cash_hub") = {hub}
  BY <1>1, HubIs DEF SizingInv, OfRole
<1>3. (CHOOSE h \in OfRole(sized.input, "cash_hub") : TRUE) = hub
  BY <1>1, <1>2
<1>4. \A f \in Book : acts[f].amount \in Nat
  BY <1>1, ActionType
<1>5. PICK b \in Nat : b = Bought(acts) /\ b <= funds[hub].value
  BY <1>1, <1>3, <1>4, BoughtIs DEF Follow
<1>6. /\ funds' = [f \in Book |-> [funds[f] EXCEPT !.value = @ + Change(acts[f]) - (IF f = hub THEN b ELSE 0)]]
      /\ date' = date + 1 /\ sized' = Absent /\ strategy' = strategy
  BY <1>1, <1>3, <1>5 DEF Follow, EndDay
<1>7. ASSUME NEW f \in Book
      PROVE  funds'[f] \in Fund /\ funds'[f].role = funds[f].role /\ funds'[f].daily = funds[f].daily
  <2>1. PICK r \in Fund : r = funds[f] /\ r.value \in Nat
    BY DEF SizingInv, IsPortfolio, Fund
  <2>2. PICK a : a = acts[f] /\ a.amount \in Nat
    BY <1>4
  <2>3. PICK c \in Int : c = Change(a) /\ r.value + c >= 0 /\ (f = hub => c = 0)
    <3>1. /\ a.verb \in Tactical \cup {"scheduled_dca", "hold"}
          /\ a.verb \in Tactical => r.role = "tactical"
          /\ a.verb = "scheduled_dca" => r.role = "core_dca"
          /\ a.verb \in {"reduce", "switch_out"} => a.amount <= r.value
      BY <1>1, <2>1, <2>2, ActionType
    <3>2. f = hub => a.verb = "hold"
      BY <1>2, <2>1, <3>1 DEF Tactical
    <3>3. Change(a) = IF a.verb \in {"add", "scheduled_dca"} THEN a.amount ELSE IF a.verb = "hold" THEN 0 ELSE -a.amount
      BY DEF Change
    <3>4. PICK n \in Nat : n = a.amount
      BY <2>2
    <3>5. CASE a.verb \in {"add", "scheduled_dca"}
      BY <2>1, <3>2, <3>3, <3>4, <3>5
    <3>6. CASE a.verb = "hold"
      BY <2>1, <3>3, <3>6
    <3>7. CASE a.verb \in {"reduce", "switch_out"}
      BY <2>1, <3>1, <3>2, <3>3, <3>4, <3>7
    <3> QED
      BY <3>1, <3>5, <3>6, <3>7 DEF Tactical
  <2>4. PICK v \in Nat : v = r.value + c - (IF f = hub THEN b ELSE 0)
    BY <1>5, <2>1, <2>3
  <2>5. funds'[f] = [r EXCEPT !.value = v]
    BY <1>6, <2>1, <2>2, <2>3, <2>4
  <2>6. PICK q : q = [r EXCEPT !.value = v]
    OBVIOUS
  <2>7. q \in Fund /\ q.role = r.role /\ q.daily = r.daily
    BY <2>6 DEF Fund
  <2> QED
    BY <2>1, <2>5, <2>6, <2>7
<1>8. IsPortfolio(funds')
  <2>1. funds' \in [Book -> Fund]
    BY <1>6, <1>7
  <2>2. {f \in Book : funds'[f].role = "cash_hub"} = {f \in Book : funds[f].role = "cash_hub"}
    BY <1>7
  <2> QED
    BY <1>7, <2>1, <2>2 DEF SizingInv, IsPortfolio
<1> DEFINE new == [f \in {g \in Book : acts[g].verb # "hold"} |->
             [id |-> <<date, f>>, fund |-> f, day |-> date, op |-> Operation(acts[f].verb),
              amount |-> acts[f].amount, status |-> "submitted"]]
           D == {g \in Book : acts[g].verb # "hold"}
           N == {new[f] : f \in D}
<1>9. orders' = orders \cup N
  BY <1>1 DEF Follow
<1>10. date \in Nat
  BY DEF SizingInv
<1>11. ASSUME NEW f \in D PROVE new[f] \in Ordered /\ new[f].day = date
  <2>1. acts[f].amount \in Nat \ {0}
    BY <1>1, ActionType
  <2>2. PICK n \in Nat \ {0}, o \in {"buy", "dca", "sell"} : n = acts[f].amount /\ o = Operation(acts[f].verb)
    BY <2>1 DEF Operation
  <2>3. new[f] = [id |-> <<date, f>>, fund |-> f, day |-> date, op |-> o, amount |-> n, status |-> "submitted"]
    BY <2>2
  <2> HIDE DEF new
  <2> QED
    BY <1>10, <2>3 DEF Ordered
<1>12. IsFiniteSet(N)
  <2>1. IsFiniteSet(D)
    BY BookSubsets
  <2> HIDE DEF D, new
  <2> QED
    BY <2>1, ImageIsFinite
<1> HIDE DEF D, new
<1>13. N \in SUBSET Ordered /\ \A t \in N : t.day = date
  BY <1>11
<1> HIDE DEF N
<1>14. orders' \in SUBSET Ordered /\ \A t \in orders' : t.day <= date
  BY <1>9, <1>10, <1>13 DEF SizingInv
<1>15. IsFiniteSet(orders')
  BY <1>9, <1>12, FS_Union DEF SizingInv
<1>16. \A t \in orders' : t.day <= date'
  <2> SUFFICES ASSUME NEW t \in orders' PROVE t.day <= date + 1
    BY <1>6
  <2>1. t.day \in Nat /\ t.day <= date
    BY <1>14 DEF Ordered
  <2> QED
    BY <1>10, <2>1
<1>17. date' \in Nat /\ strategy' \in Strategy
  BY <1>6, <1>10 DEF SizingInv
<1> QED
  BY <1>6, <1>8, <1>14, <1>15, <1>16, <1>17 DEF SizingInv

LEMMA SizingInvHolds == SizingSpec => []SizingInv
<1>1. SizingInv /\ [SizingNext]_sizingVars => SizingInv'
  <2> SUFFICES ASSUME SizingInv, [SizingNext]_sizingVars PROVE SizingInv'
    OBVIOUS
  <2>1. CASE SizingNext
    BY <2>1, AdviseStep, FollowStep, IgnoreStep DEF SizingNext
  <2>2. CASE UNCHANGED sizingVars
    BY <2>2 DEF sizingVars, SizingInv, Advised
  <2> QED
    BY <2>1, <2>2
<1> QED
  BY <1>1, SizingInitHolds, PTL DEF SizingSpec

LEMMA TypeHolds == SizingInv => SizingTypeOK
<1> SUFFICES ASSUME SizingInv PROVE SizingTypeOK
  OBVIOUS
<1>1. \A f \in Book : funds[f].value >= 0
  <2> SUFFICES ASSUME NEW f \in Book PROVE funds[f].value >= 0
    OBVIOUS
  <2>1. funds[f].value \in Nat
    BY DEF SizingInv, IsPortfolio, Fund
  <2> QED
    BY <2>1
<1>2. ASSUME sized # Absent, NEW f \in Book
      PROVE  LET a == sized.actions[f] IN
               /\ a.verb \in Tactical \cup {"scheduled_dca", "hold"}
               /\ a.amount >= 0 /\ (a.verb = "hold" <=> a.amount = 0)
               /\ a.verb \in Tactical => funds[f].role = "tactical" /\ a.verb = sized.input.wants[f].verb
  <2>1. PICK x : x = sized.input /\ sized.actions = Validated(x) /\ IsInput(x) /\ x.funds = funds
    BY <1>2, AdviceIs
  <2>2. PICK a : a = sized.actions[f] /\ a = Validated(x)[f]
    BY <2>1
  <2>3. a.amount \in Nat
    BY <2>1, <2>2, ActionType
  <2>4. /\ a.verb \in Tactical \cup {"scheduled_dca", "hold"} /\ (a.verb = "hold" <=> a.amount = 0)
        /\ a.verb \in Tactical => x.funds[f].role = "tactical" /\ a.verb = x.wants[f].verb
    BY <2>1, <2>2, ActionType
  <2>5. a.amount >= 0
    BY <2>3
  <2> QED
    BY <2>1, <2>2, <2>4, <2>5
<1> QED
  BY <1>1, <1>2 DEF SizingTypeOK

\* What the advice of a state that has one says: the actions of the chosen
\* combination and of the fixed buys, and what they come to.
LEMMA ActingOf ==
  ASSUME SizingInv, sized # Absent
  PROVE  \E x, S :
           /\ x = sized.input /\ IsInput(x) /\ S = Best(x).funds
           /\ sized.actions = Validated(x)
           /\ x.funds = funds /\ x.trades = orders /\ x.day = date /\ x.strategy = strategy
           /\ Acting(Tactical) = S /\ Acting({"add"}) = Adds(x, S) /\ Acting({"scheduled_dca"}) = Dca(x)
           /\ Acting(Tactical \cup {"scheduled_dca"}) = S \cup Dca(x)
           /\ Sum(S) = Gross(x, S) /\ Sum(Adds(x, S)) = NetBuy(x, S) /\ Sum(Dca(x)) = DcaTotal(x)
<1>1. PICK x : /\ x = sized.input /\ sized.actions = Validated(x) /\ IsInput(x)
               /\ x.funds = funds /\ x.trades = orders /\ x.day = date /\ x.strategy = strategy
  BY AdviceIs
<1>2. PICK S, acts : S = Best(x).funds /\ acts = sized.actions /\ acts = Validated(x)
  BY <1>1
<1>3. /\ Acting(Tactical) = S /\ Acting({"add"}) = Adds(x, S) /\ Acting({"scheduled_dca"}) = Dca(x)
      /\ Acting(Tactical \cup {"scheduled_dca"}) = S \cup Dca(x)
  BY <1>1, <1>2, ActingIs DEF Acting
<1>4. Sum(S) = Gross(x, S) /\ Sum(Adds(x, S)) = NetBuy(x, S) /\ Sum(Dca(x)) = DcaTotal(x)
  BY <1>1, <1>2, ActingSums DEF Sum
<1> QED
  BY <1>1, <1>2, <1>3, <1>4

LEMMA BudgetsAreHeld == SizingInv => BudgetsHold
<1> SUFFICES ASSUME SizingInv, sized # Absent
             PROVE  LET dca == Sum(Acting({"scheduled_dca"})) IN
                      /\ Acting(Tactical) # {} => dca + Sum(Acting(Tactical)) <= strategy.gross
                      /\ Acting({"add"}) # {} => dca + Sum(Acting({"add"})) <= strategy.net
                      /\ Cardinality(Acting(Tactical)) <= strategy.actions
  BY DEF BudgetsHold
<1>1. PICK x, S :
        /\ IsInput(x) /\ S = Best(x).funds /\ x.strategy = strategy
        /\ Acting(Tactical) = S /\ Acting({"add"}) = Adds(x, S) /\ Acting({"scheduled_dca"}) = Dca(x)
        /\ Sum(S) = Gross(x, S) /\ Sum(Adds(x, S)) = NetBuy(x, S) /\ Sum(Dca(x)) = DcaTotal(x)
  BY ActingOf
<1>2. Cardinality(S) <= x.strategy.actions
  BY <1>1, ChosenIs
<1>3. /\ S # {} => DcaTotal(x) + Gross(x, S) <= x.strategy.gross
      /\ Adds(x, S) # {} => DcaTotal(x) + NetBuy(x, S) <= x.strategy.net
  BY <1>1, ChosenBudgets
<1> QED
  BY <1>1, <1>2, <1>3

LEMMA BuysHold == SizingInv => BuysAreCovered
<1> SUFFICES ASSUME SizingInv, sized # Absent, Acting({"add"}) # {}
             PROVE  LET hub == CHOOSE h \in OfRole(sized.input, "cash_hub") : TRUE IN
                      /\ funds[hub].value - Sum(Acting({"add"})) >= strategy.floor + Locked(sized.input, hub)
                      /\ \A f \in Acting({"add"}) : funds[f].value + sized.actions[f].amount <= funds[f].cap
  BY DEF BuysAreCovered
<1>1. PICK x, S :
        /\ x = sized.input /\ IsInput(x) /\ S = Best(x).funds /\ sized.actions = Validated(x)
        /\ x.funds = funds /\ x.strategy = strategy
        /\ Acting({"add"}) = Adds(x, S) /\ Sum(Adds(x, S)) = NetBuy(x, S)
  BY ActingOf
<1>2. PICK hub \in Book : OfRole(x, "cash_hub") = {hub}
  BY <1>1, HubIs DEF SizingInv, OfRole
<1>3. (CHOOSE h \in OfRole(sized.input, "cash_hub") : TRUE) = hub
  BY <1>1, <1>2
<1>4. S \in SUBSET Book /\ Adds(x, S) \in SUBSET S
  BY <1>1, ChosenIs DEF Adds
<1>5. PICK n \in Nat, c \in Int : n = NetBuy(x, S) /\ c = Cash(x) /\ n > 0 /\ n <= c
  <2>1. NetBuy(x, S) \in Nat
    BY <1>1, <1>4, GrossIs DEF NetBuy
  <2>2. NetBuy(x, S) > 0 /\ NetBuy(x, S) <= Cash(x)
    BY <1>1, ChosenBudgets
  <2>3. Cash(x) \in Int
    BY <1>1, <1>2, CashIs
  <2> QED
    BY <2>1, <2>2, <2>3
<1>6. PICK v \in Nat, l \in Nat, fl \in Int : v = funds[hub].value /\ l = Locked(x, hub) /\ fl = strategy.floor
  <2>1. x.funds[hub].value \in Nat /\ Locked(x, hub) \in Nat
    BY <1>1, LockedIs
  <2>2. x.strategy.floor \in Int
    BY <1>1 DEF IsInput, Inputs, Strategy
  <2> QED
    BY <1>1, <2>1, <2>2
<1>7. v - c >= fl + l
  BY <1>1, <1>2, <1>5, <1>6, CashIs
<1>8. v - n >= fl + l
  BY <1>5, <1>7
<1>9. ASSUME NEW f \in Adds(x, S) PROVE funds[f].value + sized.actions[f].amount <= funds[f].cap
  <2>1. f \in Book /\ f \in S /\ x.wants[f].verb = "add" /\ f \in Candidates(x)
    BY <1>1, <1>4, ChosenIs DEF Adds
  <2>2. sized.actions[f].amount = Amount(x, f) /\ Amount(x, f) > 0
    BY <1>1, <2>1, ActionIs, CandidateIs
  <2>3. x.funds[f].value + Amount(x, f) <= x.funds[f].cap
    BY <1>1, <2>1, <2>2, AmountIs
  <2> QED
    BY <1>1, <2>2, <2>3
<1> QED
  BY <1>1, <1>3, <1>5, <1>6, <1>8, <1>9

LEMMA SellsHold == SizingInv => SellsAreFree
<1> SUFFICES ASSUME SizingInv, sized # Absent, NEW f \in Acting({"reduce", "switch_out"})
             PROVE  /\ \A t \in orders : t.op = "sell" => t.status = "settled"
                    /\ sized.actions[f].amount <= Available(sized.input, f) \/ Available(sized.input, f) = 0
                    /\ sized.actions[f].amount <= funds[f].value
  BY DEF SellsAreFree
<1>1. PICK x, S :
        /\ x = sized.input /\ IsInput(x) /\ S = Best(x).funds /\ sized.actions = Validated(x)
        /\ x.funds = funds /\ x.trades = orders /\ x.day = date
        /\ Acting(Tactical) = S /\ Acting({"add"}) = Adds(x, S)
  BY ActingOf
<1>2. f \in Book /\ sized.actions[f].verb \in {"reduce", "switch_out"}
  BY DEF Acting
<1>3. f \in S \ Adds(x, S) /\ f \in Candidates(x)
  <2>1. f \in S /\ f \notin Adds(x, S)
    BY <1>1, <1>2 DEF Acting, Tactical
  <2> QED
    BY <1>1, <2>1, ChosenIs
<1>4. sized.actions[f].amount = Amount(x, f) /\ x.wants[f].verb # "add"
  BY <1>1, <1>2, <1>3, ActionIs DEF Adds
<1>5. Amount(x, f) <= x.funds[f].value /\ (Amount(x, f) <= Available(x, f) \/ Available(x, f) = 0)
  BY <1>1, <1>2, <1>4, AmountIs
<1>6. ASSUME NEW t \in orders, t.op = "sell", t.status # "settled" PROVE FALSE
  <2>1. t.day <= x.day /\ t \in x.trades
    BY <1>1 DEF SizingInv
  <2>2. Delayed(x) > 0
    BY <1>1, <1>6, <2>1, DelayedIs
  <2> QED
    BY <1>1, <1>3, <2>2, ChosenSells
<1> QED
  BY <1>1, <1>4, <1>5, <1>6

LEMMA ConcentrationHolds == SizingInv => NoMoreConcentrated
<1> SUFFICES ASSUME SizingInv, sized # Absent PROVE NoMoreConcentrated
  BY DEF NoMoreConcentrated
<1>1. PICK x, S : x = sized.input /\ IsInput(x) /\ S = Best(x).funds /\ x.funds = funds /\ Acting(Tactical) = S
  BY ActingOf
<1>2. S \in SUBSET Book /\ Spread(x, S)
  BY <1>1, ChosenIs
<1>3. PICK p : p = After(x, S)
  OBVIOUS
<1>4. /\ \A f \in Book :
           /\ ~ Risen(ThemePct(x, funds, Theme(funds[f])), ThemePct(x, p, Theme(funds[f])), ThemeLimit)
           /\ funds[f].company # "unknown" =>
                ~ Risen(CompanyPct(x, funds, funds[f].company), CompanyPct(x, p, funds[f].company), CompanyLimit)
      /\ ~ Risen(VolatilePct(x, funds), VolatilePct(x, p), VolatileLimit)
      /\ ~ Risen(Top3Pct(x, funds), Top3Pct(x, p), Top3Limit)
  BY <1>1, <1>2, <1>3, SpreadHolds
<1> QED
  BY <1>1, <1>3, <1>4 DEF NoMoreConcentrated, Risen

\* What the advice of any day trades keeps the limits of the day: every fund has
\* one action, that its role allows; the budgets hold with the fixed buys; what
\* is bought leaves the hub its floor and keeps the caps; nothing is sold that
\* is locked or while proceeds are on their way; and nothing over its limit of
\* concentration grows.
THEOREM MoneyStaysBounded == SizingSpec => []MoneyIsBounded
<1>1. SizingInv => MoneyIsBounded
  BY TypeHolds, BudgetsAreHeld, BuysHold, SellsHold, ConcentrationHolds DEF MoneyIsBounded
<1> QED
  BY <1>1, SizingInvHolds, PTL

LEMMA ChoiceHolds == SizingInv => BestIsChosen
<1> SUFFICES ASSUME SizingInv, sized # Absent,
                    NEW S \in Combinations(sized.input) \ {Acting(Tactical)},
                    Feasible(sized.input, S), TotalScore(sized.input, S) > 0
             PROVE  LET x == sized.input
                        done == Acting(Tactical)
                    IN /\ done # {}
                       /\ \/ TotalScore(x, S) < TotalScore(x, done)
                          \/ TotalScore(x, S) = TotalScore(x, done) /\ Before(done, S)
  BY DEF BestIsChosen
<1>1. PICK x, done : x = sized.input /\ IsInput(x) /\ done = Best(x).funds /\ Acting(Tactical) = done
  BY ActingOf
<1>2. PICK r : r = Best(x) /\ Found(x, Combinations(x), r) /\ done = r.funds
  BY <1>1, ChosenIs
<1>3. ~ (\A T \in Combinations(x) : Feasible(x, T) => ~ (TotalScore(x, T) > 0))
  BY <1>1
<1>4. /\ done \in Combinations(x) /\ r.score = TotalScore(x, done)
      /\ \/ TotalScore(x, S) < r.score
         \/ TotalScore(x, S) = r.score /\ Before(done, S)
  BY <1>1, <1>2, <1>3 DEF Found
<1>5. done # {}
  <2>1. Cardinality(done) \in 1 .. x.strategy.actions
    BY <1>4 DEF Combinations
  <2> QED
    BY <2>1, FS_EmptySet
<1> QED
  BY <1>1, <1>4, <1>5

LEMMA GatesAreHeld == SizingInv => GatesHold
<1> SUFFICES ASSUME SizingInv, sized # Absent
             PROVE  LET g == sized.input.gate IN
                      /\ g.mock \/ ~ g.eligible => Acting(Tactical \cup {"scheduled_dca"}) = {}
                      /\ g.mode \in {"blocked", "hold_only"} => Acting(Tactical) = {}
                      /\ Acting(Tactical) \cap g.stopped = {}
  BY DEF GatesHold
<1>1. PICK x, S : /\ x = sized.input /\ IsInput(x) /\ S = Best(x).funds /\ Acting(Tactical) = S
                  /\ Acting(Tactical \cup {"scheduled_dca"}) = S \cup Dca(x)
  BY ActingOf
<1>2. \A f \in S : f \in Candidates(x)
  BY <1>1, ChosenIs
<1>3. \A f \in S : f \notin x.gate.stopped /\ Eligible(x) /\ x.gate.mode \notin {"blocked", "hold_only"}
  BY <1>1, <1>2, CandidateIs
<1>4. Eligible(x) \/ (S = {} /\ Dca(x) = {})
  BY <1>3 DEF Dca
<1>5. x.gate.mock \/ ~ x.gate.eligible => ~ Eligible(x)
  BY DEF Eligible
<1> QED
  BY <1>1, <1>3, <1>4, <1>5

\* What the advice of any day trades is the best of what may be, and the first
\* of those as good; and it keeps the gates of the committee's bundle.
THEOREM ChoiceStaysBest == SizingSpec => []ChoiceIsBest
<1>1. SizingInv => ChoiceIsBest
  BY ChoiceHolds, GatesAreHeld DEF ChoiceIsBest
<1> QED
  BY <1>1, SizingInvHolds, PTL
=============================================================================
