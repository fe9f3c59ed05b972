---------------------------- MODULE PortfolioState -----------------------------
(***************************************************************************)
(* db/portfolio_state/current.json and the operations that write it: the   *)
(* settlement of a recorded trade, the revaluation by official NAV, and    *)
(* the reconciliation with a screenshot of the real positions (preview,    *)
(* registration of an unknown fund, apply).  A section under the           *)
(* portfolio_state lock is one step; what an operation reads before it     *)
(* takes the lock is a step of its own.                                    *)
(***************************************************************************)
EXTENDS Naturals, FiniteSets

CONSTANTS
  Trades,     \* recorded trades, all still pending at first
  Ids,        \* reconcile ids
  Procs,      \* scripts and HTTP threads
  MaxClock,   \* bound: timestamps handed out
  MaxFaults,  \* bound: failures in a behaviour
  None

ASSUME PortfolioAssumption == MaxClock \in Nat /\ MaxFaults \in Nat

VARIABLES
  real,     \* trades that the platform has executed
  current,  \* current.json
  event,    \* trades with a settlement event or a state event on file
  settled,  \* trades whose pending entry is marked as applied
  preview,  \* parsed_imports/<id>.json
  applied,  \* ids with a reconciliation_applied file
  op,       \* what a process has read and not yet used
  lost,     \* ghost: trades that a write based on an older portfolio may drop
  early,    \* ghost: trades that a screenshot put in before they were settled
  clock, faults

vars == <<real, current, event, settled, preview, applied, op, lost, early, clock, faults>>

-------------------------------------------------------------------------------
\* The positions are described by how often they contain each trade; stamp
\* stands for what a revaluation or a screenshot changes besides.
State == [eff: [Trades -> Nat], ids: SUBSET Trades, stamp: Nat]

\* portfolio_state_hash leaves out state_metadata, hence the ids.
Hash(c) == [eff |-> c.eff, stamp |-> c.stamp]

Hashes == [eff: [Trades -> Nat], stamp: Nat]
\* missed is a ghost: the trades that entered current.json after the operation,
\* or the one that made the preview, had read it.
Preview == [shot: SUBSET Trades, state: Hashes, missed: SUBSET Trades]
Op == [kind: {"revalue"}, state: State, missed: SUBSET Trades]
        \cup [kind: {"register", "apply", "store"}, id: Ids, missed: SUBSET Trades]

ASSUME NoneAssumption == None \notin Op /\ None \notin Preview

TypeOK ==
  /\ real \in SUBSET Trades
  /\ current \in State
  /\ event \in SUBSET Trades
  /\ settled \in SUBSET Trades
  /\ preview \in [Ids -> Preview \cup {None}]
  /\ applied \in SUBSET Ids
  /\ op \in [Procs -> Op \cup {None}]
  /\ lost \in SUBSET Trades /\ early \in SUBSET Trades
  /\ clock \in Nat
  /\ faults \in 0 .. MaxFaults

Init ==
  /\ real = {}
  /\ current = [eff |-> [t \in Trades |-> 0], ids |-> {}, stamp |-> 0]
  /\ event = {}
  /\ settled = {}
  /\ preview = [r \in Ids |-> None]
  /\ applied = {}
  /\ op = [p \in Procs |-> None]
  /\ lost = {} /\ early = {}
  /\ clock = 0
  /\ faults = 0

Begin(p, o) == op[p] = None /\ op' = [op EXCEPT ![p] = o]
End(p) == op' = [op EXCEPT ![p] = None]

\* The operations of some processes go on over a current.json that has new trades.
Overtake(some, old) ==
  [q \in some |-> IF old[q] = None THEN None
                 ELSE [old[q] EXCEPT !.missed = @ \cup (current'.ids \ current.ids)]]

\* A bounded clock: no two writers put the same timestamp in the file.
Tick == clock < MaxClock /\ clock' = clock + 1

Fault == faults < MaxFaults /\ faults' = faults + 1

-------------------------------------------------------------------------------
\* The platform executes an order.
Execute(t) ==
  /\ t \notin real
  /\ real' = real \cup {t}
  /\ UNCHANGED <<current, event, settled, preview, applied, op, lost, early, clock, faults>>

\* Mutant of HasSettlement: only the files are looked at.
HasEvent(t) == t \in event

\* The checks of apply_settled_trade_to_portfolio and _portfolio_has_settlement.
HasSettlement(t) == t \in event \/ t \in current.ids

AfterTrade(t) ==
  [eff |-> [current.eff EXCEPT ![t] = @ + 1], ids |-> current.ids \cup {t},
   stamp |-> current.stamp]

\* A due trade, executed by then, settles: current.json, the events, the entry.
Settle(t) ==
  /\ t \in real \ settled
  /\ current' = IF HasSettlement(t) THEN current ELSE AfterTrade(t)
  /\ event' = event \cup {t}
  /\ settled' = settled \cup {t}
  /\ op' = Overtake(Procs, op)
  /\ UNCHANGED <<real, preview, applied, lost, early, clock, faults>>

\* A failure after current.json was replaced, with or without a state event.
SettleDies(t) ==
  /\ t \in real \ settled
  /\ ~HasSettlement(t)
  /\ Fault
  /\ current' = AfterTrade(t)
  /\ event' \in {event, event \cup {t}}
  /\ op' = Overtake(Procs, op)
  /\ UNCHANGED <<real, settled, preview, applied, lost, early, clock>>

\* revalue_portfolio_official_nav and sync_portfolio_units read the portfolio ...
Load(p) ==
  /\ Begin(p, [kind |-> "revalue", state |-> current, missed |-> {}])
  /\ UNCHANGED <<real, current, event, settled, preview, applied, lost, early, clock, faults>>

\* ... and save it, with new values, over whatever the file is by then.
Save(p) ==
  /\ op[p] # None /\ op[p].kind = "revalue"
  /\ Tick
  /\ current' = [op[p].state EXCEPT !.stamp = clock']
  /\ op' = Overtake(Procs, [op EXCEPT ![p] = None])
  /\ lost' = lost \cup op[p].missed
  /\ UNCHANGED <<real, event, settled, preview, applied, early, faults>>

-------------------------------------------------------------------------------
\* preview_reconciliation of a screenshot of all positions.
PreviewReconciliation(r) ==
  /\ preview[r] = None
  /\ preview' = [preview EXCEPT ![r] = [shot |-> real, state |-> Hash(current), missed |-> {}]]
  /\ UNCHANGED <<real, current, event, settled, applied, op, lost, early, clock, faults>>

\* current_state == expected_state
Unchanged(r) == preview[r] # None /\ preview[r].state = Hash(current)

\* register_reconciliation_fund compares the portfolio, looks the fund up ...
RegisterCheck(p, r) ==
  /\ Unchanged(r)
  /\ Begin(p, [kind |-> "register", id |-> r, missed |-> {}])
  /\ UNCHANGED <<real, current, event, settled, preview, applied, lost, early, clock, faults>>

\* ... and stores a preview of the old screenshot for the portfolio of now.
RegisterStore(p, new) ==
  /\ op[p] # None /\ op[p].kind = "register"
  /\ preview[new] = None
  /\ preview' = [preview EXCEPT ![new] =
       [shot |-> preview[op[p].id].shot, state |-> Hash(current),
        missed |-> preview[op[p].id].missed \cup op[p].missed]]
  /\ End(p)
  /\ UNCHANGED <<real, current, event, settled, applied, lost, early, clock, faults>>

\* apply_saved_reconciliation: a request that was applied gets its old answer;
\* otherwise the portfolio must be the one of the preview.
ApplyCheck(p, r) ==
  /\ Unchanged(r)
  /\ r \notin applied
  /\ Begin(p, [kind |-> "apply", id |-> r, missed |-> {}])
  /\ UNCHANGED <<real, current, event, settled, preview, applied, lost, early, clock, faults>>

\* apply_reconciliation reads the portfolio again, under the lock, and replaces
\* its positions by those of the screenshot; the metadata stay.
ApplyWrite(p) ==
  /\ op[p] # None /\ op[p].kind = "apply"
  /\ Tick
  /\ current' = [current EXCEPT
       !.eff = [t \in Trades |-> IF t \in preview[op[p].id].shot THEN 1 ELSE 0],
       !.stamp = clock']
  /\ op' = [op EXCEPT ![p].kind = "store"]
  /\ lost' = lost \cup op[p].missed \cup preview[op[p].id].missed
  /\ early' = early \cup {t \in preview[op[p].id].shot : ~HasSettlement(t)}
  /\ UNCHANGED <<real, event, settled, preview, applied, faults>>

ApplyStore(p) ==
  /\ op[p] # None /\ op[p].kind = "store"
  /\ applied' = applied \cup {op[p].id}
  /\ End(p)
  /\ UNCHANGED <<real, current, event, settled, preview, lost, early, clock, faults>>

\* A process dies, or an exception leaves it, between two steps.
Crash(p) ==
  /\ op[p] # None
  /\ Fault
  /\ End(p)
  /\ UNCHANGED <<real, current, event, settled, preview, applied, lost, early, clock>>

Next ==
  \/ \E t \in Trades : Execute(t) \/ Settle(t) \/ SettleDies(t)
  \/ \E r \in Ids : PreviewReconciliation(r)
  \/ \E p \in Procs :
       \/ Load(p) \/ Save(p) \/ ApplyWrite(p) \/ ApplyStore(p) \/ Crash(p)
       \/ \E r \in Ids : RegisterCheck(p, r) \/ RegisterStore(p, r) \/ ApplyCheck(p, r)

Spec == Init /\ [][Next]_vars

-------------------------------------------------------------------------------
\* Properties.

\* The positions contain nothing that the platform has not executed, and a
\* settled trade exactly once, whatever retries, deaths, previews of old
\* screenshots and operations on older portfolios there were.  Two cases the
\* code does not keep: a trade that entered the portfolio while another
\* operation was between its reading and its write, and one that an applied
\* screenshot showed before it was settled.
PositionsAreReal ==
  \A t \in Trades :
    /\ current.eff[t] > 0 => t \in real
    /\ t \notin lost \cup early =>
         /\ current.eff[t] <= 1
         /\ t \in settled \cup event \cup current.ids => current.eff[t] = 1
================================================================================
