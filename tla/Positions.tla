------------------------------- MODULE Positions -------------------------------
(***************************************************************************)
(* What a fund's position in the portfolio is made of, day after day:      *)
(* value, units, where the units come from, and the profit of the day.     *)
(* Settled trades, the revaluation by official NAV, the units that a       *)
(* realtime run derives, a sync from screenshots and a rebuild from the    *)
(* trade journal all write it.  One operation runs at a time here          *)
(* (PortfolioState has their interleavings), money through a cash hub is   *)
(* Settlement's, and costs follow values.                                  *)
(***************************************************************************)
EXTENDS Integers, Sequences, FiniteSets, FiniteSetsExt, Functions

CONSTANTS
  Codes,      \* fund codes
  AtFirst,    \* those in the portfolio at first
  Unitless,   \* those whose units the portfolio doesn't have at first
  Opening,    \* units really held of each before day 1
  Alike,      \* pairs of different funds whose names match fuzzily
  Navs,       \* NAVs a fund may have on a day
  Lot,        \* units of a trade
  MaxDay,     \* bound: days
  MaxTrades,  \* bound: trades
  MaxSaves,   \* bound: states saved
  Unset

ASSUME PositionsAssumption ==
  /\ AtFirst \subseteq Codes /\ Unitless \subseteq AtFirst /\ Opening \in [Codes -> Nat]
  /\ Alike \subseteq Codes \X Codes
  /\ \A f \in Codes : Navs[f] \subseteq Nat \ {0}
  /\ Unset \notin Int /\ Unset \notin Codes
  /\ Lot \in Nat \ {0} /\ MaxDay \in Nat \ {0} /\ MaxTrades \in Nat /\ MaxSaves \in Nat

VARIABLES
  day,
  navs,     \* each fund's official NAV of every day so far
  trades,   \* the trades executed and recorded, in order
  folio,    \* current.json: the position of each fund of the portfolio
  snaps,    \* snapshots/<date>.json
  defs,     \* funds of portfolio_definition.json
  watch,    \* funds of watchlist.json
  shot,     \* the preview of a screenshot sync (bound: one)
  clean,    \* funds whose units only settled trades have written so far,
            \* none of which sold more units than were on file
  saves     \* states saved

positionsVars == <<day, navs, trades, folio, snaps, defs, watch, shot, clean, saves>>

-------------------------------------------------------------------------------
Dates == 1 .. MaxDay
Sources == {"stored", "actual_trade_units", "derived_from_official_nav",
            "screenshot_sync_value_only", "screenshot_sync_missing_zero", ""}
Trusted == {"stored", "actual_trade_units"}

NoPnl == [date |-> 0, status |-> "blocked", amount |-> Unset]
Pnl == [date: 0 .. MaxDay, status: {"ok", "already_written", "blocked"}, amount: Int \cup {Unset}]

\* nav is the last NAV the fund was valued at and seen the date of the last
\* real position, 0 when there is none.
Position == [val: Int, units: Nat, src: Sources, nav: Nat, seen: 0 .. MaxDay, pnl: Pnl]

Opened(f) == [val |-> Opening[f], units |-> IF f \in Unitless THEN 0 ELSE Opening[f],
              src |-> IF f \in Unitless THEN "" ELSE "stored",
              nav |-> 1, seen |-> 0, pnl |-> NoPnl]

ASSUME UnsetAssumption == \A some \in SUBSET Codes : Unset \notin [some -> Position]

\* restore_portfolio_from_definition
Restored == [f \in AtFirst |-> Opened(f)]

PositionsInit ==
  /\ day = 1
  /\ navs \in [Codes -> {<<1>>}]
  /\ trades = <<>>
  /\ folio = Restored
  /\ snaps = [d \in Dates |-> Unset]
  /\ defs = AtFirst
  /\ watch \in SUBSET (Codes \ AtFirst)
  /\ shot = Unset
  /\ clean = AtFirst \ Unitless
  /\ saves = 0

\* The bound: nothing more happens once the last state is saved.
Going == saves < MaxSaves

\* save_portfolio_state: the current state and the snapshot of the event's date.
SaveState(c, date) ==
  /\ Going /\ saves' = saves + 1
  /\ folio' = c
  /\ snaps' = [snaps EXCEPT ![date] = c]

\* Ghost: a preview is fresh until the portfolio it was made from changes.
Aged == shot' = IF shot = Unset \/ folio' = folio THEN shot
                   ELSE [shot EXCEPT !.fresh = FALSE]

-------------------------------------------------------------------------------
UnitsOfTrades(some) == SumFunctionOnSet([i \in DOMAIN trades |-> trades[i].units], some)

\* Units really held after the trades of day d.
UnitsHeld(f, d) == Opening[f] + UnitsOfTrades({i \in DOMAIN trades : trades[i].fund = f /\ trades[i].day <= d})

Settled(i) == trades[i].on # 0

NextDay ==
  /\ Going /\ day < MaxDay
  /\ day' = day + 1
  /\ \E n \in [Codes -> UNION {Navs[f] : f \in Codes}] :
       /\ \A f \in Codes : n[f] \in Navs[f]
       /\ navs' = [f \in Codes |-> Append(navs[f], n[f])]
  /\ UNCHANGED <<trades, folio, snaps, defs, watch, shot, clean, saves>>

\* A trade of a fund in the portfolio, recorded with its NAV and units; on is
\* the day it is settled.
RecordTrade ==
  /\ Going /\ Len(trades) < MaxTrades
  /\ \E f \in DOMAIN folio, u \in {Lot, -Lot} :
       /\ UnitsHeld(f, day) + u >= 0
       /\ trades' = Append(trades, [fund |-> f, units |-> u, day |-> day, on |-> 0])
  /\ UNCHANGED <<day, navs, folio, snaps, defs, watch, shot, clean, saves>>

\* ensure_units
Derives(p) == p.units = 0 /\ p.nav > 0 /\ p.val > 0
Ensured(p) == IF Derives(p) THEN [p EXCEPT !.units = p.val \div p.nav] ELSE p

\* apply_trade with the trade's NAV and units.  ensure_units is asked again
\* once the value has moved and before the units do: a fund with no units, no
\* value and a NAV on file gets those of the purchase twice.
CanTrade(p, u, nav) == u < 0 => p.val >= -u * nav
ValueMoved(p, u, nav) == [Ensured(p) EXCEPT !.val = @ + u * nav]

\* Mutant of UnitsAfterTrade: a purchase is added to the value only.
UnitsAfterTradeValue(p, u, nav) ==
  [Ensured(ValueMoved(p, u, nav)) EXCEPT !.src = "actual_trade_units", !.nav = nav]

UnitsAfterTrade(p, u, nav) ==
  LET q == Ensured(ValueMoved(p, u, nav))
      inUnits == u > 0 \/ q.units > 0
  IN [q EXCEPT !.units = IF inUnits THEN Max({0, @ + u}) ELSE @,
               !.src = IF inUnits THEN "actual_trade_units" ELSE @,
               !.nav = nav]

\* apply_settled_trade_to_portfolio; the event bears the date the trade was
\* due on, which may have passed.
SettleTrade(i) ==
  LET t == trades[i]
      f == t.fund
      nav == navs[f][t.day]
  IN /\ ~Settled(i) /\ t.day < day
     /\ f \in DOMAIN folio
     /\ CanTrade(folio[f], t.units, nav)
     /\ SaveState([folio EXCEPT ![f] = UnitsAfterTrade(@, t.units, nav)], t.day + 1)
     /\ trades' = [trades EXCEPT ![i].on = day]
     /\ clean' = IF \/ Derives(folio[f]) \/ Derives(ValueMoved(folio[f], t.units, nav))
                    \/ folio[f].units + t.units < 0
                 THEN clean \ {f} ELSE clean
     /\ Aged
     /\ UNCHANGED <<day, navs, defs, watch>>

-------------------------------------------------------------------------------
(* Revaluation by official NAV.                                            *)

\* What the quotes of the report date hold for a fund: the day's NAV, the
\* NAV of the day before, the same served from a cache, or nothing.  Funds
\* do not affect each other, and have the same kind of quote.
Quotes == {"today", "delayed", "stale", "missing"}

NavDate(q) == IF q = "today" THEN day ELSE IF q = "missing" THEN 0 ELSE day - 1

\* iter_actual_trade_items: every trade recorded of the fund, settled or not.
Journal(f) == {i \in DOMAIN trades : trades[i].fund = f}

HasCashflow(f, d) ==
  \E i \in Journal(f) : d - 1 < trades[i].day /\ trades[i].day <= d

\* build_official_daily_pnl.  Whatever the last run wrote for this NAV date
\* counts as written, a refusal with no amount too.
OfficialPnl(f, p, q) ==
  LET d == NavDate(q)
      blocked == [date |-> d, status |-> "blocked", amount |-> Unset]
  IN IF d <= 1 \/ q = "stale" THEN blocked
     ELSE IF p.pnl.date = d THEN [p.pnl EXCEPT !.status = "already_written"]
     ELSE IF p.src \notin Trusted \/ p.units = 0 \/ HasCashflow(f, d) THEN blocked
     ELSE [date |-> d, status |-> "ok", amount |-> p.units * (navs[f][d] - navs[f][d - 1])]

\* build_item: a position seen on the report date itself keeps its value.
Revalued(f, p, q) ==
  LET d == NavDate(q)
      w == [p EXCEPT !.pnl = OfficialPnl(f, p, q)]
      e == Ensured(w)
  IN IF p.seen = day THEN w
     ELSE IF d = 0 \/ e.units = 0 THEN e
     ELSE [e EXCEPT !.val = e.units * navs[f][d], !.nav = navs[f][d]]

Revalue ==
  /\ day > 1
  /\ \E q \in Quotes : SaveState([f \in DOMAIN folio |-> Revalued(f, folio[f], q)], day)
  /\ clean' = {f \in clean : f \in DOMAIN folio => ~Derives(folio[f])}
  /\ Aged
  /\ UNCHANGED <<day, navs, trades, defs, watch>>

\* sync_portfolio_units, for the funds no screenshot has ever shown.
Derivable(p, q) == p.seen = 0 /\ p.val > 0 /\ q # "missing"

UnitsOf(f, p, q) ==
  IF Derivable(p, q)
    THEN [p EXCEPT !.units = p.val \div navs[f][NavDate(q)], !.nav = navs[f][NavDate(q)],
                   !.src = "derived_from_official_nav"]
    ELSE p

\* run_realtime_monitor: should_sync_units, then sync_portfolio_units.
SyncUnits ==
  /\ day > 1
  /\ \E q \in {"today", "delayed", "missing"} :
       /\ \E f \in DOMAIN folio :
            /\ Derivable(folio[f], q)
            /\ \/ folio[f].units = 0
               \/ folio[f].src # "derived_from_official_nav"
               \/ folio[f].nav # navs[f][NavDate(q)]
       /\ SaveState([f \in DOMAIN folio |-> UnitsOf(f, folio[f], q)], day)
       /\ clean' = {f \in clean : f \in DOMAIN folio => ~Derivable(folio[f], q)}
  /\ Aged
  /\ UNCHANGED <<day, navs, trades, defs, watch>>

-------------------------------------------------------------------------------
(* Sync from screenshots of the platform's list of positions.              *)

\* What the list shows: the positions really held, at the day's NAV.
Screen == {f \in Codes : UnitsHeld(f, day - 1) > 0}

\* What the vision model may read of it, directly or through the proxy: some
\* of the rows.  When neither transport brings an answer there is no preview.
Readings == SUBSET Screen

\* One row for each name read, with its amount.
Rows(read) == {[name |-> f, val |-> UnitsHeld(f, day - 1) * navs[f][day]] : f \in read}

\* build_match_candidates: the portfolio, then the definition, then the watchlist.
MatchCandidates == DOMAIN folio \cup defs \cup watch
Source(f) == IF f \in DOMAIN folio THEN 0 ELSE IF f \in defs THEN 1 ELSE 2

Score(name, f) == IF f = name THEN 2 ELSE IF <<name, f>> \in Alike THEN 1 ELSE 0

\* match_detected_holding: the best score, and among equals the earliest.
Match(name) ==
  LET close == {f \in MatchCandidates : Score(name, f) > 0}
      Rank(f) == 3 * Score(name, f) - Source(f)
  IN IF close = {} THEN Unset
     ELSE CHOOSE f \in close : \A g \in close : Rank(f) >= Rank(g)

\* build_sync_preview.  known is a ghost: each row's fund was a candidate.
PreviewSync ==
  /\ Going /\ shot = Unset
  /\ \E read \in Readings :
       LET rows == Rows(read)
           items == {[fund |-> Match(r.name), val |-> r.val] : r \in {x \in rows : Match(x.name) # Unset}}
       IN shot' = [rows |-> rows, items |-> items,
                      unmatched |-> {f \in read : Match(f) = Unset},
                      added |-> {i.fund : i \in items} \ DOMAIN folio,
                      missing |-> {f \in DOMAIN folio : folio[f].val > 0 /\ f \notin {i.fund : i \in items}},
                      fresh |-> TRUE, known |-> read \subseteq MatchCandidates, day |-> day]
  /\ UNCHANGED <<day, navs, trades, folio, snaps, defs, watch, clean, saves>>

\* register_fund_metadata: the user confirms the fund of an unmatched row.
Register ==
  /\ Going /\ shot # Unset
  /\ \E f \in shot.unmatched \ defs :
       /\ defs' = defs \cup {f}
       /\ watch' = watch \cup {f}
  /\ UNCHANGED <<day, navs, trades, folio, snaps, shot, clean, saves>>

\* build_new_fund_entry, without its opening state.
Added == [val |-> 0, units |-> 0, src |-> "", nav |-> 0, seen |-> 0, pnl |-> NoPnl]

\* apply_sync_preview.  Of two rows matched to one fund the last read wins;
\* units stay as they are.  add is auto_add_new, drop is drop_missing.
ApplySync(add, drop) ==
  /\ shot # Unset
  /\ shot.unmatched = {}
  /\ LET written == {i.fund : i \in shot.items} \cap
                      (DOMAIN folio \cup (IF add THEN shot.added ELSE {}))
         zeroed == IF drop THEN shot.missing \cap DOMAIN folio ELSE {}
         now == DOMAIN folio \cup written
     IN /\ \E shown \in [written -> shot.items] :
             /\ \A f \in written : shown[f].fund = f
             /\ SaveState([f \in now |->
                        LET p == IF f \in DOMAIN folio THEN folio[f] ELSE Added
                        IN IF f \in zeroed
                             THEN [p EXCEPT !.val = 0, !.units = 0, !.seen = day,
                                            !.src = "screenshot_sync_missing_zero"]
                           ELSE IF f \in written
                             THEN [p EXCEPT !.val = shown[f].val, !.seen = day,
                                            !.src = "screenshot_sync_value_only"]
                           ELSE p], day)
        /\ defs' = defs \cup written
        /\ clean' = clean \ zeroed
  /\ Aged
  /\ UNCHANGED <<day, navs, trades, watch>>

-------------------------------------------------------------------------------
(* Rebuild from the latest snapshot and the trade journal.                 *)

Start == Max({0} \cup {d \in 1 .. day : snaps[d] # Unset})

\* Mutant of Replayed: a trade of the snapshot's own date is applied again.
ReplayedAgain(i) == trades[i].day >= Start

\* Trades after the snapshot's date are applied, whether settled or not.
Replayed(i) == trades[i].day > Start

\* The portfolio after the first n trades, Unset once one cannot be applied.
Rebuilt ==
  LET base == IF Start = 0 THEN Restored ELSE snaps[Start]
      After[n \in 0 .. Len(trades)] ==
        IF n = 0 THEN base
        ELSE LET c == After[n - 1]
                 t == trades[n]
                 nav == navs[t.fund][t.day]
             IN IF c = Unset \/ ~Replayed(n) THEN c
                ELSE IF t.fund \notin DOMAIN c \/ ~CanTrade(c[t.fund], t.units, nav) THEN Unset
                ELSE [c EXCEPT ![t.fund] = UnitsAfterTrade(@, t.units, nav)]
  IN After[Len(trades)]

Rebuild ==
  /\ Rebuilt # Unset
  /\ SaveState(Rebuilt, day)
  /\ clean' = {f \in clean : f \in DOMAIN folio' /\ f \in DOMAIN folio /\ folio'[f].units = folio[f].units}
  /\ Aged
  /\ UNCHANGED <<day, navs, trades, defs, watch>>

-------------------------------------------------------------------------------
PositionsNext ==
  \/ NextDay
  \/ RecordTrade
  \/ \E i \in DOMAIN trades : SettleTrade(i)
  \/ Revalue
  \/ SyncUnits
  \/ PreviewSync
  \/ Register
  \/ \E add, drop \in BOOLEAN : ApplySync(add, drop)
  \/ Rebuild

PositionsSpec == PositionsInit /\ [][PositionsNext]_positionsVars

-------------------------------------------------------------------------------
(* Properties.                                                             *)

\* The types, and a day's profit has an amount when it is newly confirmed.
PositionsTypeOK ==
  /\ day \in Dates
  /\ \A f \in Codes : Len(navs[f]) = day
  /\ DOMAIN folio \subseteq Codes /\ \A f \in DOMAIN folio : folio[f] \in Position
  /\ DOMAIN snaps = Dates
  /\ defs \subseteq Codes /\ watch \subseteq Codes /\ clean \subseteq Codes
  /\ \A f \in DOMAIN folio : folio[f].pnl.status = "ok" => folio[f].pnl.amount # Unset

\* While only settled trades have written a fund's units, they are the units
\* of the opening and of each settled trade once: neither a sync of values
\* from screenshots nor a revaluation nor a trade refused midway touches them.
UnitsAreTraded ==
  \A f \in clean \cap DOMAIN folio :
    folio[f].units = Opening[f] + UnitsOfTrades({i \in DOMAIN trades : trades[i].fund = f /\ Settled(i)})

\* The profit of a NAV date is that of the units really held over that date,
\* when the trades confirmed so far are settled (a trade made since the NAV
\* before blocks it, a NAV from a cache too).
PnlIsOfHeldUnits ==
  \A f \in clean \cap DOMAIN folio \cap DOMAIN folio' :
    LET p == folio'[f].pnl
    IN (/\ p # folio[f].pnl /\ p.status = "ok"
        /\ \A i \in DOMAIN trades : trades[i].fund = f /\ trades[i].day < day => Settled(i))
       => p.amount = UnitsHeld(f, p.date - 1) * (navs[f][p.date] - navs[f][p.date - 1])

\* A rebuild changes nothing when each settlement was written on the day it
\* was due and no trade made after the newest snapshot is still pending.
RebuildIsIdle ==
  (/\ Rebuild
   /\ \A i \in DOMAIN trades :
        IF Settled(i) THEN trades[i].on = trades[i].day + 1 ELSE trades[i].day <= Start)
  => folio' = folio

\* A full sync makes the portfolio what the screen shows, when it is applied
\* to the portfolio it was previewed with and every fund read was known:
\* funds with names alike are told apart and nothing else keeps a value.
SyncedIsScreen ==
  ApplySync(TRUE, TRUE) /\ shot.fresh /\ shot.known
  => \A f \in Codes :
       (IF f \in DOMAIN folio' THEN folio'[f].val ELSE 0) =
         SumFunctionOnSet([r \in shot.rows |-> r.val], {r \in shot.rows : r.name = f})

\* The units on file are those of the trades.
HoldingsAreTraded == PositionsTypeOK /\ UnitsAreTraded

\* What each writer of the portfolio promises of its step: the three above.
WritersAreExact == [][PnlIsOfHeldUnits /\ RebuildIsIdle /\ SyncedIsScreen]_positionsVars
===============================================================================
