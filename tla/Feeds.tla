--------------------------------- MODULE Feeds ---------------------------------
(***************************************************************************)
(* The market files of a report date: quotes with the official NAV         *)
(* (fetch_fund_quotes.py), the estimates of the day                        *)
(* (fetch_realtime_estimate.py) and the moves of proxies                   *)
(* (fetch_intraday_proxies.py).  Each script goes down its chain of        *)
(* providers of config/settings.toml and, when they all fail, copies the   *)
(* file of an earlier date (provider_adapters.py).  What a realtime run    *)
(* (build_realtime_profit.py) and a retrieval pack make of the files is    *)
(* the last part.  A script is one step, prices are left out and dates are *)
(* business days.                                                          *)
(***************************************************************************)
EXTENDS Naturals, FiniteSets

CONSTANTS
  Codes,     \* the funds of the watchlist, all held
  Direct,    \* those of a category whose estimates are used directly
  Overseas,  \* those of the category qdii_index
  MaxStale,  \* max_stale_business_days of the estimates
  LastDay,   \* bound: report dates
  MaxRuns,   \* bound: runs of a script
  Absent     \* no file, no item

\* A NAV may be two days late, and no date is 0: that is the date of an item
\* that has none.
FirstDay == 3

ASSUME FeedsAssumption ==
  /\ Direct \subseteq Codes /\ Overseas \subseteq Codes \ Direct
  /\ {MaxStale, LastDay, MaxRuns} \subseteq Nat /\ FirstDay <= LastDay
  /\ Absent \notin Nat

VARIABLES
  date,      \* the report date
  quotes, estimates, proxies,  \* the files of a date
  runs       \* scripts run

feeds == <<quotes, estimates, proxies>>
feedVars == <<date, feeds, runs>>

\* A file says how it came about, and a fallback the date it was copied from.
\* of an item is the date it is about, got (history) the date it was fetched.
File(kind, from, items) == [kind |-> kind, from |-> from, items |-> items]
MarketItem(src, of, got, stale) == [src |-> src, of |-> of, got |-> got, stale |-> stale]
Empty == [f \in Codes |-> Absent]
Has(file, f) == file # Absent /\ file.items[f] # Absent

FeedsInit ==
  /\ date = FirstDay
  /\ quotes = [d \in FirstDay .. LastDay |-> Absent]
  /\ estimates = quotes
  /\ proxies = quotes
  /\ runs = 0

NextDate ==
  /\ date < LastDay /\ runs < MaxRuns
  /\ date' = date + 1
  /\ UNCHANGED <<feeds, runs>>

(***************************************************************************)
(* Copies of an earlier file (provider_adapters.py).                       *)
(***************************************************************************)
\* Mutant of Copied: only a file without items isn't copied.
CopiedOnce(file) == file.kind = "unavailable"

\* _fallback_derived: a copy says so, and a file of no provider has an error.
Copied(file) == file.kind \in {"stale_snapshot", "unavailable"}

\* The items that name a date must all be of the last few; without an age any will do.
WithinAge(file, age) ==
  LET dated == {f \in Codes : Has(file, f) /\ file.items[f].of # 0} IN
  \/ age = Absent
  \/ dated # {} /\ \A f \in dated : file.items[f].of <= date /\ date - file.items[f].of <= age

Marked(item) == IF item = Absent THEN item ELSE [item EXCEPT !.stale = TRUE]

\* What the chain ends with: the newest copyable file of these dates, or nothing.
CopyOf(files, dates, age) ==
  LET good == {d \in dates : files[d] # Absent /\ ~ Copied(files[d]) /\ WithinAge(files[d], age)} IN
  IF good = {} THEN File("unavailable", 0, Empty)
  ELSE LET d == CHOOSE e \in good : \A g \in good : g <= e
       IN File("stale_snapshot", d, [f \in Codes |-> Marked(files[d].items[f])])

Recent(files, age) == CopyOf(files, FirstDay .. date - 1, age)

RunOnce == runs < MaxRuns /\ runs' = runs + 1

(***************************************************************************)
(* The scripts.  Each overwrites the file of the date.                     *)
(***************************************************************************)
\* select_target_index: a fund's last NAV published until the report date, which
\* may be two days late; the newest there is when all of them are later.
NavDates == date - 2 .. date + 1

\* One fund that fails fails the provider.
FetchQuotes ==
  /\ RunOnce
  /\ \E file \in {File("live", date, [f \in Codes |-> MarketItem("live", nav[f], date, FALSE)]) : nav \in [Codes -> NavDates]}
                 \cup {Recent(quotes, Absent)} :
       quotes' = [quotes EXCEPT ![date] = file]
  /\ UNCHANGED <<date, estimates, proxies>>

\* --demo names the provider of the chain all the same.
DemoQuotes ==
  /\ RunOnce
  /\ quotes' = [quotes EXCEPT ![date] = File("live", date, [f \in Codes |-> MarketItem("demo", date, date, FALSE)])]
  /\ UNCHANGED <<date, estimates, proxies>>

\* classify_intraday_freshness
Late(of) == of # date

\* attach_fund_meta: a fund whose symbol isn't quoted has no item, and a move
\* of an earlier day is marked.
Move(f, of) == IF of = Absent THEN Absent ELSE MarketItem("live", of, date, Late(of))

FetchProxies ==
  /\ RunOnce
  /\ \E file \in {File("live", date, [f \in Codes |-> Move(f, reply[f])]) : reply \in [Codes -> {date - 1, date, Absent}]}
                 \cup {Recent(proxies, Absent)} :
       proxies' = [proxies EXCEPT ![date] = file]
  /\ UNCHANGED <<date, quotes, estimates>>

\* What the provider answers for a fund: an estimate and its date, an answer
\* that has the date and no numbers, or nothing that can be read.
Answers == [src : {"live", "blank"}, of : {date - 1, date}] \cup {Absent}
EstimateReplies == [Codes -> Answers]

\* fetch_one_item: an answer is an item whose status is ok, with numbers or not.
Failed == MarketItem("error", 0, 0, TRUE)
Estimate(answer) == IF answer = Absent THEN Failed ELSE MarketItem(answer.src, answer.of, date, Late(answer.of))

\* build_quote_derived_items: the fund's NAV in the quotes of the date, always stale.
DerivedEstimate(f) ==
  IF Has(quotes[date], f)
    THEN MarketItem("quote", quotes[date].items[f].of, quotes[date].items[f].got, TRUE)
    ELSE Failed

\* Mutant of Filled: once one is missing the quotes replace them all.
FilledAll(reply) == [f \in Codes |-> DerivedEstimate(f)]

\* merge_estimate_items: the errors, and the answers without an estimate.
Missing(answer) == answer = Absent \/ answer.src = "blank"
Filled(reply) == [f \in Codes |-> IF Missing(reply[f]) THEN DerivedEstimate(f) ELSE Estimate(reply[f])]

\* What the provider answers in part the quotes complete.  An answer for every
\* fund, be it without numbers, ends the chain before that.  Without any answer
\* the quotes are all there is, be they empty; without quotes what was
\* answered stays, and the earlier file is asked only if that was nothing.
EstimatesOf(reply) ==
  LET live == {f \in Codes : reply[f] # Absent} IN
  CASE live # {} /\ (live = Codes \/ quotes[date] = Absent) -> File("live", date, [f \in Codes |-> Estimate(reply[f])])
    [] live # {} /\ live # Codes /\ quotes[date] # Absent -> File("live", date, Filled(reply))
    [] live = {} /\ quotes[date] # Absent -> File("quote", date, [f \in Codes |-> DerivedEstimate(f)])
    [] OTHER -> Recent(estimates, MaxStale)

FetchEstimates(reply) ==
  /\ RunOnce
  /\ estimates' = [estimates EXCEPT ![date] = EstimatesOf(reply)]
  /\ UNCHANGED <<date, quotes, proxies>>

FeedsNext ==
  \/ NextDate
  \/ FetchQuotes
  \/ DemoQuotes
  \/ FetchProxies
  \/ \E reply \in EstimateReplies : FetchEstimates(reply)

FeedsSpec == FeedsInit /\ [][FeedsNext]_feedVars

(***************************************************************************)
(* Who reads the files of a date.                                          *)
(***************************************************************************)
\* apply_realtime_policy: the estimate is used directly if its category is,
\* and never when it is marked.
EstimateAllowed(f, d) == f \in Direct /\ Has(estimates[d], f) /\ ~ estimates[d].items[f].stale
EstimateUsed(f, d) == EstimateAllowed(f, d) /\ estimates[d].items[f].src # "blank"

\* classify_quality: a proxy's move is taken whether it is marked or not.
Mode(f, d) ==
  CASE f \in Overseas -> IF Has(proxies[d], f) THEN "proxy_primary" ELSE "stale"
    [] f \notin Overseas /\ EstimateUsed(f, d) -> "estimate"
    [] f \notin Overseas /\ ~ EstimateUsed(f, d) /\ Has(proxies[d], f) -> "proxy_fallback"
    [] OTHER -> "unavailable"

\* derive_effective_nav: the item that the value of today is made of.
EffectiveItem(f, d) ==
  CASE Mode(f, d) = "estimate" -> estimates[d].items[f]
    [] Mode(f, d) \in {"proxy_primary", "proxy_fallback"} -> proxies[d].items[f]
    [] OTHER -> Absent

\* classify_official_nav_freshness, on the date an item was fetched: the status
\* delayed.  A NAV of a later date has another, future_date, which nobody asks for.
Delayed(item) == item.got - item.of > 1

\* market_payload_is_stale: marked, or delayed when it was fetched.
PayloadIsStale(item) == item.stale \/ Delayed(item)

\* derived_signals_from_context: what a pack has as a signal of direction.
Signals(f, d) ==
  {file[d].items[f] : file \in {g \in {quotes, estimates, proxies} : Has(g[d], f) /\ ~ PayloadIsStale(g[d].items[f])}}

(***************************************************************************)
(* Properties.                                                             *)
(***************************************************************************)
Kinds == {"live", "quote", "stale_snapshot", "unavailable"}

\* The files have their shape, and only the items of a fund with none are missing.
FeedsTypeOK ==
  /\ date \in FirstDay .. LastDay /\ runs \in 0 .. MaxRuns
  /\ \A d \in FirstDay .. LastDay : \A file \in {quotes[d], estimates[d], proxies[d]} \ {Absent} :
       /\ file.kind \in Kinds /\ (file.kind = "stale_snapshot" => file.from \in FirstDay .. d - 1)
       /\ \A f \in Codes : file.items[f] # Absent => file.items[f].of <= d + 1 /\ file.items[f].got <= d

\* A copy holds what was fetched on the very date it says it is from, however
\* many scripts failed since: there is no copy of a copy.  A copied estimate is
\* no older than the setting allows.
CopySaysWhen ==
  \A d \in FirstDay .. LastDay, f \in Codes :
    /\ \A file \in {quotes[d], proxies[d]} :
         Has(file, f) /\ file.kind = "stale_snapshot" => file.items[f].got = file.from
    /\ Has(estimates[d], f) /\ estimates[d].kind = "stale_snapshot" /\ estimates[d].items[f].of # 0
         => d - estimates[d].items[f].of <= MaxStale

\* A realtime value that is called an estimate rests on an estimate of the
\* day itself, fetched from its provider on the day.
EstimateIsOfDay ==
  \A d \in FirstDay .. LastDay, f \in Codes :
    Mode(f, d) = "estimate" =>
      LET item == EffectiveItem(f, d) IN item.src = "live" /\ item.of = d /\ item.got = d

\* What an advice takes as a signal of direction was fetched on its date, and is
\* no older than the day before, whichever script failed on that date.  (It can
\* be later than the date, if the fund has no NAV from before.)
SignalsAreRecent ==
  \A d \in FirstDay .. LastDay, f \in Codes : \A item \in Signals(f, d) : item.got = d /\ d - item.of <= 1

\* A fetch that gets an answer loses no estimate, and a fund whose estimate is
\* missing gets the NAV of the quotes if the date has them.  Not when there was an
\* answer for every fund: then those without numbers stay so.
BestIsKept ==
  [][\A reply \in EstimateReplies :
       FetchEstimates(reply) /\ (\E f \in Codes : reply[f] # Absent) =>
         \A f \in Codes :
           LET item == estimates'[date].items[f] IN
           IF ~ Missing(reply[f]) THEN item.src = "live" /\ item.of = reply[f].of
           ELSE Has(quotes[date], f) /\ (\E g \in Codes : reply[g] = Absent)
                  => item.src = "quote" /\ item.of = quotes[date].items[f].of]_feedVars

\* How old a value is can be told wherever it is used: the invariants above.
FeedsAreDated == FeedsTypeOK /\ CopySaysWhen /\ EstimateIsOfDay /\ SignalsAreRecent
===============================================================================
