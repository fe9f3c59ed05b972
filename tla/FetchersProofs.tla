---------------------------- MODULE FetchersProofs ----------------------------
(***************************************************************************)
(* What is fetched for a report date, for any funds, replies and failures.  *)
(***************************************************************************)
EXTENDS News, Feeds, SequenceTheorems, WellFoundedInduction, TLAPS

-------------------------------------------------------------------------------
(***************************************************************************)
(* The market files: how old a value is can be told wherever it is used.    *)
(***************************************************************************)
ReportDates == FirstDay .. LastDay
FeedItem == [src: {"live", "demo", "error", "quote", "blank"}, of: Nat, got: Nat, stale: BOOLEAN]
MarketFile == [kind: Kinds, from: Nat, items: [Codes -> FeedItem \cup {Absent}]]

\* What a file of the date says of its items, apart from what its script gives it.
Plain(feed, d) ==
  /\ feed \in MarketFile
  /\ feed.kind = "unavailable" => \A f \in Codes : feed.items[f] = Absent
  /\ feed.kind = "stale_snapshot" => feed.from \in FirstDay .. d - 1
  /\ \A f \in Codes : feed.items[f] # Absent =>
       /\ feed.items[f].of <= d + 1 /\ feed.items[f].got <= d
       /\ feed.kind = "stale_snapshot" => feed.items[f].stale

\* Quotes and proxies are fetched on the date, or on the one they are copied from.
Quoted(feed, d) ==
  feed # Absent =>
    /\ Plain(feed, d) /\ feed.kind # "quote"
    /\ \A f \in Codes : feed.items[f] # Absent =>
         /\ feed.kind = "live" => feed.items[f].got = d
         /\ feed.kind = "stale_snapshot" => feed.items[f].got = feed.from

\* An estimate that is not marked is of the day; a copied one is recent enough.
Estimated(feed, d) ==
  feed # Absent =>
    /\ Plain(feed, d)
    /\ \A f \in Codes : feed.items[f] # Absent =>
         /\ \/ feed.items[f].stale
            \/ feed.items[f].src \in {"live", "blank"} /\ feed.items[f].of = d /\ feed.items[f].got = d
         /\ feed.kind = "stale_snapshot" /\ feed.items[f].of # 0 => d - feed.items[f].of <= MaxStale

FeedsInv ==
  /\ date \in ReportDates /\ runs \in 0 .. MaxRuns
  /\ \A table \in {quotes, estimates, proxies} : table = [d \in ReportDates |-> table[d]]
  /\ \A d \in ReportDates : Quoted(quotes[d], d) /\ Quoted(proxies[d], d) /\ Estimated(estimates[d], d)

LEMMA DatesType ==
  /\ LastDay \in Nat /\ MaxRuns \in Nat /\ MaxStale \in Nat /\ ReportDates \subseteq Nat
  /\ \A d \in ReportDates : d >= 3 /\ d <= LastDay /\ d - 1 \in Nat /\ d - 2 \in Nat /\ d # 0
  BY FeedsAssumption DEF ReportDates, FirstDay

\* A set of dates that is not empty has a last one.
LEMMA HasLast ==
  ASSUME NEW n \in Nat, NEW G, G \subseteq 0 .. n, G # {}
  PROVE  \E d \in G : \A g \in G : g <= d
<1> DEFINE T == {n - g : g \in G}
<1>1. T \subseteq Nat /\ T # {}
  <2>1. \A g \in G : g \in Nat /\ g <= n
    OBVIOUS
  <2>2. \A g \in G : n - g \in Nat
    BY <2>1
  <2> QED
    BY <2>2
<1>2. PICK x \in T : \A y \in T : ~ (<<y, x>> \in OpToRel(<, Nat))
  BY <1>1, NatLessThanWellFounded, WFMin
<1>3. \A y \in T : ~ (y < x)
  BY <1>1, <1>2 DEF OpToRel
<1>4. PICK d \in G : x = n - d
  OBVIOUS
<1>5. \A g \in G : ~ (n - g < n - d)
  BY <1>3, <1>4
<1> QED
  BY <1>5

\* A copy is one of an earlier file that is no copy itself.
LEMMA RecentIsCopy ==
  ASSUME date \in ReportDates, NEW files, NEW age
  PROVE  \/ Recent(files, age) = File("unavailable", 0, Empty)
         \/ \E d \in FirstDay .. date - 1 :
              /\ files[d] # Absent /\ ~ Copied(files[d]) /\ WithinAge(files[d], age)
              /\ Recent(files, age) = File("stale_snapshot", d, [f \in Codes |-> Marked(files[d].items[f])])
<1> DEFINE good == {d \in FirstDay .. date - 1 :
                      files[d] # Absent /\ ~ Copied(files[d]) /\ WithinAge(files[d], age)}
           last == CHOOSE e \in good : \A g \in good : g <= e
<1>1. Recent(files, age) = IF good = {} THEN File("unavailable", 0, Empty)
                           ELSE File("stale_snapshot", last, [f \in Codes |-> Marked(files[last].items[f])])
  BY DEF Recent, CopyOf
<1>2. CASE good # {}
  <2>1. good \subseteq 0 .. date /\ date \in Nat
    BY DatesType DEF FirstDay
  <2> HIDE DEF good
  <2>2. \E e \in good : \A g \in good : g <= e
    BY <1>2, <2>1, HasLast
  <2>3. last \in good
    BY <2>2
  <2> QED
    BY <1>1, <1>2, <2>3 DEF good
<1> QED
  BY <1>1, <1>2

LEMMA CopiedItem ==
  ASSUME NEW item \in FeedItem \cup {Absent}
  PROVE  /\ Marked(item) \in FeedItem \cup {Absent}
         /\ Marked(item) # Absent =>
              /\ item \in FeedItem /\ item # Absent /\ Marked(item).stale
              /\ Marked(item).of = item.of /\ Marked(item).got = item.got
<1>1. CASE item = Absent
  BY <1>1 DEF Marked
<1>2. CASE item # Absent
  BY <1>2 DEF Marked, FeedItem
<1> QED
  BY <1>1, <1>2

LEMMA UnavailableFile ==
  ASSUME NEW d \in ReportDates
  PROVE  Quoted(File("unavailable", 0, Empty), d) /\ Estimated(File("unavailable", 0, Empty), d)
<1> DEFINE feed == File("unavailable", 0, Empty)
<1>1. feed \in MarketFile /\ feed.kind = "unavailable" /\ \A f \in Codes : feed.items[f] = Absent
  BY DEF File, Empty, MarketFile, Kinds
<1> HIDE DEF feed
<1>2. Quoted(feed, d) /\ Estimated(feed, d)
  BY <1>1 DEF Quoted, Estimated, Plain
<1> QED
  BY <1>2 DEF feed

\* What a copy takes over from the file it is made of.
LEMMA CopyOfFile ==
  ASSUME date \in ReportDates, NEW d \in FirstDay .. date - 1, NEW old, old # Absent, Plain(old, d),
         NEW feed, feed = File("stale_snapshot", d, [f \in Codes |-> Marked(old.items[f])])
  PROVE  /\ Plain(feed, date) /\ feed.kind = "stale_snapshot" /\ feed.from = d
         /\ \A f \in Codes : feed.items[f] # Absent =>
              /\ old.items[f] # Absent /\ feed.items[f].stale
              /\ feed.items[f].of = old.items[f].of /\ feed.items[f].got = old.items[f].got
<1>1. old \in MarketFile /\ \A f \in Codes : old.items[f] \in FeedItem \cup {Absent}
  BY DEF Plain, MarketFile
<1>2. feed.kind = "stale_snapshot" /\ feed.from = d /\ \A f \in Codes : feed.items[f] = Marked(old.items[f])
  BY DEF File
<1>3. date \in Nat /\ d \in Nat /\ d <= date
  BY DatesType DEF FirstDay
<1>4. feed \in MarketFile
  BY <1>1, <1>3, CopiedItem DEF File, MarketFile, Kinds
<1>5. \A f \in Codes : feed.items[f] # Absent =>
              /\ old.items[f] \in FeedItem /\ old.items[f] # Absent /\ feed.items[f].stale
              /\ feed.items[f].of = old.items[f].of /\ feed.items[f].got = old.items[f].got
  BY <1>1, <1>2, CopiedItem
<1>6. \A f \in Codes : feed.items[f] # Absent => feed.items[f].of <= date + 1 /\ feed.items[f].got <= date
  <2>1. \A f \in Codes : feed.items[f] # Absent => /\ old.items[f].of <= d + 1 /\ old.items[f].got <= d
                                                   /\ old.items[f].of \in Nat /\ old.items[f].got \in Nat
    BY <1>5 DEF Plain, FeedItem
  <2> QED
    BY <1>3, <1>5, <2>1
<1> QED
  BY <1>2, <1>4, <1>5, <1>6 DEF Plain

LEMMA QuotedCopy ==
  ASSUME date \in ReportDates, NEW files, \A d \in ReportDates : Quoted(files[d], d)
  PROVE  Quoted(Recent(files, Absent), date)
<1>1. CASE Recent(files, Absent) = File("unavailable", 0, Empty)
  BY <1>1, UnavailableFile
<1>2. CASE \E d \in FirstDay .. date - 1 :
             /\ files[d] # Absent /\ ~ Copied(files[d])
             /\ Recent(files, Absent) = File("stale_snapshot", d, [f \in Codes |-> Marked(files[d].items[f])])
  <2>1. PICK d \in FirstDay .. date - 1 :
             /\ files[d] # Absent /\ ~ Copied(files[d])
             /\ Recent(files, Absent) = File("stale_snapshot", d, [f \in Codes |-> Marked(files[d].items[f])])
    BY <1>2
  <2>2. d \in ReportDates
    BY DatesType DEF FirstDay, ReportDates
  <2>3. Plain(files[d], d) /\ files[d].kind = "live"
    BY <2>1, <2>2 DEF Quoted, Copied, Plain, MarketFile, Kinds
  <2> DEFINE feed == Recent(files, Absent)
  <2>4. /\ Plain(feed, date) /\ feed.kind = "stale_snapshot" /\ feed.from = d
        /\ \A f \in Codes : feed.items[f] # Absent =>
             files[d].items[f] # Absent /\ feed.items[f].got = files[d].items[f].got
    BY <2>1, <2>3, CopyOfFile
  <2> HIDE DEF feed
  <2>5. \A f \in Codes : files[d].items[f] # Absent => files[d].items[f].got = d
    BY <2>1, <2>2, <2>3 DEF Quoted
  <2>6. Quoted(feed, date)
    BY <2>4, <2>5 DEF Quoted
  <2> QED
    BY <2>6 DEF feed
<1> QED
  BY <1>1, <1>2, RecentIsCopy

LEMMA EstimatedCopy ==
  ASSUME date \in ReportDates, NEW files, \A d \in ReportDates : Estimated(files[d], d)
  PROVE  Estimated(Recent(files, MaxStale), date)
<1>1. CASE Recent(files, MaxStale) = File("unavailable", 0, Empty)
  BY <1>1, UnavailableFile
<1>2. CASE \E d \in FirstDay .. date - 1 :
             /\ files[d] # Absent /\ WithinAge(files[d], MaxStale)
             /\ Recent(files, MaxStale) = File("stale_snapshot", d, [f \in Codes |-> Marked(files[d].items[f])])
  <2>1. PICK d \in FirstDay .. date - 1 :
             /\ files[d] # Absent /\ WithinAge(files[d], MaxStale)
             /\ Recent(files, MaxStale) = File("stale_snapshot", d, [f \in Codes |-> Marked(files[d].items[f])])
    BY <1>2
  <2>2. d \in ReportDates
    BY DatesType DEF FirstDay, ReportDates
  <2>3. Plain(files[d], d)
    BY <2>1, <2>2 DEF Estimated
  <2> DEFINE feed == Recent(files, MaxStale)
  <2>4. /\ Plain(feed, date) /\ feed.kind = "stale_snapshot" /\ feed.from = d
        /\ \A f \in Codes : feed.items[f] # Absent =>
             /\ files[d].items[f] # Absent /\ feed.items[f].stale
             /\ feed.items[f].of = files[d].items[f].of
    BY <2>1, <2>3, CopyOfFile
  <2> HIDE DEF feed
  <2>5. MaxStale # Absent
    BY DatesType, FeedsAssumption
  <2>6. \A f \in Codes : files[d].items[f] # Absent /\ files[d].items[f].of # 0
                           => date - files[d].items[f].of <= MaxStale
    BY <2>1, <2>5 DEF WithinAge, Has
  <2>7. \A f \in Codes : feed.items[f] # Absent /\ feed.items[f].of # 0
                           => date - feed.items[f].of <= MaxStale
    BY <2>4, <2>6, Zenon
  <2>8. Estimated(feed, date)
    <3>1. SUFFICES ASSUME NEW f \in Codes, feed.items[f] # Absent
                   PROVE  /\ feed.items[f].stale
                          /\ feed.items[f].of # 0 => date - feed.items[f].of <= MaxStale
      BY <2>4 DEF Estimated
    <3> QED
      BY <2>4, <2>7, <3>1
  <2> QED
    BY <2>8 DEF feed
<1> QED
  BY <1>1, <1>2, RecentIsCopy

\* What a script fetches itself.
LEMMA LiveQuotes ==
  ASSUME date \in ReportDates,
         NEW contents \in [Codes -> FeedItem \cup {Absent}],
         \A f \in Codes : contents[f] # Absent => contents[f].got = date /\ contents[f].of <= date + 1
  PROVE  Quoted(File("live", date, contents), date)
<1> DEFINE feed == File("live", date, contents)
<1>1. feed.kind = "live" /\ feed.items = contents /\ feed \in MarketFile /\ date <= date
  BY DatesType DEF File, MarketFile, Kinds
<1> HIDE DEF feed
<1>2. Quoted(feed, date)
  BY <1>1 DEF Quoted, Plain
<1> QED
  BY <1>2 DEF feed

LEMMA NavItems ==
  ASSUME date \in ReportDates, NEW nav \in [Codes -> NavDates], NEW src \in {"live", "demo"}
  PROVE  Quoted(File("live", date, [f \in Codes |-> MarketItem(src, nav[f], date, FALSE)]), date)
<1>1. NavDates \subseteq Nat /\ \A n \in NavDates : n <= date + 1
  BY DatesType DEF NavDates
<1> DEFINE contents == [f \in Codes |-> MarketItem(src, nav[f], date, FALSE)]
<1>2. contents \in [Codes -> FeedItem \cup {Absent}]
  BY <1>1, DatesType DEF MarketItem, FeedItem
<1>3. \A f \in Codes : contents[f].got = date /\ contents[f].of <= date + 1
  BY <1>1 DEF MarketItem
<1> QED
  BY <1>2, <1>3, LiveQuotes

LEMMA MoveItems ==
  ASSUME date \in ReportDates, NEW reply \in [Codes -> {date - 1, date, Absent}]
  PROVE  Quoted(File("live", date, [f \in Codes |-> Move(f, reply[f])]), date)
<1> DEFINE contents == [f \in Codes |-> Move(f, reply[f])]
<1>1. date \in Nat /\ date - 1 \in Nat /\ date - 1 <= date + 1 /\ date <= date + 1
  BY DatesType
<1>2. \A f \in Codes : Move(f, reply[f]) \in FeedItem \cup {Absent} /\
        (Move(f, reply[f]) # Absent => Move(f, reply[f]).got = date /\ Move(f, reply[f]).of <= date + 1)
  <2> TAKE f \in Codes
  <2>1. CASE reply[f] = Absent
    BY <2>1 DEF Move
  <2>2. CASE reply[f] # Absent
    BY <2>2, <1>1 DEF Move, MarketItem, Late, FeedItem
  <2> QED
    BY <2>1, <2>2
<1>3. contents \in [Codes -> FeedItem \cup {Absent}]
  BY <1>2
<1> QED
  BY <1>2, <1>3, LiveQuotes

LEMMA ItemType ==
  ASSUME NEW src \in {"live", "demo", "error", "quote", "blank"}, NEW of \in Nat, NEW got \in Nat, NEW stale \in BOOLEAN
  PROVE  LET item == MarketItem(src, of, got, stale)
         IN  item \in FeedItem /\ item.src = src /\ item.of = of /\ item.got = got /\ (item.stale <=> stale)
  BY DEF MarketItem, FeedItem

\* An estimate of a provider, one made of the quotes, and an error.
Fresh(item) ==
  /\ item \in FeedItem /\ item.of <= date + 1 /\ item.got <= date
  /\ item.stale \/ (item.src \in {"live", "blank"} /\ item.of = date /\ item.got = date)

LEMMA EstimateItems ==
  ASSUME date \in ReportDates, \A d \in ReportDates : Quoted(quotes[d], d), NEW f \in Codes
  PROVE  /\ \A answer \in Answers : Fresh(Estimate(answer))
         /\ Fresh(DerivedEstimate(f))
<1>1. date \in Nat /\ date - 1 \in Nat /\ date - 1 <= date /\ Absent \notin Nat /\ 0 <= date /\ date >= 3
  BY DatesType, FeedsAssumption
<1>2. Fresh(Failed)
  <2>1. Failed \in FeedItem /\ Failed.of = 0 /\ Failed.got = 0 /\ Failed.stale
    BY <1>1 DEF Failed, MarketItem, FeedItem
  <2> QED
    BY <1>1, <2>1 DEF Fresh
<1>3. \A answer \in Answers : Fresh(Estimate(answer))
  <2> TAKE answer \in Answers
  <2>1. CASE answer = Absent
    BY <2>1, <1>2 DEF Estimate
  <2>2. CASE answer # Absent
    <3>1. answer.src \in {"live", "blank"} /\ answer.of \in {date - 1, date}
      BY <2>2 DEF Answers
    <3>2. answer.of \in Nat /\ answer.of <= date + 1 /\ Late(answer.of) \in BOOLEAN /\ date <= date
      BY <3>1, <1>1 DEF Late
    <3>3. Late(answer.of) \/ answer.of = date
      BY DEF Late
    <3>4. Estimate(answer) = MarketItem(answer.src, answer.of, date, Late(answer.of))
      BY <2>2 DEF Estimate
    <3> DEFINE item == MarketItem(answer.src, answer.of, date, Late(answer.of))
    <3>5. /\ item \in FeedItem /\ item.src = answer.src /\ item.of = answer.of /\ item.got = date
          /\ (item.stale <=> Late(answer.of))
      BY <1>1, <3>1, <3>2, ItemType
    <3> HIDE DEF item
    <3>6. item.of <= date + 1 /\ item.got <= date
      BY <3>2, <3>5
    <3>7. item.stale \/ item.of = date
      BY <3>3, <3>5, Zenon
    <3>8. Fresh(item)
      BY <3>1, <3>5, <3>6, <3>7, Zenon DEF Fresh
    <3> QED
      BY <3>4, <3>8 DEF item
  <2> QED
    BY <2>1, <2>2
<1>4. Fresh(DerivedEstimate(f))
  <2>1. CASE Has(quotes[date], f)
    <3>1. /\ quotes[date].items[f] \in FeedItem
          /\ quotes[date].items[f].of <= date + 1 /\ quotes[date].items[f].got <= date
      BY <2>1 DEF Has, Quoted, Plain, MarketFile
    <3>2. quotes[date].items[f].of \in Nat /\ quotes[date].items[f].got \in Nat
      BY <3>1 DEF FeedItem
    <3> DEFINE item == DerivedEstimate(f)
    <3>3. item \in FeedItem /\ item.of = quotes[date].items[f].of /\ item.got = quotes[date].items[f].got /\ item.stale
      BY <2>1, <3>2 DEF DerivedEstimate, MarketItem, FeedItem
    <3> HIDE DEF item
    <3>4. Fresh(item)
      BY <3>1, <3>3 DEF Fresh
    <3> QED
      BY <3>4 DEF item
  <2>2. CASE ~ Has(quotes[date], f)
    BY <2>2, <1>2 DEF DerivedEstimate
  <2> QED
    BY <2>1, <2>2
<1> QED
  BY <1>3, <1>4

LEMMA FreshFile ==
  ASSUME date \in ReportDates, NEW kind \in {"live", "quote"}, NEW contents,
         contents = [f \in Codes |-> contents[f]], \A f \in Codes : Fresh(contents[f])
  PROVE  Estimated(File(kind, date, contents), date)
<1> DEFINE feed == File(kind, date, contents)
<1>1. feed.kind = kind /\ feed.items = contents /\ feed \in MarketFile
  BY DatesType DEF File, MarketFile, Kinds, Fresh
<1> HIDE DEF feed
<1>2. Estimated(feed, date)
  BY <1>1 DEF Estimated, Plain, Fresh
<1> QED
  BY <1>2 DEF feed

LEMMA FetchedEstimates ==
  ASSUME FeedsInv, NEW reply \in EstimateReplies
  PROVE  Estimated(EstimatesOf(reply), date)
<1> DEFINE live == {f \in Codes : reply[f] # Absent}
<1>1. date \in ReportDates /\ \A d \in ReportDates : Quoted(quotes[d], d) /\ Estimated(estimates[d], d)
  BY DEF FeedsInv
<1>2. \A f \in Codes : Fresh(Estimate(reply[f])) /\ Fresh(DerivedEstimate(f)) /\ Fresh(Filled(reply)[f])
  <2>1. \A f \in Codes : reply[f] \in Answers
    BY DEF EstimateReplies
  <2> QED
    BY <1>1, <2>1, EstimateItems DEF Filled
<1>3. CASE live # {} /\ (live = Codes \/ quotes[date] = Absent)
  <2>1. EstimatesOf(reply) = File("live", date, [f \in Codes |-> Estimate(reply[f])])
    BY <1>3 DEF EstimatesOf
  <2> QED
    BY <1>1, <1>2, <2>1, FreshFile
<1>4. CASE live # {} /\ live # Codes /\ quotes[date] # Absent
  <2>1. EstimatesOf(reply) = File("live", date, Filled(reply))
    BY <1>4 DEF EstimatesOf
  <2>2. Filled(reply) = [f \in Codes |-> Filled(reply)[f]]
    BY DEF Filled
  <2> QED
    BY <1>1, <1>2, <2>1, <2>2, FreshFile
<1>5. CASE live = {} /\ quotes[date] # Absent
  <2>1. EstimatesOf(reply) = File("quote", date, [f \in Codes |-> DerivedEstimate(f)])
    BY <1>5 DEF EstimatesOf
  <2> QED
    BY <1>1, <1>2, <2>1, FreshFile
<1>6. CASE live = {} /\ quotes[date] = Absent
  <2>1. EstimatesOf(reply) = Recent(estimates, MaxStale)
    BY <1>6 DEF EstimatesOf
  <2> QED
    BY <1>1, <2>1, EstimatedCopy
<1> QED
  BY <1>3, <1>4, <1>5, <1>6

\* The file of the date is written, the others stay.
LEMMA TableWritten ==
  ASSUME date \in ReportDates, NEW table, table = [d \in ReportDates |-> table[d]],
         NEW feed, NEW next, next = [table EXCEPT ![date] = feed]
  PROVE  /\ next = [d \in ReportDates |-> next[d]]
         /\ next[date] = feed /\ \A d \in ReportDates : d # date => next[d] = table[d]
  OBVIOUS

LEMMA RunsType == FeedsInv /\ RunOnce => runs' \in 0 .. MaxRuns
  BY DatesType DEF FeedsInv, RunOnce

LEMMA QuotesInv ==
  ASSUME FeedsInv, NEW feed, Quoted(feed, date), RunOnce,
         quotes' = [quotes EXCEPT ![date] = feed], UNCHANGED <<date, estimates, proxies>>
  PROVE  FeedsInv'
  BY TableWritten, RunsType DEF FeedsInv

LEMMA ProxiesInv ==
  ASSUME FeedsInv, NEW feed, Quoted(feed, date), RunOnce,
         proxies' = [proxies EXCEPT ![date] = feed], UNCHANGED <<date, quotes, estimates>>
  PROVE  FeedsInv'
  BY TableWritten, RunsType DEF FeedsInv

LEMMA EstimatesInv ==
  ASSUME FeedsInv, NEW feed, Estimated(feed, date), RunOnce,
         estimates' = [estimates EXCEPT ![date] = feed], UNCHANGED <<date, quotes, proxies>>
  PROVE  FeedsInv'
  BY TableWritten, RunsType DEF FeedsInv

LEMMA FeedsInitInv == FeedsInit => FeedsInv
<1> SUFFICES ASSUME FeedsInit PROVE FeedsInv
  OBVIOUS
<1>1. quotes = [d \in ReportDates |-> Absent] /\ estimates = quotes /\ proxies = quotes
  BY DEF FeedsInit, ReportDates
<1>2. date \in ReportDates /\ runs \in 0 .. MaxRuns
  BY FeedsAssumption DEF FeedsInit, ReportDates, FirstDay
<1> QED
  BY <1>1, <1>2 DEF FeedsInv, Quoted, Estimated

LEMMA FeedsNextInv == FeedsInv /\ [FeedsNext]_feedVars => FeedsInv'
<1> SUFFICES ASSUME FeedsInv, [FeedsNext]_feedVars PROVE FeedsInv'
  OBVIOUS
<1>1. date \in ReportDates /\ \A d \in ReportDates : Quoted(quotes[d], d) /\ Quoted(proxies[d], d)
  BY DEF FeedsInv
<1>2. CASE NextDate
  <2>1. date' \in ReportDates
    BY <1>1, <1>2, DatesType DEF NextDate, ReportDates, FirstDay
  <2> QED
    BY <1>2, <2>1 DEF NextDate, feeds, FeedsInv
<1>3. CASE FetchQuotes
  <2>1. PICK feed \in {File("live", date, [f \in Codes |-> MarketItem("live", nav[f], date, FALSE)]) : nav \in [Codes -> NavDates]}
                 \cup {Recent(quotes, Absent)} : quotes' = [quotes EXCEPT ![date] = feed]
    BY <1>3 DEF FetchQuotes
  <2>2. Quoted(feed, date)
    BY <1>1, NavItems, QuotedCopy
  <2> QED
    BY <1>3, <2>1, <2>2, QuotesInv DEF FetchQuotes
<1>4. CASE DemoQuotes
  <2>1. date \in NavDates
    BY <1>1, DatesType DEF NavDates
  <2> DEFINE nav == [f \in Codes |-> date]
             feed == File("live", date, [f \in Codes |-> MarketItem("demo", date, date, FALSE)])
  <2>2. Quoted(File("live", date, [f \in Codes |-> MarketItem("demo", nav[f], date, FALSE)]), date)
    BY <1>1, <2>1, NavItems
  <2>3. [f \in Codes |-> MarketItem("demo", nav[f], date, FALSE)] = [f \in Codes |-> MarketItem("demo", date, date, FALSE)]
    OBVIOUS
  <2>4. Quoted(feed, date)
    BY <2>2, <2>3
  <2> QED
    BY <1>4, <2>4, QuotesInv DEF DemoQuotes
<1>5. CASE FetchProxies
  <2>1. PICK feed \in {File("live", date, [f \in Codes |-> Move(f, reply[f])]) : reply \in [Codes -> {date - 1, date, Absent}]}
                 \cup {Recent(proxies, Absent)} : proxies' = [proxies EXCEPT ![date] = feed]
    BY <1>5 DEF FetchProxies
  <2>2. Quoted(feed, date)
    BY <1>1, MoveItems, QuotedCopy
  <2> QED
    BY <1>5, <2>1, <2>2, ProxiesInv DEF FetchProxies
<1>6. CASE \E reply \in EstimateReplies : FetchEstimates(reply)
  <2>1. PICK reply \in EstimateReplies : FetchEstimates(reply)
    BY <1>6
  <2> QED
    BY <2>1, FetchedEstimates, EstimatesInv DEF FetchEstimates
<1>7. CASE UNCHANGED feedVars
  BY <1>7 DEF feedVars, feeds, FeedsInv
<1> QED
  BY <1>2, <1>3, <1>4, <1>5, <1>6, <1>7 DEF FeedsNext

LEMMA FeedsInvIsDated == FeedsInv => FeedsAreDated
<1> SUFFICES ASSUME FeedsInv PROVE FeedsAreDated
  OBVIOUS
<1>1. \A d \in ReportDates : Quoted(quotes[d], d) /\ Quoted(proxies[d], d) /\ Estimated(estimates[d], d)
  BY DEF FeedsInv
<1>2. FeedsTypeOK
  BY <1>1 DEF FeedsTypeOK, FeedsInv, ReportDates, Quoted, Estimated, Plain, MarketFile
<1>3. CopySaysWhen
  BY <1>1 DEF CopySaysWhen, ReportDates, Quoted, Estimated, Has
<1>4. EstimateIsOfDay
  <2> SUFFICES ASSUME NEW d \in ReportDates, NEW f \in Codes, Mode(f, d) = "estimate"
               PROVE  LET item == EffectiveItem(f, d) IN item.src = "live" /\ item.of = d /\ item.got = d
    BY DEF EstimateIsOfDay, ReportDates
  <2>1. EffectiveItem(f, d) = estimates[d].items[f]
    BY DEF EffectiveItem
  <2>2. EstimateUsed(f, d)
    <3>1. CASE f \in Overseas
      BY <3>1 DEF Mode
    <3>2. CASE f \notin Overseas /\ ~ EstimateUsed(f, d)
      BY <3>2 DEF Mode
    <3> QED
      BY <3>1, <3>2
  <2> QED
    BY <1>1, <2>1, <2>2 DEF EstimateUsed, EstimateAllowed, Has, Estimated
<1>5. SignalsAreRecent
  <2> SUFFICES ASSUME NEW d \in ReportDates, NEW f \in Codes, NEW table \in {quotes, estimates, proxies},
                      Has(table[d], f), ~ PayloadIsStale(table[d].items[f])
               PROVE  table[d].items[f].got = d /\ d - table[d].items[f].of <= 1
    BY DEF SignalsAreRecent, Signals, ReportDates
  <2> DEFINE item == table[d].items[f]
  <2>1. item # Absent /\ ~ item.stale /\ ~ (item.got - item.of > 1) /\ table[d] # Absent
    BY DEF Has, PayloadIsStale, Delayed
  <2>2. Plain(table[d], d)
    BY <1>1, <2>1 DEF Quoted, Estimated
  <2>3. item.of \in Nat /\ item.got \in Nat /\ table[d].kind \in Kinds
    BY <2>1, <2>2 DEF Plain, MarketFile, FeedItem
  <2>4. table[d].kind \notin {"stale_snapshot", "unavailable"}
    BY <2>1, <2>2 DEF Plain
  <2>5. item.got = d
    <3>1. CASE table = estimates
      BY <1>1, <2>1, <3>1 DEF Estimated
    <3>2. CASE table \in {quotes, proxies}
      BY <1>1, <2>1, <2>3, <2>4, <3>2 DEF Quoted, Kinds
    <3> QED
      BY <3>1, <3>2
  <2> QED
    BY <2>1, <2>3, <2>5
<1> QED
  BY <1>2, <1>3, <1>4, <1>5 DEF FeedsAreDated

\* How old a value is can be told wherever it is used: there is no copy of a
\* copy (provider_adapters.py), a value called an estimate is the provider's of
\* the day, and no signal of an advice is older than the day before.
THEOREM FeedsDated == FeedsSpec => []FeedsAreDated
  BY FeedsInitInv, FeedsNextInv, FeedsInvIsDated, PTL DEF FeedsSpec

\* A fetch that is answered loses no estimate, and what is missing the quotes of
\* the date fill in (merge_estimate_items), but not if there was an answer for
\* every fund.
THEOREM FetchKeepsBest == FeedsSpec => BestIsKept
<1> DEFINE Best(reply, f) ==
       LET item == estimates'[date].items[f] IN
       IF ~ Missing(reply[f]) THEN item.src = "live" /\ item.of = reply[f].of
       ELSE Has(quotes[date], f) /\ (\E g \in Codes : reply[g] = Absent)
              => item.src = "quote" /\ item.of = quotes[date].items[f].of
     Kept == \A reply \in EstimateReplies :
       FetchEstimates(reply) /\ (\E f \in Codes : reply[f] # Absent) => \A f \in Codes : Best(reply, f)
<1>1. ASSUME FeedsInv, NEW reply \in EstimateReplies, FetchEstimates(reply), \E f \in Codes : reply[f] # Absent,
             NEW f \in Codes
      PROVE  Best(reply, f)
  <2> DEFINE live == {g \in Codes : reply[g] # Absent}
             item == estimates'[date].items[f]
  <2>1. estimates'[date] = EstimatesOf(reply)
    BY <1>1 DEF FetchEstimates, FeedsInv
  <2>2. ~ Missing(reply[f]) => Estimate(reply[f]).src = "live" /\ Estimate(reply[f]).of = reply[f].of
    BY DEF EstimateReplies, Answers, Missing, Estimate, MarketItem
  <2>3. Has(quotes[date], f) => /\ DerivedEstimate(f).src = "quote"
                                /\ DerivedEstimate(f).of = quotes[date].items[f].of
    BY DEF DerivedEstimate, MarketItem
  <2>4. CASE live = Codes \/ quotes[date] = Absent
    <3>1. EstimatesOf(reply) = File("live", date, [g \in Codes |-> Estimate(reply[g])])
      BY <1>1, <2>4 DEF EstimatesOf
    <3>2. item = Estimate(reply[f])
      BY <2>1, <3>1 DEF File
    <3>3. (\E g \in Codes : reply[g] = Absent) => ~ Has(quotes[date], f)
      BY <2>4 DEF Has
    <3> QED
      BY <2>2, <3>2, <3>3
  <2>5. CASE live # Codes /\ quotes[date] # Absent
    <3>1. EstimatesOf(reply) = File("live", date, Filled(reply))
      BY <1>1, <2>5 DEF EstimatesOf
    <3>2. item = IF Missing(reply[f]) THEN DerivedEstimate(f) ELSE Estimate(reply[f])
      BY <2>1, <3>1 DEF File, Filled
    <3> QED
      BY <2>2, <2>3, <3>2
  <2> QED
    BY <2>4, <2>5
<1>2. FeedsInv /\ [FeedsNext]_feedVars => [Kept]_feedVars
  <2> SUFFICES ASSUME FeedsInv, NEW reply \in EstimateReplies, FetchEstimates(reply),
                      \E f \in Codes : reply[f] # Absent, NEW f \in Codes
               PROVE  Best(reply, f)
    OBVIOUS
  <2> QED
    BY <1>1
<1> HIDE DEF Kept
<1>3. FeedsSpec => [][Kept]_feedVars
  BY <1>2, FeedsInitInv, FeedsNextInv, PTL DEF FeedsSpec
<1> QED
  BY <1>3 DEF BestIsKept, Kept

-------------------------------------------------------------------------------
(***************************************************************************)
(* A call of the model: every request is counted, and an answer for an      *)
(* object has all of its fields.                                            *)
(***************************************************************************)
Call == [kind: {"object", "text"}, max: Nat \ {0}, attempt: Nat \ {0}, transport: Transports, sent: Nat,
         stream: Stream \cup {None}, outcome: Outcome \cup {None}]

CallOK(c) ==
  /\ c \in Call /\ c.attempt <= c.max /\ c.sent <= 2 * c.max
  /\ c.outcome = None =>
       c.sent = 2 * (c.attempt - 1) + (IF c.transport = "direct" THEN 0 ELSE 1) + (IF c.stream = None THEN 0 ELSE 1)
  /\ c.outcome # None => c.stream = None
  /\ c.outcome # None /\ c.outcome.tag = "answer" /\ c.kind = "object" => c.outcome.text = "fits"

CallInv == call = None \/ CallOK(call)

LEMMA NewCallOK ==
  ASSUME NEW kind \in {"object", "text"}, NEW max \in Nat \ {0}
  PROVE  CallOK(NewCall(kind, max))
<1> DEFINE c == NewCall(kind, max)
<1>1. /\ c \in Call /\ c.attempt = 1 /\ c.max = max /\ c.sent = 0 /\ c.transport = "direct"
      /\ c.stream = None /\ c.outcome = None
  BY DEF NewCall, Call, Transports
<1> HIDE DEF c
<1>2. CallOK(c)
  BY <1>1 DEF CallOK
<1> QED
  BY <1>2 DEF c

LEMMA EndedType ==
  ASSUME NEW tag \in {"answer", "refused", "failed"}, NEW text \in Texts, NEW partial \in BOOLEAN
  PROVE  /\ Ended(tag, text, partial) \in Outcome /\ Ended(tag, text, partial) # None
         /\ Ended(tag, text, partial).tag = tag /\ Ended(tag, text, partial).text = text
<1>1. Ended(tag, text, partial) \in Outcome
  BY DEF Ended, Outcome
<1> QED
  BY <1>1, NoneAssumption DEF Ended

\* The request that was sent has come to nothing.
LEMMA NextTryOK ==
  ASSUME NEW c \in Call, c.attempt <= c.max, c.outcome = None,
         c.sent = 2 * (c.attempt - 1) + (IF c.transport = "direct" THEN 1 ELSE 2)
  PROVE  CallOK(NextTry(c))
<1> DEFINE d == NextTry(c)
<1>1. c.sent <= 2 * c.max /\ c.attempt \in Nat \ {0} /\ c.max \in Nat \ {0} /\ c.sent \in Nat
  BY DEF Call
<1>2. CASE c.transport = "direct"
  <2>1. /\ d \in Call /\ d.attempt = c.attempt /\ d.max = c.max /\ d.sent = c.sent
        /\ d.transport = "env_proxy" /\ d.stream = None /\ d.outcome = None
    BY <1>2 DEF NextTry, Call, Transports
  <2> HIDE DEF d
  <2>2. CallOK(d)
    BY <1>1, <1>2, <2>1 DEF CallOK
  <2> QED
    BY <2>2 DEF d
<1>3. CASE c.transport # "direct" /\ c.attempt < c.max
  <2> DEFINE a == c.attempt + 1
  <2>1. a \in Nat \ {0} /\ a <= c.max /\ c.sent = 2 * (a - 1)
    BY <1>1, <1>3
  <2>2. d = [c EXCEPT !.attempt = a, !.transport = "direct", !.stream = None]
    BY <1>3 DEF NextTry
  <2> HIDE DEF d, a
  <2>3. /\ d \in Call /\ d.attempt = a /\ d.max = c.max /\ d.sent = c.sent
        /\ d.transport = "direct" /\ d.stream = None /\ d.outcome = None
    BY <2>1, <2>2 DEF Call, Transports
  <2>4. CallOK(d)
    BY <1>1, <2>1, <2>3 DEF CallOK
  <2> QED
    BY <2>4 DEF d
<1>4. CASE c.transport # "direct" /\ ~ (c.attempt < c.max)
  <2>1. Ended("failed", "empty", FALSE) \in Outcome /\ Ended("failed", "empty", FALSE) # None
        /\ Ended("failed", "empty", FALSE).tag = "failed"
    BY EndedType DEF Texts
  <2>2. /\ d \in Call /\ d.attempt = c.attempt /\ d.max = c.max /\ d.sent = c.sent
        /\ d.stream = None /\ d.outcome = Ended("failed", "empty", FALSE)
    BY <1>4, <2>1 DEF NextTry, Call
  <2> HIDE DEF d
  <2>3. CallOK(d)
    BY <1>1, <2>1, <2>2 DEF CallOK
  <2> QED
    BY <2>3 DEF d
<1> QED
  BY <1>2, <1>3, <1>4

LEMMA ReadFits ==
  ASSUME NEW s \in Stream, Read(s) # None, call \in Call
  PROVE  Read(s) \in Outcome /\ (call.kind = "object" => Read(s).text = "fits")
<1>1. OutputText(s) \in Texts
  BY DEF OutputText, Stream
<1>2. CASE call.kind = "object"
  <2>1. "fits" \in Texts /\ TRUE \in BOOLEAN /\ FALSE \in BOOLEAN
    BY DEF Texts
  <2>2. Ended("answer", "fits", FALSE) \in Outcome /\ Ended("answer", "fits", FALSE).text = "fits"
    BY <2>1, EndedType
  <2>3. Ended("answer", "fits", TRUE) \in Outcome /\ Ended("answer", "fits", TRUE).text = "fits"
    BY <2>1, EndedType
  <2>4. Read(s) = Ended("answer", "fits", FALSE) \/ Read(s) = Ended("answer", "fits", TRUE)
    BY <1>2 DEF Read, ReadObject
  <2> QED
    BY <2>2, <2>3, <2>4
<1>3. CASE call.kind # "object"
  <2>1. Read(s) = Ended("answer", OutputText(s), s.broken)
    BY <1>3 DEF Read, ReadText
  <2>2. s.broken \in BOOLEAN
    BY DEF Stream
  <2> QED
    BY <1>1, <1>3, <2>1, <2>2, EndedType
<1> QED
  BY <1>2, <1>3

LEMMA CallStepInv == CallInv /\ CallStep => CallInv'
<1> SUFFICES ASSUME CallInv, CallStep PROVE CallOK(call)'
  BY DEF CallInv
<1>1. call # None
  BY DEF CallStep, Refuse, Unreachable, Open, Delta, Complete, EndStream, BreakStream, Close, Sendable, Streaming
<1>2. CallOK(call) /\ call \in Call
  BY <1>1 DEF CallInv, CallOK
<1>3. ASSUME Sendable
      PROVE  /\ Sent \in Call /\ Sent.attempt = call.attempt /\ Sent.max = call.max /\ Sent.kind = call.kind
             /\ Sent.transport = call.transport /\ Sent.sent = call.sent + 1 /\ Sent.outcome = None
             /\ Sent.stream = None
             /\ Sent.attempt <= Sent.max
             /\ Sent.sent = 2 * (Sent.attempt - 1) + (IF Sent.transport = "direct" THEN 1 ELSE 2)
  BY <1>2, <1>3 DEF Sendable, Sent, CallOK, Call, Transports
<1>4. ASSUME NEW status, Refuse(status)
      PROVE  CallOK(call)'
  <2>1. Sendable
    BY <1>4 DEF Refuse
  <2>2. CASE status \in Retryable
    BY <1>3, <1>4, <2>1, <2>2, NextTryOK DEF Refuse
  <2>3. CASE status \notin Retryable
    <3> DEFINE e == Ended("refused", "empty", FALSE)
    <3>1. e \in Outcome /\ e # None /\ e.tag = "refused"
      BY EndedType DEF Texts
    <3> HIDE DEF e
    <3>2. call' = [Sent EXCEPT !.outcome = e]
      BY <1>4, <2>3 DEF Refuse, e
    <3>3. /\ call' \in Call /\ call'.attempt = Sent.attempt /\ call'.max = Sent.max /\ call'.sent = Sent.sent
          /\ call'.outcome = e /\ call'.stream = None
      BY <1>3, <2>1, <3>1, <3>2 DEF Call
    <3>4. Sent.sent <= 2 * Sent.max
      BY <1>3, <2>1 DEF Call
    <3> QED
      BY <1>3, <2>1, <3>1, <3>3, <3>4 DEF CallOK
  <2> QED
    BY <2>2, <2>3
<1>5. CASE Unreachable
  BY <1>3, <1>5, NextTryOK DEF Unreachable
<1>6. CASE Open
  <2> DEFINE s == [pieces |-> "empty", completed |-> None, broken |-> FALSE]
  <2>1. s \in Stream /\ s # None
    <3>1. s \in Stream
      BY DEF Stream, Texts
    <3> QED
      BY <3>1, NoneAssumption
  <2>2. Sendable
    BY <1>6 DEF Open
  <2> HIDE DEF s
  <2>3. call' = [Sent EXCEPT !.stream = s]
    BY <1>6 DEF Open, s
  <2>4. /\ call' \in Call /\ call'.attempt = Sent.attempt /\ call'.max = Sent.max /\ call'.sent = Sent.sent
        /\ call'.transport = Sent.transport /\ call'.outcome = None /\ call'.stream = s
    BY <1>3, <2>1, <2>2, <2>3 DEF Call
  <2>5. Sent.sent <= 2 * Sent.max
    BY <1>3, <2>2 DEF Call
  <2>6. call'.sent = 2 * (call'.attempt - 1) + (IF call'.transport = "direct" THEN 0 ELSE 1)
                     + (IF call'.stream = None THEN 0 ELSE 1)
    BY <1>3, <2>1, <2>2, <2>4 DEF Call
  <2>7. call'.attempt <= call'.max /\ call'.sent <= 2 * call'.max
    BY <1>3, <2>2, <2>4, <2>5
  <2> QED
    BY <2>4, <2>6, <2>7 DEF CallOK
<1>7. ASSUME NEW s \in Stream, call.stream # None, call' = [call EXCEPT !.stream = s]
      PROVE  CallOK(call)'
  <2>1. s # None
    BY NoneAssumption
  <2>2. /\ call' \in Call /\ call'.attempt = call.attempt /\ call'.max = call.max /\ call'.sent = call.sent
        /\ call'.transport = call.transport /\ call'.outcome = call.outcome /\ call'.stream = s
        /\ call'.kind = call.kind
    BY <1>2, <1>7 DEF Call
  <2> QED
    BY <1>2, <1>7, <2>1, <2>2 DEF CallOK
<1>8. ASSUME NEW t \in Texts, Delta(t)
      PROVE  CallOK(call)'
  <2>1. call.stream \in Stream /\ call.stream # None
    BY <1>2, <1>8 DEF Delta, Streaming, Call
  <2>2. [call.stream EXCEPT !.pieces = t] \in Stream
    BY <2>1 DEF Stream
  <2>3. call' = [call EXCEPT !.stream = [call.stream EXCEPT !.pieces = t]]
    BY <1>2, <1>8 DEF Delta, Call
  <2> QED
    BY <1>7, <2>1, <2>2, <2>3
<1>9. ASSUME NEW t \in Texts, Complete(t)
      PROVE  CallOK(call)'
  <2>1. call.stream \in Stream /\ call.stream # None
    BY <1>2, <1>9 DEF Complete, Streaming, Call
  <2>2. [call.stream EXCEPT !.completed = t] \in Stream
    BY <2>1 DEF Stream
  <2>3. call' = [call EXCEPT !.stream = [call.stream EXCEPT !.completed = t]]
    BY <1>2, <1>9 DEF Complete, Call
  <2> QED
    BY <1>7, <2>1, <2>2, <2>3
<1>10. ASSUME NEW broken \in BOOLEAN, Close(broken)
       PROVE  CallOK(call)'
  <2> DEFINE s == [call.stream EXCEPT !.broken = broken]
  <2>1. call.stream \in Stream /\ call.stream # None
    BY <1>2, <1>10 DEF Close, Call
  <2>2. s \in Stream
    BY <2>1 DEF Stream
  <2> HIDE DEF s
  <2>3. call' = IF Read(s) = None THEN NextTry(call) ELSE [call EXCEPT !.stream = None, !.outcome = Read(s)]
    BY <1>10 DEF Close, s
  <2>4. call.outcome = None
    BY <1>2, <2>1 DEF CallOK
  <2>5. CASE Read(s) = None
    <3>1. call.attempt <= call.max
          /\ call.sent = 2 * (call.attempt - 1) + (IF call.transport = "direct" THEN 1 ELSE 2)
      BY <1>2, <2>1, <2>4 DEF CallOK, Call
    <3> QED
      BY <1>2, <2>3, <2>4, <2>5, <3>1, NextTryOK
  <2>6. CASE Read(s) # None
    <3>1. Read(s) \in Outcome /\ (call.kind = "object" => Read(s).text = "fits")
      BY <1>2, <2>2, <2>6, ReadFits
    <3>2. /\ call' \in Call /\ call'.attempt = call.attempt /\ call'.max = call.max /\ call'.sent = call.sent
          /\ call'.outcome = Read(s) /\ call'.kind = call.kind /\ call'.stream = None
      BY <1>2, <2>3, <2>6, <3>1 DEF Call
    <3> QED
      BY <1>2, <2>6, <3>1, <3>2 DEF CallOK
  <2> QED
    BY <2>5, <2>6
<1> QED
  BY <1>4, <1>5, <1>6, <1>8, <1>9, <1>10 DEF CallStep, EndStream, BreakStream

-------------------------------------------------------------------------------
(***************************************************************************)
(* The news.  While a run asks its sources it loses no version that is the  *)
(* newest of its source; what the filter then leaves is the newest of all,  *)
(* and labels change nothing else of an item.                               *)
(***************************************************************************)
SourceNames == {"notice", "article", "placeholder", "query", "rss", "regulatory", "search", "social"}
Urls        == {NoUrl} \cup {p.url : p \in Pages}
OwnLabels   == [by: {"model"}, of: AllCodes \X Urls]
NewsItem    == [code: AllCodes, url: Urls, at: Nat, source: SourceNames, stale: BOOLEAN,
                label: {None, ByRule} \cup OwnLabels]

\* An item as it comes: everything in it but the code and the address follows
\* from its source and its moment.
Base(j) ==
  /\ j \in NewsItem /\ j.label = None
  /\ j.source = "placeholder" <=> j.url = NoUrl
  /\ j.source # "placeholder" => j.at <= ReportEnd
  /\ j.stale = (j.source \notin {"notice", "article", "placeholder"} /\ TimeStatus(j.at, j.source) = "stale")

Gathering == {"funds", "query", "rss", "regulatory", "search", "filter"}
Filtered  == {"classify", "social", "write", "done"}

Control ==
  /\ phase \in Phases /\ now \in 0 .. LastMoment /\ cutoff \in Nat /\ pending \subseteq Funds
  /\ asked \in 0 .. Len(UsedQueries) /\ tool \in DOMAIN SearchTools /\ CallInv
  /\ phase # "classify" => batch = <<>>
  /\ circuit \in BOOLEAN /\ (circuit => batch = <<>>)
  /\ refused \in [object: 0 .. 1, text: 0 .. 1]
  /\ ~ circuit => refused.object = 0
  /\ phase \in Gathering \ {"filter"} => refused.text = 0
  /\ phase # "done" => file = None
  /\ WorkingCookieStays

Gathered ==
  /\ items \subseteq fetched
  /\ \A j \in fetched : j.source # "social" /\ (j.source = "search" => phase = "filter" /\ j.url \in cited)
  /\ \A j \in fetched : \E k \in items :
       /\ Key(k) = Key(j) /\ k.source = j.source /\ k.at >= j.at
       /\ j.source \notin {"query", "search"} => k = j
  /\ \A x \in failed : \E i \in items : i.source = "placeholder" /\ i.code = x.fund /\ i.at = x.at

Settled ==
  /\ \A i, j \in items : i.source # "social" /\ j.source # "social" /\ Key(i) = Key(j) => i = j
  /\ \A i \in items, j \in fetched :
       i.source # "social" /\ j.source # "social" /\ Key(j) = Key(i) /\ Offered(j) => j.at <= i.at
  /\ \A i \in items : i.source # "social" =>
       InTime(i) /\ i.label \in {None, ByRule, ByModel(i)} /\ (i.label = None => phase = "classify")
  /\ \A i \in items : i.source = "search" => i.url \in cited
  /\ \A x \in failed : x.at <= ReportEnd /\ x.at <= cutoff =>
       \E i \in items : i.source = "placeholder" /\ i.code = x.fund
  /\ ToSet(batch) \subseteq items

ItemsInv ==
  /\ items \subseteq NewsItem
  /\ \A j \in fetched : Base(j)
  /\ phase \in Gathering => Gathered
  /\ phase \in Filtered => Settled
  /\ file # None => file = [items |-> Written]

NewsInv == Control /\ ItemsInv

LEMMA ToolsType ==
  /\ DOMAIN SearchTools = 1 .. Len(SearchTools) /\ Len(SearchTools) \in Nat /\ 1 \in DOMAIN SearchTools
  /\ UsedQueries \in Seq(SUBSET Funds) /\ Len(UsedQueries) \in Nat
<1>1. SearchTools \in Seq(Range(SearchTools)) /\ SearchTools # <<>> /\ UsedQueries \in Seq(SUBSET Funds)
  BY RepliesAssumption
<1>2. Len(UsedQueries) \in Nat
  BY <1>1
<1>3. Len(SearchTools) \in Nat /\ DOMAIN SearchTools = 1 .. Len(SearchTools) /\ Len(SearchTools) # 0
  BY <1>1, EmptySeq
<1> QED
  BY <1>1, <1>2, <1>3

\* The calls that are made are of one of the two kinds.
LEMMA CallsGoOn == CallInv /\ NewsNext => CallInv'
<1> SUFFICES ASSUME CallInv, NewsNext PROVE CallInv'
  OBVIOUS
<1>1. CASE call' = call
  BY <1>1 DEF CallInv
<1>2. CASE call' = None
  BY <1>2 DEF CallInv
<1>3. CASE StartSearch
  BY <1>3, NewsAssumption, NewCallOK DEF StartSearch, CallInv
<1>4. CASE StartBatch
  BY <1>4, NewCallOK DEF StartBatch, CallInv
<1>5. CASE ModelStep
  BY <1>5, CallStepInv DEF ModelStep
<1>6. RunStep => StartSearch \/ StartBatch \/ call' = call \/ call' = None
  BY DEF RunStep, FetchFund, FailFund, AskQuery, QueriesDone, ReadFeed, ReadRegulator, SearchAnswer, SearchFails,
         NoSearch, BadCutoff, Filter, Label, LabelByRule, LabelRest, Classified, AskSocial, Write
<1>7. Tick => call' = call
  BY DEF Tick
<1> QED
  BY <1>1, <1>2, <1>3, <1>4, <1>5, <1>6, <1>7 DEF NewsNext

\* A cookie with the tokens that the site accepts is sent, and is what the file keeps.
LEMMA CookieKept ==
  ASSUME NEW browsers
  PROVE  /\ ResolvedCookie("good", browsers, TRUE).sent = "good"
         /\ ResolvedCookie("good", browsers, TRUE).file = "good"
<1>1. HasTokens("good") /\ ~ NeedsRefresh("good", TRUE)
  BY DEF HasTokens, NeedsRefresh, Probe
<1> QED
  BY <1>1 DEF ResolvedCookie

LEMMA ControlInit == NewsInit => Control
<1> SUFFICES ASSUME NewsInit PROVE Control
  OBVIOUS
<1>1. now \in 0 .. LastMoment /\ cutoff \in Nat
  BY NewsAssumption DEF NewsInit
<1>2. asked \in 0 .. Len(UsedQueries) /\ tool \in DOMAIN SearchTools
  BY ToolsType DEF NewsInit
<1>3. refused \in [object: 0 .. 1, text: 0 .. 1] /\ refused.object = 0 /\ refused.text = 0
  BY DEF NewsInit
<1>4. CallInv /\ WorkingCookieStays
  BY DEF NewsInit, CallInv, WorkingCookieStays
<1> QED
  BY <1>1, <1>2, <1>3, <1>4 DEF NewsInit, Control, Phases

LEMMA ControlNext == Control /\ NewsNext => Control'
<1> SUFFICES ASSUME Control, NewsNext PROVE Control'
  OBVIOUS
<1> USE DEF Control, Phases, Gathering, WorkingCookieStays
<1>1. CallInv'
  BY CallsGoOn
<1>2. ASSUME NEW f, NEW n, NEW a, FetchFund(f, n, a)
      PROVE  Control'
  BY <1>1, <1>2 DEF FetchFund
<1>3. ASSUME NEW f, FailFund(f)
      PROVE  Control'
  BY <1>1, <1>3 DEF FailFund
<1>4. ASSUME NEW p, AskQuery(p)
      PROVE  Control'
  <2>1. asked' \in 0 .. Len(UsedQueries)
    BY <1>4, ToolsType DEF AskQuery
  <2> QED
    BY <1>1, <1>4, <2>1 DEF AskQuery, run
<1>5. CASE QueriesDone
  BY <1>1, <1>5 DEF QueriesDone, history
<1>6. ASSUME NEW p, NEW c, ReadFeed(p, c)
      PROVE  Control'
  BY <1>1, <1>6 DEF ReadFeed
<1>7. ASSUME NEW p, ReadRegulator(p)
      PROVE  Control'
  BY <1>1, <1>7 DEF ReadRegulator
<1>8. CASE StartSearch \/ StartBatch
  BY <1>1, <1>8 DEF StartSearch, StartBatch, run, history
<1>9. ASSUME NEW p, NEW c, SearchAnswer(p, c)
      PROVE  Control'
  BY <1>1, <1>9 DEF SearchAnswer
<1>10. CASE SearchFails
  <2>1. refused' \in [object: 0 .. 1, text: 0 .. 1] /\ refused'.object = refused.object
        /\ (refused' = refused \/ phase' = "filter")
    BY <1>10 DEF SearchFails, SearchGoesOn, RefusedForGood
  <2>2. tool' \in DOMAIN SearchTools
    BY <1>10, ToolsType DEF SearchFails, SearchGoesOn
  <2> QED
    BY <1>1, <1>10, <2>1, <2>2 DEF SearchFails
<1>11. CASE NoSearch \/ BadCutoff
  BY <1>1, <1>11 DEF NoSearch, BadCutoff, history
<1>12. CASE Filter
  BY <1>1, <1>12 DEF Filter, history
<1>13. ASSUME NEW r, Label(r)
       PROVE  Control'
  BY <1>1, <1>13 DEF Label, run, history
<1>14. CASE LabelByRule
  <2>1. ~ circuit /\ refused.object = 0
    BY <1>14 DEF LabelByRule
  <2>2. CASE RefusedForGood
    <3>1. circuit' = TRUE
      BY <1>14, <2>2 DEF LabelByRule
    <3>2. refused' \in [object: 0 .. 1, text: 0 .. 1] /\ refused'.text = refused.text
      BY <1>14, <2>1, <2>2 DEF LabelByRule
    <3> QED
      BY <1>1, <1>14, <3>1, <3>2 DEF LabelByRule, run
  <2>3. CASE ~ RefusedForGood
    <3>1. circuit' = FALSE /\ refused' = refused
      BY <1>14, <2>1, <2>3 DEF LabelByRule
    <3> QED
      BY <1>1, <1>14, <3>1 DEF LabelByRule, run
  <2> QED
    BY <2>2, <2>3
<1>15. CASE LabelRest \/ Classified
  BY <1>1, <1>15 DEF LabelRest, Classified, run, history
<1>16. ASSUME NEW k, NEW b, NEW ok, NEW p, AskSocial(k, b, ok, p)
       PROVE  Control'
  <2>1. WorkingCookieStays'
    BY <1>16, CookieKept DEF AskSocial
  <2> QED
    BY <1>1, <1>16, <2>1 DEF AskSocial
<1>17. CASE Write
  BY <1>1, <1>17 DEF Write, history
<1>18. CASE ModelStep
  BY <1>1, <1>18 DEF ModelStep, run, history
<1>19. CASE Tick
  <2>1. now' \in 0 .. LastMoment
    BY <1>19, NewsAssumption DEF Tick
  <2> QED
    BY <1>1, <1>19, <2>1 DEF Tick, history
<1> QED
  BY <1>2, <1>3, <1>4, <1>5, <1>6, <1>7, <1>8, <1>9, <1>10, <1>11, <1>12, <1>13, <1>14, <1>15, <1>16, <1>17,
     <1>18, <1>19 DEF NewsNext, RunStep

LEMMA ControlSound == Control => RequestsAreSound
<1> SUFFICES ASSUME Control PROVE RequestsAreSound
  OBVIOUS
<1>1. RefusedOnce
  BY DEF Control, RefusedOnce
<1>2. AnswersFit
  BY DEF Control, CallInv, CallOK, AnswersFit, Answered, Over
<1> QED
  BY <1>1, <1>2 DEF Control, RequestsAreSound

LEMMA SourceRank ==
  /\ \A s \in SourceNames : Rank(s) \in 1 .. 8 /\ Sources[Rank(s)] = s
  /\ \A s, t \in SourceNames : Rank(s) = Rank(t) => s = t
<1>1. ASSUME NEW s \in SourceNames
      PROVE  Rank(s) \in DOMAIN Sources /\ Sources[Rank(s)] = s
  <2>1. \E k \in DOMAIN Sources : Sources[k] = s
    BY DEF Sources, SourceNames
  <2> HIDE DEF Sources
  <2> QED
    BY <2>1 DEF Rank
<1>2. DOMAIN Sources = 1 .. 8
  BY DEF Sources
<1>3. \A s \in SourceNames : Rank(s) \in 1 .. 8 /\ Sources[Rank(s)] = s
  BY <1>1, <1>2
<1> QED
  BY <1>3

\* Among versions of known age one is the newest, and it is kept.
LEMMA DedupKeeps ==
  ASSUME NEW n \in Nat, NEW is, \A i \in is : i.at \in 0 .. n /\ i.source \in SourceNames, NEW j \in is
  PROVE  \E m \in Deduped(is) : Key(m) = Key(j) /\ m.at >= j.at
<1> DEFINE same == {i \in is : Key(i) = Key(j)}
           W(i) == 9 * i.at + (8 - Rank(i.source))
           G == {W(i) : i \in same}
<1>1. \A i \in same : i.at \in 0 .. n /\ Rank(i.source) \in 1 .. 8
  BY SourceRank
<1> HIDE DEF same
<1>2. \A i \in same : W(i) \in 0 .. 9 * n + 7
  BY <1>1
<1>3. 9 * n + 7 \in Nat
  OBVIOUS
<1>4. j \in same
  BY DEF same
<1>5. \E d \in G : \A g \in G : g <= d
  BY <1>2, <1>3, <1>4, HasLast
<1>6. PICK m \in same : \A i \in same : W(i) <= W(m)
  BY <1>5
<1>7. \A i \in same : i.at <= m.at /\ ~ (i.at = m.at /\ Rank(i.source) < Rank(m.source))
  BY <1>1, <1>6
<1>8. \A i \in same : ~ Before(i, m)
  BY <1>1, <1>7 DEF Before
<1>9. m \in Deduped(is) /\ Key(m) = Key(j)
  BY <1>8 DEF Deduped, same
<1> QED
  BY <1>1, <1>4, <1>7, <1>9

\* Two items as they come, neither before the other, are one.
LEMMA DedupUnique ==
  ASSUME NEW is, \A i \in is : Base(i), NEW i \in Deduped(is), NEW j \in Deduped(is), Key(i) = Key(j)
  PROVE  i = j
<1>1. Base(i) /\ Base(j) /\ ~ Before(i, j) /\ ~ Before(j, i)
  BY DEF Deduped
<1>2. i \in NewsItem /\ j \in NewsItem /\ i.at \in Nat /\ j.at \in Nat
      /\ Rank(i.source) \in 1 .. 8 /\ Rank(j.source) \in 1 .. 8
  BY <1>1, SourceRank DEF Base, NewsItem
<1>3. i.at = j.at /\ Rank(i.source) = Rank(j.source)
  BY <1>1, <1>2 DEF Before
<1>4. i.source = j.source
  BY <1>2, <1>3, SourceRank DEF NewsItem
<1>5. i.stale = j.stale /\ i.label = j.label
  BY <1>1, <1>3, <1>4 DEF Base
<1>6. i.code = j.code /\ i.url = j.url
  BY DEF Key
<1> QED
  BY <1>2, <1>3, <1>4, <1>5, <1>6 DEF NewsItem

LEMMA ItemsBase ==
  ASSUME NEW source \in SourceNames \ {"placeholder"}, NEW codes, codes \subseteq AllCodes,
         NEW pages, pages \subseteq Pages
  PROVE  \A i \in ItemsOf(codes, pages, source) :
           Base(i) /\ i.source = source /\ i.at <= ReportEnd /\ \E p \in pages : i.url = p.url
<1> SUFFICES ASSUME NEW c \in codes, NEW p \in pages, TimeStatus(p.at, source) \notin Dropped(source)
             PROVE  /\ Base(Item(c, p, source)) /\ Item(c, p, source).source = source
                    /\ Item(c, p, source).at <= ReportEnd /\ Item(c, p, source).url = p.url
  BY DEF ItemsOf
<1> DEFINE i == Item(c, p, source)
<1>1. p \in Pages /\ p.at \in Nat /\ p.url # NoUrl /\ p.url \in Urls
  BY RepliesAssumption DEF Urls
<1>2. TimeStatus(p.at, source) # "future"
  BY DEF Dropped
<1>3. p.at <= ReportEnd
  BY <1>1, <1>2, NewsAssumption DEF TimeStatus
<1>4. /\ i.code = c /\ i.url = p.url /\ i.at = p.at /\ i.source = source /\ i.label = None
      /\ i.stale = (source \notin {"notice", "article"} /\ TimeStatus(p.at, source) = "stale")
      /\ i = [code |-> i.code, url |-> i.url, at |-> i.at, source |-> i.source, stale |-> i.stale, label |-> i.label]
  BY DEF Item
<1>5. i.stale \in BOOLEAN
  BY <1>4
<1> HIDE DEF i
<1>6. i \in NewsItem
  BY <1>1, <1>4, <1>5 DEF NewsItem
<1>7. i.stale = (i.source \notin {"notice", "article", "placeholder"} /\ TimeStatus(i.at, i.source) = "stale")
  BY <1>4
<1>8. Base(i)
  BY <1>1, <1>3, <1>4, <1>6, <1>7 DEF Base
<1> QED
  BY <1>3, <1>4, <1>8 DEF i

LEMMA PlaceholderBase ==
  ASSUME NEW f \in Funds, now \in Nat
  PROVE  /\ Base(Placeholder(f)) /\ Placeholder(f).source = "placeholder"
         /\ Placeholder(f).code = f /\ Placeholder(f).at = now
<1> DEFINE i == Placeholder(f)
<1>1. /\ i.code = f /\ i.url = NoUrl /\ i.at = now /\ i.source = "placeholder" /\ i.label = None /\ i.stale = FALSE
      /\ i = [code |-> i.code, url |-> i.url, at |-> i.at, source |-> i.source, stale |-> i.stale, label |-> i.label]
  BY DEF Placeholder
<1> HIDE DEF i
<1>2. i \in NewsItem
  BY <1>1 DEF NewsItem, AllCodes, Urls, SourceNames
<1>3. Base(i)
  BY <1>1, <1>2 DEF Base
<1> QED
  BY <1>1, <1>3 DEF i

LEMMA RepliesArePages ==
  ASSUME NEW source \in DOMAIN Replies, NEW pages \in Replies[source]
  PROVE  pages \subseteq Pages
  BY DEF Pages

LEMMA BaseAge ==
  ASSUME NEW i, Base(i)
  PROVE  i.at \in Nat /\ i.source \in SourceNames /\ i.code \in AllCodes /\ i \in NewsItem
  BY DEF Base, NewsItem

\* A source is asked: its items are added as they come.
LEMMA TakeGathers ==
  ASSUME Control, ItemsInv, phase \in Gathering \ {"filter"}, phase' \in Gathering,
         NEW is, \A i \in is : Base(i) /\ i.source \notin {"search", "social"},
         Take(is), cited' = cited, file' = file,
         \A x \in failed' : x \in failed \/ \E i \in is : i.source = "placeholder" /\ i.code = x.fund /\ i.at = x.at
  PROVE  ItemsInv'
<1>1. Gathered /\ file' = None /\ phase' \notin Filtered
  BY DEF Control, ItemsInv, Gathering, Filtered
<1>2. items' = items \cup is /\ fetched' = fetched \cup is
  BY DEF Take
<1>3. items' \subseteq NewsItem /\ \A j \in fetched' : Base(j)
  BY <1>2, BaseAge DEF ItemsInv
<1>4. \A j \in fetched : j.source \notin {"search", "social"}
  BY <1>1 DEF Gathered
<1>5. \A j \in fetched' : j.source # "social" /\ (j.source = "search" => phase' = "filter" /\ j.url \in cited')
  BY <1>2, <1>4
<1>6. \A j \in fetched' : \E k \in items' :
        /\ Key(k) = Key(j) /\ k.source = j.source /\ k.at >= j.at
        /\ j.source \notin {"query", "search"} => k = j
  <2>1. \A j \in is : j.at >= j.at
    BY BaseAge
  <2>2. \A j \in is : \E k \in is :
          /\ Key(k) = Key(j) /\ k.source = j.source /\ k.at >= j.at
          /\ j.source \notin {"query", "search"} => k = j
    BY <2>1
  <2> QED
    BY <1>1, <1>2, <2>2 DEF Gathered
<1>7. \A x \in failed' : \E i \in items' : i.source = "placeholder" /\ i.code = x.fund /\ i.at = x.at
  BY <1>1, <1>2 DEF Gathered
<1>8. Gathered'
  BY <1>1, <1>2, <1>5, <1>6, <1>7 DEF Gathered, Key
<1> QED
  BY <1>1, <1>3, <1>8 DEF ItemsInv

\* Steps that leave the items alone.
LEMMA SameItems ==
  ASSUME ItemsInv, UNCHANGED <<items, fetched, failed, cited, cutoff, batch, file>>,
         phase' = phase \/ (phase \in Gathering \ {"filter"} /\ phase' \in Gathering) \/ phase' = "exited"
  PROVE  ItemsInv'
<1>1. items' \subseteq NewsItem /\ (\A j \in fetched' : Base(j)) /\ (file' # None => (file = [items |-> Written])')
  BY DEF ItemsInv, Written, InTime
<1>2. ASSUME phase' \in Gathering
      PROVE  Gathered'
  <2>1. phase \in Gathering /\ (phase = "filter" => phase' = "filter")
    BY <1>2 DEF Gathering
  <2>2. Gathered
    BY <2>1 DEF ItemsInv
  <2> QED
    BY <2>1, <2>2 DEF Gathered, Key
<1>3. ASSUME phase' \in Filtered
      PROVE  Settled'
  <2>1. phase' = phase /\ Settled
    BY <1>3 DEF ItemsInv, Gathering, Filtered
  <2> QED
    BY <2>1 DEF Settled, Offered, InTime, Key, ByModel
<1> QED
  BY <1>1, <1>2, <1>3 DEF ItemsInv

LEMMA QueriesDoneStep == Control /\ ItemsInv /\ QueriesDone => ItemsInv'
<1> SUFFICES ASSUME Control, ItemsInv, QueriesDone PROVE ItemsInv'
  OBVIOUS
<1> DEFINE qs == {i \in items : i.source = "query"}
           kept == Deduped(qs)
<1>1. /\ phase = "query" /\ phase' = "rss" /\ Gathered /\ file = None
      /\ items' = {i \in items : i.source # "query"} \cup kept
      /\ UNCHANGED <<fetched, failed, cited, cutoff, file>>
  BY DEF Control, ItemsInv, QueriesDone, Gathering, history
<1>2. kept \subseteq qs /\ items' \subseteq items
  BY <1>1 DEF Deduped
<1>3. \A i \in qs : Base(i) /\ i.source # "placeholder"
  BY <1>1 DEF Gathered, ItemsInv
<1>4. \A i \in qs : i.at \in 0 .. ReportEnd /\ i.source \in SourceNames
  BY <1>3, BaseAge, NewsAssumption DEF Base
<1>5. \A k \in qs : \E m \in kept : Key(m) = Key(k) /\ m.at >= k.at
  BY <1>4, DedupKeeps, NewsAssumption
<1> HIDE DEF kept
<1>6. ASSUME NEW j \in fetched
      PROVE  \E k \in items' : /\ Key(k) = Key(j) /\ k.source = j.source /\ k.at >= j.at
                               /\ j.source \notin {"query", "search"} => k = j
  <2>1. PICK k \in items : /\ Key(k) = Key(j) /\ k.source = j.source /\ k.at >= j.at
                           /\ j.source \notin {"query", "search"} => k = j
    BY <1>1 DEF Gathered
  <2>2. CASE j.source # "query"
    BY <1>1, <2>1, <2>2
  <2>3. CASE j.source = "query"
    <3>1. PICK m \in kept : Key(m) = Key(k) /\ m.at >= k.at
      BY <1>5, <2>1, <2>3
    <3>2. m \in items' /\ m.source = "query" /\ m.at \in Nat /\ k.at \in Nat /\ j.at \in Nat
      <4>1. m \in qs /\ k \in qs
        BY <1>2, <2>1, <2>3
      <4> QED
        BY <1>1, <1>4, <4>1, BaseAge DEF ItemsInv
    <3> QED
      BY <2>1, <2>3, <3>1, <3>2
  <2> QED
    BY <2>2, <2>3
<1>7. \A x \in failed : \E i \in items' : i.source = "placeholder" /\ i.code = x.fund /\ i.at = x.at
  BY <1>1 DEF Gathered
<1>8. \A j \in fetched : j.source # "social" /\ j.source # "search"
  BY <1>1 DEF Gathered
<1>9. Gathered'
  BY <1>1, <1>2, <1>6, <1>7, <1>8 DEF Gathered, Key
<1> QED
  BY <1>1, <1>2, <1>9 DEF ItemsInv, Filtered

LEMMA SearchAnswerStep ==
  ASSUME Control, ItemsInv, NEW pages \in Replies["search"], NEW citations, SearchAnswer(pages, citations)
  PROVE  ItemsInv'
<1> DEFINE raw == IF call.outcome.text = "fits" THEN pages ELSE {}
           is  == ItemsOf(Funds, Verified(raw, citations), "search")
           kept == Deduped(is)
<1>1. /\ phase = "search" /\ phase' = "filter" /\ Gathered /\ file = None
      /\ items' = items \cup kept /\ fetched' = fetched \cup is /\ cited' = citations
      /\ UNCHANGED <<failed, file>>
  BY DEF Control, ItemsInv, SearchAnswer, Gathering
<1>2. kept \subseteq is
  BY DEF Deduped
<1>3. \A i \in is : Base(i) /\ i.source = "search" /\ i.at <= ReportEnd /\ i.url \in citations
  <2>1. pages \subseteq Pages
    BY RepliesArePages, RepliesAssumption
  <2>2. Verified(raw, citations) \subseteq Pages /\ \A p \in Verified(raw, citations) : p.url \in citations
    BY <2>1 DEF Verified
  <2>3. "search" \in SourceNames \ {"placeholder"} /\ Funds \subseteq AllCodes
    BY DEF SourceNames, AllCodes
  <2> QED
    BY <2>2, <2>3, ItemsBase
<1> HIDE DEF is
<1>4. \A i \in is : i.at \in 0 .. ReportEnd /\ i.source \in SourceNames
  BY <1>3, BaseAge, NewsAssumption
<1>5. \A j \in is : \E m \in kept : Key(m) = Key(j) /\ m.at >= j.at
  BY <1>4, DedupKeeps, NewsAssumption
<1> HIDE DEF kept
<1>6. \A j \in fetched' : \E k \in items' :
        /\ Key(k) = Key(j) /\ k.source = j.source /\ k.at >= j.at
        /\ j.source \notin {"query", "search"} => k = j
  <2>1. \A j \in fetched : \E k \in items :
          /\ Key(k) = Key(j) /\ k.source = j.source /\ k.at >= j.at
          /\ j.source \notin {"query", "search"} => k = j
    BY <1>1 DEF Gathered
  <2>2. \A j \in is : \E k \in kept :
          /\ Key(k) = Key(j) /\ k.source = j.source /\ k.at >= j.at
          /\ j.source \notin {"query", "search"} => k = j
    BY <1>2, <1>3, <1>5
  <2> QED
    BY <1>1, <2>1, <2>2
<1>7. \A j \in fetched' : j.source # "social" /\ (j.source = "search" => phase' = "filter" /\ j.url \in cited')
  <2>1. \A j \in fetched : j.source # "social" /\ j.source # "search"
    BY <1>1 DEF Gathered
  <2> QED
    BY <1>1, <1>3, <2>1
<1>8. \A x \in failed' : \E i \in items' : i.source = "placeholder" /\ i.code = x.fund /\ i.at = x.at
  BY <1>1 DEF Gathered
<1>9. Gathered'
  <2>1. items' \subseteq fetched'
    BY <1>1, <1>2 DEF Gathered
  <2> QED
    BY <2>1, <1>6, <1>7, <1>8 DEF Gathered, Key
<1>10. items' \subseteq NewsItem /\ \A j \in fetched' : Base(j)
  BY <1>1, <1>2, <1>3, BaseAge DEF ItemsInv
<1> QED
  BY <1>1, <1>9, <1>10 DEF ItemsInv, Filtered

\* The filter: what is left of each page is the newest version of any source.
LEMMA FilterStep == Control /\ ItemsInv /\ Filter => ItemsInv'
<1> SUFFICES ASSUME Control, ItemsInv, Filter PROVE ItemsInv'
  OBVIOUS
<1> DEFINE is == {i \in items : InTime(i)}
           kept == Deduped(is)
<1>1. /\ phase = "filter" /\ phase' = "classify" /\ Gathered /\ file = None /\ batch = <<>>
      /\ items' = kept /\ UNCHANGED <<fetched, failed, cited, cutoff, batch, file>>
  BY DEF Control, ItemsInv, Filter, Gathering, history
<1>2. kept \subseteq is /\ is \subseteq items /\ items \subseteq fetched
  BY <1>1 DEF Deduped, Gathered
<1>3. \A i \in is : Base(i) /\ InTime(i) /\ i.at \in 0 .. ReportEnd /\ i.source \in SourceNames
  BY <1>2, BaseAge, NewsAssumption DEF ItemsInv, InTime
<1>4. \A k \in is : \E m \in kept : Key(m) = Key(k)
  BY <1>3, DedupKeeps, NewsAssumption
<1>5. \A i, j \in kept : Key(i) = Key(j) => i = j
  BY <1>3, DedupUnique
<1>6. ASSUME NEW i \in kept, NEW j \in fetched, Key(j) = Key(i), Offered(j)
      PROVE  j.at <= i.at
  <2>1. PICK k \in items : /\ Key(k) = Key(j) /\ k.source = j.source /\ k.at >= j.at
                           /\ j.source \notin {"query", "search"} => k = j
    BY <1>1 DEF Gathered
  <2>2. k \in is
    BY <1>2, <1>6, <2>1 DEF Offered
  <2>3. ~ Before(k, i)
    BY <1>6, <2>1, <2>2 DEF Deduped
  <2>4. i \in is /\ i.at \in Nat /\ k.at \in Nat /\ j.at \in Nat
    BY <1>2, <1>3, <2>2, BaseAge DEF ItemsInv
  <2> QED
    BY <2>1, <2>3, <2>4 DEF Before
<1>7. \A i \in kept : InTime(i) /\ i.label = None /\ (i.source = "search" => i.url \in cited)
  BY <1>1, <1>2, <1>3 DEF Base, Gathered
<1>8. ASSUME NEW x \in failed, x.at <= ReportEnd, x.at <= cutoff
      PROVE  \E i \in kept : i.source = "placeholder" /\ i.code = x.fund
  <2>1. PICK i \in items : i.source = "placeholder" /\ i.code = x.fund /\ i.at = x.at
    BY <1>1 DEF Gathered
  <2>2. i \in is
    BY <1>8, <2>1 DEF InTime
  <2>3. PICK m \in kept : Key(m) = Key(i)
    BY <1>4, <2>2
  <2>4. m.code = i.code /\ m.url = i.url
    BY <2>3 DEF Key
  <2>5. Base(i) /\ Base(m)
    BY <1>2, <1>3, <2>2
  <2>6. m.source = "placeholder"
    BY <2>1, <2>4, <2>5 DEF Base
  <2> QED
    BY <2>1, <2>4, <2>6
<1>9. items' \subseteq NewsItem
  BY <1>1, <1>2, <1>3, BaseAge
<1> HIDE DEF kept
<1>10. Settled'
  <2>1. \A i \in items', j \in fetched' :
          i.source # "social" /\ j.source # "social" /\ Key(j) = Key(i) /\ Offered(j)' => j.at <= i.at
    BY <1>1, <1>6 DEF Offered, InTime, Key
  <2>2. ToSet(batch') \subseteq items'
    BY <1>1 DEF ToSet
  <2>3. \A i \in items' : InTime(i)' /\ i.label = None /\ (i.source = "search" => i.url \in cited')
    BY <1>1, <1>7 DEF InTime
  <2> QED
    BY <1>1, <1>5, <1>8, <2>1, <2>2, <2>3 DEF Settled, Key, ByModel
<1> QED
  BY <1>1, <1>9, <1>10 DEF ItemsInv, Gathering

\* A label changes nothing else of an item.
LEMMA RelabelKeeps ==
  ASSUME NEW i \in NewsItem, NEW l \in {ByRule, ByModel(i)}
  PROVE  LET r == [i EXCEPT !.label = l] IN
         /\ r \in NewsItem /\ r.label = l /\ r.code = i.code /\ r.url = i.url /\ r.at = i.at /\ r.source = i.source
         /\ Key(r) = Key(i) /\ l # None /\ l \in {ByRule, ByModel(r)}
<1>1. Key(i) \in AllCodes \X Urls
  BY DEF NewsItem, Key
<1>2. ByModel(i) \in OwnLabels
  BY <1>1 DEF ByModel, OwnLabels
<1>3. l # None /\ l \in {ByRule} \cup OwnLabels
  BY <1>2, RepliesAssumption DEF OwnLabels, Urls
<1> DEFINE r == [i EXCEPT !.label = l]
<1>4. r \in NewsItem /\ r.label = l /\ r.code = i.code /\ r.url = i.url /\ r.at = i.at /\ r.source = i.source
  BY <1>3 DEF NewsItem
<1> HIDE DEF r
<1>5. Key(r) = Key(i)
  BY <1>4 DEF Key
<1>6. l \in {ByRule, ByModel(r)}
  BY <1>5 DEF ByModel
<1> QED
  BY <1>3, <1>4, <1>5, <1>6 DEF r

\* Some items get their labels.
LEMMA LabelKeeps ==
  ASSUME Control, ItemsInv, phase = "classify", phase' = "classify",
         NEW is, is \subseteq items, NEW labels, \A i \in is : labels[i] \in {ByRule, ByModel(i)},
         items' = Labelled(is, labels), UNCHANGED <<fetched, failed, cited, cutoff, file>>,
         batch' = <<>>
  PROVE  ItemsInv'
<1> DEFINE R(i) == [i EXCEPT !.label = labels[i]]
<1>1. Settled /\ file' = None
  BY DEF Control, ItemsInv, Filtered
<1>2. items' = (items \ is) \cup {R(i) : i \in is}
  BY DEF Labelled
<1>3. \A i \in is :
        /\ R(i) \in NewsItem /\ R(i).label = labels[i] /\ R(i).code = i.code /\ R(i).url = i.url /\ R(i).at = i.at
        /\ R(i).source = i.source /\ Key(R(i)) = Key(i) /\ labels[i] # None
        /\ labels[i] \in {ByRule, ByModel(R(i))}
  BY RelabelKeeps DEF ItemsInv
<1> HIDE DEF R
\* Every item is an old one, or an old one with its label.
<1>4. \A r \in items' : \E i \in items :
        /\ r.code = i.code /\ r.url = i.url /\ r.at = i.at /\ r.source = i.source /\ Key(r) = Key(i) /\ r \in NewsItem
        /\ \/ r = i /\ i \notin is
           \/ r = R(i) /\ i \in is /\ r.label # None /\ r.label \in {ByRule, ByModel(r)}
  BY <1>2, <1>3 DEF ItemsInv
\* No item is lost.
<1>5. \A i \in items : \E r \in items' : r.code = i.code /\ r.source = i.source
  BY <1>2, <1>3
<1>6. \A r, s \in items' : r.source # "social" /\ s.source # "social" /\ Key(r) = Key(s) => r = s
  BY <1>1, <1>4 DEF Settled
<1>7. \A r \in items', j \in fetched :
        r.source # "social" /\ j.source # "social" /\ Key(j) = Key(r) /\ Offered(j) => j.at <= r.at
  BY <1>1, <1>4 DEF Settled
<1>8. \A r \in items' : r.source # "social" => InTime(r) /\ r.label \in {None, ByRule, ByModel(r)}
  BY <1>1, <1>4 DEF Settled, InTime
<1>9. \A r \in items' : r.source = "search" => r.url \in cited
  BY <1>1, <1>4 DEF Settled
<1>10. \A x \in failed : x.at <= ReportEnd /\ x.at <= cutoff =>
         \E r \in items' : r.source = "placeholder" /\ r.code = x.fund
  BY <1>1, <1>5 DEF Settled
<1>11. ToSet(batch') \subseteq items'
  BY DEF ToSet
<1>12. Settled'
  <2>1. \A r \in items', j \in fetched' :
          r.source # "social" /\ j.source # "social" /\ Key(j) = Key(r) /\ Offered(j)' => j.at <= r.at
    BY <1>7 DEF Offered, InTime, Key
  <2>2. \A r \in items' : r.source # "social" => InTime(r)' /\ r.label \in {None, ByRule, ByModel(r)}
    BY <1>8 DEF InTime
  <2> QED
    BY <1>6, <1>9, <1>10, <1>11, <2>1, <2>2 DEF Settled, Key, ByModel
<1>13. items' \subseteq NewsItem
  BY <1>4
<1> QED
  BY <1>1, <1>12, <1>13 DEF ItemsInv, Gathering

LEMMA StartBatchStep == Control /\ ItemsInv /\ StartBatch => ItemsInv'
<1> SUFFICES ASSUME Control, ItemsInv, StartBatch PROVE ItemsInv'
  OBVIOUS
<1>1. /\ phase = "classify" /\ phase' = "classify" /\ Settled /\ file = None
      /\ UNCHANGED <<items, fetched, failed, cited, cutoff, file>>
  BY DEF Control, ItemsInv, StartBatch, Filtered, run, history
<1>2. \A b \in NextBatches : ToSet(b) \subseteq items
  BY DEF NextBatches, ToSet, Unlabelled
<1>3. ToSet(batch') \subseteq items'
  BY <1>1, <1>2 DEF StartBatch
<1>4. Settled'
  BY <1>1, <1>3 DEF Settled, Offered, InTime, Key, ByModel
<1> QED
  BY <1>1, <1>4 DEF ItemsInv, Gathering

LEMMA ClassifiedStep == Control /\ ItemsInv /\ Classified => ItemsInv'
<1> SUFFICES ASSUME Control, ItemsInv, Classified PROVE ItemsInv'
  OBVIOUS
<1>1. /\ phase = "classify" /\ phase' = "social" /\ Settled /\ file = None
      /\ UNCHANGED <<items, fetched, failed, cited, cutoff, batch, file>>
  BY DEF Control, ItemsInv, Classified, Filtered, history
<1>2. \A i \in items : i.label # None
  BY DEF Classified, Unlabelled
<1>3. Settled'
  BY <1>1, <1>2 DEF Settled, Offered, InTime, Key, ByModel
<1> QED
  BY <1>1, <1>3 DEF ItemsInv, Gathering

LEMMA AskSocialStep ==
  ASSUME Control, ItemsInv, NEW kept, NEW browsers, NEW answered, NEW posts \in Replies["social"] \cup {{}},
         AskSocial(kept, browsers, answered, posts)
  PROVE  ItemsInv'
<1> DEFINE ps == IF ResolvedCookie(kept, browsers, answered).sent = "good" THEN posts ELSE {}
           is == ItemsOf(Funds, ps, "social")
<1>1. /\ phase = "social" /\ phase' = "write" /\ Settled /\ file = None /\ batch = <<>>
      /\ items' = items \cup is /\ fetched' = fetched \cup is
      /\ UNCHANGED <<failed, cited, cutoff, batch, file>>
  BY DEF Control, ItemsInv, AskSocial, Take, Filtered
<1>2. \A i \in is : Base(i) /\ i.source = "social"
  <2>1. ps \subseteq Pages
    BY RepliesArePages, RepliesAssumption
  <2>2. "social" \in SourceNames \ {"placeholder"} /\ Funds \subseteq AllCodes
    BY DEF SourceNames, AllCodes
  <2> QED
    BY <2>1, <2>2, ItemsBase
<1> HIDE DEF is
<1>3. \A i \in items' : i.source # "social" => i \in items
  BY <1>1, <1>2
<1>4. \A j \in fetched' : j.source # "social" => j \in fetched /\ (Offered(j)' => Offered(j))
  BY <1>1, <1>2 DEF Offered, InTime, Key
<1>5. Settled'
  <2>1. \A i \in items', j \in fetched' :
          i.source # "social" /\ j.source # "social" /\ Key(j) = Key(i) /\ Offered(j)' => j.at <= i.at
    BY <1>1, <1>3, <1>4 DEF Settled
  <2>2. ToSet(batch') \subseteq items'
    BY <1>1 DEF ToSet
  <2>3. \A i \in items' : i.source = "search" => i.url \in cited'
    BY <1>1, <1>3 DEF Settled
  <2>4. \A i \in items' : i.source # "social" =>
          InTime(i)' /\ i.label \in {None, ByRule, ByModel(i)} /\ i.label # None
    BY <1>1, <1>3 DEF Settled, InTime
  <2>5. \A i, j \in items' : i.source # "social" /\ j.source # "social" /\ Key(i) = Key(j) => i = j
    BY <1>1, <1>3 DEF Settled
  <2>6. \A x \in failed' : x.at <= ReportEnd /\ x.at <= cutoff' =>
          \E i \in items' : i.source = "placeholder" /\ i.code = x.fund
    BY <1>1 DEF Settled
  <2> QED
    BY <2>1, <2>2, <2>3, <2>4, <2>5, <2>6 DEF Settled, Key, ByModel
<1>6. items' \subseteq NewsItem /\ \A j \in fetched' : Base(j)
  BY <1>1, <1>2, BaseAge DEF ItemsInv
<1> QED
  BY <1>1, <1>5, <1>6 DEF ItemsInv, Gathering

LEMMA WriteStep == Control /\ ItemsInv /\ Write => ItemsInv'
<1> SUFFICES ASSUME Control, ItemsInv, Write PROVE ItemsInv'
  OBVIOUS
<1>1. /\ phase = "write" /\ phase' = "done" /\ Settled
      /\ UNCHANGED <<items, fetched, failed, cited, cutoff, batch>>
  BY DEF ItemsInv, Write, Filtered, history
<1>2. Settled'
  BY <1>1 DEF Settled, Offered, InTime, Key, ByModel
<1>3. (file = [items |-> Written])'
  BY <1>1 DEF Write, Written, InTime
<1> QED
  BY <1>1, <1>2, <1>3 DEF ItemsInv, Gathering

LEMMA ItemsInit == NewsInit => ItemsInv
  BY DEF NewsInit, ItemsInv, Gathered, Gathering, Filtered

LEMMA ItemsNext == Control /\ ItemsInv /\ NewsNext => ItemsInv'
<1> SUFFICES ASSUME Control, ItemsInv, NewsNext PROVE ItemsInv'
  OBVIOUS
<1> USE DEF Gathering
<1>1. {"notice", "article", "query", "rss", "regulatory", "search", "social"} \subseteq DOMAIN Replies
  BY RepliesAssumption
<1>2. now \in Nat
  BY NewsAssumption DEF Control
<1>3. ASSUME NEW f \in Funds, NEW n \in Replies["notice"], NEW a \in Replies["article"], FetchFund(f, n, a)
      PROVE  ItemsInv'
  <2> DEFINE is == ItemsOf({f}, n, "notice") \cup ItemsOf({f}, a, "article")
  <2>1. {f} \subseteq AllCodes /\ n \subseteq Pages /\ a \subseteq Pages
    BY <1>1, RepliesArePages DEF AllCodes
  <2>2. "notice" \in SourceNames \ {"placeholder"} /\ "article" \in SourceNames \ {"placeholder"}
    BY DEF SourceNames
  <2>3. /\ \A i \in ItemsOf({f}, n, "notice") : Base(i) /\ i.source = "notice"
        /\ \A i \in ItemsOf({f}, a, "article") : Base(i) /\ i.source = "article"
    BY <2>1, <2>2, ItemsBase
  <2>4. /\ phase \in Gathering \ {"filter"} /\ phase' \in Gathering /\ Take(is)
        /\ UNCHANGED <<cited, failed, file>>
    BY <1>3 DEF FetchFund
  <2>5. \A i \in is : Base(i) /\ i.source \notin {"search", "social"}
    BY <2>3
  <2> HIDE DEF is
  <2> QED
    BY <2>4, <2>5, TakeGathers
<1>4. ASSUME NEW f \in Funds, FailFund(f)
      PROVE  ItemsInv'
  <2> DEFINE is == {Placeholder(f)}
  <2>1. /\ phase \in Gathering \ {"filter"} /\ phase' \in Gathering /\ Take(is)
        /\ UNCHANGED <<cited, file>> /\ failed' = failed \cup {[fund |-> f, at |-> now]}
    BY <1>4 DEF FailFund
  <2>2. \A i \in is : Base(i) /\ i.source \notin {"search", "social"}
    BY <1>2, PlaceholderBase
  <2>3. \A x \in failed' : x \in failed \/ \E i \in is : i.source = "placeholder" /\ i.code = x.fund /\ i.at = x.at
    BY <1>2, <2>1, PlaceholderBase
  <2> HIDE DEF is
  <2> QED
    BY <2>1, <2>2, <2>3, TakeGathers
<1>5. ASSUME NEW codes, codes \subseteq AllCodes, NEW source \in {"query", "rss", "regulatory"},
             NEW p \in Replies[source] \cup {None}, Take(IF p = None THEN {} ELSE ItemsOf(codes, p, source)),
             phase \in Gathering \ {"filter"}, phase' \in Gathering, UNCHANGED <<cited, failed, file>>
      PROVE  ItemsInv'
  <2> DEFINE is == IF p = None THEN {} ELSE ItemsOf(codes, p, source)
  <2>1. source \in SourceNames \ {"placeholder"} /\ (p # None => p \subseteq Pages)
    BY <1>1, RepliesArePages DEF SourceNames
  <2>2. \A i \in is : Base(i) /\ i.source = source
    BY <1>5, <2>1, ItemsBase
  <2>3. \A i \in is : Base(i) /\ i.source \notin {"search", "social"}
    BY <2>2
  <2>4. Take(is)
    BY <1>5
  <2> HIDE DEF is
  <2> QED
    BY <1>5, <2>3, <2>4, TakeGathers
<1>6. ASSUME NEW p \in Replies["query"] \cup {None}, AskQuery(p)
      PROVE  ItemsInv'
  <2> DEFINE codes == UsedQueries[asked + 1]
  <2>1. codes \subseteq AllCodes
    <3>1. asked + 1 \in 1 .. Len(UsedQueries)
      BY <1>6, ToolsType DEF AskQuery, Control
    <3> QED
      BY <3>1, ToolsType DEF AllCodes
  <2>2. /\ Take(IF p = None THEN {} ELSE ItemsOf(codes, p, "query"))
        /\ phase \in Gathering \ {"filter"} /\ phase' \in Gathering /\ UNCHANGED <<cited, failed, file>>
    BY <1>6 DEF AskQuery, run
  <2> HIDE DEF codes
  <2> QED
    BY <1>5, <2>1, <2>2
<1>7. ASSUME NEW p \in Replies["rss"] \cup {None}, NEW c \in Matches, ReadFeed(p, c)
      PROVE  ItemsInv'
  <2>1. c \subseteq AllCodes
    BY RepliesAssumption DEF AllCodes
  <2>2. /\ Take(IF p = None THEN {} ELSE ItemsOf(c, p, "rss"))
        /\ phase \in Gathering \ {"filter"} /\ phase' \in Gathering /\ UNCHANGED <<cited, failed, file>>
    BY <1>7 DEF ReadFeed
  <2> QED
    BY <1>5, <2>1, <2>2
<1>8. ASSUME NEW p \in Replies["regulatory"] \cup {None}, ReadRegulator(p)
      PROVE  ItemsInv'
  <2>1. {Global} \subseteq AllCodes
    BY DEF AllCodes
  <2>2. /\ Take(IF p = None THEN {} ELSE ItemsOf({Global}, p, "regulatory"))
        /\ phase \in Gathering \ {"filter"} /\ phase' \in Gathering /\ UNCHANGED <<cited, failed, file>>
    BY <1>8 DEF ReadRegulator
  <2> QED
    BY <1>5, <2>1, <2>2
<1>9. CASE StartSearch \/ SearchFails \/ NoSearch \/ BadCutoff \/ ModelStep \/ Tick
  <2>1. /\ UNCHANGED <<items, fetched, failed, cited, cutoff, batch, file>>
        /\ phase' = phase \/ (phase \in Gathering \ {"filter"} /\ phase' \in Gathering) \/ phase' = "exited"
    BY <1>9 DEF StartSearch, SearchFails, NoSearch, BadCutoff, ModelStep, Tick, run, history
  <2> QED
    BY <2>1, SameItems
<1>10. ASSUME NEW r, Label(r)
       PROVE  ItemsInv'
  <2> DEFINE labels == LabelsOf(batch, r)
  <2>1. /\ phase = "classify" /\ phase' = "classify" /\ batch' = <<>>
        /\ items' = Labelled(ToSet(batch), labels) /\ UNCHANGED <<fetched, failed, cited, cutoff, file>>
    BY <1>10 DEF Label, run, history
  <2>2. ToSet(batch) \subseteq items
    BY <2>1 DEF ItemsInv, Settled, Filtered
  <2>3. \A i \in ToSet(batch) : labels[i] \in {ByRule, ByModel(i)}
    BY DEF LabelsOf
  <2> HIDE DEF labels
  <2> QED
    BY <2>1, <2>2, <2>3, LabelKeeps
<1>11. ASSUME NEW is, is \subseteq items, phase = "classify", phase' = "classify", batch' = <<>>,
              items' = Labelled(is, [i \in is |-> ByRule]), UNCHANGED <<fetched, failed, cited, cutoff, file>>
       PROVE  ItemsInv'
  <2> DEFINE labels == [i \in is |-> ByRule]
  <2>1. \A i \in is : labels[i] \in {ByRule, ByModel(i)}
    OBVIOUS
  <2>2. items' = Labelled(is, labels)
    BY <1>11
  <2> HIDE DEF labels
  <2> QED
    BY <1>11, <2>1, <2>2, LabelKeeps
<1>12. CASE LabelByRule
  <2>1. ToSet(batch) \subseteq items
    BY <1>12 DEF LabelByRule, ItemsInv, Settled, Filtered
  <2> QED
    BY <1>11, <1>12, <2>1 DEF LabelByRule, run
<1>13. CASE LabelRest
  <2>1. Unlabelled \subseteq items
    BY DEF Unlabelled
  <2>2. batch' = <<>>
    BY <1>13 DEF LabelRest, Control
  <2> QED
    BY <1>11, <1>13, <2>1, <2>2 DEF LabelRest, run, history
<1> QED
  BY <1>3, <1>4, <1>6, <1>7, <1>8, <1>9, <1>10, <1>12, <1>13, QueriesDoneStep, SearchAnswerStep, FilterStep,
     StartBatchStep, ClassifiedStep, AskSocialStep, WriteStep DEF NewsNext, RunStep

LEMMA NewsStutter == NewsInv /\ UNCHANGED newsVars => NewsInv'
<1> SUFFICES ASSUME NewsInv, UNCHANGED newsVars PROVE NewsInv'
  OBVIOUS
<1>1. Control'
  BY DEF NewsInv, Control, newsVars, run, history, CallInv, WorkingCookieStays
<1>2. ItemsInv'
  BY SameItems DEF NewsInv, newsVars, run, history
<1> QED
  BY <1>1, <1>2 DEF NewsInv

LEMMA NewsAlways == NewsSpec => []NewsInv
<1>1. NewsInit => NewsInv
  BY ControlInit, ItemsInit DEF NewsInv
<1>2. NewsInv /\ [NewsNext]_newsVars => NewsInv'
  BY ControlNext, ItemsNext, NewsStutter DEF NewsInv
<1> QED
  BY <1>1, <1>2, PTL DEF NewsSpec

LEMMA NewsInvTyped == NewsInv => NewsTypeOK
<1> SUFFICES ASSUME NewsInv PROVE NewsTypeOK
  OBVIOUS
<1>1. \A i \in items : i.code \in Funds \cup {Global} /\ i.stale \in BOOLEAN
  BY DEF NewsInv, ItemsInv, NewsItem, AllCodes
<1>2. call # None => CallTypeOK /\ call.sent <= 2 * call.max
  <2>1. call # None => CallOK(call)
    BY DEF NewsInv, Control, CallInv
  <2>2. CallOK(call) => call.attempt \in 1 .. call.max + 1
    BY DEF CallOK, Call
  <2> QED
    BY <2>1, <2>2 DEF CallOK, Call, CallTypeOK
<1>3. CallTypeOK
  BY <1>2 DEF CallTypeOK
<1> QED
  BY <1>1, <1>2, <1>3 DEF NewsTypeOK, NewsInv, Control

LEMMA FileSound ==
  ASSUME NewsInv
  PROVE  NothingLater /\ NewestVersionOnce /\ LabelsAreOwn /\ SearchIsCited /\ FailureShows
<1> SUFFICES ASSUME file # None
             PROVE  NothingLater /\ NewestVersionOnce /\ LabelsAreOwn /\ SearchIsCited /\ FailureShows
  BY DEF NothingLater, NewestVersionOnce, LabelsAreOwn, SearchIsCited, FailureShows
<1>1. phase = "done" /\ Settled /\ file.items = Written
  BY DEF NewsInv, Control, ItemsInv, Filtered
<1>2. \A i \in file.items : i \in items /\ InTime(i)
  BY <1>1 DEF Written
<1>3. \A i \in items : i.source # "social" => i \in file.items
  BY <1>1 DEF Written, Settled
<1>4. NothingLater
  BY <1>2 DEF NothingLater, InTime
<1>5. NewestVersionOnce
  BY <1>1, <1>2 DEF NewestVersionOnce, Settled
<1>6. LabelsAreOwn
  <2>1. \A i \in items : i.source # "social" => i.label \in {ByRule, ByModel(i)} /\ i.label # None
    BY <1>1 DEF Settled
  <2>2. ByRule.by # "model" /\ \A i \in items : ByModel(i).of = Key(i)
    BY DEF ByRule, ByModel
  <2> QED
    BY <1>2, <2>1, <2>2 DEF LabelsAreOwn
<1>7. SearchIsCited
  BY <1>1, <1>2 DEF SearchIsCited, Settled
<1>8. FailureShows
  BY <1>1, <1>3 DEF FailureShows, Settled
<1> QED
  BY <1>4, <1>5, <1>6, <1>7, <1>8

\* Whatever the sources and the model answer, the file that fetch_fund_news.py
\* writes holds nothing that was published after the cutoff, each page of a fund
\* once in its newest version on offer, with a label of its own, pages of the web
\* search that were cited, and the funds whose pages failed.
THEOREM NewsFileIsSound == NewsSpec => []NewsIsSound
<1>1. NewsInv => NewsIsSound
  BY NewsInvTyped, FileSound DEF NewsIsSound
<1> QED
  BY <1>1, NewsAlways, PTL

\* Whatever the provider and the sites answer, at most one call of each kind is
\* refused for good, an object has its fields, and a cookie that works is kept.
THEOREM RequestsSound == NewsSpec => []RequestsAreSound
<1>1. NewsInv => RequestsAreSound
  BY ControlSound DEF NewsInv
<1> QED
  BY <1>1, NewsAlways, PTL
===============================================================================
