--------------------------------- MODULE News ---------------------------------
(***************************************************************************)
(* The news of a report date.  A run asks the pages of each fund in a pool  *)
(* of threads, then the search of each query, the feeds, the regulators and *)
(* the model's web search; it keeps what was published in time, each page   *)
(* once per fund, has the model label it in batches, adds the posts of a    *)
(* social site as they are, and writes one file.  The calls of the model    *)
(* are ModelCall's; the health of each source, which only tells, and the    *)
(* heat of an item are left out.                                            *)
(***************************************************************************)
EXTENDS ModelCall, FiniteSets, Sequences, SequencesExt, FiniteSetsExt

CONSTANTS Funds,        \* the watchlist
          Global,       \* the code of what a regulator publishes
          Plan,         \* the queries of each bucket, in their order: the funds they are for
          MaxQueries, BucketLimit, \* settings: how many of them are asked
          Replies,      \* what each source may answer: sets of pages
          Matches,      \* the funds of the queries that a feed's page may match
          Cited,        \* the pages the answer of a web search may cite
          SearchTools,  \* the tools of the web search, in their order
          SearchAttempts,  \* settings: max_attempts of the web search
          BatchSize,    \* settings: the items of a classifier's batch
          ReportEnd,    \* the last moment of the report date
          Cutoffs,      \* the decision cutoffs a run may be given
          Lookback,     \* how old a source's page may be before it is stale
          NoUrl,        \* the address of a placeholder
          CookieFiles,  \* what the cookie file may hold
          Browsers,     \* what the browsers may hold, in their order
          Starts, LastMoment \* when a run may start, and bound of the clock

ASSUME NewsAssumption ==
  /\ MaxQueries \in Nat /\ BucketLimit \in Nat /\ SearchAttempts \in Nat \ {0}
  /\ BatchSize \in Nat \ {0} /\ ReportEnd \in Nat
  /\ Cutoffs \subseteq Nat /\ Starts \subseteq 0 .. LastMoment /\ LastMoment \in Nat

Sources == <<"notice", "article", "placeholder", "query", "rss", "regulatory", "search", "social">>
Rank(source) == CHOOSE k \in DOMAIN Sources : Sources[k] = source
Phases == {"funds", "query", "rss", "regulatory", "search", "filter", "classify", "social", "write",
           "done", "exited"}

VARIABLES
  phase, now, cutoff,
  pending,   \* the funds whose pages are not yet in
  asked,     \* the queries asked
  items,     \* the items of the run
  batch,     \* the items the classifier is asked about, in order
  circuit,   \* the classifier has been refused for good
  tool,      \* the number of the search tool being tried
  cookie,    \* the cookie on file before and after the social site was asked, and the one sent
  file,      \* the news file
  fetched, failed, cited, refused \* history: see NewsInit

run      == <<phase, now, cutoff>>
history  == <<fetched, failed, cited, refused>>
newsVars == <<run, pending, asked, items, batch, circuit, tool, cookie, file, history, call>>

\* "fetched", "failed", "cited" and "refused" are not in the code: every item
\* that came, the funds that failed and when, the pages cited by the answer that
\* was taken, and the refusals for good of each kind of call.
NewsInit ==
  /\ phase = "funds" /\ now \in Starts /\ cutoff \in Cutoffs
  /\ pending = Funds /\ asked = 0 /\ items = {} /\ batch = <<>> /\ circuit = FALSE /\ tool = 1
  /\ cookie = None
  /\ file = None /\ call = None
  /\ fetched = {} /\ failed = {} /\ cited = {} /\ refused = [object |-> 0, text |-> 0]

\* Time passes while the funds are asked; no later step reads the clock.
Tick ==
  /\ phase = "funds" /\ now < LastMoment
  /\ now' = now + 1
  /\ UNCHANGED <<phase, cutoff, pending, asked, items, batch, circuit, tool, cookie, file, history, call>>

(***************************************************************************)
(* Items.                                                                   *)
(***************************************************************************)
TimeStatus(at, source) ==
  IF at > ReportEnd THEN "future" ELSE IF at < ReportEnd - Lookback[source] THEN "stale" ELSE "fresh"

\* The pages of a fund must be fresh; other sources mark what is stale.
Dropped(source) == IF source \in {"notice", "article"} THEN {"future", "stale"} ELSE {"future"}

Item(code, page, source) ==
  [code |-> code, url |-> page.url, at |-> page.at, source |-> source,
   stale |-> source \notin {"notice", "article"} /\ TimeStatus(page.at, source) = "stale",
   label |-> None]

ItemsOf(codes, pages, source) ==
  {Item(c, p, source) : c \in codes, p \in {q \in pages : TimeStatus(q.at, source) \notin Dropped(source)}}

Placeholder(f) == [code |-> f, url |-> NoUrl, at |-> now, source |-> "placeholder", stale |-> FALSE, label |-> None]

InTime(i) == i.at <= ReportEnd /\ i.at <= cutoff

Key(i) == <<i.code, i.url>>

\* Newest first, and in the order of the sources among those of a moment.
Before(i, j) == i.at > j.at \/ (i.at = j.at /\ Rank(i.source) < Rank(j.source))

Deduped(is) == {i \in is : \A j \in is : Key(i) = Key(j) => ~Before(j, i)}

(***************************************************************************)
(* The sources.                                                             *)
(***************************************************************************)
Take(is) == items' = items \cup is /\ fetched' = fetched \cup is

\* A page that fails loses the fund's other pages too.
FetchFund(f, notices, articles) ==
  LET is == ItemsOf({f}, notices, "notice") \cup ItemsOf({f}, articles, "article") IN
  /\ phase = "funds" /\ f \in pending
  /\ pending' = pending \ {f}
  /\ Take(is)
  /\ phase' = IF pending' = {} THEN "query" ELSE "funds"
  /\ UNCHANGED <<now, cutoff, asked, batch, circuit, tool, cookie, file, failed, cited, refused, call>>

FailFund(f) ==
  /\ phase = "funds" /\ f \in pending
  /\ pending' = pending \ {f}
  /\ Take({Placeholder(f)})
  /\ failed' = failed \cup {[fund |-> f, at |-> now]}
  /\ phase' = IF pending' = {} THEN "query" ELSE "funds"
  /\ UNCHANGED <<now, cutoff, asked, batch, circuit, tool, cookie, file, cited, refused, call>>

Buckets == <<"direct", "theme", "market">>
Limited(queries) == SubSeq(queries, 1, IF Len(queries) < BucketLimit THEN Len(queries) ELSE BucketLimit)
UsedQueries ==
  LET all == FlattenSeq([b \in DOMAIN Buckets |-> Limited(Plan[Buckets[b]])]) IN
  SubSeq(all, 1, IF Len(all) < MaxQueries THEN Len(all) ELSE MaxQueries)

\* "pages" is None when the search of a query fails: the next is asked all the same.
AskQuery(pages) ==
  /\ phase = "query" /\ asked < Len(UsedQueries)
  /\ asked' = asked + 1
  /\ Take(IF pages = None THEN {} ELSE ItemsOf(UsedQueries[asked + 1], pages, "query"))
  /\ UNCHANGED <<run, pending, batch, circuit, tool, cookie, file, failed, cited, refused, call>>

QueriesDone ==
  /\ phase = "query" /\ asked = Len(UsedQueries)
  /\ items' = {i \in items : i.source # "query"} \cup Deduped({i \in items : i.source = "query"})
  /\ phase' = "rss"
  /\ UNCHANGED <<now, cutoff, pending, asked, batch, circuit, tool, cookie, file, history, call>>

\* A page of a feed is for the funds of every query it matches.
ReadFeed(pages, codes) ==
  /\ phase = "rss"
  /\ Take(IF pages = None THEN {} ELSE ItemsOf(codes, pages, "rss"))
  /\ phase' = "regulatory"
  /\ UNCHANGED <<now, cutoff, pending, asked, batch, circuit, tool, cookie, file, failed, cited, refused, call>>

ReadRegulator(pages) ==
  LET is == IF pages = None THEN {} ELSE ItemsOf({Global}, pages, "regulatory") IN
  /\ phase = "regulatory"
  /\ Take(is)
  /\ phase' = "search"
  /\ UNCHANGED <<now, cutoff, pending, asked, batch, circuit, tool, cookie, file, failed, cited, refused, call>>

(***************************************************************************)
(* The web search: a call for a text with each tool, until one's answer     *)
(* parses or one is refused for good.                                       *)
(***************************************************************************)
StartSearch ==
  /\ phase = "search" /\ call = None /\ tool \in DOMAIN SearchTools /\ UsedQueries # <<>>
  /\ call' = NewCall("text", SearchAttempts)
  /\ UNCHANGED <<run, pending, asked, items, batch, circuit, tool, cookie, file, history>>

Parses(text) == text \in {"misses", "fits"}

Verified(pages, citations) == {p \in pages : p.url \in citations}

SearchAnswer(pages, citations) ==
  /\ phase = "search" /\ Answered /\ Parses(call.outcome.text)
  /\ LET raw == IF call.outcome.text = "fits" THEN pages ELSE {}
         is  == ItemsOf(Funds, Verified(raw, citations), "search") IN
     /\ items' = items \cup Deduped(is) /\ fetched' = fetched \cup is
     /\ cited' = citations
  /\ call' = None /\ phase' = "filter"
  /\ UNCHANGED <<now, cutoff, pending, asked, batch, circuit, tool, cookie, file, failed, refused>>

SearchGoesOn(outcome) == tool < Len(SearchTools) /\ outcome.tag # "refused"

SearchFails ==
  /\ phase = "search" /\ Over /\ ~(Answered /\ Parses(call.outcome.text))
  /\ refused' = IF RefusedForGood THEN [refused EXCEPT !["text"] = @ + 1] ELSE refused
  /\ IF SearchGoesOn(call.outcome) THEN tool' = tool + 1 /\ phase' = phase
     ELSE tool' = tool /\ phase' = "filter"
  /\ call' = None
  /\ UNCHANGED <<now, cutoff, pending, asked, items, batch, circuit, cookie, file, fetched, failed, cited>>

NoSearch ==
  /\ phase = "search" /\ UsedQueries = <<>>
  /\ phase' = "filter"
  /\ UNCHANGED <<now, cutoff, pending, asked, items, batch, circuit, tool, cookie, file, history, call>>

(***************************************************************************)
(* What is kept, and its labels.                                            *)
(***************************************************************************)
\* A cutoff that is not of the report date is found only now.
BadCutoff ==
  /\ phase = "filter" /\ cutoff > ReportEnd
  /\ phase' = "exited"
  /\ UNCHANGED <<now, cutoff, pending, asked, items, batch, circuit, tool, cookie, file, history, call>>

Filter ==
  /\ phase = "filter" /\ cutoff <= ReportEnd
  /\ items' = Deduped({i \in items : InTime(i)})
  /\ phase' = "classify"
  /\ UNCHANGED <<now, cutoff, pending, asked, batch, circuit, tool, cookie, file, history, call>>

ByRule       == [by |-> "rule", of |-> None]
ByModel(i)   == [by |-> "model", of |-> Key(i)]

Pages  == UNION UNION {Replies[source] : source \in DOMAIN Replies}
AllCodes == Funds \cup {Global}

\* A page has an address and a moment, a query is for some funds, and a label is not None.
ASSUME RepliesAssumption ==
  /\ DOMAIN Replies = {"notice", "article", "query", "rss", "regulatory", "search", "social"}
  /\ \A p \in Pages : p.at \in Nat /\ p.url # NoUrl
  /\ Matches \subseteq SUBSET Funds /\ UsedQueries \in Seq(SUBSET Funds)
  /\ SearchTools \in Seq(Range(SearchTools)) /\ SearchTools # <<>>
  /\ ByRule # None
  /\ None \notin [by: {"model"}, of: AllCodes \X ({NoUrl} \cup {p.url : p \in Pages})]

Unlabelled   == {i \in items : i.label = None}
Labelled(is, labels) == (items \ is) \cup {[i EXCEPT !.label = labels[i]] : i \in is}

\* The next items of the run, newest first.
NextBatches ==
  LET n == Min({BatchSize, Cardinality(Unlabelled)}) IN
  {b \in [1 .. n -> Unlabelled] :
     /\ IsInjective(b) /\ \A k, l \in DOMAIN b : k < l => ~Before(b[l], b[k])
     /\ \A i \in Unlabelled \ ToSet(b) : \A k \in DOMAIN b : ~Before(i, b[k])}

StartBatch ==
  /\ phase = "classify" /\ batch = <<>> /\ Unlabelled # {} /\ ~circuit
  /\ batch' \in NextBatches
  /\ call' = NewCall("object", 1)
  /\ UNCHANGED <<run, pending, asked, items, circuit, tool, cookie, file, history>>

\* Mutant of LabelsOf: the results are taken in the order they come.
LabelsOfInOrder(b, results) ==
  [i \in ToSet(b) |->
    IF \E k \in DOMAIN results : b[k] = i
    THEN ByModel(b[results[CHOOSE k \in DOMAIN results : b[k] = i]]) ELSE ByRule]

\* Mutant of LabelsOf: the model is asked again for what it leaves out.
LabelsOfNamed(b, results) ==
  [i \in ToSet(b) |-> IF \E k \in ToSet(results) : b[k] = i THEN ByModel(i) ELSE None]

\* The model's results name the items by their index; one it leaves out is labelled by rule.
LabelsOf(b, results) ==
  [i \in ToSet(b) |-> IF \E k \in ToSet(results) : b[k] = i THEN ByModel(i) ELSE ByRule]

Label(results) ==
  /\ phase = "classify" /\ batch # <<>> /\ Answered
  /\ items' = Labelled(ToSet(batch), LabelsOf(batch, results))
  /\ batch' = <<>> /\ call' = None
  /\ UNCHANGED <<run, pending, asked, circuit, tool, cookie, file, history>>

\* A refusal for good opens the circuit: no further batch is sent.
LabelByRule ==
  /\ phase = "classify" /\ batch # <<>> /\ Over /\ ~Answered
  /\ items' = Labelled(ToSet(batch), [i \in ToSet(batch) |-> ByRule])
  /\ circuit' = (circuit \/ RefusedForGood)
  /\ refused' = IF RefusedForGood THEN [refused EXCEPT !["object"] = @ + 1] ELSE refused
  /\ batch' = <<>> /\ call' = None
  /\ UNCHANGED <<run, pending, asked, tool, cookie, file, fetched, failed, cited>>

LabelRest ==
  /\ phase = "classify" /\ circuit /\ Unlabelled # {}
  /\ items' = Labelled(Unlabelled, [i \in Unlabelled |-> ByRule])
  /\ UNCHANGED <<run, pending, asked, batch, circuit, tool, cookie, file, history, call>>

Classified ==
  /\ phase = "classify" /\ batch = <<>> /\ Unlabelled = {}
  /\ phase' = "social"
  /\ UNCHANGED <<now, cutoff, pending, asked, items, batch, circuit, tool, cookie, file, history, call>>

(***************************************************************************)
(* The social site.  A cookie is "good", "old" (it has the tokens and the   *)
(* site no longer takes it), "other" or "none"; a browser's may be locked.  *)
(***************************************************************************)
HasTokens(c) == c \in {"good", "old"}

\* The first browser whose cookie can be read and has the tokens; others are passed over.
BrowserCookie(browsers) ==
  LET usable == {k \in DOMAIN browsers : HasTokens(browsers[k])} IN
  IF usable = {} THEN "none" ELSE browsers[Min(usable)]

\* "answered" says whether the site answers the probe at all.
Probe(c, answered) == c = "good" /\ answered

NeedsRefresh(c, answered) == ~Probe(c, answered)

\* What is sent, and what the file holds from then on.
ResolvedCookie(kept, browsers, answered) ==
  LET found   == BrowserCookie(browsers)
      first   == IF HasTokens(kept) THEN kept ELSE found
      refresh == NeedsRefresh(first, answered) /\ found # "none"
      synced  == refresh \/ (~HasTokens(kept) /\ first # "none")
      sent    == IF refresh THEN found ELSE first IN
  [sent |-> sent, file |-> IF synced THEN sent ELSE kept]

\* No cookie that works, no posts.  An answer that fails leaves out the
\* queries after it; the posts before it stay.
AskSocial(kept, browsers, answered, posts) ==
  LET c == ResolvedCookie(kept, browsers, answered) IN
  /\ phase = "social"
  /\ Take(ItemsOf(Funds, IF c.sent = "good" THEN posts ELSE {}, "social"))
  /\ cookie' = [was |-> kept, answered |-> answered, sent |-> c.sent, file |-> c.file]
  /\ phase' = "write"
  /\ UNCHANGED <<now, cutoff, pending, asked, batch, circuit, tool, file, failed, cited, refused, call>>

\* The posts came after the filter, so the filter is applied again.
Written == {i \in items : InTime(i)}

Write ==
  /\ phase = "write"
  /\ file' = [items |-> Written]
  /\ phase' = "done"
  /\ UNCHANGED <<now, cutoff, pending, asked, items, batch, circuit, tool, cookie, history, call>>

RunStep ==
  \/ \E f \in Funds : \E n \in Replies["notice"], a \in Replies["article"] : FetchFund(f, n, a)
  \/ \E f \in Funds : FailFund(f)
  \/ \E p \in Replies["query"] \cup {None} : AskQuery(p)
  \/ QueriesDone
  \/ \E p \in Replies["rss"] \cup {None}, c \in Matches : ReadFeed(p, c)
  \/ \E p \in Replies["regulatory"] \cup {None} : ReadRegulator(p)
  \/ StartSearch
  \/ \E p \in Replies["search"], c \in SUBSET Cited : SearchAnswer(p, c)
  \/ SearchFails \/ NoSearch \/ BadCutoff \/ Filter \/ StartBatch
  \/ \E r \in BoundedSeq(1 .. BatchSize, BatchSize) : IsInjective(r) /\ ToSet(r) \subseteq DOMAIN batch /\ Label(r)
  \/ LabelByRule \/ LabelRest \/ Classified
  \/ \E k \in CookieFiles, b \in Browsers, ok \in BOOLEAN, p \in Replies["social"] \cup {{}} : AskSocial(k, b, ok, p)
  \/ Write

ModelStep ==
  /\ CallStep
  /\ UNCHANGED <<run, pending, asked, items, batch, circuit, tool, cookie, file, history>>

NewsNext == RunStep \/ ModelStep \/ Tick

\* The run takes its steps, and every request has a timeout.
NewsSpec == NewsInit /\ [][NewsNext]_newsVars /\ WF_newsVars(RunStep) /\ WF_newsVars(ModelStep)

(***************************************************************************)
(* Properties.                                                              *)
(***************************************************************************)
NewsTypeOK ==
  /\ phase \in Phases /\ now \in 0 .. LastMoment /\ pending \subseteq Funds
  /\ asked \in 0 .. Len(UsedQueries) /\ tool \in DOMAIN SearchTools
  /\ \A i \in items : i.code \in Funds \cup {Global} /\ i.stale \in BOOLEAN
  /\ CallTypeOK
  /\ call # None => call.sent <= 2 * call.max

\* main's two filters: nothing in the file was published after the report date
\* or after the decision's cutoff, whichever source it came from and whenever it was added.
NothingLater ==
  file # None => \A i \in file.items : i.at <= ReportEnd /\ i.at <= cutoff

\* In time, and not dropped by its own source for a version that is not: the
\* queries and the web search keep the newest of theirs before the cutoff counts.
Offered(j) ==
  /\ InTime(j)
  /\ j.source \in {"query", "search"} =>
       \A k \in fetched : k.source = j.source /\ Key(k) = Key(j) => InTime(k)

\* dedupe_news_items: apart from the social posts, a fund has a page once, in
\* the newest version that any source offers in time.
NewestVersionOnce ==
  file # None =>
    \A i \in {x \in file.items : x.source # "social"} :
      /\ \A j \in file.items : j.source # "social" /\ Key(j) = Key(i) => j = i
      /\ \A j \in fetched : j.source # "social" /\ Key(j) = Key(i) /\ Offered(j) => j.at <= i.at

\* classify_news_with_llm: every page is labelled, either by rule or by what
\* the model said of this very page and not of another of its batch.
LabelsAreOwn ==
  file # None =>
    \A i \in {x \in file.items : x.source # "social"} :
      i.label # None /\ (i.label.by = "model" => i.label.of = Key(i))

\* fetch_openai_web_search_news: a page of the web search is in the file only
\* if the answer that named it, and no other answer, cited it.
SearchIsCited ==
  file # None => \A i \in file.items : i.source = "search" => i.url \in cited

\* The web search and the classifier each stop at their first refusal for
\* good: neither another tool nor another batch is tried after it.
RefusedOnce == refused["object"] <= 1 /\ refused["text"] <= 1

\* call_json_agent: the answer of a call for an object has every required
\* field, also when it was pieced together from a stream that broke.
AnswersFit ==
  call # None /\ Answered /\ call.kind = "object" => call.outcome.text = "fits"

\* main's placeholder: a fund whose pages failed is in the file as such, if it
\* failed before the cutoff and on the report date; otherwise nothing tells.
FailureShows ==
  file # None =>
    \A x \in failed : x.at <= ReportEnd /\ x.at <= cutoff =>
      \E i \in file.items : i.source = "placeholder" /\ i.code = x.fund

\* resolve_cookie_with_auto_sync: a cookie that the site accepts is never
\* replaced by one from a browser.
WorkingCookieStays ==
  cookie # None /\ cookie.was = "good" /\ cookie.answered => cookie.sent = "good" /\ cookie.file = "good"

\* main: a run ends, whatever the sources and the model do, because every request ends.
RunEnds == <>(phase \in {"done", "exited"})

\* What is written of the day's news: the invariants above of the file.
NewsIsSound == /\ NewsTypeOK /\ NothingLater /\ NewestVersionOnce
               /\ LabelsAreOwn /\ SearchIsCited /\ FailureShows

\* What is asked of the model and of the sites: those of the requests.
RequestsAreSound == RefusedOnce /\ AnswersFit /\ WorkingCookieStays
===============================================================================
