# A TLA+ model of okra_assistant

okra_assistant is a local-first workbench for fund research: Python scripts fetch quotes and news, build a context, let language models debate it, turn the result into advice, and keep the books of the real portfolio; a web API and a desktop shell start the scripts and show their files. All of its state is files on one machine, written by several processes and threads that share no memory. What is hard about it is therefore not in any one script but between them: which process may work when, what a file is worth after somebody died while writing the next one, and what a retry does to work that was already done. That is what this project models.

- [The system](#the-system): its parts, their state and what makes each of them correct.
- [The modules](#the-modules): which module models which part, and how.
- [The runs](#the-runs): what TLC checks, within which bounds, under which fairness.
- [The proofs](#the-proofs): what TLAPS proves, from which assumptions, by which invariant.
- [What the model shows](#what-the-model-shows-about-the-code): disagreements with the code's own documents and tests, and limits of the code that the properties name.
- [Plan](#plan): what is not modelled, and in which order it will be.

`PROJECT.json` maps every definition to its lines of the source, lists the hazards of the code at the line where they bite, and names for every property a mutation of the code that it detects. Paths below are relative to the repository.

## The system

### Parts

| Part | Code | State it keeps | Operations | Model |
|---|---|---|---|---|
| Execution ledger and settlement | `scripts/execution_sync.py`, `update_portfolio_from_trade.py`, `trade_lifecycle.py` | `db/execution_sync/` (trades, pending list, journals, settlement events), `db/execution_status/` | record a trade or a conversion, the daily update, the settlement of one trade | Settlement, ExecutionLedger, ApplyTrade |
| Advisory lock | `scripts/common.py` 530-565 | `db/locks/*.lock` | acquire, wait, break a stale lock, release | FileLock, Mutex |
| Portfolio state | `scripts/portfolio_state.py`, `execution_sync.py`, `revalue_portfolio_official_nav.py`, `sync_portfolio_units.py` | `db/portfolio_state/current.json`, previews and results of reconciliations | settle, revalue, synchronise units; preview, register a fund, apply | PortfolioState |
| Today route | `scripts/today_orchestrator.py`, `run_today_analysis.py`, `app/web_api_services.py` | lease, guard, runtime, meta, cycle and decision file of a date | run, refuse, reuse, fail, backfill; page request, POST `/api/run/daily`, its poll thread | TodayRun |
| Daily pipeline | `scripts/run_daily_pipeline.py` and the scripts it starts | the dated files under `db/`, the run manifest | a run of its stages, skip, start, fail, resume | Pipeline, DailyPipeline |
| Other writers of the portfolio | `update_portfolio_from_trade.py`, `revalue_portfolio_official_nav.py`, `sync_portfolio_units.py`, `rebuild_portfolio_state.py`, `sync_portfolio_from_screenshots.py`, `fund_registry.py` | value, units, their source and the daily profit of each fund; dated snapshots | trade, revalue, derive units, sync from screenshots, rebuild | Positions |
| Advice chain | `run_promoted_advice_chain.py`, `build_layered_seed.py`, `build_action_ticket_shadow.py`, `build_layered_retrieval_pack.py`, `action_debate_graph.py`, `build_official_advice_compat_preview.py` | tickets, packs, debate, official and validated advice of a date | build, debate, preview, publish, validate | Tickets, AdviceChain (one step of DailyPipeline) |
| Guardrails | `promoted_advice_guardrails.py`, `portfolio_optimizer.py`, `portfolio_exposure.py`, `trade_constraints.py` | – | budgets, locks, limits, the choice of the best combination | Guardrails, Sizing |
| Decisions and reviews | `decision_ledger.py`, `update_decision_outcomes.py`, `review_advice.py`, `evaluate_action_ticket_outcomes.py`, `app/shadow_review_service.py` | daily and latest decisions, their ledger and outcomes | write, update outcomes, review, compare on a page | AdviceChain, ReviewView, Reviews, Outcomes |
| Long-term memory | `long_memory_store.py`, `run_long_memory_analysis.py` | a SQLite store, a search index, six mirror files | upsert, approve, reject, archive, demote | LongMemory (its script is a step of TodayRun) |
| Retrieval | `rag_ingest.py`, `rag_index_store.py`, `rag_retriever.py`, `rag_maintenance.py`, `rag_sources.py` | documents, chunks, manifests of scopes | ingest, purge, query | RagIndex (an optional step of DailyPipeline) |
| Learning ledger and replay | `learning_memory.py`, `run_learning_cycle.py`, `run_replay_experiment.py`, `replay_trust.py` | rules with counts and stages, the view of them, reports | a night, a replay | LearningLedger, ReplayTrust |
| Policies and skills | `update_adaptive_policies.py`, `run_skill_curator.py`, `audit_learning_trust.py`, `build_strategy_skill_pack.py` | outcome artifact, policy events, policy store, skill registry, audit, pack | one command each | Lineage |
| Fetchers | `fetch_fund_news.py`, `fetch_fund_quotes.py`, `fetch_realtime_estimate.py`, `fetch_intraday_proxies.py`, `provider_adapters.py`, `multiagent_utils.py` | the dated market files | fetch, fall back, label, copy an earlier date; call the model | News, Feeds, ModelCall |
| Context and reports | `build_llm_context.py`, `build_realtime_profit.py`, `build_*_report.py` | the dated files | pure functions from files to files | what they read and write, in DailyPipeline; what they take for fresh, in Feeds |
| Web API, desktop shell, frontend | `app/`, `frontend/` | – | present files, start scripts | the requests that touch the run of a date, in TodayRun; one page, in ReviewView |
| Retention, migration, deployment, audit tools | `cleanup_retention.py`, `deploy/`, `audit_*.py` | – | run by hand or by timers | – |

### How the parts interact

The web API is a `ThreadingHTTPServer`: every request runs in a thread of its own, and a thread that starts the daily run spawns a process. That process (`run_today_analysis.py`) takes the lease of the date, starts the pipeline as a child, then the memory script as another, and tells the workbench how far it is through `today_analysis_runtime.json`. The pipeline starts one process per script, up to three at once. The daily update of the ledger runs as a step of the today route and, on request, in a thread of the web API; recordings and reconciliations run in threads; timers of the server start the pipeline directly. Everything meets in files. Three kinds of lock exist: `file_lock` (ledger and portfolio), the lease with its `flock` guard (a date), and `run_lock` (threads of one web server). A JSON file is replaced by a rename and never seen half-written, but reports are written in place and no operation writes only one file.

### What is hard, and what correct means

| Part | Hard behaviour | Correct means |
|---|---|---|
| Ledger | five to eight files per settlement, with a failure or a death possible between any two; a client's retry of a request that half succeeded; two processes updating | a trade moves the portfolio at most once, whole, not before its date; a file that claims a settlement is right; a waiting trade is settled or says why not |
| Lock | the age of a file, its unlink and its creation are separate system calls | bodies do not overlap; an abandoned file does not block for ever |
| Portfolio | positions come from settlements and from screenshots; a preview is applied long after it was made; a revaluation reads, computes and writes | a settled trade is in the positions exactly once; what is replaced is what the user saw |
| Today route | two processes and several threads decide by files that each writes at its own time; pids are reused, children become zombies | one runner per date; a result that is announced exists and stays; a refusal has a reason; a dead run is neither shown as running nor in the way |
| Pipeline | parallel scripts, partial failure, sources that change during a run, resumption by modification times, made-up and live data under the same names | a run that ends well vouches for current files; live runs end with live advice; work is reused when nothing changed, and only completed work |
| Positions | four sources of units and values, each trusting what another wrote; repeated revaluations of one NAV date | units are those of the trades; a day's profit is that of the units held over it; a sync ends with what the screen shows |
| Advice chain | minutes of model calls between reading and writing; other writers of the same date; reruns, failures, deaths | advice, packs and debate belong to one set of tickets; what a ticket blocks is held; decisions, ledger and outcomes agree |
| Guardrails | budgets of different totals, orders that are still on their way, a search over combinations | no limit is passed by the day's trades together; the best of what may be done is done |
| Memory and retrieval | three stores per record, decisions of the user against derived records; four transactions per bundle | a rule is in force as long as the user wants; a query is served what the source has, and nothing written later |
| Learning | programs that read, work for minutes and write the whole file; reruns; four commands in any order | a review or a replay counts once; only certified days teach; what is active, a user approved |
| Fetchers | sources that fail one by one, copies of copies, streams that break | the newest version in time, once, with its own label; a copy says of when it is; a run ends |

## The modules

```
ApplyTrade <--- ExecutionLedger <==refines== Settlement <--- MCSettlement, MoneyProofs (with Positions and Sizing)
                                                 |  two locks, each assumed to be
                                                 v
                              Mutex  <==refines== FileLock <---+
PortfolioState  (a locked section of Settlement is one step here)  <---+--- PortfolioStateProofs
Positions       (an operation of PortfolioState is one step here)
        both <--- MCPortfolio
TodayRun        (the pipeline is one step here)  <--- MCTodayRun, TodayRunProofs
Pipeline <--- DailyPipeline <--- MCDailyPipeline
        ^---- PipelineProofs
Tickets <--- AdviceChain <--- ReviewView <---+--- MCAdviceChain, AdviceChainProofs
                  Guardrails <--- Sizing <---+
LongMemory <--- RagIndex <--- MCKnowledge, LongMemoryProofs
Reviews <--- LearningLedger <---+     ReplayTrust is used by both
Outcomes <--- Lineage <---------+--- Learning <--- MCLearning, LearningProofs
ModelCall <--- News <---+
               Feeds <--+--- MCFetchers, FetchersProofs
```

**ApplyTrade** is `apply_trade` with the conversion of two legs: which funds a settled trade changes by how much and when it is refused. Values are whole cents; fees, units and rounding are left out.

**ExecutionLedger** is the promise: a trade is unknown, recorded, settled, in this order, and settling it is one atomic change of the values.

**Settlement** is the code that has to keep it. Its state is the seven kinds of file named at its head, the two lock files, and of every process the program counter and locals (`cur`, `entries`, `todo`, `asOf`, `loaded`) that survive from one file access to the next. `Record*` is `record_actual_trade` and `record_conversion`; `Update*` is `update_pending_confirmations`, which works on a copy of the pending list and writes it back at the end; `Apply*` is `apply_settled_trade_to_portfolio` with its journal, one action per file written. `ApplyFault` is an exception inside the settlement (caught, noted on the entry), `OperationFault` one outside of it (propagated), `Crash` the death of a process, which leaves its locks as orphans until `BreakSyncLock`, `BreakStateLock`. The refinement reads the ledger's phase off `current.json` and the trade files. Two trades may have the same `key`, the name of their journal and settlement event (`settlement_event_path`, `common.py` 841, maps three characters to one), or the same `stateKey`, that of their portfolio event (`_safe_event_token`, `portfolio_state.py` 103, maps all but letters, digits, `-` and `_`): then the code takes the one for the other (`Confused`), and what a file says of a trade may be true of the other only (`Accounted`).

**Mutex** is what Settlement assumes of a lock: one owner, and orphans that stand until somebody breaks them. **FileLock** is `file_lock`, one action per system call (`Create`, `Stat`, `Unlink`, `Close`, `Release`), with `Age` for the passing of `stale_seconds`; `CanUnlinkOpen` tells POSIX from Windows. That it implements Mutex is what composes it with Settlement: Settlement's `syncLock` and `stateLock` take the steps of Mutex's `owner`.

**PortfolioState** follows `current.json` through all of its operations. A section under the `portfolio_state` lock is one step, since Settlement shows what happens inside it and Mutex that sections do not overlap; `Settle` and `SettleDies` are its two outcomes. What the operations read *before* they take the lock is a step of its own, kept in `op`: `Load`/`Save` of a revaluation, `ApplyCheck`/`ApplyWrite`/`ApplyStore` of a reconciliation, `RegisterCheck`/`RegisterStore`. Any number of processes do so at once. Positions are described by how often they contain each trade, which is what double counting is about. Three ghosts name what the code does not keep: `missed`, the trades that entered the portfolio after an operation had read it; `lost`, those missed by an operation that then wrote; `early`, those that an applied screenshot showed before they were settled.

**Positions** is about what a position says: value, units, where the units come from (`Sources`), and the profit of a day. `SettleTrade` is `apply_trade`, which asks for units before and after it moves the value (`ValueMoved`), with its snapshot under the settlement's date, `Revalue` the revaluation by official NAV with its decision whether the profit of that NAV date may be written (`OfficialPnl`), `SyncUnits` what a realtime run derives, `PreviewSync` and `ApplySync` the import of a screenshot with its fuzzy matching of names (`Match`) and its registration of unknown funds, `Rebuild` the replay of the journal onto the latest snapshot. Beside the files it keeps what the program does not know: the units really held (`UnitsHeld`) and the funds whose units nothing but trades has written (`clean`).

**TodayRun** is one report date. A run process goes through `Check` (the runtime), `Enter`, `Inspect`, `Create`, `Fill` (the lease, inside the guard) and the body `Begin`, `Reuse` or `Proceed`, `Pipeline`, `WriteMeta`, `Memory`, `WriteCycle`, `Decide`, `Finish`, `Release`, with `Fail` for an exception and `Crash` for a kill anywhere. `Look` and `WriteAborted` are the two halves of `ensure_runtime_not_stale`, which processes, page requests and the poll thread all run. `recycled`, `zombies` and `orphans` are what `process_exists` can be wrong about: a pid handed out again, a child nobody waited for, a memory script that outlives its parent. `cut` remembers that the last run after the close ended between its meta and its decision, by an exception or a death.

**Pipeline** is the engine of `run_daily_pipeline.py` for any table of steps: declared inputs and outputs (`PipelineStep`), and beside them what a script really reads when it starts and writes one after the other. Modification times are abstracted to what `is_fresh` asks of them: `newer[s]` is the set of outputs of `s` that are newer than all of its existing inputs. To say what a resumed run is worth, the model also keeps what the program does not know: which files lag behind which (`lag`), which did so already when they were written because the source changed while the script was running (`raced`), which belong to a script that stopped between two writes (`cut`), and which are made up (`synthetic`). **DailyPipeline** gives the table: a row for each of the scripts, translated from `STEP_OUTPUT_CHECKS` on the one hand and from the script on the other, and the stages of `run_intraday` and `run_nightly`; `Unwatched` names what a script reads that no declaration leads to.

**Tickets** is what the advice chain computes, without its files: the seeds of a portfolio and its scored funds (`SeedVerb`, `SeedAmount`; the action of a scored item goes before its score), tickets with their statuses and blocks, the verdict of a debate, the verb and amount the preview makes of it, and what validation leaves of that, in steps of `MinTrade` or all of it (`Normalized`). **AdviceChain** puts the files around it, for processes that write the same date: `Start`, `BuildTickets`, `BuildPacks`, `OpenDebate`/`CloseDebate`, `Publish`, `Validate`, `WriteDecisions`, `AppendLedger` are the chain's steps in their order; the ticket script and the debate script run the same steps alone; `StartUpdate`, `ReadDaily`, `DumpDaily`, `LogOutcomes`, `ShowOutcomes` are the outcome update. Portfolio, scores and memory change in between (`Settle`, `Revalue`, `Score`, `Remember`). A file is its content, so `advice[d].ticket` is the very set of tickets that the hash in the file names; that is what `AdviceIsCoherent` compares. **ReviewView** is the page that matches validated actions with tickets (`Rows`) and the replay of a validated advice through tickets and preview.

**Guardrails** is arithmetic: an input is a portfolio, the recorded trades, what the committee wants, the gates of its bundle and the limits in force; `Candidates`, `Combinations`, `Feasible`, `TotalScore`, `Best` are `promoted_advice_guardrails.py` and `portfolio_optimizer.py` down to their rounding. **Sizing** makes days of it: `Advise`, `Follow` or `Ignore`, `EndDay`, so that the trades of one day lock, delay or fund those of the next.

**LongMemory** is the record table with its transactions (`Commit`), the index in a second database (`SyncIndex`) and the mirrors (`ReadForMirrors`, `WriteMirrors`), for several writers that read before they commit (`StartUpsert`, `StartDecision`) and may die or fail anywhere. A builder (`StartBuild`, `Derive`, `DumpItems`) writes a record for each item it derives, one after the other, and at its end its list of them over the mirror of its domain: `themes` is that mirror, `regime_memory.json` or `rules.json`. `decisions` is what the user said last of each record, which the program keeps only as a status. **RagIndex** adds the retrieval index: an ingest collects its sources (`StartIngest`), then writes each bundle in four transactions (`UpsertDocuments`, `UpsertChunks`, `DeactivateMissingScope`, `WriteManifest`); each of them, and each query, first opens the store, which completes the active manifests (`Opened`): one without chunks gets the active documents of its kind and day, a context's without evidence the active evidence of its day. `Served` is what the hard filters let a query of a day see, `fresh` the scopes whose ingest came to its end and whose source has not changed since.

**Reviews** is the review of an advice by the returns that followed. **LearningLedger** is the night that runs the due reviews (`ReviewDue`), counts them (`Sync`) and writes ledger, view and report one after the other, and the replay that asks the trust manifest, computes what today's rules would have done, and writes the same ledger and view. **ReplayTrust** is the manifest's judgement of a date: files as they were hashed, nothing among the decision's files that was only known later. **Outcomes** is the evaluation of one ticket against the benchmark, **Lineage** the chain of files that grows from it: `Evaluate`, `RewriteLog`, `WriteStore` (or `UpdaterDies` between them, `MaterializeOnly` later), with `CutLog` for a death while the log is rewritten in place, which leaves a first part of it (`forgotten` and `read` tell what it has lost), caps per scope (`Peers`), `Curate`, `Audit`, `BuildPack`, beside everything that changes their sources. **Learning** puts the two side by side (they share no file; `part` says which of them a behaviour shows) and states their properties.

**ModelCall** is one call of the language model: attempts, two transports, a stream that ends or breaks after any piece, and what counts as an answer. **News** is `fetch_fund_news.py`: the pool of fund pages (`FetchFund`, `FailFund`), queries, feeds, regulators, the model's web search with its two tools, the two filters and the dedup, the classifier's batches, the social site with its cookies, and the file. **Feeds** has the quotes, estimates and proxies, the chain of providers of each and the copy of an earlier date when all fail, and what a realtime profit and a retrieval pack take from them (`Mode`, `Signals`). The answer for a fund may have no numbers (`blank`): such an item is ok, and `Missing` only where something is merged.

Abstractions shared by all: contents of files are reduced to what the properties tell apart; a JSON write is atomic (`dump_json` writes beside and renames); a read is atomic; time is a day number, a bit that says "older than the limit", or an order. In DailyPipeline a script reads all of its inputs when it starts, `advice` stands for five files that the chain writes together, and the network, the code of the scripts and the configuration files that no script's declaration mentions are not files of the model. `_promoted_run_matches_request` is reduced to mock or not: the model name it compares too changes with `llm.toml`. Returns are whole percents, amounts of Guardrails whole yuan. The funds of AdviceChain are the same on every day, so the risk that a debate sees in a fund which the portfolio of the date lacks does not occur, and an estimate without its NAV is without its change as well. What the opening of the retrieval store does to rows without a scope (`rag_index_store.py` 287–318) concerns databases of an older schema only.

## The runs

Every module with CONSTANTS has an assumption (`*Assumption`) that TLC evaluates and the proofs use. Where two parts of the system share no file, one run composes them with a variable `part` that never changes: each behaviour shows one part, and the properties speak of theirs.

| Run | What it asks | Bounds |
|---|---|---|
| `Settlement_safety` | With failures anywhere: is every durable claim of a settlement true but for what a shared name hides (`ClaimsAreApplied`); does a conversion move its two legs together (`ConversionBalances`); is each change of the portfolio one due trade (`OnlySettlements`); is a suggestion credited once (`CountedOnce`); is the ledger implemented (`ImplementsLedger`)? | 2 processes, 3 trades, two of them with one portfolio event, 2 dates, 2 faults |
| `Settlement_liveness` | Is a waiting trade resolved (`EventuallyResolved`), and a settled one closed with its event (`EventuallyClosed`), and does a journal whose name two trades share stay with the first (`JournalKeepsItsTrade`)? | 2 processes, 3 trades, two of them with one key, 1 fault |
| `Settlement_replay` | Is what is recorded resolved? No. | 2 trades, 1 fault |
| `FileLock_windows` | Exclusion as the refinement of Mutex, and that an abandoned file is broken, with overlong bodies and three racing waiters. | 3 processes, 2 faults |
| `TodayRun_safety` | One runner (`OneRunner`); announced results exist (`ReadyIsReal`) and are not written off (`ResultStands`); no date without its decision is passed over (`BackfillUnlessCut`). | 2 processes, 2 requests, 2 faults, 1 recycled pid, zombies |
| `TodayRun_liveness` | Is a refusal justified, does every run end, is a dead run eventually not shown as running? | 2 processes, 1 request, 1 fault |
| `Portfolio_days` | Is a settled trade in the positions exactly once, whatever overlaps and dies (`PositionsAreReal`)? And over days: are units those of the trades (`HoldingsAreTraded`), and does every writer do exactly what it is for (`WritersAreExact`: the day's profit, the sync, the rebuild)? | 2 trades, 2 previews, 2 processes, 3 writes, 1 fault; or 3 funds, 3 days, 2 trades, the second of which buys back what the first sold, 3 saves, 1 preview, one operation at a time |
| `DailyPipeline_safety` | After a run that ended well: is everything it answers for made from the files as they are, and does a repeated run find everything done (`FinishedIsFresh`); is live advice live (`LiveAdviceIsLive`)? | 3 runs of 5 kinds, 1 change of a source, 1 fault |
| `Knowledge_index` | Which rules are in force (`MemoryIsSound`), what does a lone write, or a builder, mend of what others left (`AloneHeals`), is a query served what the sources have and nothing written later (`IndexIsSound`)? | 2 records of one key and of the builder's domain, 2 writers, 4 writes step by step; or 2 whole writes beside 2 ingests of 3 scopes, a shared piece, 1 rewrite or purge, 2 days |
| `Learning_days` | Does each review and replay count once (`LedgerCountsOnce`), was it certified, is it shown (`TaughtIsShown`)? Does a policy count what is on file and no user-less policy become active (`LineageIsSound`), and what does the audit trust (`TrustedIsSound`)? | 2 days of advice, 2 nights, 2 replays with a memory of one, 1 certificate; or 3 tickets of 2 dates, 2 policies of 2 scopes, 3 days of quotes, 2 changes from outside |
| `AdviceChain_days` | What is advised (`AdviceIsSafe`), kept (`RecordsAgree`) and shown (`ViewExplains`) of two days; what is traded (`MoneyIsBounded`) and why that (`ChoiceIsBest`)? | 2 processes, 2 funds, 2 days, 3 changes from outside, 1 outcome window; or 9 funds in 4 portfolios, 27 wishes, 4 gates, 2 strategies, 2 days |
| `Fetchers_day` | What is in the file of the news (`NewsIsSound`), what is asked of model and sites (`RequestsAreSound`), does a run end (`RunEnds`)? Can the age of a market value be told (`FeedsAreDated`), and is the best estimate kept (`BestIsKept`)? | 2 funds, 2 pages, one reply per source, 3 queries, 1 attempt of the search, batches of 2; or 2 funds, 3 dates, 3 runs of scripts, answers with and without numbers |

A name such as `AdviceIsSafe` is a conjunction of named parts that stand above it in its module, each with a comment of its own. Every listed property has a mutation of the code under which its run fails, and each conjunct was checked against a mutation of its own when it was written.

**Why the bounds are enough.** The faults are the point of most properties, so each run allows as many as it takes for a failure, a repair that fails as well, and the second repair to be seen (two where states allow it). Two processes are enough for one to be ahead of, behind, or in the way of the other; the lock has three because a broken lock takes a breaker, a waiter who also found it stale, and the new holder. The trades of Settlement are chosen so that a purchase can only be paid by the proceeds of another trade, so the order of settlement, the refusal and its retry all occur; a conversion brings the two legs. In the pipeline a hazard needs a run that leaves files, a change or a failure, and a run that resumes; three runs let a mock run come between. Its two sources are the one that the steps declare and the one that only some of them do. The days of Positions let a trade be made, confirmed and settled around a NAV date, a fund be sold out and bought again, and a fund be matched by a name like its own; the lineage has two dates because a cut log loses the events of a date that was not being learned from; two records of one key are what an approval replaces; two scopes share a piece of evidence so that one can bury what the other has. The caps of policies do not bite with two of them; the theorems have any number. A replay ledger that remembers one replay shows what 120 do. The portfolios of Sizing stand on, over and under each limit, and the hub can pay one wish but not all. In the chain, two days let an older date be written after a newer one, two symmetric processes can be a chain and whatever is beside it; deaths happen while the official files are written, where they leave something, and a mock chain is alone at work (the theorems about AdviceChain have no such bound). The pages and times of News differ so that a page comes from several sources in two versions, before and after the cutoff.

`CHECK_DEADLOCK FALSE` is set where a bounded behaviour really ends: runs, writes, days or changes are used up. `SYMMETRY` is used in safety runs only and over values that no definition tells apart (`TodayRun_safety`, `Portfolio_days`, `Knowledge_index`, `Learning_days`, `AdviceChain_days`).

**Fairness.** Settlement: a live process goes on (weak fairness of its step), stale locks are broken because waiters keep polling, and the daily update gets the lock again and again (strong fairness of beginning an update on the last date): polling promises no waiter a turn, but the daily run repeats the update every day and other requests are finitely many. FileLock: operations keep arriving and finish, and time passes; creation of the file is not promised to anybody in particular. TodayRun: processes and their children go on, the page polls, time passes; no crash, exception, kill or request to start a run is fair. News: the run goes on and the model's requests end, by an answer or by the timeout each of them has; that a source answers well is not assumed. Nothing else needs fairness: the other questions are about safety.

## The proofs

`tlapm` checks every theorem for all values of the constants that satisfy the named assumptions: any number of processes, trades, dates, files and faults.

| Module | Theorem | Meaning |
|---|---|---|
| MoneyProofs | `TypeCorrect`, `WorkingHolds`, `ClaimsHold`, `OwnNamesAreApplied`, `OnlySettlementsHold`, `LedgerImplemented`, `CountedOnceHolds`, `JournalKeepsItsTradeHolds`, `ConversionsBalance` | types; the inductive invariant; every durable claim is true, of the trade itself or of one whose names it shares, so of the trade itself where its names are its own; the portfolio changes only by whole, due, new settlements; Settlement implements ExecutionLedger; a suggestion is credited once; a journal stays with its trade; a conversion between two funds other than the hub keeps the total |
| | `HoldingsStayTraded`, `WritersStayExact` | for Positions, whose sums are those of the conversions: any funds, days, NAVs, trades, screenshots and rebuilds |
| | `MoneyStaysBounded`, `ChoiceStaysBest` | for Sizing, any portfolio, wishes, bundles and limits, over any days: the trades of a day keep every limit together; the best of what may be done is done |
| PortfolioStateProofs | `LockTypeCorrect`, `Exclusive`, `MutexImplemented` | for FileLock, on which the sections of PortfolioState rest: exclusion and the refinement of Mutex under `Guarded` |
| | `TypeCorrect`, `PositionsAreRealHolds` | for PortfolioState, any operations that overlap, die and are retried: settled trades are in the positions once, those `lost` or `early` excepted |
| TodayRunProofs | `TypeCorrect`, `OneRunnerHolds`, `ReadyIsRealHolds`, `RefusalIsJustifiedHolds`, `BackfillHolds`, `ResultStandsHolds` | the lease; announced results; refusals (without zombies and reused pids); with any faults, no date is passed over without its decision unless its last run was `cut`, and nobody writes off the run whose result is there |
| PipelineProofs | `TypeCorrect`, `LiveAdvice`, `FinishedStaysFresh` | for any table in which one step alone makes the advice: live runs end with live advice; for any table that satisfies `TableAssumption`: what a finished run vouches for is current, and the next run takes it over |
| AdviceChainProofs | `AdviceStaysSafe`, `RecordsStayAgreed` | what is advised, and what is kept of it, for any processes, funds and days and any order of the scripts |
| | `ViewStaysExplained`, `AnySidesMatch` | a page shows no "high" difference of one run's files and a replay changes nothing; alignment matches any two sides of any size |
| LongMemoryProofs | `RulesAreTheUsers`, `LoneWriteHeals`, `IndexStaysSound` | the rules in force, what a lone write mends, what the index serves, for any records, writers, scopes and days |
| LearningProofs | `CountsOnce`, `TaughtAndShown`, `PoliciesRestOnOutcomes`, `AuditTrustsTheSound` | what the ledger counts and shows, for any days, advice and replays; what policies, skills and the audit rest on, for any tickets, quotes and events and any order of the commands |
| FetchersProofs | `FeedsDated`, `FetchKeepsBest`, `NewsFileIsSound`, `RequestsSound` | the market files and the news, for any funds, replies and failures |

**Settlement.** That a settlement is due and new when it moves the portfolio is not inductive: it was decided several steps earlier. `Working` is the strengthening: `Locks` (a lock belongs to the process whose program counter is inside it, so nobody else is), `Frames` (the trade a process works on is in its list), `Filed` (a trade is on file before anything else is known of it) and `Fresh` (until it replaces the portfolio, a settlement has read the current one, which does not contain its trade, and its date has reached the trade's). `OnlySettlementsHold` and `LedgerImplemented` follow from it even where settlement files collide: a trade may then be taken for settled, but none is settled twice or by half. `ClaimsHold` adds `Knows` and `Claims`: a trade that a process takes for applied, or is filing as applied, or that a file calls settled, is `Accounted` for. `Accounted` is closed under confusion, so a claim that is read off a name another trade shares leads from one trade to an accounted one; `OwnNamesAreApplied` is the case of a trade whose names nobody shares, which is then in the portfolio itself. `CountedOnceHolds` needs that an amount is added only between the filing of a trade and the end of the same recording (`Counting`), `JournalKeepsItsTradeHolds` that a settlement past its check works on its own journal (`OwnJournal`), which the lock gives; no theorem assumes distinct names. `ConversionsBalance` asks for `ThreeFunds`, since a conversion out of the hub takes its amount twice.

**Sums.** Units and totals are sums over finite sets (`SumFunctionOnSet`), and such a sum is a function that refers to itself, on the subsets of a set. The prover knows nothing of such a function until it is shown that there is one (`FoldExists`): a subset without one, of the fewest elements, could be given one from that of a smaller subset. Minimal sets, by well-founded induction on their sizes, also give that the order of the elements is of no matter (`SumWithout`), and from this what one change of a function changes in its sum (`SumChanges`), which is what the steps of the modules need. For Sizing, sums of natural numbers grow with their values and bound their parts (`SumGrows`, `SumOfPart`).

**Positions.** `HoldingsAreTraded` and `WritersAreExact` speak of files that other days have written. `LeftSnapshot`: a settled trade was due and left a snapshot of the date it was due on. `Saved`: the newest snapshot has the profits of the current portfolio, and while each trade was settled on the day it was due it is the current portfolio; so a rebuild from it, with no trade after it, changes nothing. `Previewed`: while nothing else was saved, a preview lists what the portfolio lacks and has too much, and if every fund read was known each row has its own fund, because an equal name scores best (`MatchIs`). That a profit is of the units held over its NAV date needs no trust in `src`: the sum of the settled trades up to that date is the sum of those held, when none is pending and none was made since the NAV before. The replay of the journal is a function on the numbers of trades and treated like a sum (`ReplayExists`). `UnsetAssumption` says that the value for "no snapshot" is no portfolio; it and `PositionsAssumption` are evaluated by TLC.

**Sizing.** An advice is computed in one step from what is on file, so the invariant is short. `SizingInv`: the portfolio is one, no order is of a later day, and (`Advised`) the actions of the day are `Validated` of an input that agrees with the files; what remains are theorems about the arithmetic. The search through the combinations is a fold, shown to exist like a sum (`SearchExists`); the order in which the code meets the combinations is total and transitive (`PartsTotal`, `PartsTransitive`), so what a fold keeps does not depend on its own order, and `Found` says of every set of combinations what that is: nothing, where nothing that is feasible scores above 0, or the first of the best. For the budgets (`ChosenBudgets`, `CashIs`, `DelayedIs`, `ChosenSells`), what is left after the scheduled buys is cut off at 0, and the tactical buys are positive: if there is one, nothing was cut. For concentration, the code compares before and after only where something rises; a value rises only by a purchase in it (`ValueRises`, `VolatileRises`, `Top3Rises`), and these are the cases that `Feasible` looks at (`SpreadHolds`). The assumptions are about portfolios: there is one cash hub (`sync_portfolio_from_screenshots.py` 371 makes a new fund the hub only where there is none), a fixed plan has a daily amount (`config_mutations.py` 142, `sync_portfolio_from_screenshots.py` 404), amounts are whole yuan.

**FileLock.** `Held` = `TypeOK`, `HolderKeepsFile` (the file of a process in its body is there, its own and open), `Orderly` (without the protection of the platform: a file in use is young, and a breaker's file is the old one it looked at) and `OneBreaker`. `Guarded` is needed: an open file cannot be unlinked (Windows), or bodies are shorter than `stale_seconds` *and* waiters break one at a time (POSIX). The lemmas `OwnerByFile` and `OwnerByFileNext` replace the CHOOSE in `Owner` by the creator of the file; the refinement then follows action by action.

**PortfolioState.** No order of the operations is assumed. `Counted` says of a trade that is neither lost nor early (`Kept`) that the positions contain it exactly if the metadata names it (`Once`), and that whatever says "settled" is right. Why an operation's write keeps that is a fact about what it read, perhaps long before: `Loaded` says that what a revaluation has read contains exactly the trades of its metadata and that each trade counted since is in its `missed`; `Shots`, that a screenshot shows no trade but those of the portfolio it is compared with, or that its registration has missed; `Compared`, that each trade the file counts is in the screenshot an operation works on, or missed by the registration or by the operation itself. The write moves what was missed to `lost`, and what a screenshot shows beyond the counted trades is moved to `early`. `Executed` says that no trade gets anywhere before it is executed.

**TodayRun.** `Admitted`: the guard is held from the inspection of the lease to its writing, and the lease names the process in the body. `Reported`: no result is announced between the choice of what to do and the end, and when it is, the decision of this run is on disk. `Shown`: who is shown as running or has the lease works on the date or has died. `RefusalIsJustifiedHolds` assumes `~Zombies` and `MaxRecycled = 0`, which give `Alive`: a process that seems to exist does. The other two hold whatever fails or dies. `Decided` follows the dates' files: where the meta says after the close and the cycle is done, the decision is of after the close, or the run between the two is still at work (`Deciding`), or it was cut short. `Judged` is about the window between a judgement and its write: whoever is about to write a runtime back has judged it after a fault, the run it names is over, and the result of that run is not announced; a run that is over stays so. `Calm` says that before the first fault whoever is shown as running is at work, which is why nobody is judged dead before. So a late abort can hit an announced result only after a fault, and never the result of the run it was meant for, which was not announced when it was read.

**Pipeline.** `LiveAdviceIsLive` speaks of the last moment of a run and depends on all earlier ones. The invariant says of the files of the chain: they are cut together or not at all (`Whole`); if not, they are all made up or none is, unless the chain is just writing them (`Uniform`), and what it has written so far is as the run asked (`Partly`). So the status file vouches for all of them, which is what a skipped chain relies on (`Chosen`); `Passed` and `Inside` carry this from the stage of the chain to the end of the run, and `Kept` beyond it. The assumptions on the table (`MockAssumption`) hold of DailyPipeline, where TLC evaluates them.

`FinishedStaysFresh` is about what modification times can tell. `TableAssumption` is what the table of a pipeline has to be for them to tell enough, and the real one satisfies it: every file has one maker, which can be resumed and writes what it declares; a script that changes its own inputs does so first; no plan leads back to the inputs of a step that is over; and whoever changes a file that a step reads and watches, it is `Foreseen`: the file is declared (`Heeded`, also by a step ahead whose declared output the step waits for), or its writer changes something declared before it (`Announced`: the context comes before the source health, the validated advice before the changes beside it), or runs for a reason the step has as well (`Shared`: the index of the context for the chain, the evaluation for the reports), or never runs without a step before it that makes this one stale (`Preceded`: a night that makes the memory view of the portfolio report revalues the portfolio first). A declaration of the context without the portfolio, or a step that reads what nobody declares, violates the assumption, or has to be named in `Unwatched`. The invariant then relates files that are late to modification times: `Noticed` says that a late file is marked by an output older than an input, or waits for a file of a step ahead that will be made again, at every moment and so for the runs to come; `SharedHolds` and `DueHolds` carry the indirect reasons, `There` says that a step which was over once left all of its files or was cut short, `Renewed` that a step that is over stays fresh until something changes from outside. From these follows `Current`, what is over or written in a calm run is not late, and with it `Vouched` at the end and `Repeats` for the run that repeats it.

**AdviceChain.** The properties compare files that different processes wrote at different times. `Shapes` says what each file and each process holds: what a chain carries from one step to the next is of the ticket file it read, or its contract check stops it, and the official advice is the preview of the tickets, the pack and the debate it names (`AdviceOK`). `Debated` bounds what a debate knows by the moment its chain started. For the records, `DateOK` follows a date on which writers neither met nor died: it has one writer at most, and between two of its steps decisions, latest, ledger and outcomes agree but for what that writer has still to write (`At`). Everything else that happens, another date's writer, the outcome update, a settlement, is shown to leave a date alone (`OtherDate`). The maxima over dates need well-founded induction on the naturals, nothing else.

For the pages, tickets and advice are compared long after they were made. `Traced` says where they are from: tickets and validated actions that carry the time of one start are of one chain (`Late`, `Fresh`: nobody has a time that is still to come, and no two chains have one), and then each action follows from the ticket of its fund (`Follows`, `Based`). The alignment is a set of pairs made in passes over the keys; `Lined` is what a pass keeps: a key is of the fund of its entry and of no second entry of its side. That gives `AnySidesMatch`, which speaks of any two sides and is not about the reachable ones; `RowIsOnly` and `OnlyOnesShare` turn it into one row for each fund. `KeysAssumption` says that the words in front of the keys are no fund codes and that `None` is no entry.

**LongMemory and RagIndex.** A writer works on what it read before its transaction. `Formed` is what is true of any writer's job, however stale; `Fits` and `Holds` what is true of the job of a writer that has met nobody (`alone`): what it will commit fits the table as it is, what it committed is still there and in the index but for what it has still to do. `OneRulePerKey` and `OnlyTheUserPromotes` are exempt where writers met on a key (`raced`), which the code cannot rule out. `IndexInv` adds the retrieval: `Aged` (a record's text is no newer than its date, its date not later than today), `Placed` (documents are of a scope of their kind), `Older` (the text of a chunk is no newer than the record, than what an ingest has still to write, or than the date its document claims), `Underway` (how far the ingest is with the bundle at hand) and `Agrees` (the documents and chunks of a fresh scope are its source). The induction is over four transactions per bundle, any of which may be the last. Opening the store only adds documents to active manifests (`OpenedGrows`, `ManifestsGrow`), and what it adds to a query is active already, so that a fresh scope, whose active documents are its source, is served as before. A builder adds to `Holds` what it has written so far: all of it is indexed, and its records are as it proposed them but for those that were approved. The assumptions say that no piece is a record, no date is called `memory`, and an ingest has a plan.

**Learning.** A night and a replay each read the ledger, compute, and write all of it. `NightShape` and `ReplayShape` say what a program carries in each phase, and the invariant speaks of the ledgers in its hands as of the one on file. `LedgerOK` (a count is what its label records; a replay is counted once and rests on certified days; a stage is that of the counts) and `Unseen` (nothing is counted before it is due) hold of all of them, however stale. What is counted needs more: `NightAsks` (the night has asked for every review that is due today), `NightCounts` (its ledger is the one it read, with these added once), `ReplayHolds` (a replay changes no count of a review), and `CountsHold`, which puts them together on disk: where no program wrote over another (`raced`), the days with a report are counted once, and so is the day whose night has written the ledger and not yet the report. `odd` are the days of which `NightCountsOnce` asks nothing: repeated, interrupted in between, or with advice written under the night. `ReplayReads` follows what a replay was certified to see until it looks, `ViewHolds` which of several writers left the view. Days and horizons are finite and 1 is a day; `None` is no record.

The lineage is a chain of files, each saying by name what it was made from, and any command may run at any time. `ArtifactsOK` numbers the artifacts; `EventsAgree` says that an event which names the artifact on file says what its outcome says, `ReadAgrees` that a date whose artifact was learned from, and whose events no cut of the log has touched since, has exactly the events derived from it, under the policies that its tickets then had. `StoreOK` ties counts, sources and status of a policy, and an active one to its approval. From the same invariant follows what the audit's `trusted` means, since a set of events is trusted only if each of them is. Tickets are finite, and `Absent` is no event.

**Fetchers.** `FeedsInv` says of each file by its kind when its items were fetched and what they claim (`Quoted`, `Estimated`); that a copy is of an earlier file is used with well-founded induction on the dates. For the news, `Gathered` and `Settled` are the halves of the argument, before and after the filter: no source loses the newest version it had, the filter drops what is late, the dedup keeps the newest of what is left, and labels change nothing else of an item. `Control` and `CallInv` count refusals and attempts. That `UsedQueries` is a sequence is an assumption (`RepliesAssumption`, which TLC evaluates), because it is a fold.

**Only model-checked.** Liveness (`EventuallyResolved`, `EventuallyClosed`, `AbandonedIsBroken`, `EveryRunEnds`, `DeadRunIsShown`, `RunEnds`), since the prover has no proof rules for fairness; every other property of a passing run is the conclusion of a theorem. No module declares a recursive operator, and no proof needs induction over data.

## What the model shows about the code

One run ends in a violation of what the repository says of itself; `PROJECT.json` quotes the lines. `Settlement_replay`: a failure between the trade file and the pending list (`execution_sync.py` 431, 437) leaves a trade that the retry takes for done and that no update settles.

Other limits of the code. The properties state them as conditions or exemptions, so that what is left is what the code does keep.

Ledger, lock and portfolio:

- A conversion out of the cash hub takes the amount out of the hub twice (`execution_sync.py` 1121): `ConversionBalances` is asked of conversions between other funds (`ThreeFunds`).
- A trade seen in an applied screenshot before it settles is counted again by its settlement (`execution_sync.py` 1092): the exemption `early` in `PositionsAreReal`.
- Where two ids have one settlement file name, the second trade is refused while the journal is the other's and taken for settled once its event exists. Where they only share the portfolio event, like `t.1` and `t_1` of one date, the second is closed as settled without ever being applied (`execution_sync.py` 296). `ClaimsAreApplied` asks of such trades that one of them is in the portfolio.
- `file_lock` on POSIX excludes only while bodies are shorter than `stale_seconds` and no two waiters break a lock at the same moment. If `os.write` fails in `common.py` 544 the descriptor and the file stay; on Windows nobody can remove the file until that process ends.
- A settlement can be lost from the positions: revaluation and unit synchronisation write back all of the portfolio they read, `apply_saved_reconciliation` compares (679) before it takes the lock (721), and a fund registration dates an old screenshot anew. That is the exemption `lost`.
- A fund that was sold out (no units, no value, a NAV on file) and is bought again gets the units of the purchase twice: `ensure_units` derives them from the raised value (`update_portfolio_from_trade.py` 117) before they are added (120). The fund is not `clean` from then on.
- A realtime run derives units for any fund no screenshot ever showed (`run_realtime_monitor.py` 79), and one trade turns derived units into trusted ones; a sale of more units than are on file leaves none (`update_portfolio_from_trade.py` 137): `clean` keeps such funds out of `UnitsAreTraded`.
- A profit that was blocked is called `already_written`, without an amount, by a second revaluation of the same NAV date (`revalue_portfolio_official_nav.py` 138, 203).
- A trade moves the cash hub's units by the traded fund's units and NAV (`update_portfolio_from_trade.py` 113, 118, 148); units and amounts are rounded separately.
- A rebuild skips trades dated on or before its snapshot, applies waiting ones early and loses a settlement that was dated back (`portfolio_state.py` 323). Two rows of a screenshot matched to one fund: the last wins; a preview applied after a trade undoes it; a fund is registered before the portfolio is saved, so a failure registers it without a position.

Runs of a date:

- A run that ends, by a death or an exception, after its meta and before its decision leaves a date that the backfill takes for complete as soon as the cycle file is there (`today_orchestrator.py` 595), be it an earlier run's: the exemption `cut` of `BackfillUnlessCut`.
- A daily run started by the web API and killed stays a zombie until the web server starts another child, because the handle of the process is dropped; until then `process_exists` says it lives and every run of the date is refused.
- After a death, a page request that has read the dead run's runtime can write it back as aborted over the result of the run that came next (`today_orchestrator.py` 143): the last case of `ResultStands`.
- POST `/api/run/daily` looks at the runtime and not at the lease, so it may accept a request (README.md 95 promises 409) whose process then stops at the lease.
- The scheduled pipeline (`okra-daily.service`, by `run_report_window.py`) shares a lock with the realtime service and none with the today route, so two pipelines can work on one date.
- A script killed between two of its files is taken for completed (`run_daily_pipeline.py` 64): the source health of an earlier run, half a report, or mock advice under the status of an earlier live run are then kept, although `tests/test_pipeline_logic.py` 186 wants the last two apart. That is the exemption `cut`.
- `FinishedIsCurrent` names what a resumed run cannot see: `Unwatched`, the inputs that no declaration mentions, and `raced`, sources that changed while their reader was running. Quotes, news and proxies of a `--demo` run are reused by a live `--resume-existing` run.

Advice:

- Native tickets are never blocked, so the risk veto of the preview meets a blocked ticket only if another process rebuilds the tickets between the ticket and the pack step.
- A debate changes the confidence of a ticket and nothing else; one by the model can revive a ticket that is blocked without a blocking guardrail. `compact_llm_items` sends 20 items although all ids are required, so larger batches cannot answer in full.
- A debate or pack of older tickets with the same ids is shown beside newer ones; a page's "high" difference is never of files of one run (`ChangesAreExplained`).
- A rerun resets the outcomes of a date to pending; the updater writes over decisions that were published while it worked; `append_decision_ledger` takes the ids of outcome events for known decisions (`decision_ledger.py` 173–193), which is the exemption in `LedgerHoldsDay`.
- Advice of a weekend scores a return of 0 as ready. Tickets of a date are built from its snapshot, validation reads the current portfolio for any date.
- Where all of a fund is locked, `or current_value` lets all of it be sold (`promoted_advice_guardrails.py` 170). Canceled buys lock too. Scheduled buys are not taken off the hub's cash for the tactical ones (387–392), and are bought in spite of a veto. Of several hubs the last counts. Any proceeds on their way block all sales. Only the short-term bucket is held to its band.

Memory, index and learning:

- Two decisions on rivalling rules can both become permanent: the look-up is outside of the transaction (`long_memory_store.py` 456).
- A failure after a commit leaves the mirrors behind until the next write, and the index until the next write of the same record (`AloneHeals` says that these mend them).
- A builder overwrites `market/regime_memory.json` or `execution/rules.json` by what it proposed (`long_memory_store.py` 791, 897): until the next write of any record the file shows approved records as candidates, and none of the domain that it did not derive.
- Opening the retrieval store adds active evidence of the day to the manifest of a context that has none, whichever scope it is of.
- A night that is missed is made up for only by hand: a review is due on one day (`run_daily_pipeline.py` 530), and `pending_nightly_catchup_dates` of `app/ui_tasks.py` has no caller. A night that dies between ledger and report, or is repeated on purpose, counts its reviews twice. A night and a replay that overlap lose one's counts.
- A replay with the name of one that is remembered writes no view, so it does not mend one that was lost in a crash, while its records are written again. A review rewritten between the audit and the replay is used uncertified. Lists of the view keep rules that were demoted.
- `policy_events.jsonl` is rewritten in place (`update_adaptive_policies.py` 349): a death loses the events of any date and the approvals and archivals made by hand, and nothing tells which dates have to be learned from again. The store keeps a status that the log no longer explains until it is materialized again.
- Events of tickets that a date no longer has stay in the policy log, under the policy of their fund (`StoreCountsOnce` is asked where tickets stand).

Fetchers:

- One page that fails loses the fund's other pages, and its placeholder, dated now, vanishes where the cutoff is earlier (`FailureShows` has both conditions). A malformed cutoff is found after everything has been fetched.
- Web search and classifier have separate circuits, and refusals that may be retried open neither. A call for a text returns the part that came before a break.
- Queries and web search drop what they have already seen before the cutoff is applied, so a version written after the cutoff can hide the one in time of the same source.
- Posts of the social site are added after the dedup; labels by rule or model replace those of regulators; `dedup_window_hours` is read and not used.
- An answer for every fund, with or without numbers, ends the chain of estimates before the merge (`fetch_realtime_estimate.py` 310, 324): a fund without numbers then has no NAV although the quotes have one. A fund whose rows are all later than the report date gets a later NAV (`select_target_index`), which counts as fresh.
- A failed refetch replaces the good file of a date by the copy of an older one (`provider_adapters.py` 237 looks at other files only). `--demo` keeps the name of the real provider. Quotes and proxies have no age limit, and the realtime proxy modes use marked copies; a proxy's move is applied to a NAV that may be of the same day.

## Plan

What earlier work set out and is done: Settlement with ExecutionLedger and ApplyTrade; FileLock with Mutex; TodayRun; PortfolioState and, with dated snapshots and the manual tools, Positions; Pipeline with DailyPipeline; LongMemory and RagIndex; LearningLedger, ReplayTrust and Lineage; the advice chain with its guardrails and pages; the fetchers with the calls of the model; and the proofs of the table above, whose modules cover every part.

What is next, in this order:

1. **Two pipelines.** Pipeline with two runs of one date, the report window as its client, and the child that outlives a killed run of TodayRun.
2. **The calendar**: confirmation and settlement days from cut-off, weekends and rule profiles, against a reference definition.

### Not modelled

- *Desktop shell and frontend*: a client of the web API without a state of its own that others read. The pages of the web API other than the one in ReviewView read files and lay them out; the task states of `app/task_state.py` are imported by no program.
- *Retention, migration and backup*: run by hand while nothing else runs. *Refactoring and audit tools* read artifacts and write reports about them. *Deployment*: service definitions; what follows from them for the locks is said above.
- *Texts*: prompts, contexts and reports, the parsing of pages, ranking and vectors of the retrieval. They are pure functions over data that the properties here do not tell apart.
- Left out of modelled parts: fees and costs; suggestions matched by fund; partial screenshots and `drop_missing`; the hard-constraint catalog; banker's rounding; validity limits, fund match and execution boundary of a query; the cap of an active pack; several horizons of an outcome; the health, heat and page caps of the news; nights that span midnight.
