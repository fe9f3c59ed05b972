------------------------------- MODULE TodayRun --------------------------------
(***************************************************************************)
(* The today-analysis route of one report date (today_orchestrator.py):    *)
(* run_today_analysis processes started by the web API or by schedulers,   *)
(* the lease file that admits one of them, the runtime file the workbench  *)
(* polls, and the artifacts from which a later day decides to run it anew. *)
(*                                                                         *)
(*   lease    .today_analysis.lock      guard  flock on .today_..lock.guard *)
(*   runtime  today_analysis_runtime.json                                  *)
(*   meta, cycle, decision  today_analysis_meta, memory_cycle,             *)
(*            today_decision.json of the date's workspace                  *)
(***************************************************************************)
EXTENDS Naturals, FiniteSets

CONSTANTS
  Runs,        \* run_today_analysis processes, each with its own run id and pid
  Clients,     \* request threads of the web API
  MaxFaults,   \* bound: exceptions and crashes in a behaviour
  MaxRecycled, \* bound: pids of ended runs that the system hands out again
  Zombies,     \* POSIX: TRUE; a child that ended exists until its parent waits for it
  None, Torn, Free

ASSUME TodayRunAssumption ==
  /\ MaxFaults \in Nat /\ MaxRecycled \in Nat /\ Zombies \in BOOLEAN
  /\ IsFiniteSet(Runs)
  /\ None \notin Runs /\ Torn \notin Runs /\ Free \notin Runs
  /\ None # Torn
  /\ Runs \cap Clients = {}

VARIABLES
  closed,    \* the market has closed for this date
  lease,     \* the run the lock file names, None, or Torn: created but not written
  guard,     \* the run that holds the flock
  runtime, meta, cycle, decision,
  pc,        \* what a run or a request does next
  job,       \* of a run: started after the close; --force; by the web API
  seen,      \* the stale runtime it read
  recycled,  \* ended runs whose pid belongs to some other process now
  zombies,   \* ended runs that the web API started and has not waited for
  orphans,   \* killed runs whose memory script goes on without them
  cut,       \* history: the last run after the close ended between meta and decision
  faults

workspace == <<runtime, meta, cycle, decision>>
vars == <<closed, lease, guard, workspace, pc, job, seen, recycled, zombies, orphans, cut, faults>>

Actors == Runs \cup Clients
Runtime == [run: Runs, status: {"running", "ok", "failed"},
            ready: BOOLEAN,   \* resultReady, with resultRunId = runId
            old: BOOLEAN]     \* the heartbeat is TODAY_ANALYSIS_STALE_SECONDS old

ASSUME NoneAssumption == None \notin Runtime

Body == {"begin", "choose", "pipeline", "meta", "memory", "script", "cycle", "decide", "finish",
         "fail", "release"}
RunSteps == {"new", "check", "abort", "enter", "inspect", "create", "fill", "done"} \cup Body

TypeOK ==
  /\ closed \in BOOLEAN
  /\ lease \in Runs \cup {None, Torn}
  /\ guard \in Runs \cup {Free}
  /\ runtime \in Runtime \cup {None}
  /\ meta \in {"none", "pre_close", "after_close"}
  /\ cycle \in {"none", "skipped", "ok", "failed"}
  /\ decision \in {"none", "pre_close", "after_close"}
  /\ pc \in [Actors -> RunSteps \cup {"idle", "get", "post", "spawn", "poll", "polled"}]
  /\ \A r \in Runs : pc[r] \in RunSteps
  /\ job \in [Runs -> [after: BOOLEAN, force: BOOLEAN, web: BOOLEAN]]
  /\ seen \in [Actors -> Runtime \cup {None}]
  /\ recycled \subseteq Runs /\ zombies \subseteq Runs /\ orphans \subseteq Runs
  /\ cut \in BOOLEAN /\ faults \in 0 .. MaxFaults

Init ==
  /\ closed = FALSE
  /\ lease = None /\ guard = Free
  /\ runtime = None /\ meta = "none" /\ cycle = "none" /\ decision = "none"
  /\ pc = [a \in Actors |-> IF a \in Runs THEN "new" ELSE "idle"]
  /\ job = [r \in Runs |-> [after |-> FALSE, force |-> FALSE, web |-> FALSE]]
  /\ seen = [a \in Actors |-> None]
  /\ recycled = {} /\ zombies = {} /\ orphans = {}
  /\ cut = FALSE /\ faults = 0

-------------------------------------------------------------------------------
\* Helpers.

Goto(a, from, to) == pc[a] = from /\ pc' = [pc EXCEPT ![a] = to]

InBody(r) == pc[r] \in Body
Running(r) == pc[r] \notin {"new", "done"}

\* process_exists(pid): the run is alive, somebody else has its pid, or it is a
\* zombie: os.kill(pid, 0) succeeds until the parent has waited for its child.
ProcessExists(r) == Running(r) \/ r \in recycled \/ r \in zombies

\* A process ends; TaskController keeps no handle to wait for the daily one.
Exit(r) == zombies' = IF Zombies /\ job[r].web THEN zombies \cup {r} ELSE zombies

\* Mutants of Stale: whatever the process does; of the living instead of the dead.
StaleByHeartbeat == runtime # None /\ runtime.status = "running" /\ runtime.old
StaleIfAlive == StaleByHeartbeat /\ ProcessExists(runtime.run)

\* is_runtime_stale
Stale == /\ runtime # None
         /\ runtime.status = "running" /\ runtime.old
         /\ ~ProcessExists(runtime.run)

\* get_active_runtime, of a runtime that is not stale
Active == /\ runtime # None
          /\ runtime.status = "running"
          /\ ProcessExists(runtime.run)

\* _write_runtime refreshes the heartbeat.
Written(r, status, ready) ==
  runtime' = [run |-> r, status |-> status, ready |-> ready, old |-> FALSE]

\* ensure_runtime_not_stale reads the runtime, judges it ...
Look(a, from, to) ==
  /\ Goto(a, from, to)
  /\ Stale
  /\ seen' = [seen EXCEPT ![a] = runtime]
  /\ UNCHANGED <<closed, lease, guard, workspace, job, recycled, zombies, orphans, cut, faults>>

\* ... and writes it back as aborted.
WriteAborted(a, from, to) ==
  /\ Goto(a, from, to)
  /\ Written(seen[a].run, "failed", FALSE)
  /\ seen' = [seen EXCEPT ![a] = None]
  /\ UNCHANGED <<closed, lease, guard, meta, cycle, decision, job, recycled, zombies, orphans, cut, faults>>

\* analysis_quality of a run, by the time it was started
Quality(r) == IF job[r].after THEN "after_close" ELSE "pre_close"

-------------------------------------------------------------------------------
\* run_today_analysis, up to the lease.

\* A scheduler, the desktop or a backfill starts a process.
Start(r) ==
  /\ Goto(r, "new", "check")
  /\ job' \in {[job EXCEPT ![r] = [after |-> closed, force |-> f, web |-> FALSE]] : f \in BOOLEAN}
  /\ UNCHANGED <<closed, lease, guard, workspace, seen, recycled, zombies, orphans, cut, faults>>

CheckStale(r) == Look(r, "check", "abort")
Abort(r) == WriteAborted(r, "abort", "enter")

\* Raises AlreadyRunningError if the runtime file shows a live run.
Check(r) ==
  /\ ~Stale
  /\ IF Active THEN Goto(r, "check", "done") /\ Exit(r)
               ELSE Goto(r, "check", "enter") /\ UNCHANGED zombies
  /\ UNCHANGED <<closed, lease, guard, workspace, job, seen, recycled, orphans, cut, faults>>

\* acquire_today_lock, under the flock.
Enter(r) ==
  /\ guard = Free
  /\ Goto(r, "enter", "inspect")
  /\ guard' = r
  /\ UNCHANGED <<closed, lease, workspace, job, seen, recycled, zombies, orphans, cut, faults>>

\* Mutants of LeaseHeld: an existing lease is overwritten; is respected for ever.
LeaseIgnored == FALSE
LeaseByFile == lease # None

\* The lease names a process that exists; an unreadable one names none.
LeaseHeld == lease \in Runs /\ ProcessExists(lease)

\* Mutant of Inspect: the error leaves the flock taken.
InspectKeepsGuard(r) ==
  /\ IF LeaseHeld THEN Goto(r, "inspect", "done") /\ Exit(r) /\ UNCHANGED lease
                  ELSE Goto(r, "inspect", "create") /\ lease' = None /\ UNCHANGED zombies
  /\ UNCHANGED <<closed, guard, workspace, job, seen, recycled, orphans, cut, faults>>

\* AlreadyRunningError, or the dead owner's lease is put aside.
Inspect(r) ==
  /\ IF LeaseHeld
     THEN /\ Goto(r, "inspect", "done") /\ Exit(r)
          /\ guard' = Free /\ UNCHANGED lease
     ELSE /\ Goto(r, "inspect", "create") /\ UNCHANGED zombies
          /\ lease' = None /\ UNCHANGED guard
  /\ UNCHANGED <<closed, workspace, job, seen, recycled, orphans, cut, faults>>

\* The lock file is created, then written and synced.
Create(r) ==
  /\ Goto(r, "create", "fill")
  /\ lease' = Torn
  /\ UNCHANGED <<closed, guard, workspace, job, seen, recycled, zombies, orphans, cut, faults>>

Fill(r) ==
  /\ Goto(r, "fill", "begin")
  /\ lease' = r
  /\ guard' = Free
  /\ UNCHANGED <<closed, workspace, job, seen, recycled, zombies, orphans, cut, faults>>

-------------------------------------------------------------------------------
\* run_today_analysis, inside the lease.

Begin(r) ==
  /\ Goto(r, "begin", "choose")
  /\ Written(r, "running", FALSE)
  /\ UNCHANGED <<closed, lease, guard, meta, cycle, decision, job, seen, recycled, zombies, orphans, cut, faults>>

CycleDone == cycle \in {"ok", "skipped"}

\* Mutant of Reusable: any finished decision is good enough.
ReusableAnyway(r) == ~job[r].force /\ decision # "none" /\ CycleDone

\* An existing decision is good enough for this run.
Reusable(r) ==
  /\ ~job[r].force
  /\ decision # "none" /\ CycleDone
  /\ decision = "after_close" \/ ~job[r].after

Reuse(r) ==
  /\ Reusable(r)
  /\ Goto(r, "choose", "release")
  /\ Written(r, "ok", TRUE)
  /\ UNCHANGED <<closed, lease, guard, meta, cycle, decision, job, seen, recycled, zombies, orphans, cut, faults>>

\* Preflight, then update_pending_confirmations (see Settlement).
Proceed(r) ==
  /\ ~Reusable(r)
  /\ Goto(r, "choose", "pipeline")
  /\ Written(r, "running", FALSE)
  /\ UNCHANGED <<closed, lease, guard, meta, cycle, decision, job, seen, recycled, zombies, orphans, cut, faults>>

\* run_daily_pipeline.py runs as a subprocess; its outcome is copied to the runtime.
Pipeline(r) ==
  /\ Goto(r, "pipeline", "meta")
  /\ Written(r, "running", FALSE)
  /\ UNCHANGED <<closed, lease, guard, meta, cycle, decision, job, seen, recycled, zombies, orphans, cut, faults>>

WriteMeta(r) ==
  /\ Goto(r, "meta", IF job[r].after THEN "memory" ELSE "cycle")
  /\ meta' = Quality(r)
  /\ UNCHANGED <<closed, lease, guard, runtime, cycle, decision, job, seen, recycled, zombies, orphans, cut, faults>>

Memory(r) ==
  /\ Goto(r, "memory", "script")
  /\ Written(r, "running", FALSE)
  /\ UNCHANGED <<closed, lease, guard, meta, cycle, decision, job, seen, recycled, zombies, orphans, cut, faults>>

\* run_long_memory_analysis.py, a subprocess, leaves its own memory_cycle.json.
Script(r) ==
  /\ Goto(r, "script", "cycle")
  /\ cycle' \in {cycle, "ok", "failed"}
  /\ UNCHANGED <<closed, lease, guard, runtime, meta, decision, job, seen, recycled, zombies, orphans, cut, faults>>

\* It does so too when the run that started it has been killed.
OrphanScript(r) ==
  /\ r \in orphans /\ orphans' = orphans \ {r}
  /\ cycle' \in {"ok", "failed"}
  /\ UNCHANGED <<closed, lease, guard, runtime, meta, decision, pc, job, seen, recycled, zombies, cut, faults>>

\* The memory cycle is skipped before the close; its failure does not stop the run.
WriteCycle(r) ==
  /\ Goto(r, "cycle", "decide")
  /\ cycle' \in IF job[r].after THEN {"ok", "failed"} ELSE {"skipped"}
  /\ UNCHANGED <<closed, lease, guard, runtime, meta, decision, job, seen, recycled, zombies, orphans, cut, faults>>

\* Mutant of Decide: a decision is written once.
DecideOnce(r) ==
  /\ Goto(r, "decide", "finish")
  /\ cut' = (cut /\ ~ job[r].after)
  /\ decision' = IF decision = "none" THEN Quality(r) ELSE decision
  /\ UNCHANGED <<closed, lease, guard, runtime, meta, cycle, job, seen, recycled, zombies, orphans, faults>>

Decide(r) ==
  /\ Goto(r, "decide", "finish")
  /\ cut' = (cut /\ ~ job[r].after)
  /\ decision' = Quality(r)
  /\ UNCHANGED <<closed, lease, guard, runtime, meta, cycle, job, seen, recycled, zombies, orphans, faults>>

Finish(r) ==
  /\ Goto(r, "finish", "release")
  /\ Written(r, "ok", TRUE)
  /\ UNCHANGED <<closed, lease, guard, meta, cycle, decision, job, seen, recycled, zombies, orphans, cut, faults>>

\* The except clause.
WriteFailed(r) ==
  /\ Goto(r, "fail", "release")
  /\ Written(r, "failed", FALSE)
  /\ UNCHANGED <<closed, lease, guard, meta, cycle, decision, job, seen, recycled, zombies, orphans, cut, faults>>

\* release_today_lock, in the finally clause, checks the owner token.
Release(r) ==
  /\ guard = Free
  /\ Goto(r, "release", "done")
  /\ lease' = IF lease = r THEN None ELSE lease
  /\ Exit(r)
  /\ UNCHANGED <<closed, guard, workspace, job, seen, recycled, orphans, cut, faults>>

-------------------------------------------------------------------------------
\* The web API: a page request (GET) and POST /api/run/daily, one at a time
\* under TaskController._run_lock.

Get(c) == Look(c, "idle", "get")
GetAbort(c) == WriteAborted(c, "get", "idle")

NoPost == \A c \in Clients : pc[c] \in {"idle", "get"}

PostStale(c) == NoPost /\ Look(c, "idle", "post")
PostAbort(c) == WriteAborted(c, "post", "spawn")

\* An active run is answered with 409 already_running; otherwise the portfolio
\* is aligned, then a process started.
Post(c) ==
  /\ NoPost
  /\ ~Stale /\ ~Active
  /\ Goto(c, "idle", "spawn")
  /\ UNCHANGED <<closed, lease, guard, workspace, job, seen, recycled, zombies, orphans, cut, faults>>

\* subprocess.Popen first waits for the ended children nobody refers to.  The
\* request then polls the runtime of the date, two seconds at most.
Spawn(c, r) ==
  /\ pc[c] = "spawn" /\ pc[r] = "new"
  /\ zombies' = {}
  /\ pc' = [pc EXCEPT ![c] = "poll", ![r] = "check"]
  /\ job' \in {[job EXCEPT ![r] = [after |-> closed, force |-> f, web |-> TRUE]] : f \in BOOLEAN}
  /\ UNCHANGED <<closed, lease, guard, workspace, seen, recycled, orphans, cut, faults>>

PollStale(c) == Look(c, "poll", "polled")
PollAbort(c) == WriteAborted(c, "polled", "poll")
PollEnds(c) ==
  /\ Goto(c, "poll", "idle")
  /\ UNCHANGED <<closed, lease, guard, workspace, job, seen, recycled, zombies, orphans, cut, faults>>

\* The alignment, or the start of the process, raises.
SpawnFails(c) ==
  /\ Goto(c, "spawn", "idle")
  /\ UNCHANGED <<closed, lease, guard, workspace, job, seen, recycled, zombies, orphans, cut, faults>>

-------------------------------------------------------------------------------
\* The environment.

Close == ~closed /\ closed' = TRUE /\ UNCHANGED <<lease, guard, workspace, pc, job, seen, recycled, zombies, orphans, cut, faults>>

\* Twenty minutes pass without a heartbeat.
Age ==
  /\ runtime # None
  /\ runtime.status = "running" /\ ~runtime.old
  /\ runtime' = [runtime EXCEPT !.old = TRUE]
  /\ UNCHANGED <<closed, lease, guard, meta, cycle, decision, pc, job, seen, recycled, zombies, orphans, cut, faults>>

Recycle(r) ==
  /\ pc[r] = "done" /\ r \notin recycled \cup zombies
  /\ Cardinality(recycled) < MaxRecycled
  /\ recycled' = recycled \cup {r}
  /\ UNCHANGED <<closed, lease, guard, workspace, pc, job, seen, zombies, orphans, cut, faults>>

\* The web API starts some other subprocess.
Reap ==
  /\ zombies # {}
  /\ zombies' = {}
  /\ UNCHANGED <<closed, lease, guard, workspace, pc, job, seen, recycled, orphans, cut, faults>>

\* What ends in an exception or a death after its meta leaves no decision.
Fault(r) ==
  /\ faults < MaxFaults /\ faults' = faults + 1
  /\ cut' = (cut \/ (job[r].after /\ pc[r] \in {"memory", "script", "cycle", "decide"}))

\* A step raises: inside the lease the except clause follows, and the lease is
\* released even when the failure cannot be written.
Fail(r) ==
  /\ Fault(r)
  /\ pc[r] \in Body \ {"release"}
  /\ pc' = [pc EXCEPT ![r] = IF pc[r] = "fail" THEN "release" ELSE "fail"]
  /\ UNCHANGED <<closed, lease, guard, workspace, job, seen, recycled, zombies, orphans>>

\* The process dies, or raises outside the lease; the system drops its flock.
Crash(r) ==
  /\ Fault(r)
  /\ Running(r)
  /\ pc' = [pc EXCEPT ![r] = "done"]
  /\ guard' = IF guard = r THEN Free ELSE guard
  /\ seen' = [seen EXCEPT ![r] = None]
  /\ Exit(r)
  /\ orphans' \in {orphans} \cup IF pc[r] = "script" THEN {orphans \cup {r}} ELSE {}
  /\ UNCHANGED <<closed, lease, workspace, job, recycled>>

-------------------------------------------------------------------------------
Acquire(r) == CheckStale(r) \/ Abort(r) \/ Check(r) \/ Enter(r) \/ Inspect(r) \/ Create(r) \/ Fill(r)

Work(r) ==
  \/ Begin(r) \/ Reuse(r) \/ Proceed(r) \/ Pipeline(r) \/ WriteMeta(r) \/ Memory(r) \/ Script(r)
  \/ WriteCycle(r) \/ Decide(r) \/ Finish(r) \/ WriteFailed(r) \/ Release(r)

Launch(c) == SpawnFails(c) \/ PollEnds(c) \/ \E r \in Runs : Spawn(c, r)
Request(c) ==
  \/ Get(c) \/ GetAbort(c) \/ PostStale(c) \/ PostAbort(c) \/ Post(c)
  \/ Launch(c) \/ PollStale(c) \/ PollAbort(c)

Next ==
  \/ \E r \in Runs :
       \/ Start(r) \/ Acquire(r) \/ Work(r)
       \/ OrphanScript(r) \/ Recycle(r) \/ Fail(r) \/ Crash(r)
  \/ \E c \in Clients : Request(c)
  \/ Close \/ Age \/ Reap

Spec == Init /\ [][Next]_vars

\* Live processes run, the workbench polls its page, and time passes.
Fairness ==
  /\ \A r \in Runs : WF_vars(Acquire(r) \/ Work(r))
  /\ \A c \in Clients : WF_vars(Get(c)) /\ WF_vars(GetAbort(c))
                         /\ WF_vars(PostAbort(c) \/ PollAbort(c) \/ Launch(c))
  /\ WF_vars(Age)
FairSpec == Spec /\ Fairness

-------------------------------------------------------------------------------
\* Properties.

\* At most one live process works on the date: the lease survives crashes, torn
\* writes and pids handed out again.
OneRunner == \A r, s \in Runs : InBody(r) /\ InBody(s) => r = s

\* A runtime that reports a result is right: there is a decision on disk, and a
\* run that was started after the close never reports one made before it.
ReadyIsReal ==
  runtime # None /\ runtime.ready =>
    /\ decision # "none"
    /\ job[runtime.run].after => decision = "after_close"

\* _needs_after_close_rerun
NeedsRerun == meta # "after_close" \/ ~CycleDone

\* A date that a later day's backfill passes over has its after-close decision,
\* whatever failed or died on it, unless the last run after the close ended
\* between its meta and its decision: _needs_after_close_rerun looks at the meta
\* and the cycle file alone.
BackfillUnlessCut ==
  (\A r \in Runs : ~InBody(r)) /\ ~NeedsRerun /\ ~cut => decision = "after_close"

\* The result that a run announced is replaced by the run that has the lease, or,
\* after a fault, by the abort of another run that is over: nobody writes off the
\* run whose result is there, or one that lives, however late it writes back what
\* it judged.
ResultStands ==
  [][runtime # None /\ runtime.ready =>
       \/ runtime' = runtime
       \/ InBody(runtime'.run)
       \/ faults > 0 /\ pc[runtime'.run] = "done" /\ runtime'.run # runtime.run]_vars

\* A process gives up as "already running" only when another one has the lease.
RefusalIsJustified ==
  [][\A r \in Runs : (Check(r) \/ Inspect(r)) /\ pc'[r] = "done"
                      => \E s \in Runs \ {r} : InBody(s)]_vars

\* A process that asks for the lease gets it or gives up: nobody waits for ever.
EveryRunEnds == \A r \in Runs : pc[r] = "check" ~> pc[r] = "done"

ShownRunning(r) == /\ runtime # None
                   /\ runtime.run = r /\ runtime.status = "running"

\* A run that died is eventually not shown as running.
DeadRunIsShown ==
  \A r \in Runs : pc[r] = "done" /\ ShownRunning(r) ~> ~ShownRunning(r)
================================================================================
