----------------------------- MODULE TodayRunProofs -----------------------------
(***************************************************************************)
(* Theorems about TodayRun, for any number of processes and requests.      *)
(***************************************************************************)
EXTENDS TodayRun, FiniteSetTheorems, TLAPS

\* Who is about to write back a runtime has read one.
Looked == \A a \in Actors : pc[a] \in {"abort", "get", "post", "polled"} => seen[a] \in Runtime

Typed == TypeOK /\ Looked

\* The flock is held from inspect to fill, the lease file is absent before and
\* torn after its creation, and it names the process that works on the date.
Admitted ==
  /\ \A r \in Runs : pc[r] \in {"inspect", "create", "fill"} <=> guard = r
  /\ \A r \in Runs : pc[r] = "create" => lease = None
  /\ \A r \in Runs : pc[r] = "fill" => lease = Torn
  /\ \A r \in Runs : InBody(r) => lease = r

\* From choose to finish no result is announced, and before it is announced the
\* decision of the run is on disk.
Reported ==
  /\ \A r \in Runs : pc[r] \in Body \ {"begin", "fail", "release"}
                      => runtime # None /\ ~runtime.ready
  /\ \A r \in Runs : pc[r] = "finish" => decision = Quality(r)
  /\ runtime # None /\ runtime.ready => pc[runtime.run] # "new"
  /\ ReadyIsReal

\* Who is shown as running, or has the lease, works on the date or has died.
Shown ==
  /\ runtime # None /\ runtime.status = "running" => pc[runtime.run] \in Body \cup {"done"}
  /\ lease \in Runs => pc[lease] \in Body \cup {"done"}

\* Outside of the steps between meta and decision, what was decided after the
\* close is as complete as the meta says, unless a run was cut short there.
Deciding == {"memory", "script", "cycle", "decide"}

Decided ==
  /\ \A r \in Runs : pc[r] \in Deciding \cup {"finish"} => meta = Quality(r)
  /\ (\A r \in Runs : pc[r] \notin Deciding) /\ ~cut /\ meta = "after_close" => decision = "after_close"

\* Who is about to write back a runtime has judged that of a run that is over and
\* has not announced a result; there is none while nothing has failed.
Looking == {"abort", "get", "post", "polled"}

Judged ==
  /\ runtime # None /\ runtime.status = "running" => ~runtime.ready
  /\ \A a \in Actors : pc[a] \in Looking =>
       /\ faults > 0 /\ pc[seen[a].run] = "done"
       /\ runtime # None /\ runtime.run = seen[a].run => ~runtime.ready

\* As long as no run has died or raised, who is shown as running is at work.
Settled ==
  /\ \A r \in Runs : pc[r] # "fail"
  /\ runtime # None /\ runtime.status = "running" => pc[runtime.run] \in Body \ {"begin", "fail", "release"}

Calm == faults = 0 => Settled

LEMMA TypedInit == Init => Typed
  <1> SUFFICES ASSUME Init PROVE Typed
    OBVIOUS
  <1> USE TodayRunAssumption DEF Init, Actors
  <1>1. TypeOK
    <2>1. pc \in [Actors -> RunSteps \cup {"idle", "get", "post", "spawn", "poll", "polled"}]
      BY DEF RunSteps
    <2>2. job \in [Runs -> [after: BOOLEAN, force: BOOLEAN, web: BOOLEAN]]
      OBVIOUS
    <2>3. \A r \in Runs : pc[r] \in RunSteps
      BY DEF RunSteps
    <2>4. seen \in [Actors -> Runtime \cup {None}]
      OBVIOUS
    <2>5. faults \in 0 .. MaxFaults
      OBVIOUS
    <2>6. /\ closed \in BOOLEAN /\ lease = None /\ guard = Free /\ runtime = None
          /\ meta = "none" /\ cycle = "none" /\ decision = "none"
          /\ recycled = {} /\ zombies = {} /\ orphans = {} /\ cut = FALSE
      OBVIOUS
    <2> HIDE DEF Init
    <2> QED
      BY <2>1, <2>2, <2>3, <2>4, <2>5, <2>6 DEF TypeOK
  <1>2. Looked
    BY DEF Looked
  <1> QED
    BY <1>1, <1>2 DEF Typed

\* What _write_runtime leaves on disk is a runtime of the run it is given.
LEMMA WrittenIsRuntime ==
  ASSUME NEW r \in Runs, NEW status \in {"running", "ok", "failed"}, NEW ready \in BOOLEAN,
         Written(r, status, ready)
  PROVE  /\ runtime' \in Runtime /\ runtime' # None
         /\ runtime'.run = r /\ runtime'.status = status /\ runtime'.ready = ready
  <1>1. runtime' \in Runtime
    BY DEF Written, Runtime
  <1>2. runtime' # None
    BY <1>1, NoneAssumption
  <1> QED
    BY <1>1, <1>2 DEF Written

LEMMA TypedStep == Typed /\ [Next]_vars => Typed'
  <1> SUFFICES ASSUME Typed, [Next]_vars PROVE Typed'
    OBVIOUS
  <1> USE TodayRunAssumption, NoneAssumption DEF Typed, TypeOK, Looked, Runtime, Actors, RunSteps, Body, Goto, workspace
  <1>1. ASSUME NEW r \in Runs, Start(r) PROVE Typed'
    <2>1. PICK f \in BOOLEAN :
            job' = [job EXCEPT ![r] = [after |-> closed, force |-> f, web |-> FALSE]]
      BY <1>1 DEF Start
    <2>2. job' \in [Runs -> [after: BOOLEAN, force: BOOLEAN, web: BOOLEAN]]
      BY <2>1
    <2> QED
      BY <1>1, <2>2 DEF Start
  <1>2. ASSUME NEW r \in Runs, CheckStale(r) PROVE Typed'
    BY <1>2 DEF CheckStale, Look, Stale
  <1>3. ASSUME NEW r \in Runs, Abort(r) PROVE Typed'
    BY <1>3 DEF Abort, WriteAborted, Written
  <1>4. ASSUME NEW r \in Runs, Check(r) PROVE Typed'
    BY <1>4 DEF Check, Exit
  <1>5. ASSUME NEW r \in Runs, Enter(r) PROVE Typed'
    BY <1>5 DEF Enter
  <1>6. ASSUME NEW r \in Runs, Inspect(r) PROVE Typed'
    BY <1>6 DEF Inspect, Exit
  <1>7. ASSUME NEW r \in Runs, Create(r) PROVE Typed'
    BY <1>7 DEF Create
  <1>8. ASSUME NEW r \in Runs, Fill(r) PROVE Typed'
    BY <1>8 DEF Fill
  <1>9. ASSUME NEW r \in Runs, Begin(r) PROVE Typed'
    BY <1>9 DEF Begin, Written
  <1>10. ASSUME NEW r \in Runs, Reuse(r) PROVE Typed'
    BY <1>10 DEF Reuse, Written
  <1>11. ASSUME NEW r \in Runs, Proceed(r) PROVE Typed'
    BY <1>11 DEF Proceed, Written
  <1>12. ASSUME NEW r \in Runs, Pipeline(r) PROVE Typed'
    BY <1>12 DEF Pipeline, Written
  <1>13. ASSUME NEW r \in Runs, WriteMeta(r) PROVE Typed'
    BY <1>13 DEF WriteMeta, Quality
  <1>14. ASSUME NEW r \in Runs, Memory(r) PROVE Typed'
    BY <1>14 DEF Memory, Written
  <1>15. ASSUME NEW r \in Runs, Script(r) PROVE Typed'
    BY <1>15 DEF Script
  <1>16. ASSUME NEW r \in Runs, WriteCycle(r) PROVE Typed'
    BY <1>16 DEF WriteCycle
  <1>17. ASSUME NEW r \in Runs, Decide(r) PROVE Typed'
    BY <1>17 DEF Decide, Quality
  <1>18. ASSUME NEW r \in Runs, Finish(r) PROVE Typed'
    BY <1>18 DEF Finish, Written
  <1>19. ASSUME NEW r \in Runs, WriteFailed(r) PROVE Typed'
    BY <1>19 DEF WriteFailed, Written
  <1>20. ASSUME NEW r \in Runs, Release(r) PROVE Typed'
    BY <1>20 DEF Release, Exit
  <1>21. ASSUME NEW r \in Runs, OrphanScript(r) PROVE Typed'
    BY <1>21 DEF OrphanScript
  <1>22. ASSUME NEW r \in Runs, Recycle(r) PROVE Typed'
    BY <1>22 DEF Recycle
  <1>23. ASSUME NEW r \in Runs, Fail(r) PROVE Typed'
    BY <1>23 DEF Fail, Fault
  <1>24. ASSUME NEW r \in Runs, Crash(r) PROVE Typed'
    BY <1>24 DEF Crash, Exit, Running, Fault
  <1>25. ASSUME NEW c \in Clients, Get(c) PROVE Typed'
    BY <1>25 DEF Get, Look, Stale
  <1>26. ASSUME NEW c \in Clients, GetAbort(c) PROVE Typed'
    BY <1>26 DEF GetAbort, WriteAborted, Written
  <1>27. ASSUME NEW c \in Clients, PostStale(c) PROVE Typed'
    BY <1>27 DEF PostStale, Look, Stale
  <1>28. ASSUME NEW c \in Clients, PostAbort(c) PROVE Typed'
    BY <1>28 DEF PostAbort, WriteAborted, Written
  <1>29. ASSUME NEW c \in Clients, Post(c) PROVE Typed'
    BY <1>29 DEF Post
  <1>30. ASSUME NEW c \in Clients, SpawnFails(c) PROVE Typed'
    BY <1>30 DEF SpawnFails
  <1>31. ASSUME NEW c \in Clients, PollStale(c) PROVE Typed'
    BY <1>31 DEF PollStale, Look, Stale
  <1>32. ASSUME NEW c \in Clients, PollAbort(c) PROVE Typed'
    BY <1>32 DEF PollAbort, WriteAborted, Written
  <1>33. ASSUME NEW c \in Clients, PollEnds(c) PROVE Typed'
    BY <1>33 DEF PollEnds
  <1>34. ASSUME NEW c \in Clients, NEW r \in Runs, Spawn(c, r) PROVE Typed'
    <2>1. PICK f \in BOOLEAN :
            job' = [job EXCEPT ![r] = [after |-> closed, force |-> f, web |-> TRUE]]
      BY <1>34 DEF Spawn
    <2>2. job' \in [Runs -> [after: BOOLEAN, force: BOOLEAN, web: BOOLEAN]]
      BY <2>1
    <2> QED
      BY <1>34, <2>2 DEF Spawn
  <1>35. CASE Close
    BY <1>35 DEF Close
  <1>36. CASE Age
    BY <1>36 DEF Age
  <1>37. CASE Reap
    BY <1>37 DEF Reap
  <1>38. CASE UNCHANGED vars
    BY <1>38 DEF vars
  <1> QED
    BY <1>1, <1>2, <1>3, <1>4, <1>5, <1>6, <1>7, <1>8, <1>9, <1>10, <1>11, <1>12,
       <1>13, <1>14, <1>15, <1>16, <1>17, <1>18, <1>19, <1>20, <1>21, <1>22, <1>23,
       <1>24, <1>25, <1>26, <1>27, <1>28, <1>29, <1>30, <1>31, <1>32, <1>33, <1>34,
       <1>35, <1>36, <1>37, <1>38
    DEF Next, Acquire, Work, Request, Launch

LEMMA AdmittedStep == Typed /\ Admitted /\ [Next]_vars => Admitted'
  <1> SUFFICES ASSUME Typed, Admitted, [Next]_vars PROVE Admitted'
    OBVIOUS
  <1> USE TodayRunAssumption, NoneAssumption DEF Typed, TypeOK, Admitted, InBody, Actors, RunSteps, Body, Goto
  <1>1. ASSUME NEW r \in Runs, Start(r) PROVE Admitted'
    BY <1>1 DEF Start
  <1>2. ASSUME NEW r \in Runs, CheckStale(r) PROVE Admitted'
    BY <1>2 DEF CheckStale, Look, Stale
  <1>3. ASSUME NEW r \in Runs, Abort(r) PROVE Admitted'
    BY <1>3 DEF Abort, WriteAborted, Written
  <1>4. ASSUME NEW r \in Runs, Check(r) PROVE Admitted'
    BY <1>4 DEF Check, Exit
  <1>5. ASSUME NEW r \in Runs, Enter(r) PROVE Admitted'
    BY <1>5 DEF Enter
  <1>6. ASSUME NEW r \in Runs, Inspect(r) PROVE Admitted'
    <2>1. CASE LeaseHeld
      BY <1>6, <2>1 DEF Inspect
    <2>2. CASE ~LeaseHeld
      <3>1. \A s \in Runs : ~InBody(s)
        BY <2>2 DEF LeaseHeld, ProcessExists, Running
      <3>2. pc' = [pc EXCEPT ![r] = "create"] /\ pc[r] = "inspect" /\ lease' = None /\ guard' = guard
        BY <1>6, <2>2 DEF Inspect
      <3> QED
        BY <3>1, <3>2
    <2> QED
      BY <2>1, <2>2
  <1>7. ASSUME NEW r \in Runs, Create(r) PROVE Admitted'
    BY <1>7 DEF Create
  <1>8. ASSUME NEW r \in Runs, Fill(r) PROVE Admitted'
    BY <1>8 DEF Fill
  <1>9. ASSUME NEW r \in Runs, Begin(r) PROVE Admitted'
    BY <1>9 DEF Begin, Written
  <1>10. ASSUME NEW r \in Runs, Reuse(r) PROVE Admitted'
    BY <1>10 DEF Reuse, Written
  <1>11. ASSUME NEW r \in Runs, Proceed(r) PROVE Admitted'
    BY <1>11 DEF Proceed, Written
  <1>12. ASSUME NEW r \in Runs, Pipeline(r) PROVE Admitted'
    BY <1>12 DEF Pipeline, Written
  <1>13. ASSUME NEW r \in Runs, WriteMeta(r) PROVE Admitted'
    BY <1>13 DEF WriteMeta, Quality
  <1>14. ASSUME NEW r \in Runs, Memory(r) PROVE Admitted'
    BY <1>14 DEF Memory, Written
  <1>15. ASSUME NEW r \in Runs, Script(r) PROVE Admitted'
    BY <1>15 DEF Script
  <1>16. ASSUME NEW r \in Runs, WriteCycle(r) PROVE Admitted'
    BY <1>16 DEF WriteCycle
  <1>17. ASSUME NEW r \in Runs, Decide(r) PROVE Admitted'
    BY <1>17 DEF Decide, Quality
  <1>18. ASSUME NEW r \in Runs, Finish(r) PROVE Admitted'
    BY <1>18 DEF Finish, Written
  <1>19. ASSUME NEW r \in Runs, WriteFailed(r) PROVE Admitted'
    BY <1>19 DEF WriteFailed, Written
  <1>20. ASSUME NEW r \in Runs, Release(r) PROVE Admitted'
    BY <1>20 DEF Release, Exit
  <1>21. ASSUME NEW r \in Runs, OrphanScript(r) PROVE Admitted'
    BY <1>21 DEF OrphanScript
  <1>22. ASSUME NEW r \in Runs, Recycle(r) PROVE Admitted'
    BY <1>22 DEF Recycle
  <1>23. ASSUME NEW r \in Runs, Fail(r) PROVE Admitted'
    BY <1>23 DEF Fail
  <1>24. ASSUME NEW r \in Runs, Crash(r) PROVE Admitted'
    BY <1>24 DEF Crash, Exit, Running
  <1>25. ASSUME NEW c \in Clients, Get(c) PROVE Admitted'
    BY <1>25 DEF Get, Look, Stale
  <1>26. ASSUME NEW c \in Clients, GetAbort(c) PROVE Admitted'
    BY <1>26 DEF GetAbort, WriteAborted, Written
  <1>27. ASSUME NEW c \in Clients, PostStale(c) PROVE Admitted'
    BY <1>27 DEF PostStale, Look, Stale
  <1>28. ASSUME NEW c \in Clients, PostAbort(c) PROVE Admitted'
    BY <1>28 DEF PostAbort, WriteAborted, Written
  <1>29. ASSUME NEW c \in Clients, Post(c) PROVE Admitted'
    BY <1>29 DEF Post
  <1>30. ASSUME NEW c \in Clients, SpawnFails(c) PROVE Admitted'
    BY <1>30 DEF SpawnFails
  <1>31. ASSUME NEW c \in Clients, PollStale(c) PROVE Admitted'
    BY <1>31 DEF PollStale, Look, Stale
  <1>32. ASSUME NEW c \in Clients, PollAbort(c) PROVE Admitted'
    BY <1>32 DEF PollAbort, WriteAborted, Written
  <1>33. ASSUME NEW c \in Clients, PollEnds(c) PROVE Admitted'
    BY <1>33 DEF PollEnds
  <1>34. ASSUME NEW c \in Clients, NEW r \in Runs, Spawn(c, r) PROVE Admitted'
    BY <1>34 DEF Spawn
  <1>35. CASE Close
    BY <1>35 DEF Close
  <1>36. CASE Age
    BY <1>36 DEF Age
  <1>37. CASE Reap
    BY <1>37 DEF Reap
  <1>38. CASE UNCHANGED vars
    BY <1>38 DEF vars
  <1> QED
    BY <1>1, <1>2, <1>3, <1>4, <1>5, <1>6, <1>7, <1>8, <1>9, <1>10, <1>11, <1>12,
       <1>13, <1>14, <1>15, <1>16, <1>17, <1>18, <1>19, <1>20, <1>21, <1>22, <1>23,
       <1>24, <1>25, <1>26, <1>27, <1>28, <1>29, <1>30, <1>31, <1>32, <1>33, <1>34,
       <1>35, <1>36, <1>37, <1>38
    DEF Next, Acquire, Work, Request, Launch

LEMMA ReportedStep == Typed /\ Admitted /\ Reported /\ [Next]_vars => Reported'
  <1> SUFFICES ASSUME Typed, Admitted, Reported, [Next]_vars PROVE Reported'
    OBVIOUS
  <1> USE TodayRunAssumption, NoneAssumption DEF Typed, TypeOK, Admitted, Reported, ReadyIsReal, InBody, Quality, Runtime, Actors, RunSteps, Body, Goto, workspace
  <1>1. ASSUME NEW r \in Runs, Start(r) PROVE Reported'
    BY <1>1 DEF Start
  <1>2. ASSUME NEW r \in Runs, CheckStale(r) PROVE Reported'
    BY <1>2 DEF CheckStale, Look, Stale
  <1>3. ASSUME NEW r \in Runs, Abort(r) PROVE Reported'
    <2>1. seen[r].run \in Runs
      BY <1>3 DEF Abort, WriteAborted, Looked
    <2>2. runtime' # None /\ ~runtime'.ready
      BY <1>3, <2>1, WrittenIsRuntime DEF Abort, WriteAborted
    <2> QED
      BY <1>3, <2>2 DEF Abort, WriteAborted
  <1>4. ASSUME NEW r \in Runs, Check(r) PROVE Reported'
    BY <1>4 DEF Check, Exit
  <1>5. ASSUME NEW r \in Runs, Enter(r) PROVE Reported'
    BY <1>5 DEF Enter
  <1>6. ASSUME NEW r \in Runs, Inspect(r) PROVE Reported'
    BY <1>6 DEF Inspect, Exit
  <1>7. ASSUME NEW r \in Runs, Create(r) PROVE Reported'
    BY <1>7 DEF Create
  <1>8. ASSUME NEW r \in Runs, Fill(r) PROVE Reported'
    BY <1>8 DEF Fill
  <1>9. ASSUME NEW r \in Runs, Begin(r) PROVE Reported'
    <2>1. runtime' # None /\ runtime'.run = r /\ runtime'.ready = FALSE
      BY <1>9, WrittenIsRuntime DEF Begin
    <2> QED
      BY <1>9, <2>1 DEF Begin
  <1>10. ASSUME NEW r \in Runs, Reuse(r) PROVE Reported'
    <2>1. runtime' # None /\ runtime'.run = r /\ runtime'.ready = TRUE
      BY <1>10, WrittenIsRuntime DEF Reuse
    <2> QED
      BY <1>10, <2>1 DEF Reuse, Reusable
  <1>11. ASSUME NEW r \in Runs, Proceed(r) PROVE Reported'
    <2>1. runtime' # None /\ runtime'.run = r /\ runtime'.ready = FALSE
      BY <1>11, WrittenIsRuntime DEF Proceed
    <2> QED
      BY <1>11, <2>1 DEF Proceed
  <1>12. ASSUME NEW r \in Runs, Pipeline(r) PROVE Reported'
    <2>1. runtime' # None /\ runtime'.run = r /\ runtime'.ready = FALSE
      BY <1>12, WrittenIsRuntime DEF Pipeline
    <2> QED
      BY <1>12, <2>1 DEF Pipeline
  <1>13. ASSUME NEW r \in Runs, WriteMeta(r) PROVE Reported'
    BY <1>13 DEF WriteMeta, Quality
  <1>14. ASSUME NEW r \in Runs, Memory(r) PROVE Reported'
    <2>1. runtime' # None /\ runtime'.run = r /\ runtime'.ready = FALSE
      BY <1>14, WrittenIsRuntime DEF Memory
    <2> QED
      BY <1>14, <2>1 DEF Memory
  <1>15. ASSUME NEW r \in Runs, Script(r) PROVE Reported'
    BY <1>15 DEF Script
  <1>16. ASSUME NEW r \in Runs, WriteCycle(r) PROVE Reported'
    BY <1>16 DEF WriteCycle
  <1>17. ASSUME NEW r \in Runs, Decide(r) PROVE Reported'
    BY <1>17 DEF Decide, Quality
  <1>18. ASSUME NEW r \in Runs, Finish(r) PROVE Reported'
    BY <1>18 DEF Finish, Written
  <1>19. ASSUME NEW r \in Runs, WriteFailed(r) PROVE Reported'
    BY <1>19 DEF WriteFailed, Written
  <1>20. ASSUME NEW r \in Runs, Release(r) PROVE Reported'
    BY <1>20 DEF Release, Exit
  <1>21. ASSUME NEW r \in Runs, OrphanScript(r) PROVE Reported'
    BY <1>21 DEF OrphanScript
  <1>22. ASSUME NEW r \in Runs, Recycle(r) PROVE Reported'
    BY <1>22 DEF Recycle
  <1>23. ASSUME NEW r \in Runs, Fail(r) PROVE Reported'
    BY <1>23 DEF Fail
  <1>24. ASSUME NEW r \in Runs, Crash(r) PROVE Reported'
    BY <1>24 DEF Crash, Exit, Running
  <1>25. ASSUME NEW c \in Clients, Get(c) PROVE Reported'
    BY <1>25 DEF Get, Look, Stale
  <1>26. ASSUME NEW c \in Clients, GetAbort(c) PROVE Reported'
    <2>1. seen[c].run \in Runs
      BY <1>26 DEF GetAbort, WriteAborted, Looked
    <2>2. runtime' # None /\ ~runtime'.ready
      BY <1>26, <2>1, WrittenIsRuntime DEF GetAbort, WriteAborted
    <2> QED
      BY <1>26, <2>2 DEF GetAbort, WriteAborted
  <1>27. ASSUME NEW c \in Clients, PostStale(c) PROVE Reported'
    BY <1>27 DEF PostStale, Look, Stale
  <1>28. ASSUME NEW c \in Clients, PostAbort(c) PROVE Reported'
    <2>1. seen[c].run \in Runs
      BY <1>28 DEF PostAbort, WriteAborted, Looked
    <2>2. runtime' # None /\ ~runtime'.ready
      BY <1>28, <2>1, WrittenIsRuntime DEF PostAbort, WriteAborted
    <2> QED
      BY <1>28, <2>2 DEF PostAbort, WriteAborted
  <1>29. ASSUME NEW c \in Clients, Post(c) PROVE Reported'
    BY <1>29 DEF Post
  <1>30. ASSUME NEW c \in Clients, SpawnFails(c) PROVE Reported'
    BY <1>30 DEF SpawnFails
  <1>31. ASSUME NEW c \in Clients, PollStale(c) PROVE Reported'
    BY <1>31 DEF PollStale, Look, Stale
  <1>32. ASSUME NEW c \in Clients, PollAbort(c) PROVE Reported'
    <2>1. seen[c].run \in Runs
      BY <1>32 DEF PollAbort, WriteAborted, Looked
    <2>2. runtime' # None /\ ~runtime'.ready
      BY <1>32, <2>1, WrittenIsRuntime DEF PollAbort, WriteAborted
    <2> QED
      BY <1>32, <2>2 DEF PollAbort, WriteAborted
  <1>33. ASSUME NEW c \in Clients, PollEnds(c) PROVE Reported'
    BY <1>33 DEF PollEnds
  <1>34. ASSUME NEW c \in Clients, NEW r \in Runs, Spawn(c, r) PROVE Reported'
    BY <1>34 DEF Spawn
  <1>35. CASE Close
    BY <1>35 DEF Close
  <1>36. CASE Age
    BY <1>36 DEF Age
  <1>37. CASE Reap
    BY <1>37 DEF Reap
  <1>38. CASE UNCHANGED vars
    BY <1>38 DEF vars
  <1> QED
    BY <1>1, <1>2, <1>3, <1>4, <1>5, <1>6, <1>7, <1>8, <1>9, <1>10, <1>11, <1>12,
       <1>13, <1>14, <1>15, <1>16, <1>17, <1>18, <1>19, <1>20, <1>21, <1>22, <1>23,
       <1>24, <1>25, <1>26, <1>27, <1>28, <1>29, <1>30, <1>31, <1>32, <1>33, <1>34,
       <1>35, <1>36, <1>37, <1>38
    DEF Next, Acquire, Work, Request, Launch

LEMMA ShownStep == Typed /\ Admitted /\ Shown /\ [Next]_vars => Shown'
  <1> SUFFICES ASSUME Typed, Admitted, Shown, [Next]_vars PROVE Shown'
    OBVIOUS
  <1> USE TodayRunAssumption, NoneAssumption DEF Typed, TypeOK, Admitted, Shown, InBody, Runtime, Actors, RunSteps, Body, Goto, workspace
  <1>1. ASSUME NEW r \in Runs, Start(r) PROVE Shown'
    BY <1>1 DEF Start
  <1>2. ASSUME NEW r \in Runs, CheckStale(r) PROVE Shown'
    BY <1>2 DEF CheckStale, Look, Stale
  <1>3. ASSUME NEW r \in Runs, Abort(r) PROVE Shown'
    BY <1>3 DEF Abort, WriteAborted, Written
  <1>4. ASSUME NEW r \in Runs, Check(r) PROVE Shown'
    BY <1>4 DEF Check, Exit
  <1>5. ASSUME NEW r \in Runs, Enter(r) PROVE Shown'
    BY <1>5 DEF Enter
  <1>6. ASSUME NEW r \in Runs, Inspect(r) PROVE Shown'
    BY <1>6 DEF Inspect, Exit
  <1>7. ASSUME NEW r \in Runs, Create(r) PROVE Shown'
    BY <1>7 DEF Create
  <1>8. ASSUME NEW r \in Runs, Fill(r) PROVE Shown'
    BY <1>8 DEF Fill
  <1>9. ASSUME NEW r \in Runs, Begin(r) PROVE Shown'
    BY <1>9 DEF Begin, Written
  <1>10. ASSUME NEW r \in Runs, Reuse(r) PROVE Shown'
    BY <1>10 DEF Reuse, Written
  <1>11. ASSUME NEW r \in Runs, Proceed(r) PROVE Shown'
    BY <1>11 DEF Proceed, Written
  <1>12. ASSUME NEW r \in Runs, Pipeline(r) PROVE Shown'
    BY <1>12 DEF Pipeline, Written
  <1>13. ASSUME NEW r \in Runs, WriteMeta(r) PROVE Shown'
    BY <1>13 DEF WriteMeta, Quality
  <1>14. ASSUME NEW r \in Runs, Memory(r) PROVE Shown'
    BY <1>14 DEF Memory, Written
  <1>15. ASSUME NEW r \in Runs, Script(r) PROVE Shown'
    BY <1>15 DEF Script
  <1>16. ASSUME NEW r \in Runs, WriteCycle(r) PROVE Shown'
    BY <1>16 DEF WriteCycle
  <1>17. ASSUME NEW r \in Runs, Decide(r) PROVE Shown'
    BY <1>17 DEF Decide, Quality
  <1>18. ASSUME NEW r \in Runs, Finish(r) PROVE Shown'
    BY <1>18 DEF Finish, Written
  <1>19. ASSUME NEW r \in Runs, WriteFailed(r) PROVE Shown'
    BY <1>19 DEF WriteFailed, Written
  <1>20. ASSUME NEW r \in Runs, Release(r) PROVE Shown'
    BY <1>20 DEF Release, Exit
  <1>21. ASSUME NEW r \in Runs, OrphanScript(r) PROVE Shown'
    BY <1>21 DEF OrphanScript
  <1>22. ASSUME NEW r \in Runs, Recycle(r) PROVE Shown'
    BY <1>22 DEF Recycle
  <1>23. ASSUME NEW r \in Runs, Fail(r) PROVE Shown'
    BY <1>23 DEF Fail
  <1>24. ASSUME NEW r \in Runs, Crash(r) PROVE Shown'
    BY <1>24 DEF Crash, Exit, Running
  <1>25. ASSUME NEW c \in Clients, Get(c) PROVE Shown'
    BY <1>25 DEF Get, Look, Stale
  <1>26. ASSUME NEW c \in Clients, GetAbort(c) PROVE Shown'
    BY <1>26 DEF GetAbort, WriteAborted, Written
  <1>27. ASSUME NEW c \in Clients, PostStale(c) PROVE Shown'
    BY <1>27 DEF PostStale, Look, Stale
  <1>28. ASSUME NEW c \in Clients, PostAbort(c) PROVE Shown'
    BY <1>28 DEF PostAbort, WriteAborted, Written
  <1>29. ASSUME NEW c \in Clients, Post(c) PROVE Shown'
    BY <1>29 DEF Post
  <1>30. ASSUME NEW c \in Clients, SpawnFails(c) PROVE Shown'
    BY <1>30 DEF SpawnFails
  <1>31. ASSUME NEW c \in Clients, PollStale(c) PROVE Shown'
    BY <1>31 DEF PollStale, Look, Stale
  <1>32. ASSUME NEW c \in Clients, PollAbort(c) PROVE Shown'
    BY <1>32 DEF PollAbort, WriteAborted, Written
  <1>33. ASSUME NEW c \in Clients, PollEnds(c) PROVE Shown'
    BY <1>33 DEF PollEnds
  <1>34. ASSUME NEW c \in Clients, NEW r \in Runs, Spawn(c, r) PROVE Shown'
    BY <1>34 DEF Spawn
  <1>35. CASE Close
    BY <1>35 DEF Close
  <1>36. CASE Age
    BY <1>36 DEF Age
  <1>37. CASE Reap
    BY <1>37 DEF Reap
  <1>38. CASE UNCHANGED vars
    BY <1>38 DEF vars
  <1> QED
    BY <1>1, <1>2, <1>3, <1>4, <1>5, <1>6, <1>7, <1>8, <1>9, <1>10, <1>11, <1>12,
       <1>13, <1>14, <1>15, <1>16, <1>17, <1>18, <1>19, <1>20, <1>21, <1>22, <1>23,
       <1>24, <1>25, <1>26, <1>27, <1>28, <1>29, <1>30, <1>31, <1>32, <1>33, <1>34,
       <1>35, <1>36, <1>37, <1>38
    DEF Next, Acquire, Work, Request, Launch

LEMMA DecidedStep == Typed /\ Admitted /\ Reported /\ Decided /\ [Next]_vars => Decided'
  <1> SUFFICES ASSUME Typed, Admitted, Reported, Decided, [Next]_vars PROVE Decided'
    OBVIOUS
  <1> USE TodayRunAssumption, NoneAssumption DEF Typed, TypeOK, Admitted, InBody, Runtime, Actors, RunSteps, Body, Goto, workspace, Quality, Deciding, Decided
  <1>1. ASSUME NEW r \in Runs, Start(r) PROVE Decided'
    BY <1>1 DEF Start
  <1>2. ASSUME NEW r \in Runs, CheckStale(r) PROVE Decided'
    BY <1>2 DEF CheckStale, Look, Stale
  <1>3. ASSUME NEW r \in Runs, Abort(r) PROVE Decided'
    BY <1>3 DEF Abort, WriteAborted, Written
  <1>4. ASSUME NEW r \in Runs, Check(r) PROVE Decided'
    BY <1>4 DEF Check, Exit
  <1>5. ASSUME NEW r \in Runs, Enter(r) PROVE Decided'
    BY <1>5 DEF Enter
  <1>6. ASSUME NEW r \in Runs, Inspect(r) PROVE Decided'
    BY <1>6 DEF Inspect, Exit
  <1>7. ASSUME NEW r \in Runs, Create(r) PROVE Decided'
    BY <1>7 DEF Create
  <1>8. ASSUME NEW r \in Runs, Fill(r) PROVE Decided'
    BY <1>8 DEF Fill
  <1>9. ASSUME NEW r \in Runs, Begin(r) PROVE Decided'
    BY <1>9 DEF Begin, Written
  <1>10. ASSUME NEW r \in Runs, Reuse(r) PROVE Decided'
    BY <1>10 DEF Reuse, Written
  <1>11. ASSUME NEW r \in Runs, Proceed(r) PROVE Decided'
    BY <1>11 DEF Proceed, Written
  <1>12. ASSUME NEW r \in Runs, Pipeline(r) PROVE Decided'
    BY <1>12 DEF Pipeline, Written
  <1>13. ASSUME NEW r \in Runs, WriteMeta(r) PROVE Decided'
    BY <1>13 DEF WriteMeta, Quality
  <1>14. ASSUME NEW r \in Runs, Memory(r) PROVE Decided'
    BY <1>14 DEF Memory, Written
  <1>15. ASSUME NEW r \in Runs, Script(r) PROVE Decided'
    BY <1>15 DEF Script
  <1>16. ASSUME NEW r \in Runs, WriteCycle(r) PROVE Decided'
    BY <1>16 DEF WriteCycle
  <1>17. ASSUME NEW r \in Runs, Decide(r) PROVE Decided'
    BY <1>17 DEF Decide, Quality
  <1>18. ASSUME NEW r \in Runs, Finish(r) PROVE Decided'
    BY <1>18 DEF Finish, Written
  <1>19. ASSUME NEW r \in Runs, WriteFailed(r) PROVE Decided'
    BY <1>19 DEF WriteFailed, Written
  <1>20. ASSUME NEW r \in Runs, Release(r) PROVE Decided'
    BY <1>20 DEF Release, Exit
  <1>21. ASSUME NEW r \in Runs, OrphanScript(r) PROVE Decided'
    BY <1>21 DEF OrphanScript
  <1>22. ASSUME NEW r \in Runs, Recycle(r) PROVE Decided'
    BY <1>22 DEF Recycle
  <1>23. ASSUME NEW r \in Runs, Fail(r) PROVE Decided'
    BY <1>23 DEF Fail, Fault
  <1>24. ASSUME NEW r \in Runs, Crash(r) PROVE Decided'
    BY <1>24 DEF Crash, Exit, Running, Fault
  <1>25. ASSUME NEW c \in Clients, Get(c) PROVE Decided'
    BY <1>25 DEF Get, Look, Stale
  <1>26. ASSUME NEW c \in Clients, GetAbort(c) PROVE Decided'
    BY <1>26 DEF GetAbort, WriteAborted, Written
  <1>27. ASSUME NEW c \in Clients, PostStale(c) PROVE Decided'
    BY <1>27 DEF PostStale, Look, Stale
  <1>28. ASSUME NEW c \in Clients, PostAbort(c) PROVE Decided'
    BY <1>28 DEF PostAbort, WriteAborted, Written
  <1>29. ASSUME NEW c \in Clients, Post(c) PROVE Decided'
    BY <1>29 DEF Post
  <1>30. ASSUME NEW c \in Clients, SpawnFails(c) PROVE Decided'
    BY <1>30 DEF SpawnFails
  <1>31. ASSUME NEW c \in Clients, PollStale(c) PROVE Decided'
    BY <1>31 DEF PollStale, Look, Stale
  <1>32. ASSUME NEW c \in Clients, PollAbort(c) PROVE Decided'
    BY <1>32 DEF PollAbort, WriteAborted, Written
  <1>33. ASSUME NEW c \in Clients, PollEnds(c) PROVE Decided'
    BY <1>33 DEF PollEnds
  <1>34. ASSUME NEW c \in Clients, NEW r \in Runs, Spawn(c, r) PROVE Decided'
    BY <1>34 DEF Spawn
  <1>35. CASE Close
    BY <1>35 DEF Close
  <1>36. CASE Age
    BY <1>36 DEF Age
  <1>37. CASE Reap
    BY <1>37 DEF Reap
  <1>38. CASE UNCHANGED vars
    BY <1>38 DEF vars
  <1> QED
    BY <1>1, <1>2, <1>3, <1>4, <1>5, <1>6, <1>7, <1>8, <1>9, <1>10, <1>11, <1>12,
       <1>13, <1>14, <1>15, <1>16, <1>17, <1>18, <1>19, <1>20, <1>21, <1>22, <1>23,
       <1>24, <1>25, <1>26, <1>27, <1>28, <1>29, <1>30, <1>31, <1>32, <1>33, <1>34,
       <1>35, <1>36, <1>37, <1>38
    DEF Next, Acquire, Work, Request, Launch

LEMMA JudgedStep == Typed /\ Admitted /\ Shown /\ Calm /\ Judged /\ [Next]_vars => Judged'
  <1> SUFFICES ASSUME Typed, Admitted, Shown, Calm, Judged, [Next]_vars PROVE Judged'
    OBVIOUS
  <1> USE TodayRunAssumption, NoneAssumption DEF Typed, TypeOK, Looked, Admitted, InBody, Runtime, Actors, RunSteps, Body, Goto, workspace, Shown, Judged, Looking, Calm, Settled
  <1>1. ASSUME NEW r \in Runs, Start(r) PROVE Judged'
    BY <1>1 DEF Start
  <1>2. ASSUME NEW r \in Runs, CheckStale(r) PROVE Judged'
    BY <1>2 DEF CheckStale, Look, Stale, ProcessExists, Running
  <1>3. ASSUME NEW r \in Runs, Abort(r) PROVE Judged'
    BY <1>3 DEF Abort, WriteAborted, Written
  <1>4. ASSUME NEW r \in Runs, Check(r) PROVE Judged'
    BY <1>4 DEF Check, Exit
  <1>5. ASSUME NEW r \in Runs, Enter(r) PROVE Judged'
    BY <1>5 DEF Enter
  <1>6. ASSUME NEW r \in Runs, Inspect(r) PROVE Judged'
    BY <1>6 DEF Inspect, Exit
  <1>7. ASSUME NEW r \in Runs, Create(r) PROVE Judged'
    BY <1>7 DEF Create
  <1>8. ASSUME NEW r \in Runs, Fill(r) PROVE Judged'
    BY <1>8 DEF Fill
  <1>9. ASSUME NEW r \in Runs, Begin(r) PROVE Judged'
    BY <1>9 DEF Begin, Written
  <1>10. ASSUME NEW r \in Runs, Reuse(r) PROVE Judged'
    BY <1>10 DEF Reuse, Written
  <1>11. ASSUME NEW r \in Runs, Proceed(r) PROVE Judged'
    BY <1>11 DEF Proceed, Written
  <1>12. ASSUME NEW r \in Runs, Pipeline(r) PROVE Judged'
    BY <1>12 DEF Pipeline, Written
  <1>13. ASSUME NEW r \in Runs, WriteMeta(r) PROVE Judged'
    BY <1>13 DEF WriteMeta, Quality
  <1>14. ASSUME NEW r \in Runs, Memory(r) PROVE Judged'
    BY <1>14 DEF Memory, Written
  <1>15. ASSUME NEW r \in Runs, Script(r) PROVE Judged'
    BY <1>15 DEF Script
  <1>16. ASSUME NEW r \in Runs, WriteCycle(r) PROVE Judged'
    BY <1>16 DEF WriteCycle
  <1>17. ASSUME NEW r \in Runs, Decide(r) PROVE Judged'
    BY <1>17 DEF Decide, Quality
  <1>18. ASSUME NEW r \in Runs, Finish(r) PROVE Judged'
    BY <1>18 DEF Finish, Written
  <1>19. ASSUME NEW r \in Runs, WriteFailed(r) PROVE Judged'
    BY <1>19 DEF WriteFailed, Written
  <1>20. ASSUME NEW r \in Runs, Release(r) PROVE Judged'
    BY <1>20 DEF Release, Exit
  <1>21. ASSUME NEW r \in Runs, OrphanScript(r) PROVE Judged'
    BY <1>21 DEF OrphanScript
  <1>22. ASSUME NEW r \in Runs, Recycle(r) PROVE Judged'
    BY <1>22 DEF Recycle
  <1>23. ASSUME NEW r \in Runs, Fail(r) PROVE Judged'
    BY <1>23 DEF Fail, Fault
  <1>24. ASSUME NEW r \in Runs, Crash(r) PROVE Judged'
    BY <1>24 DEF Crash, Exit, Running, Fault
  <1>25. ASSUME NEW c \in Clients, Get(c) PROVE Judged'
    BY <1>25 DEF Get, Look, Stale, ProcessExists, Running
  <1>26. ASSUME NEW c \in Clients, GetAbort(c) PROVE Judged'
    BY <1>26 DEF GetAbort, WriteAborted, Written
  <1>27. ASSUME NEW c \in Clients, PostStale(c) PROVE Judged'
    BY <1>27 DEF PostStale, Look, Stale, ProcessExists, Running
  <1>28. ASSUME NEW c \in Clients, PostAbort(c) PROVE Judged'
    BY <1>28 DEF PostAbort, WriteAborted, Written
  <1>29. ASSUME NEW c \in Clients, Post(c) PROVE Judged'
    BY <1>29 DEF Post
  <1>30. ASSUME NEW c \in Clients, SpawnFails(c) PROVE Judged'
    BY <1>30 DEF SpawnFails
  <1>31. ASSUME NEW c \in Clients, PollStale(c) PROVE Judged'
    BY <1>31 DEF PollStale, Look, Stale, ProcessExists, Running
  <1>32. ASSUME NEW c \in Clients, PollAbort(c) PROVE Judged'
    BY <1>32 DEF PollAbort, WriteAborted, Written
  <1>33. ASSUME NEW c \in Clients, PollEnds(c) PROVE Judged'
    BY <1>33 DEF PollEnds
  <1>34. ASSUME NEW c \in Clients, NEW r \in Runs, Spawn(c, r) PROVE Judged'
    BY <1>34 DEF Spawn
  <1>35. CASE Close
    BY <1>35 DEF Close
  <1>36. CASE Age
    BY <1>36 DEF Age
  <1>37. CASE Reap
    BY <1>37 DEF Reap
  <1>38. CASE UNCHANGED vars
    BY <1>38 DEF vars
  <1> QED
    BY <1>1, <1>2, <1>3, <1>4, <1>5, <1>6, <1>7, <1>8, <1>9, <1>10, <1>11, <1>12,
       <1>13, <1>14, <1>15, <1>16, <1>17, <1>18, <1>19, <1>20, <1>21, <1>22, <1>23,
       <1>24, <1>25, <1>26, <1>27, <1>28, <1>29, <1>30, <1>31, <1>32, <1>33, <1>34,
       <1>35, <1>36, <1>37, <1>38
    DEF Next, Acquire, Work, Request, Launch

LEMMA CalmStep == Typed /\ Admitted /\ Judged /\ Calm /\ [Next]_vars => Calm'
  <1> SUFFICES ASSUME Typed, Admitted, Judged, Calm, [Next]_vars, faults' = 0 PROVE Settled'
    BY DEF Calm
  <1>0. Settled /\ faults = 0 /\ ~Stale
    <2>1. faults = 0
      <3>1. faults' = faults \/ faults' = faults + 1
        BY DEF Next, vars, Acquire, Work, Request, Launch,
          Start, CheckStale, Abort, Check, Enter, Inspect, Create, Fill, Begin, Reuse, Proceed,
          Pipeline, WriteMeta, Memory, Script, WriteCycle, Decide, Finish, WriteFailed, Release,
          OrphanScript, Recycle, Fail, Crash, Get, GetAbort, PostStale, PostAbort, Post, SpawnFails,
          PollStale, PollAbort, PollEnds, Spawn, Close, Age, Reap, Look, WriteAborted, Fault
      <3>2. faults \in Nat
        BY TodayRunAssumption DEF Typed, TypeOK
      <3> QED
        BY <3>1, <3>2
    <2>2. Settled
      BY <2>1 DEF Calm
    <2>3. ~Stale
      BY <2>2 DEF Stale, Settled, ProcessExists, Running, Body
    <2> QED
      BY <2>1, <2>2, <2>3
  <1> USE TodayRunAssumption, NoneAssumption DEF Typed, TypeOK, Admitted, Settled, Judged, Looking, InBody, Runtime, Actors, RunSteps, Body, Goto, workspace
  <1>1. ASSUME NEW r \in Runs, Start(r) PROVE Settled'
    BY <1>0, <1>1 DEF Start
  <1>2. ASSUME NEW r \in Runs, CheckStale(r) PROVE Settled'
    BY <1>0, <1>2 DEF CheckStale, Look, Stale
  <1>3. ASSUME NEW r \in Runs, Abort(r) PROVE Settled'
    BY <1>0, <1>3 DEF Abort, WriteAborted, Written
  <1>4. ASSUME NEW r \in Runs, Check(r) PROVE Settled'
    BY <1>0, <1>4 DEF Check, Exit
  <1>5. ASSUME NEW r \in Runs, Enter(r) PROVE Settled'
    BY <1>0, <1>5 DEF Enter
  <1>6. ASSUME NEW r \in Runs, Inspect(r) PROVE Settled'
    BY <1>0, <1>6 DEF Inspect, Exit
  <1>7. ASSUME NEW r \in Runs, Create(r) PROVE Settled'
    BY <1>0, <1>7 DEF Create
  <1>8. ASSUME NEW r \in Runs, Fill(r) PROVE Settled'
    BY <1>0, <1>8 DEF Fill
  <1>9. ASSUME NEW r \in Runs, Begin(r) PROVE Settled'
    BY <1>0, <1>9 DEF Begin, Written
  <1>10. ASSUME NEW r \in Runs, Reuse(r) PROVE Settled'
    BY <1>0, <1>10 DEF Reuse, Written
  <1>11. ASSUME NEW r \in Runs, Proceed(r) PROVE Settled'
    BY <1>0, <1>11 DEF Proceed, Written
  <1>12. ASSUME NEW r \in Runs, Pipeline(r) PROVE Settled'
    BY <1>0, <1>12 DEF Pipeline, Written
  <1>13. ASSUME NEW r \in Runs, WriteMeta(r) PROVE Settled'
    BY <1>0, <1>13 DEF WriteMeta, Quality
  <1>14. ASSUME NEW r \in Runs, Memory(r) PROVE Settled'
    BY <1>0, <1>14 DEF Memory, Written
  <1>15. ASSUME NEW r \in Runs, Script(r) PROVE Settled'
    BY <1>0, <1>15 DEF Script
  <1>16. ASSUME NEW r \in Runs, WriteCycle(r) PROVE Settled'
    BY <1>0, <1>16 DEF WriteCycle
  <1>17. ASSUME NEW r \in Runs, Decide(r) PROVE Settled'
    BY <1>0, <1>17 DEF Decide, Quality
  <1>18. ASSUME NEW r \in Runs, Finish(r) PROVE Settled'
    BY <1>0, <1>18 DEF Finish, Written
  <1>19. ASSUME NEW r \in Runs, WriteFailed(r) PROVE Settled'
    BY <1>0, <1>19 DEF WriteFailed, Written
  <1>20. ASSUME NEW r \in Runs, Release(r) PROVE Settled'
    BY <1>0, <1>20 DEF Release, Exit
  <1>21. ASSUME NEW r \in Runs, OrphanScript(r) PROVE Settled'
    BY <1>0, <1>21 DEF OrphanScript
  <1>22. ASSUME NEW r \in Runs, Recycle(r) PROVE Settled'
    BY <1>0, <1>22 DEF Recycle
  <1>23. ASSUME NEW r \in Runs, Fail(r) PROVE Settled'
    BY <1>0, <1>23 DEF Fail, Fault
  <1>24. ASSUME NEW r \in Runs, Crash(r) PROVE Settled'
    BY <1>0, <1>24 DEF Crash, Fault
  <1>25. ASSUME NEW c \in Clients, Get(c) PROVE Settled'
    BY <1>0, <1>25 DEF Get, Look, Stale
  <1>26. ASSUME NEW c \in Clients, GetAbort(c) PROVE Settled'
    BY <1>0, <1>26 DEF GetAbort, WriteAborted, Written
  <1>27. ASSUME NEW c \in Clients, PostStale(c) PROVE Settled'
    BY <1>0, <1>27 DEF PostStale, Look, Stale
  <1>28. ASSUME NEW c \in Clients, PostAbort(c) PROVE Settled'
    BY <1>0, <1>28 DEF PostAbort, WriteAborted, Written
  <1>29. ASSUME NEW c \in Clients, Post(c) PROVE Settled'
    BY <1>0, <1>29 DEF Post
  <1>30. ASSUME NEW c \in Clients, SpawnFails(c) PROVE Settled'
    BY <1>0, <1>30 DEF SpawnFails
  <1>31. ASSUME NEW c \in Clients, PollStale(c) PROVE Settled'
    BY <1>0, <1>31 DEF PollStale, Look, Stale
  <1>32. ASSUME NEW c \in Clients, PollAbort(c) PROVE Settled'
    BY <1>0, <1>32 DEF PollAbort, WriteAborted, Written
  <1>33. ASSUME NEW c \in Clients, PollEnds(c) PROVE Settled'
    BY <1>0, <1>33 DEF PollEnds
  <1>34. ASSUME NEW c \in Clients, NEW r \in Runs, Spawn(c, r) PROVE Settled'
    BY <1>0, <1>34 DEF Spawn
  <1>35. CASE Close
    BY <1>0, <1>35 DEF Close
  <1>36. CASE Age
    BY <1>0, <1>36 DEF Age
  <1>37. CASE Reap
    BY <1>0, <1>37 DEF Reap
  <1>38. CASE UNCHANGED vars
    BY <1>0, <1>38 DEF vars
  <1> QED
    BY <1>1, <1>2, <1>3, <1>4, <1>5, <1>6, <1>7, <1>8, <1>9, <1>10, <1>11, <1>12,
       <1>13, <1>14, <1>15, <1>16, <1>17, <1>18, <1>19, <1>20, <1>21, <1>22, <1>23,
       <1>24, <1>25, <1>26, <1>27, <1>28, <1>29, <1>30, <1>31, <1>32, <1>33, <1>34,
       <1>35, <1>36, <1>37, <1>38
    DEF Next, Acquire, Work, Request, Launch

LEMMA InvInit == Init => Typed /\ Admitted /\ Reported /\ Shown /\ Decided /\ Judged /\ Calm
  <1> SUFFICES ASSUME Init PROVE Admitted /\ Reported /\ Shown /\ Decided /\ Judged /\ Calm
    BY TypedInit
  <1> USE TodayRunAssumption DEF Init, Actors, Body
  <1>1. \A r \in Runs : pc[r] = "new"
    OBVIOUS
  <1>2. Admitted
    BY <1>1 DEF Admitted, InBody
  <1>3. Reported
    BY <1>1 DEF Reported, ReadyIsReal
  <1>4. Shown
    BY DEF Shown
  <1>5. Decided
    BY <1>1 DEF Decided, Deciding
  <1>6. Judged
    BY <1>1 DEF Judged, Looking
  <1>7. Calm
    BY <1>1 DEF Calm, Settled
  <1> QED
    BY <1>2, <1>3, <1>4, <1>5, <1>6, <1>7

LEMMA Invariant == Spec => [](Typed /\ Admitted /\ Reported /\ Shown /\ Decided /\ Judged /\ Calm)
  <1> QED
    BY InvInit, TypedStep, AdmittedStep, ReportedStep, ShownStep, DecidedStep, JudgedStep, CalmStep, PTL DEF Spec

\* The variables keep their types.
THEOREM TypeCorrect == Spec => []TypeOK
  <1>1. Typed => TypeOK
    BY DEF Typed
  <1> QED
    BY <1>1, Invariant, PTL

\* The lease of today_orchestrator.py admits one process at a time to a date,
\* whatever crashes, torn lease files and recycled pids there are.
THEOREM OneRunnerHolds == Spec => []OneRunner
  <1>1. Admitted => OneRunner
    BY DEF Admitted, OneRunner
  <1> QED
    BY <1>1, Invariant, PTL

\* A runtime file that announces a result of run_today_analysis tells the truth.
THEOREM ReadyIsRealHolds == Spec => []ReadyIsReal
  <1>1. Reported => ReadyIsReal
    BY DEF Reported
  <1> QED
    BY <1>1, Invariant, PTL

\* A date that backfill_after_close_runs passes over has the decision of a run
\* that was started after the close, whatever failed or died, unless the last such
\* run was cut short between its meta and its decision.
THEOREM BackfillHolds == Spec => []BackfillUnlessCut
  <1>1. Decided => BackfillUnlessCut
    BY DEF Decided, Deciding, BackfillUnlessCut, InBody, Body, NeedsRerun
  <1> QED
    BY <1>1, Invariant, PTL

LEMMA ResultStandsStep ==
  ASSUME Typed, Judged, [Next]_vars, runtime # None, runtime.ready, runtime' # runtime
  PROVE  InBody(runtime'.run) \/ (faults > 0 /\ pc[runtime'.run] = "done" /\ runtime'.run # runtime.run)
  <1>1. ASSUME NEW r \in Runs, \/ Begin(r) \/ Reuse(r) \/ Proceed(r) \/ Pipeline(r)
                               \/ Memory(r) \/ Finish(r) \/ WriteFailed(r)
        PROVE  InBody(runtime'.run)
    <2>1. runtime'.run = r
      BY <1>1 DEF Begin, Reuse, Proceed, Pipeline, Memory, Finish, WriteFailed, Written
    <2>2. pc[r] \in Body
      BY <1>1 DEF Begin, Reuse, Proceed, Pipeline, Memory, Finish, WriteFailed, Goto, Body
    <2> QED
      BY <2>1, <2>2 DEF InBody
  <1>2. ~Age
    BY DEF Age, Judged
  <1>3. ASSUME NEW a \in Actors, Abort(a) \/ GetAbort(a) \/ PostAbort(a) \/ PollAbort(a)
        PROVE  faults > 0 /\ pc[runtime'.run] = "done" /\ runtime'.run # runtime.run
    <2>1. pc[a] \in Looking /\ runtime'.run = seen[a].run
      BY <1>3 DEF Abort, GetAbort, PostAbort, PollAbort, WriteAborted, Goto, Written, Looking
    <2> QED
      BY <2>1 DEF Judged
  <1> QED
    BY <1>1, <1>2, <1>3 DEF Next, vars, workspace, Actors, Acquire, Work, Request, Launch,
      Start, CheckStale, Check, Enter, Inspect, Create, Fill, WriteMeta, Script, WriteCycle,
      Decide, Release, OrphanScript, Recycle, Fail, Crash, Get, PostStale, Post, SpawnFails,
      PollStale, PollEnds, Spawn, Close, Reap, Look

\* A result that the runtime file reports is replaced by the run that has the
\* lease, or, after a fault, by the late abort of another run that is over: no
\* process or request writes off the run whose result is there.
THEOREM ResultStandsHolds == Spec => ResultStands
  <1>1. Typed /\ Judged /\ [Next]_vars
        => [runtime # None /\ runtime.ready =>
              \/ runtime' = runtime
              \/ InBody(runtime'.run)
              \/ faults > 0 /\ pc[runtime'.run] = "done" /\ runtime'.run # runtime.run]_vars
    BY ResultStandsStep
  <1> QED
    BY <1>1, Invariant, PTL DEF Spec, ResultStands

-------------------------------------------------------------------------------
\* Without zombies and recycled pids, process_exists tells who is alive.
Alive == recycled = {} /\ zombies = {}

LEMMA AliveStep ==
  ASSUME ~Zombies, MaxRecycled = 0
  PROVE  Typed /\ Alive /\ [Next]_vars => Alive'
  <1> SUFFICES ASSUME Typed, Alive, [Next]_vars PROVE Alive'
    OBVIOUS
  <1>1. \A r : ~Recycle(r)
    BY FS_EmptySet DEF Recycle, Alive
  <1>2. \A r : Exit(r) => zombies' = {}
    BY DEF Exit, Alive
  <1> QED
    BY <1>1, <1>2 DEF Alive, Next, vars, Acquire, Work, Request, Launch,
      Start, CheckStale, Abort, Check, Enter, Inspect, Create, Fill, Begin, Reuse, Proceed,
      Pipeline, WriteMeta, Memory, Script, WriteCycle, Decide, Finish, WriteFailed, Release,
      OrphanScript, Fail, Crash, Get, GetAbort, PostStale, PostAbort, Post, SpawnFails,
      PollStale, PollAbort, PollEnds, Spawn, Close, Age, Reap, Look, WriteAborted

LEMMA RefusalStep ==
  ASSUME Typed, Shown, Alive, NEW r \in Runs, Check(r) \/ Inspect(r), pc'[r] = "done"
  PROVE  \E s \in Runs \ {r} : InBody(s)
  <1> USE DEF Typed, TypeOK, Shown, Alive, InBody, Runtime, Goto, Actors, ProcessExists, Running, Body
  <1>1. CASE Check(r)
    <2>1. Active /\ pc[r] = "check"
      BY <1>1 DEF Check
    <2>2. runtime.run \in Runs \ {r} /\ InBody(runtime.run)
      BY <2>1, NoneAssumption DEF Active
    <2> QED
      BY <2>2
  <1>2. CASE Inspect(r)
    <2>1. LeaseHeld /\ pc[r] = "inspect"
      BY <1>2 DEF Inspect
    <2>2. lease \in Runs \ {r} /\ InBody(lease)
      BY <2>1 DEF LeaseHeld
    <2> QED
      BY <2>2
  <1> QED
    BY <1>1, <1>2

\* A run of the date is refused only while another one works on it, where pids
\* are not reused and ended children are waited for (Windows, or a scheduler).
THEOREM RefusalIsJustifiedHolds ==
  ASSUME ~Zombies, MaxRecycled = 0
  PROVE  Spec => RefusalIsJustified
  <1>1. Init => Alive
    BY DEF Init, Alive
  <1>2. Typed /\ Shown /\ Alive /\ [Next]_vars
        => [\A r \in Runs : (Check(r) \/ Inspect(r)) /\ pc'[r] = "done"
                              => \E s \in Runs \ {r} : InBody(s)]_vars
    BY RefusalStep
  <1> QED
    BY <1>1, <1>2, AliveStep, Invariant, PTL DEF Spec, RefusalIsJustified

================================================================================
