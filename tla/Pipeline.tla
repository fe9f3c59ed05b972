------------------------------- MODULE Pipeline --------------------------------
(***************************************************************************)
(* The engine of run_daily_pipeline.py for one report date: stages of      *)
(* scripts that run as child processes, in parallel inside a stage; a      *)
(* failed script fails the run; --resume-existing skips a script whose     *)
(* declared outputs are newer than its declared inputs.  What the scripts  *)
(* really read and write are constants of their own, so the declaration    *)
(* can be compared with it.  One run at a time.                            *)
(***************************************************************************)
EXTENDS Naturals, Sequences, FiniteSets

CONSTANTS
  Steps, Files,
  Stages,     \* [kind of run -> sequence of sets of steps]
  Outputs,    \* [Steps -> SUBSET Files], declared
  Inputs,     \* [Steps -> SUBSET Files], declared
  Resumable,  \* steps with a declaration that allows to resume them
  Reads,      \* [Steps -> SUBSET Files], what the script reads when it starts
  Writes,     \* [Steps -> Seq(Files)], what it writes, in this order
  Optional,   \* steps whose failure does not fail the run
  Demo,       \* steps that --demo makes write made-up data
  Mock,       \* the step that --llm-mock makes write mock advice
  Status,     \* the file in which Mock writes what it was asked for, at last
  Sources,    \* files that other programs change
  Requests,   \* command lines: [kind, resume, demo, mock]
  Unwatched,  \* [Steps -> SUBSET Files], read, not declared, and nothing else
              \* that is declared is rebuilt for it: resuming does not see it
  MaxRuns,    \* bound: runs
  MaxTouches, \* bound: changes of sources
  MaxFaults,  \* bound: scripts that fail, crashes
  None

VARIABLES
  phase,      \* manifest status: "none", "running", "ok", "failed", "died"
  run,        \* the request of the latest run
  stage,      \* index of its stage; 0 during the preflight
  step,       \* [Steps -> what became of the step in this run]
  wrote,      \* [Steps -> number of files written by the running script]
  newer,      \* [Steps -> existing outputs newer than all existing inputs]
  exists,
  lag,        \* <<f, i>>: i has changed since the script that made f read it
  raced,      \* <<f, i>>: already so when f was written
  missed,     \* [Steps -> files changed since the running script read them]
  cut,        \* files of a script that stopped between two of its writes
  synthetic,  \* files made from --demo or by --llm-mock
  again,      \* the run repeats a finished one and nothing has changed since
  calm,       \* nothing has changed since the run began
  runs, touches, faults

disk == <<newer, exists, lag, raced, missed, synthetic>>
vars == <<phase, run, stage, step, wrote, disk, cut, again, calm, runs, touches, faults>>

-------------------------------------------------------------------------------
WritesOf(s) == {Writes[s][k] : k \in 1 .. Len(Writes[s])}

\* A script that writes a file it has read changes it in place; the file is
\* made by the other script that writes it.
InPlace(s, f) == f \in Reads[s]
Made == [s \in Steps |-> {f \in WritesOf(s) : ~InPlace(s, f)}]
MadeFrom == [f \in Files |-> UNION {Reads[s] : s \in {t \in Steps : f \in Made[t]}}]

Bounded == MaxRuns \in Nat /\ MaxTouches \in Nat /\ MaxFaults \in Nat

ASSUME PipelineAssumption ==
  /\ Bounded
  /\ Outputs \in [Steps -> SUBSET Files] /\ Inputs \in [Steps -> SUBSET Files]
  /\ Reads \in [Steps -> SUBSET Files]
  /\ Writes \in [Steps -> Seq(Files)]
  /\ Resumable \subseteq Steps
  /\ Sources \subseteq Files
  /\ \A r \in Requests : r.resume \in BOOLEAN /\ r.demo \in BOOLEAN /\ r.mock \in BOOLEAN
  /\ None \notin Requests

\* Nothing else makes the files of the advice, and other programs do not touch
\* them, and its failure fails the run.
ASSUME MockAssumption ==
  /\ Mock \in Steps \ (Optional \cup Demo)
  /\ Status \in Made[Mock]
  /\ \A s \in Steps \ {Mock} : Made[s] \cap Made[Mock] = {}
  /\ Made[Mock] \cap Sources = {}

ASSUME StageAssumption == \A r \in Requests : Stages[r.kind] \in Seq(SUBSET Steps)

Plan == Stages[run.kind]

TypeOK ==
  /\ phase \in {"none", "running", "ok", "failed", "died"}
  /\ run \in Requests \cup {None}
  /\ stage \in 0 .. (IF run = None THEN 0 ELSE Len(Plan) + 1)
  /\ step \in [Steps -> {"todo", "running", "done", "skipped", "failed"}]
  /\ wrote \in [Steps -> Nat] /\ \A s \in Steps : wrote[s] <= Len(Writes[s])
  /\ newer \in [Steps -> SUBSET Files] /\ \A s \in Steps : newer[s] \subseteq Outputs[s] \cap exists
  /\ exists \subseteq Files
  /\ lag \subseteq exists \X Files /\ raced \subseteq lag
  /\ missed \in [Steps -> SUBSET Files]
  /\ cut \subseteq Files /\ synthetic \subseteq exists
  /\ again \in BOOLEAN /\ calm \in BOOLEAN
  /\ runs \in 0 .. MaxRuns /\ touches \in 0 .. MaxTouches /\ faults \in 0 .. MaxFaults

Init ==
  /\ phase = "none" /\ run = None /\ stage = 0
  /\ step = [s \in Steps |-> "todo"]
  /\ wrote = [s \in Steps |-> 0]
  /\ newer = [s \in Steps |-> {}]
  /\ exists = Sources
  /\ lag = {} /\ raced = {}
  /\ missed = [s \in Steps |-> {}]
  /\ cut = {} /\ synthetic = {}
  /\ again = FALSE /\ calm = FALSE
  /\ runs = 0 /\ touches = 0 /\ faults = 0

Fault == faults < MaxFaults /\ faults' = faults + 1

-------------------------------------------------------------------------------
\* A file is written: it is newer than everything before it.
Dated(f) ==
  /\ newer' = [s \in Steps |-> (IF f \in Inputs[s] THEN {} ELSE newer[s]) \cup ({f} \cap Outputs[s])]
  /\ exists' = exists \cup {f}

\* Everything made from f lags behind it now.
Behind(f) == {<<g, f>> : g \in {h \in exists : f \in MadeFrom[h]}}

\* The running scripts that have read f have missed the change.
Missed(s, f) ==
  [t \in Steps |-> IF step[t] = "running" /\ t # s /\ f \in Reads[t]
                   THEN missed[t] \cup {f} ELSE missed[t]]

\* Another program changes a source: the portfolio, the memory, a setting.
Touch(f) ==
  /\ touches < MaxTouches /\ touches' = touches + 1
  /\ Dated(f)
  /\ lag' = lag \cup Behind(f)
  /\ missed' = Missed(None, f)
  /\ calm' = FALSE /\ again' = FALSE
  /\ UNCHANGED <<phase, run, stage, step, wrote, raced, cut, synthetic, runs, faults>>

\* What a step that makes f knows nothing of; one that finds no file to change
\* in place writes one that knows nothing at all.
Unseen(s, f) ==
  IF ~InPlace(s, f) THEN missed[s] ELSE IF f \in exists THEN {} ELSE MadeFrom[f]

OfFile(pairs, f) == {p \in pairs : p[1] = f}

\* A running script writes its next file.
WriteFile(s, f) ==
  LET Kept(pairs) == IF InPlace(s, f) THEN pairs ELSE pairs \ OfFile(pairs, f)
      fake == (s \in Demo /\ run.demo) \/ (s = Mock /\ run.mock)
  IN /\ Dated(f)
     /\ lag' = Kept(lag) \cup ({f} \X Unseen(s, f)) \cup Behind(f)
     /\ raced' = Kept(raced) \cup (IF InPlace(s, f) THEN {} ELSE {f} \X missed[s])
     /\ missed' = Missed(s, f)
     /\ synthetic' = IF InPlace(s, f) THEN synthetic
                     ELSE IF fake THEN synthetic \cup {f} ELSE synthetic \ {f}

Running(s) == phase = "running" /\ step[s] = "running"

WriteNext(s) ==
  /\ Running(s) /\ wrote[s] + 1 < Len(Writes[s])
  /\ WriteFile(s, Writes[s][wrote[s] + 1])
  /\ wrote' = [wrote EXCEPT ![s] = @ + 1]
  /\ UNCHANGED <<phase, run, stage, step, cut, again, calm, runs, touches, faults>>

\* With its last file the script is done.
WriteLast(s) ==
  /\ Running(s) /\ wrote[s] + 1 = Len(Writes[s])
  /\ WriteFile(s, Writes[s][wrote[s] + 1])
  /\ step' = [step EXCEPT ![s] = "done"]
  /\ cut' = cut \ Made[s]
  /\ UNCHANGED <<phase, run, stage, wrote, again, calm, runs, touches, faults>>

-------------------------------------------------------------------------------
\* Mutant of IsFresh: outputs are fresh once they are there.
IsFreshOnceThere(s) == s \in Resumable /\ Outputs[s] # {} /\ Outputs[s] \subseteq exists

\* is_fresh
IsFresh(s) == s \in Resumable /\ Outputs[s] # {} /\ newer[s] = Outputs[s]

\* _promoted_run_matches_request
Matches(mock) == Status \in exists /\ (Status \in synthetic <=> mock)

\* Mutant of OutputExists: the status file is not compared with the request.
OutputExistsAnyhow(s) == IsFresh(s)

\* step_output_exists
OutputExists(s) == IsFresh(s) /\ (s = Mock => Matches(run.mock))

\* maybe_run_step skips the step.
Skips(s) == run.resume /\ OutputExists(s)

Key(r) == [kind |-> r.kind, demo |-> r.demo, mock |-> r.mock]

\* main: a new manifest.
Begin(r) ==
  /\ phase # "running" /\ runs < MaxRuns
  /\ phase' = "running" /\ run' = r /\ stage' = 0 /\ runs' = runs + 1
  /\ step' = [s \in Steps |-> "todo"]
  /\ wrote' = [s \in Steps |-> 0]
  /\ again' = (phase = "ok" /\ calm /\ r.resume /\ Key(r) = Key(run))
  /\ calm' = TRUE
  /\ UNCHANGED <<disk, cut, touches, faults>>

Preflight ==
  /\ phase = "running" /\ stage = 0
  /\ stage' = 1
  /\ UNCHANGED <<phase, run, step, wrote, disk, cut, again, calm, runs, touches, faults>>

PreflightFails ==
  /\ phase = "running" /\ stage = 0
  /\ phase' = "failed"
  /\ UNCHANGED <<run, stage, step, wrote, disk, cut, again, calm, runs, touches, faults>>

Group == IF phase = "running" /\ stage \in 1 .. Len(Plan) THEN Plan[stage] ELSE {}

SkipStep(s) ==
  /\ s \in Group /\ step[s] = "todo"
  /\ Skips(s)
  /\ step' = [step EXCEPT ![s] = "skipped"]
  /\ UNCHANGED <<phase, run, stage, wrote, disk, cut, again, calm, runs, touches, faults>>

\* The child process starts and reads its files.
StartStep(s) ==
  /\ s \in Group /\ step[s] = "todo"
  /\ ~Skips(s)
  /\ step' = [step EXCEPT ![s] = "running"]
  /\ missed' = [missed EXCEPT ![s] = {}]
  /\ UNCHANGED <<phase, run, stage, wrote, newer, exists, lag, raced, synthetic, cut, again,
                 calm, runs, touches, faults>>

\* A script that writes none of the files is done.
WriteNothing(s) ==
  /\ Running(s) /\ Writes[s] = <<>>
  /\ step' = [step EXCEPT ![s] = "done"]
  /\ UNCHANGED <<phase, run, stage, wrote, disk, cut, again, calm, runs, touches, faults>>

\* What the running script s leaves half-done when it stops now.
HalfDone(s) == IF step[s] = "running" /\ wrote[s] > 0 THEN Made[s] ELSE {}

\* The script exits with an error before its last write.
FailStep(s) ==
  /\ Running(s)
  /\ Fault
  /\ step' = [step EXCEPT ![s] = "failed"]
  /\ cut' = cut \cup HalfDone(s)
  /\ UNCHANGED <<phase, run, stage, wrote, disk, again, calm, runs, touches>>

\* run_parallel_steps waits for all its futures; then the first error is raised.
Ended == phase = "running" /\ stage >= 1 /\ \A s \in Group : step[s] \in {"done", "skipped", "failed"}
Failed == \E s \in Group \ Optional : step[s] = "failed"

NextStage ==
  /\ Ended /\ ~Failed /\ stage <= Len(Plan)
  /\ stage' = stage + 1
  /\ UNCHANGED <<phase, run, step, wrote, disk, cut, again, calm, runs, touches, faults>>

RunFails ==
  /\ Ended /\ Failed
  /\ phase' = "failed"
  /\ UNCHANGED <<run, stage, step, wrote, disk, cut, again, calm, runs, touches, faults>>

FinishRun ==
  /\ phase = "running" /\ stage = Len(Plan) + 1
  /\ phase' = "ok"
  /\ UNCHANGED <<run, stage, step, wrote, disk, cut, again, calm, runs, touches, faults>>

\* The pipeline and its scripts are killed; the manifest says "running" for ever.
Crash ==
  /\ phase = "running"
  /\ Fault
  /\ phase' = "died"
  /\ cut' = cut \cup UNION {HalfDone(s) : s \in Steps}
  /\ UNCHANGED <<run, stage, step, wrote, disk, again, calm, runs, touches>>

Next ==
  \/ \E r \in Requests : Begin(r)
  \/ Preflight \/ PreflightFails \/ NextStage \/ RunFails \/ FinishRun \/ Crash
  \/ \E s \in Steps : \/ SkipStep(s) \/ StartStep(s) \/ FailStep(s)
                      \/ WriteNext(s) \/ WriteLast(s) \/ WriteNothing(s)
  \/ \E f \in Sources : Touch(f)

Spec == Init /\ [][Next]_vars

-------------------------------------------------------------------------------
(***************************************************************************)
(* What a table must be for its modification times to tell what is stale.  *)
(***************************************************************************)
Plans == {Stages[r.kind] : r \in Requests}
Makers == {s \in Steps : Made[s] # {}}
Watched(s) == Reads[s] \ Unwatched[s]

\* In a plan, u comes in a stage before s.
Ahead(u, s, plan) == \A k \in 1 .. Len(plan) : s \in plan[k] => \E j \in 1 .. k - 1 : u \in plan[j]

\* Declared outputs that no other script writes, and those of them that are
\* written before f or are f.
Own(s) == {o \in Outputs[s] \cap Made[s] : \A t \in Steps \ {s} : o \notin WritesOf(t)}
Leads(s, f) ==
  {o \in Own(s) : o = f \/ \A j, k \in 1 .. Len(Writes[s]) : Writes[s][j] = o /\ Writes[s][k] = f => j < k}

\* The resumable steps that every plan with s has before it, and those of their
\* declared outputs that s declares as inputs, or that such a step declares.
Feeders(s) == {u \in Resumable \ Optional : \A plan \in Plans : Ahead(u, s, plan)}
Near(s) == {x \in Feeders(s) \X Files : x[2] \in Outputs[x[1]] \cap Inputs[s]}
Far(s) == {x \in Feeders(s) \X Files : \E y \in Near(s) : x[2] \in Outputs[x[1]] \cap Inputs[y[1]]}

\* After a change of i, s is not resumed, or something is made again for it.
Heeded(s, i) == i \in Inputs[s] \/ \E x \in Near(s) \cup Far(s) : i \in Inputs[x[1]]

\* A change of i by t comes when s has already to be made again: t changes
\* something else first, ...
Announced(s, t, i) ==
  \A k \in 1 .. Len(Writes[t]) : Writes[t][k] = i => \E j \in 1 .. k - 1 : Heeded(s, Writes[t][j])

\* ... or a step before it always does, ...
Rewrites(w, s) == \E f \in WritesOf(w) : Heeded(s, f)
Preceded(s, t, plan, fresh) ==
  (\E k \in 1 .. Len(plan) : t \in plan[k]) =>
    \E w \in Steps \ (Optional \cup fresh) : Rewrites(w, s) /\ Ahead(w, t, plan)

\* ... or t runs for a reason that s has as well.
Shared(s, t) ==
  /\ t \in Feeders(s) \ {Mock}
  /\ \A j \in Inputs[t] : j \notin Sources /\ Heeded(s, j)
  /\ \A r \in Requests : ~r.resume => Preceded(s, t, Stages[r.kind], {})

Foreseen(s, t, i) ==
  Heeded(s, i) \/ Announced(s, t, i) \/ Shared(s, t) \/ \A plan \in Plans : Preceded(s, t, plan, Resumable)

\* Every file is made by one script, which can be resumed and writes what it
\* declares; what a script changes of its own inputs it changes first; no plan
\* leads back to the inputs of a step that is done; and what is read and watched
\* is heeded, whoever changes it.
ASSUME TableAssumption ==
  /\ \A s, t \in Steps : s # t => Made[s] \cap Made[t] = {}
  /\ Makers \subseteq Resumable /\ Resumable \cap Optional = {}
  /\ \A s \in Steps :
       /\ Made[s] \cap Sources = {} /\ Inputs[s] \cap Outputs[s] = {}
       /\ \A k \in 1 .. Len(Writes[s]), j \in 1 .. Len(Writes[s]) :
            j < k /\ Writes[s][k] \in Inputs[s] \cup Reads[s] => Writes[s][j] \notin Made[s] \cup Outputs[s]
  /\ \A s \in Resumable : Outputs[s] # {} /\ Outputs[s] \subseteq WritesOf(s)
  /\ \A plan \in Plans : \A s, t \in Steps, j, k \in 1 .. Len(plan) :
       s \in plan[j] /\ t \in plan[k] =>
         /\ s = t => j = k
         /\ s # t /\ j <= k => /\ s \in Makers => WritesOf(t) \cap Watched(s) = {}
                               /\ s \in Resumable => WritesOf(t) \cap Inputs[s] = {}
         /\ s \in Resumable /\ t \notin Resumable => WritesOf(t) \cap Inputs[s] = {}
  /\ \A t, s \in Steps : WritesOf(t) \cap Reads[t] \cap Made[s] # {} => \A plan \in Plans : Ahead(s, t, plan)
  /\ \A s \in Makers :
       /\ Own(s) # {}
       /\ \A f \in Made[s] : Leads(s, f) # {} \/ Watched(s) \cap Sources = {}
       /\ \A i \in Watched(s) :
            /\ i \in Sources => Heeded(s, i)
            /\ \A t \in Steps \ {s} : i \in WritesOf(t) => Foreseen(s, t, i)

-------------------------------------------------------------------------------
\* Properties.

Planned == UNION {Plan[k] : k \in 1 .. Len(Plan)}

\* A live run does not end well with mock advice, whatever was run with
\* --llm-mock before, except beside a chain that was cut short: an old status
\* file then vouches for the mock advice written after it.
LiveAdviceIsLive ==
  phase = "ok" /\ Mock \in Planned /\ ~run.mock => Made[Mock] \cap synthetic \subseteq cut

\* After a run that ended well, resumed or not, everything it is responsible for
\* was made from the files as they are now: what has changed since is not
\* watched, changed while its reader was running, or belongs to a script that
\* stopped half-way.
FinishedIsCurrent ==
  phase = "ok" /\ calm =>
    \A s \in Planned : \A f \in Made[s], i \in Reads[s] :
      <<f, i>> \in lag => i \in Unwatched[s] \/ <<f, i>> \in raced \/ f \in cut

\* A run that repeats a finished one with --resume-existing, with nothing
\* changed in between, calls no script that can be skipped: no step of a run
\* invalidates the work of an earlier one.
FinishedIsReused ==
  again => \A s \in Resumable : step[s] \in {"todo", "skipped"}

\* What a run finishes is made from what is on file, and is what the next one
\* takes over.
FinishedIsFresh == FinishedIsCurrent /\ FinishedIsReused
================================================================================
