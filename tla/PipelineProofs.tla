---------------------------- MODULE PipelineProofs -----------------------------
(***************************************************************************)
(* For any table of steps, any requests and any failures: the files of a   *)
(* date keep their types, and a live run that ends well has live advice,   *)
(* unless a chain stopped half-way; and for any table that satisfies       *)
(* TableAssumption, what a run finishes is current and is taken over by    *)
(* the next.                                                               *)
(***************************************************************************)
EXTENDS Pipeline, TLAPS

Advice == Made[Mock]

\* There is a request once a run has begun.
Asked == phase # "none" => run \in Requests

\* The files of the chain are cut short together ...
Whole == Advice \cap cut = {} \/ Advice \subseteq cut

\* ... and otherwise made by one and the same execution of it, unless it is
\* in the middle of one.
Between == Running(Mock) /\ wrote[Mock] > 0
Uniform ==
  Advice \cap cut = {} /\ ~Between =>
    \A f \in Advice : f \in synthetic <=> Status \in synthetic

\* What the running chain has written is of the kind the run asked for.
Partly ==
  Running(Mock) => \A k \in 1 .. wrote[Mock] :
    Writes[Mock][k] \in Advice => (Writes[Mock][k] \in synthetic <=> run.mock)

AsAsked == Advice \cap cut = {} => \A f \in Advice : f \in synthetic <=> run.mock

\* A chain that is done made what the run asked for; one that was skipped had
\* it vouched for by the status file.
Chosen ==
  phase = "running" =>
    /\ step[Mock] = "done" => AsAsked
    /\ step[Mock] = "skipped" => (Status \in synthetic <=> run.mock)

\* The stages behind the run are done or skipped.
Passed ==
  phase = "running" =>
    \A k \in 1 .. Len(Plan) : k < stage =>
      \A s \in Plan[k] \ Optional : step[s] \in {"done", "skipped"}

Kept == phase = "ok" /\ Mock \in Planned => AsAsked

\* The chain runs in the stage it is planned for and begins with its first file.
Inside ==
  phase = "running" =>
    /\ step[Mock] = "running" => Mock \in Group
    /\ step[Mock] = "todo" => wrote[Mock] = 0

Inv == TypeOK /\ Asked /\ Whole /\ Uniform /\ Partly /\ Chosen /\ Passed /\ Kept /\ Inside

-------------------------------------------------------------------------------
LEMMA TableType ==
  ASSUME NEW s \in Steps
  PROVE  /\ Made[s] \subseteq Files /\ Made[s] \subseteq WritesOf(s)
         /\ Len(Writes[s]) \in Nat
         /\ \A k \in 1 .. Len(Writes[s]) : Writes[s][k] \in Files
         /\ Reads[s] \subseteq Files /\ Outputs[s] \subseteq Files /\ Inputs[s] \subseteq Files
<1>1. Writes[s] \in Seq(Files)
  BY PipelineAssumption
<1>2. Len(Writes[s]) \in Nat /\ \A k \in 1 .. Len(Writes[s]) : Writes[s][k] \in Files
  BY <1>1
<1>3. Reads[s] \subseteq Files /\ Outputs[s] \subseteq Files /\ Inputs[s] \subseteq Files
  BY PipelineAssumption
<1> QED
  BY <1>2, <1>3 DEF Made, WritesOf

LEMMA MadeFromType == ASSUME NEW f \in Files PROVE MadeFrom[f] \subseteq Files
  BY TableType DEF MadeFrom

\* The types of what a write changes.
LEMMA DatedType ==
  ASSUME TypeOK, NEW f \in Files, Dated(f)
  PROVE  /\ newer' \in [Steps -> SUBSET Files]
         /\ \A s \in Steps : newer'[s] \subseteq Outputs[s] \cap exists'
         /\ exists' \subseteq Files /\ exists \subseteq exists' /\ f \in exists'
<1>1. exists' = exists \cup {f} /\ exists' \subseteq Files
  BY DEF TypeOK, Dated
<1>2. ASSUME NEW s \in Steps
      PROVE  newer'[s] \subseteq Outputs[s] \cap exists' /\ newer'[s] \subseteq Files
  BY <1>1, TableType DEF TypeOK, Dated
<1>3. newer' = [s \in Steps |-> newer'[s]]
  BY DEF Dated
<1> QED
  BY <1>1, <1>2, <1>3

LEMMA BehindType == ASSUME NEW f \in Files, TypeOK PROVE Behind(f) \subseteq exists \X Files
  BY DEF Behind, TypeOK

LEMMA MissedType ==
  ASSUME TypeOK, NEW f \in Files, NEW s
  PROVE  Missed(s, f) \in [Steps -> SUBSET Files]
  BY DEF Missed, TypeOK

LEMMA WriteFileType ==
  ASSUME TypeOK, NEW s \in Steps, NEW f \in Files, WriteFile(s, f)
  PROVE  /\ newer' \in [Steps -> SUBSET Files]
         /\ \A t \in Steps : newer'[t] \subseteq Outputs[t] \cap exists'
         /\ exists' \subseteq Files
         /\ lag' \subseteq exists' \X Files /\ raced' \subseteq lag'
         /\ missed' \in [Steps -> SUBSET Files]
         /\ synthetic' \subseteq exists'
<1>1. Dated(f)
  BY DEF WriteFile
<1>2. /\ exists' \subseteq Files /\ exists \subseteq exists' /\ f \in exists'
      /\ newer' \in [Steps -> SUBSET Files]
      /\ \A t \in Steps : newer'[t] \subseteq Outputs[t] \cap exists'
  BY <1>1, DatedType
<1>3. Unseen(s, f) \subseteq Files
  BY MadeFromType DEF Unseen, TypeOK
<1>4. lag' \subseteq exists' \X Files
  <2>1. lag' \subseteq lag \cup ({f} \X Unseen(s, f)) \cup Behind(f)
    BY DEF WriteFile
  <2>2. lag \subseteq exists' \X Files /\ Behind(f) \subseteq exists' \X Files
    BY <1>2, BehindType DEF TypeOK
  <2>3. {f} \X Unseen(s, f) \subseteq exists' \X Files
    BY <1>2, <1>3
  <2> QED
    BY <2>1, <2>2, <2>3
<1>5. raced' \subseteq lag'
  <2>1. CASE InPlace(s, f)
    <3>1. raced' = raced /\ lag \subseteq lag'
      BY <2>1 DEF WriteFile
    <3> QED
      BY <3>1 DEF TypeOK
  <2>2. CASE ~InPlace(s, f)
    <3>1. raced' = (raced \ OfFile(raced, f)) \cup ({f} \X missed[s])
      BY <2>2 DEF WriteFile
    <3>2. (lag \ OfFile(lag, f)) \cup ({f} \X missed[s]) \subseteq lag'
      BY <2>2 DEF WriteFile, Unseen
    <3>3. raced \ OfFile(raced, f) \subseteq lag \ OfFile(lag, f)
      BY DEF TypeOK, OfFile
    <3> QED
      BY <3>1, <3>2, <3>3
  <2> QED
    BY <2>1, <2>2
<1>6. missed' \in [Steps -> SUBSET Files]
  BY MissedType DEF WriteFile
<1>7. synthetic' \subseteq exists'
  BY <1>2 DEF WriteFile, TypeOK
<1> QED
  BY <1>2, <1>4, <1>5, <1>6, <1>7

LEMMA PlanType ==
  ASSUME run \in Requests
  PROVE  /\ Plan \in Seq(SUBSET Steps) /\ Len(Plan) \in Nat
         /\ \A k \in 1 .. Len(Plan) : Plan[k] \subseteq Steps
<1>1. Plan \in Seq(SUBSET Steps)
  BY StageAssumption DEF Plan
<1> QED
  BY <1>1

LEMMA FaultType == ASSUME TypeOK, Fault PROVE faults' \in 0 .. MaxFaults
  BY PipelineAssumption DEF TypeOK, Fault, Bounded

\* Every step keeps the types, and no run goes on without a request.
LEMMA TypeStep ==
  ASSUME TypeOK, Asked, [Next]_vars
  PROVE  TypeOK' /\ Asked'
<1> USE DEF TypeOK, Asked
<1>0. run \in Requests => Len(Plan) \in Nat
  BY PlanType
<1>1. CASE UNCHANGED vars
  BY <1>1 DEF vars, disk, Plan
<1>2. ASSUME NEW r \in Requests, Begin(r) PROVE TypeOK' /\ Asked'
  <2>1. runs' \in 0 .. MaxRuns
    BY <1>2, PipelineAssumption DEF Begin, Bounded
  <2>2. run' = r /\ run' # None /\ stage' = 0
    BY <1>2, PipelineAssumption DEF Begin
  <2>3. stage' \in 0 .. (Len(Plan') + 1)
    <3>1. Plan' \in Seq(SUBSET Steps)
      BY <2>2, StageAssumption DEF Plan
    <3> QED
      BY <2>2, <3>1
  <2>4. \A s \in Steps : wrote'[s] <= Len(Writes[s])
    BY <1>2, TableType DEF Begin
  <2> QED
    BY <1>2, <2>1, <2>2, <2>3, <2>4 DEF Begin, disk
<1>3. CASE Preflight
  <2>1. run \in Requests /\ run # None
    BY <1>3, PipelineAssumption DEF Preflight
  <2>2. stage' \in 0 .. Len(Plan) + 1
    BY <1>0, <1>3, <2>1 DEF Preflight
  <2> QED
    BY <1>3, <2>1, <2>2 DEF Preflight, Plan, disk
<1>4. CASE PreflightFails
  BY <1>4 DEF PreflightFails, Plan, disk
<1>5. CASE NextStage
  <2>1. run \in Requests /\ run # None
    BY <1>5, PipelineAssumption DEF NextStage, Ended
  <2>2. stage' \in 0 .. Len(Plan) + 1
    BY <1>0, <1>5, <2>1 DEF NextStage
  <2> QED
    BY <1>5, <2>1, <2>2 DEF NextStage, Ended, Plan, disk
<1>6. CASE RunFails
  BY <1>6 DEF RunFails, Ended, Plan, disk
<1>7. CASE FinishRun
  BY <1>7 DEF FinishRun, Plan, disk
<1>8. CASE Crash
  <2>1. UNION {HalfDone(s) : s \in Steps} \subseteq Files
    BY TableType DEF HalfDone
  <2>2. cut' \subseteq Files
    BY <1>8, <2>1 DEF Crash
  <2>3. faults' \in 0 .. MaxFaults
    BY <1>8, FaultType DEF Crash
  <2> QED
    BY <1>8, <2>2, <2>3 DEF Crash, Plan, disk
<1>9. ASSUME NEW s \in Steps, SkipStep(s) PROVE TypeOK' /\ Asked'
  BY <1>9 DEF SkipStep, Plan, disk
<1>10. ASSUME NEW s \in Steps, StartStep(s) PROVE TypeOK' /\ Asked'
  BY <1>10 DEF StartStep, Plan
<1>11. ASSUME NEW s \in Steps, FailStep(s) PROVE TypeOK' /\ Asked'
  <2>1. cut' \subseteq Files
    BY <1>11, TableType DEF FailStep, HalfDone
  <2>2. faults' \in 0 .. MaxFaults
    BY <1>11, FaultType DEF FailStep
  <2> QED
    BY <1>11, <2>1, <2>2 DEF FailStep, Running, Plan, disk
<1>12. ASSUME NEW s \in Steps, WriteNext(s) PROVE TypeOK' /\ Asked'
  <2> DEFINE f == Writes[s][wrote[s] + 1]
  <2>1. wrote[s] \in Nat /\ wrote[s] + 1 < Len(Writes[s]) /\ Len(Writes[s]) \in Nat
    BY <1>12, TableType DEF WriteNext
  <2>2. f \in Files
    <3>1. wrote[s] + 1 \in 1 .. Len(Writes[s])
      BY <2>1
    <3> QED
      BY <3>1, TableType
  <2>3. WriteFile(s, f)
    BY <1>12 DEF WriteNext
  <2>4. wrote' \in [Steps -> Nat] /\ \A t \in Steps : wrote'[t] <= Len(Writes[t])
    BY <1>12, <2>1 DEF WriteNext
  <2> HIDE DEF f
  <2>5. stage' \in 0 .. (IF run' = None THEN 0 ELSE Len(Plan') + 1)
    BY <1>12 DEF WriteNext, Plan
  <2> QED
    BY <1>12, <2>2, <2>3, <2>4, <2>5, WriteFileType DEF WriteNext
<1>13. ASSUME NEW s \in Steps, WriteLast(s) PROVE TypeOK' /\ Asked'
  <2> DEFINE f == Writes[s][wrote[s] + 1]
  <2>1. wrote[s] \in Nat /\ wrote[s] + 1 = Len(Writes[s]) /\ Len(Writes[s]) \in Nat
    BY <1>13, TableType DEF WriteLast
  <2>2. f \in Files
    BY <2>1, TableType
  <2>3. WriteFile(s, f)
    BY <1>13 DEF WriteLast
  <2> HIDE DEF f
  <2>4. stage' \in 0 .. (IF run' = None THEN 0 ELSE Len(Plan') + 1)
    BY <1>13 DEF WriteLast, Plan
  <2> QED
    BY <1>13, <2>2, <2>3, <2>4, WriteFileType DEF WriteLast
<1>14. ASSUME NEW s \in Steps, WriteNothing(s) PROVE TypeOK' /\ Asked'
  BY <1>14 DEF WriteNothing, Running, Plan, disk
<1>15. ASSUME NEW f \in Sources, Touch(f) PROVE TypeOK' /\ Asked'
  <2>1. f \in Files /\ Dated(f)
    BY <1>15, PipelineAssumption DEF Touch
  <2>2. lag' \subseteq exists' \X Files /\ raced' \subseteq lag'
    BY <1>15, <2>1, DatedType, BehindType DEF Touch
  <2>3. missed' \in [Steps -> SUBSET Files]
    BY <1>15, <2>1, MissedType DEF Touch
  <2>4. touches' \in 0 .. MaxTouches
    BY <1>15, PipelineAssumption DEF Touch, Bounded
  <2>5. stage' \in 0 .. (IF run' = None THEN 0 ELSE Len(Plan') + 1)
    BY <1>15 DEF Touch, Plan
  <2>6. synthetic' \subseteq exists'
    BY <1>15, <2>1, DatedType DEF Touch
  <2> QED
    BY <1>15, <2>1, <2>2, <2>3, <2>4, <2>5, <2>6, DatedType DEF Touch
<1> QED
  BY <1>1, <1>2, <1>3, <1>4, <1>5, <1>6, <1>7, <1>8, <1>9, <1>10, <1>11, <1>12, <1>13, <1>14,
     <1>15 DEF Next

LEMMA TypeInit == ASSUME Init PROVE TypeOK /\ Asked
<1> USE DEF Init
<1>1. \A s \in Steps : 0 <= Len(Writes[s])
  BY TableType
<1>2. wrote \in [Steps -> Nat] /\ \A s \in Steps : wrote[s] <= Len(Writes[s])
  BY <1>1
<1>3. newer \in [Steps -> SUBSET Files] /\ missed \in [Steps -> SUBSET Files]
  OBVIOUS
<1>4. \A s \in Steps : newer[s] \subseteq Outputs[s] \cap exists
  OBVIOUS
<1>5. exists \subseteq Files
  BY PipelineAssumption
<1>6. runs \in 0 .. MaxRuns /\ touches \in 0 .. MaxTouches /\ faults \in 0 .. MaxFaults
  BY PipelineAssumption DEF Bounded
<1>7. stage \in 0 .. (IF run = None THEN 0 ELSE Len(Plan) + 1)
  OBVIOUS
<1>8. step \in [Steps -> {"todo", "running", "done", "skipped", "failed"}]
  OBVIOUS
<1> QED
  BY <1>2, <1>3, <1>4, <1>5, <1>6, <1>7, <1>8 DEF TypeOK, Asked

\* Type correctness of the pipeline, for any table of steps.
THEOREM TypeCorrect == Spec => []TypeOK
<1>1. Init => TypeOK /\ Asked
  BY TypeInit
<1>2. (TypeOK /\ Asked) /\ [Next]_vars => (TypeOK /\ Asked)'
  BY TypeStep
<1> QED
  BY <1>1, <1>2, PTL DEF Spec

-------------------------------------------------------------------------------
\* The status file is among those of the chain.
LEMMA StatusMade == Status \in Advice
  BY MockAssumption DEF Advice

\* What stops half-way is the whole chain or nothing of it.
LEMMA HalfDoneAdvice ==
  ASSUME NEW s \in Steps
  PROVE  /\ s # Mock => HalfDone(s) \cap Advice = {}
         /\ HalfDone(Mock) = IF step[Mock] = "running" /\ wrote[Mock] > 0 THEN Advice ELSE {}
  BY MockAssumption DEF HalfDone, Advice

\* The other scripts leave the origin of the advice as it is.
LEMMA OthersWrite ==
  ASSUME NEW s \in Steps, s # Mock, NEW k \in 1 .. Len(Writes[s]), WriteFile(s, Writes[s][k])
  PROVE  \A g \in Advice : g \in synthetic' <=> g \in synthetic
<1> DEFINE f == Writes[s][k]
<1>1. CASE InPlace(s, f)
  BY <1>1 DEF WriteFile
<1>2. CASE ~InPlace(s, f)
  <2>1. f \in Made[s]
    BY <1>2 DEF Made, WritesOf
  <2>2. f \notin Advice
    BY <2>1, MockAssumption DEF Advice
  <2>3. synthetic' = synthetic \cup {f} \/ synthetic' = synthetic \ {f}
    BY <1>2 DEF WriteFile
  <2> HIDE DEF f
  <2> QED
    BY <2>2, <2>3
<1> QED
  BY <1>1, <1>2

\* The chain writes its files as the run asked for it, one after the other.
LEMMA ChainWrites ==
  ASSUME NEW k \in 1 .. Len(Writes[Mock]), WriteFile(Mock, Writes[Mock][k])
  PROVE  /\ Writes[Mock][k] \in Advice => (Writes[Mock][k] \in synthetic' <=> run.mock)
         /\ \A g \in Advice : g # Writes[Mock][k] => (g \in synthetic' <=> g \in synthetic)
<1> DEFINE f == Writes[Mock][k]
<1>1. Mock \notin Demo
  BY MockAssumption
<1>2. f \in Advice => ~InPlace(Mock, f)
  BY MockAssumption DEF Advice, Made, WritesOf
<1>3. InPlace(Mock, f) => synthetic' = synthetic
  BY DEF WriteFile
<1>4. ~InPlace(Mock, f) /\ run.mock => synthetic' = synthetic \cup {f}
  BY <1>1 DEF WriteFile
<1>5. ~InPlace(Mock, f) /\ ~run.mock => synthetic' = synthetic \ {f}
  BY <1>1 DEF WriteFile
<1> HIDE DEF f
<1>6. /\ f \in Advice => (f \in synthetic' <=> run.mock)
      /\ \A g \in Advice : g # f => (g \in synthetic' <=> g \in synthetic)
  BY <1>2, <1>3, <1>4, <1>5
<1> QED
  BY <1>6 DEF f

\* The next file of a script is one of its files.
LEMMA WrittenNext ==
  ASSUME TypeOK, NEW s \in Steps, WriteNext(s)
  PROVE  wrote[s] + 1 \in 1 .. Len(Writes[s])
  BY TableType DEF TypeOK, WriteNext

LEMMA WrittenLast ==
  ASSUME TypeOK, NEW s \in Steps, WriteLast(s)
  PROVE  wrote[s] + 1 \in 1 .. Len(Writes[s])
  BY TableType DEF TypeOK, WriteLast

\* A step that leaves the origin of the advice, and what was cut, as they are
\* keeps what is said of the files.
LEMMA FilesKept ==
  ASSUME \A g \in Advice : (g \in synthetic' <=> g \in synthetic) /\ (g \in cut' <=> g \in cut)
  PROVE  /\ Whole => Whole'
         /\ Uniform /\ (Between => Between') => Uniform'
         /\ run' = run /\ AsAsked => AsAsked'
         /\ Status \in synthetic' <=> Status \in synthetic
<1>1. Advice' = Advice
  BY DEF Advice, Made, WritesOf, InPlace
<1>2. Whole => Whole'
  BY <1>1 DEF Whole
<1>3. Status \in synthetic' <=> Status \in synthetic
  BY StatusMade
<1>4. Uniform /\ (Between => Between') => Uniform'
  BY <1>1, <1>3 DEF Uniform
<1>5. run' = run /\ AsAsked => AsAsked'
  BY <1>1 DEF AsAsked
<1> QED
  BY <1>2, <1>3, <1>4, <1>5

\* The control of the run: which stages are behind it, and where the chain runs.
LEMMA PassedStep ==
  ASSUME TypeOK, Asked, Passed, Inside, [Next]_vars
  PROVE  Passed' /\ Inside'
<1> USE DEF TypeOK, Asked, Passed, Inside, Running, Group
<1>0. Mock \in Steps
  BY MockAssumption
<1>1. CASE UNCHANGED vars
  BY <1>1 DEF vars, disk, Plan
<1>2. ASSUME NEW r \in Requests, Begin(r) PROVE Passed' /\ Inside'
  BY <1>0, <1>2 DEF Begin
<1>3. CASE Preflight
  <2>1. Passed'
    BY <1>3 DEF Preflight, Plan
  <2>2. ~Running(Mock)
    BY <1>3 DEF Preflight
  <2> QED
    BY <1>3, <2>1, <2>2 DEF Preflight
<1>4. CASE PreflightFails
  BY <1>4 DEF PreflightFails, Plan
<1>5. CASE NextStage
  <2>1. run \in Requests /\ Len(Plan) \in Nat /\ stage \in 1 .. Len(Plan)
    BY <1>5, PlanType, PipelineAssumption DEF NextStage, Ended
  <2>2. Group = Plan[stage]
    BY <1>5, <2>1 DEF NextStage, Ended
  <2>3. \A s \in Plan[stage] \ Optional : step[s] \in {"done", "skipped"}
    BY <1>5, <2>2 DEF NextStage, Ended, Failed
  <2>4. ASSUME NEW k \in 1 .. Len(Plan), k < stage + 1, NEW s \in Plan[k] \ Optional
        PROVE  step[s] \in {"done", "skipped"}
    BY <1>5, <2>1, <2>3, <2>4 DEF NextStage, Ended
  <2>5. Passed'
    BY <1>5, <2>4 DEF NextStage, Plan
  <2>6. ~Running(Mock)
    BY <1>5 DEF NextStage, Ended
  <2> QED
    BY <1>5, <2>5, <2>6 DEF NextStage
<1>6. CASE RunFails
  BY <1>6 DEF RunFails, Plan
<1>7. CASE FinishRun
  BY <1>7 DEF FinishRun, Plan
<1>8. CASE Crash
  BY <1>8 DEF Crash, Plan
<1>9. ASSUME NEW s \in Steps, SkipStep(s) PROVE Passed' /\ Inside'
  BY <1>9 DEF SkipStep, Plan
<1>10. ASSUME NEW s \in Steps, StartStep(s) PROVE Passed' /\ Inside'
  BY <1>10 DEF StartStep, Plan
<1>11. ASSUME NEW s \in Steps, FailStep(s) PROVE Passed' /\ Inside'
  BY <1>11 DEF FailStep, Plan
<1>12. ASSUME NEW s \in Steps, WriteNext(s) PROVE Passed' /\ Inside'
  BY <1>12 DEF WriteNext, Plan
<1>13. ASSUME NEW s \in Steps, WriteLast(s) PROVE Passed' /\ Inside'
  BY <1>13 DEF WriteLast, Plan
<1>14. ASSUME NEW s \in Steps, WriteNothing(s) PROVE Passed' /\ Inside'
  BY <1>14 DEF WriteNothing, Plan
<1>15. ASSUME NEW f \in Sources, Touch(f) PROVE Passed' /\ Inside'
  BY <1>15 DEF Touch, Plan
<1> QED
  BY <1>1, <1>2, <1>3, <1>4, <1>5, <1>6, <1>7, <1>8, <1>9, <1>10, <1>11, <1>12, <1>13, <1>14,
     <1>15 DEF Next

Origin == Whole /\ Uniform /\ Partly /\ Chosen /\ Kept

\* A file of the chain is written: those written so far are as the run asked.
LEMMA ChainNext ==
  ASSUME Inv, WriteNext(Mock)
  PROVE  Origin'
<1> USE DEF Inv, TypeOK, WriteNext, Running
<1>0. Mock \in Steps /\ Advice' = Advice /\ run' = run
  BY MockAssumption DEF Advice, Made, WritesOf, InPlace
<1> DEFINE k == wrote[Mock] + 1
<1>1. wrote[Mock] \in Nat /\ k \in 1 .. Len(Writes[Mock]) /\ wrote'[Mock] = k
  BY <1>0, WrittenNext
<1>2. WriteFile(Mock, Writes[Mock][k])
  OBVIOUS
<1>3. /\ Writes[Mock][k] \in Advice => (Writes[Mock][k] \in synthetic' <=> run.mock)
      /\ \A g \in Advice : g # Writes[Mock][k] => (g \in synthetic' <=> g \in synthetic)
  BY <1>1, <1>2, ChainWrites
<1>4. step[Mock] = "running" /\ step' = step /\ phase' = "running" /\ cut' = cut
  OBVIOUS
<1>5. Whole' /\ Kept' /\ Chosen'
  BY <1>0, <1>4 DEF Whole, Kept, Chosen
<1>6. Uniform'
  BY <1>1, <1>4 DEF Uniform, Between
<1>7. Partly'
  <2>1. ASSUME NEW j \in 1 .. k, Writes[Mock][j] \in Advice
        PROVE  Writes[Mock][j] \in synthetic' <=> run.mock
    <3>1. CASE Writes[Mock][j] = Writes[Mock][k]
      BY <1>3, <2>1, <3>1
    <3>2. CASE Writes[Mock][j] # Writes[Mock][k]
      <4>1. j \in 1 .. wrote[Mock]
        BY <1>1, <3>2
      <4>2. Writes[Mock][j] \in synthetic <=> run.mock
        BY <2>1, <4>1 DEF Partly
      <4> QED
        BY <1>3, <2>1, <3>2, <4>2
    <3> QED
      BY <3>1, <3>2
  <2> QED
    BY <1>0, <1>1, <2>1 DEF Partly
<1> QED
  BY <1>5, <1>6, <1>7 DEF Origin

\* With the last file of the chain all are as the run asked, and whole again.
LEMMA ChainLast ==
  ASSUME Inv, WriteLast(Mock)
  PROVE  Origin'
<1> USE DEF Inv, TypeOK, WriteLast, Running
<1>0. Mock \in Steps /\ Advice' = Advice /\ run' = run
  BY MockAssumption DEF Advice, Made, WritesOf, InPlace
<1> DEFINE k == wrote[Mock] + 1
<1>1. wrote[Mock] \in Nat /\ k \in 1 .. Len(Writes[Mock]) /\ k = Len(Writes[Mock])
  BY <1>0, WrittenLast
<1>2. WriteFile(Mock, Writes[Mock][k])
  OBVIOUS
<1>3. /\ Writes[Mock][k] \in Advice => (Writes[Mock][k] \in synthetic' <=> run.mock)
      /\ \A g \in Advice : g # Writes[Mock][k] => (g \in synthetic' <=> g \in synthetic)
  BY <1>1, <1>2, ChainWrites
<1>4. step'[Mock] = "done" /\ phase' = "running" /\ cut' \cap Advice = {}
  BY <1>0 DEF Advice
<1>5. ASSUME NEW f \in Advice PROVE f \in synthetic' <=> run.mock
  <2>1. PICK j \in 1 .. Len(Writes[Mock]) : f = Writes[Mock][j]
    BY <1>0 DEF Advice, Made, WritesOf
  <2>2. CASE f = Writes[Mock][k]
    BY <1>3, <2>2
  <2>3. CASE f # Writes[Mock][k]
    <3>1. j \in 1 .. wrote[Mock]
      BY <1>1, <2>1, <2>3
    <3>2. f \in synthetic <=> run.mock
      BY <2>1, <3>1 DEF Partly
    <3> QED
      BY <1>3, <2>3, <3>2
  <2> QED
    BY <2>2, <2>3
<1>6. Whole' /\ Partly' /\ Kept'
  BY <1>0, <1>4 DEF Whole, Partly, Kept
<1>7. Uniform' /\ Chosen'
  BY <1>0, <1>4, <1>5, StatusMade DEF Uniform, Chosen, AsAsked
<1> QED
  BY <1>6, <1>7 DEF Origin

\* A step that leaves the chain and its files alone keeps what is said of them.
LEMMA Beside ==
  ASSUME Inv, run' = run, phase' = phase, step'[Mock] = step[Mock], wrote'[Mock] = wrote[Mock],
         \A g \in Advice : (g \in synthetic' <=> g \in synthetic) /\ (g \in cut' <=> g \in cut)
  PROVE  Origin'
<1>1. Advice' = Advice /\ Planned' = Planned
  BY DEF Advice, Made, WritesOf, InPlace, Planned, Plan
<1>2. Between' <=> Between
  BY DEF Between, Running
<1>3. Whole' /\ Uniform'
  BY <1>2, FilesKept DEF Inv
<1>4. Kept' /\ Chosen'
  BY <1>1, FilesKept DEF Inv, Kept, Chosen
<1>5. Partly'
  BY <1>1 DEF Inv, Partly, Running
<1> QED
  BY <1>3, <1>4, <1>5 DEF Origin

\* So do the steps of the other scripts.
LEMMA Others ==
  ASSUME Inv, NEW s \in Steps, s # Mock,
         \/ SkipStep(s) \/ StartStep(s) \/ FailStep(s)
         \/ WriteNext(s) \/ WriteLast(s) \/ WriteNothing(s)
  PROVE  Origin'
<1> USE DEF Inv, TypeOK, disk
<1>1. CASE SkipStep(s)
  BY <1>1, Beside DEF SkipStep
<1>2. CASE StartStep(s)
  BY <1>2, Beside DEF StartStep
<1>3. CASE FailStep(s)
  <2>1. HalfDone(s) \cap Advice = {}
    BY HalfDoneAdvice
  <2> QED
    BY <1>3, <2>1, Beside DEF FailStep
<1>4. CASE WriteNext(s)
  <2>1. \A g \in Advice : g \in synthetic' <=> g \in synthetic
    BY <1>4, WrittenNext, OthersWrite DEF WriteNext
  <2>2. run' = run /\ phase' = phase /\ step' = step /\ cut' = cut /\ wrote'[Mock] = wrote[Mock]
    BY <1>4 DEF WriteNext
  <2> QED
    BY <2>1, <2>2, Beside
<1>5. CASE WriteLast(s)
  <2>1. \A g \in Advice : g \in synthetic' <=> g \in synthetic
    BY <1>5, WrittenLast, OthersWrite DEF WriteLast
  <2>2. Made[s] \cap Advice = {}
    BY MockAssumption DEF Advice
  <2>3. /\ run' = run /\ phase' = phase /\ step'[Mock] = step[Mock] /\ wrote' = wrote
        /\ cut' = cut \ Made[s]
    BY <1>5 DEF WriteLast
  <2> QED
    BY <2>1, <2>2, <2>3, Beside
<1>6. CASE WriteNothing(s)
  BY <1>6, Beside DEF WriteNothing
<1> QED
  BY <1>1, <1>2, <1>3, <1>4, <1>5, <1>6

\* The chain is skipped, starts or fails.
LEMMA ChainElse ==
  ASSUME Inv, SkipStep(Mock) \/ StartStep(Mock) \/ FailStep(Mock) \/ WriteNothing(Mock)
  PROVE  Origin'
<1> USE DEF Inv, TypeOK, disk
<1>0. Mock \in Steps /\ Advice' = Advice
  BY MockAssumption DEF Advice, Made, WritesOf, InPlace
<1>1. CASE SkipStep(Mock)
  <2>1. Status \in synthetic <=> run.mock
    BY <1>1 DEF SkipStep, Skips, OutputExists, Matches
  <2>2. /\ phase = "running" /\ step[Mock] = "todo" /\ step'[Mock] = "skipped"
        /\ run' = run /\ phase' = phase /\ synthetic' = synthetic /\ cut' = cut
    BY <1>0, <1>1 DEF SkipStep, Group
  <2>3. Whole' /\ Uniform'
    BY <2>2, FilesKept DEF Between, Running
  <2>4. Kept' /\ Partly' /\ Chosen'
    BY <2>1, <2>2 DEF Kept, Partly, Chosen, Running
  <2> QED
    BY <2>3, <2>4 DEF Origin
<1>2. CASE StartStep(Mock)
  <2>1. /\ phase = "running" /\ step[Mock] = "todo" /\ step'[Mock] = "running"
        /\ run' = run /\ phase' = phase /\ synthetic' = synthetic /\ cut' = cut
        /\ wrote' = wrote /\ wrote[Mock] = 0
    BY <1>0, <1>2 DEF StartStep, Group, Inside
  <2>2. Whole' /\ Uniform'
    BY <2>1, FilesKept DEF Between, Running
  <2>3. Kept' /\ Partly' /\ Chosen'
    BY <2>1 DEF Kept, Partly, Chosen
  <2> QED
    BY <2>2, <2>3 DEF Origin
<1>3. CASE FailStep(Mock)
  <2>1. /\ phase = "running" /\ step[Mock] = "running" /\ step'[Mock] = "failed"
        /\ run' = run /\ phase' = phase /\ synthetic' = synthetic
        /\ cut' = cut \cup HalfDone(Mock)
    BY <1>0, <1>3 DEF FailStep, Running
  <2>2. Kept' /\ Partly' /\ Chosen'
    BY <2>1 DEF Kept, Partly, Chosen, Running
  <2>3. CASE wrote[Mock] > 0
    <3>1. Advice \subseteq cut'
      BY <2>1, <2>3, HalfDoneAdvice, MockAssumption
    <3>2. Whole' /\ Uniform'
      BY <1>0, <3>1, StatusMade DEF Whole, Uniform
    <3> QED
      BY <2>2, <3>2 DEF Origin
  <2>4. CASE ~(wrote[Mock] > 0)
    <3>1. HalfDone(Mock) = {}
      BY <2>4, HalfDoneAdvice, MockAssumption
    <3>2. Whole' /\ Uniform'
      BY <2>1, <2>4, <3>1, FilesKept DEF Between
    <3> QED
      BY <2>2, <3>2 DEF Origin
  <2> QED
    BY <2>3, <2>4
<1>4. CASE WriteNothing(Mock)
  BY <1>4, MockAssumption DEF WriteNothing, Made, WritesOf
<1> QED
  BY <1>1, <1>2, <1>3, <1>4

\* The run begins, goes on and ends.
LEMMA RunStep ==
  ASSUME Inv,
         \/ \E r \in Requests : Begin(r)
         \/ Preflight \/ PreflightFails \/ NextStage \/ RunFails \/ FinishRun \/ Crash
         \/ \E f \in Sources : Touch(f)
         \/ UNCHANGED vars
  PROVE  Origin'
<1> USE DEF Inv, TypeOK, disk
<1>0. Mock \in Steps /\ Advice' = Advice
  BY MockAssumption DEF Advice, Made, WritesOf, InPlace
<1>1. CASE \E r \in Requests : Begin(r)
  <2>1. /\ phase # "running" /\ phase' = "running" /\ step'[Mock] = "todo"
        /\ synthetic' = synthetic /\ cut' = cut
    BY <1>0, <1>1 DEF Begin
  <2>2. Whole' /\ Uniform'
    BY <2>1, FilesKept DEF Between, Running
  <2>3. Kept' /\ Partly' /\ Chosen'
    BY <2>1 DEF Kept, Partly, Chosen, Running
  <2> QED
    BY <2>2, <2>3 DEF Origin
<1>2. CASE Preflight
  BY <1>2, Beside DEF Preflight
<1>3. CASE NextStage
  BY <1>3, Beside DEF NextStage
<1>4. CASE PreflightFails \/ RunFails
  <2>1. /\ phase = "running" /\ phase' = "failed" /\ step' = step
        /\ synthetic' = synthetic /\ cut' = cut
    BY <1>4 DEF PreflightFails, RunFails, Ended
  <2>2. ~Running(Mock)
    <3>1. CASE PreflightFails
      BY <3>1 DEF PreflightFails, Inside, Running, Group
    <3>2. CASE RunFails
      BY <3>2 DEF RunFails, Ended, Inside, Running
    <3> QED
      BY <1>4, <3>1, <3>2
  <2>3. Whole' /\ Uniform'
    BY <2>1, <2>2, FilesKept DEF Between
  <2>4. Kept' /\ Partly' /\ Chosen'
    BY <2>1 DEF Kept, Partly, Chosen, Running
  <2> QED
    BY <2>3, <2>4 DEF Origin
<1>5. CASE FinishRun
  <2>1. /\ phase = "running" /\ phase' = "ok" /\ run' = run /\ step' = step
        /\ synthetic' = synthetic /\ cut' = cut /\ stage = Len(Plan) + 1
    BY <1>5 DEF FinishRun
  <2>2. run \in Requests /\ Len(Plan) \in Nat
    BY <2>1, PlanType DEF Asked
  <2>3. ~Running(Mock)
    BY <2>1, <2>2 DEF Inside, Running, Group
  <2>4. Whole' /\ Uniform'
    BY <2>1, <2>3, FilesKept DEF Between
  <2>5. Mock \in Planned => AsAsked
    <3>1. SUFFICES ASSUME Mock \in Planned PROVE AsAsked
      OBVIOUS
    <3>2. PICK k \in 1 .. Len(Plan) : Mock \in Plan[k]
      BY <3>1 DEF Planned
    <3>3. k < stage /\ Mock \notin Optional
      BY <2>1, <2>2, MockAssumption
    <3>4. step[Mock] \in {"done", "skipped"}
      BY <2>1, <3>2, <3>3 DEF Passed
    <3>5. CASE step[Mock] = "done"
      BY <2>1, <3>5 DEF Chosen
    <3>6. CASE step[Mock] = "skipped"
      <4>1. Status \in synthetic <=> run.mock
        BY <2>1, <3>6 DEF Chosen
      <4> QED
        BY <2>3, <4>1 DEF AsAsked, Uniform, Between
    <3> QED
      BY <3>4, <3>5, <3>6
  <2>6. Planned' = Planned
    BY <2>1 DEF Planned, Plan
  <2>7. Kept'
    BY <2>1, <2>5, <2>6, FilesKept DEF Kept
  <2>8. Partly' /\ Chosen'
    BY <2>1 DEF Partly, Chosen, Running
  <2> QED
    BY <2>4, <2>7, <2>8 DEF Origin
<1>6. CASE Crash
  <2>1. /\ phase = "running" /\ phase' = "died" /\ synthetic' = synthetic
        /\ cut' = cut \cup UNION {HalfDone(s) : s \in Steps}
    BY <1>6 DEF Crash
  <2>2. Kept' /\ Partly' /\ Chosen'
    BY <2>1 DEF Kept, Partly, Chosen, Running
  <2>3. CASE Between
    <3>1. Advice \subseteq cut'
      BY <1>0, <2>1, <2>3, HalfDoneAdvice DEF Between, Running
    <3>2. Whole' /\ Uniform'
      BY <1>0, <3>1, StatusMade DEF Whole, Uniform
    <3> QED
      BY <2>2, <3>2 DEF Origin
  <2>4. CASE ~Between
    <3>1. HalfDone(Mock) = {}
      BY <2>1, <2>4, HalfDoneAdvice, <1>0 DEF Between, Running
    <3>2. \A s \in Steps : HalfDone(s) \cap Advice = {}
      BY <3>1, HalfDoneAdvice
    <3>3. \A g \in Advice : g \in cut' <=> g \in cut
      BY <2>1, <3>2
    <3>4. Whole' /\ Uniform'
      BY <2>1, <2>4, <3>3, FilesKept
    <3> QED
      BY <2>2, <3>4 DEF Origin
  <2> QED
    BY <2>3, <2>4
<1>7. CASE \E f \in Sources : Touch(f)
  BY <1>7, Beside DEF Touch
<1>8. CASE UNCHANGED vars
  BY <1>8, Beside DEF vars
<1> QED
  BY <1>1, <1>2, <1>3, <1>4, <1>5, <1>6, <1>7, <1>8

LEMMA InvStep == ASSUME Inv, [Next]_vars PROVE Inv'
<1>1. TypeOK' /\ Asked'
  BY TypeStep DEF Inv
<1>2. Passed' /\ Inside'
  BY PassedStep DEF Inv
<1>3. Origin'
  <2>1. CASE \E s \in Steps : \/ SkipStep(s) \/ StartStep(s) \/ FailStep(s)
                            \/ WriteNext(s) \/ WriteLast(s) \/ WriteNothing(s)
    BY <2>1, Others, ChainElse, ChainNext, ChainLast
  <2>2. CASE ~\E s \in Steps : \/ SkipStep(s) \/ StartStep(s) \/ FailStep(s)
                             \/ WriteNext(s) \/ WriteLast(s) \/ WriteNothing(s)
    BY <2>2, RunStep DEF Next
  <2> QED
    BY <2>1, <2>2
<1> QED
  BY <1>1, <1>2, <1>3 DEF Inv, Origin

LEMMA InvInit == ASSUME Init PROVE Inv
<1>1. TypeOK /\ Asked
  BY TypeInit
<1>2. Whole /\ Uniform /\ Partly /\ Chosen /\ Passed /\ Kept /\ Inside
  BY DEF Init, Whole, Uniform, Partly, Chosen, Passed, Kept, Inside, Running
<1> QED
  BY <1>1, <1>2 DEF Inv

\* A live run that ends well has live advice, whatever was run before, unless
\* the chain was cut short, for any table in which nothing else makes the
\* advice.
THEOREM LiveAdvice == Spec => []LiveAdviceIsLive
<1>1. Inv => LiveAdviceIsLive
  <2>1. SUFFICES ASSUME Inv, phase = "ok", Mock \in Planned, ~run.mock
                 PROVE  Advice \cap synthetic \subseteq cut
    BY DEF LiveAdviceIsLive, Advice
  <2>2. AsAsked /\ Whole
    BY <2>1 DEF Inv, Kept
  <2> QED
    BY <2>1, <2>2 DEF AsAsked, Whole
<1>2. Init => Inv
  BY InvInit
<1>3. Inv /\ [Next]_vars => Inv'
  BY InvStep
<1> QED
  BY <1>1, <1>2, <1>3, PTL DEF Spec

-------------------------------------------------------------------------------
(***************************************************************************)
(* What a run leaves is current, and the next run takes it over.           *)
(***************************************************************************)
Late(f, i) == <<f, i>> \in lag \ raced
Writing(s) == Running(s) /\ wrote[s] > 0
Written(s) == {Writes[s][k] : k \in 1 .. wrote[s]}
After(s) == step[s] \in {"done", "skipped"}

\* Something that s waits for has still to be written, ...
Awaited(s) == \E x \in Near(s) \cup Far(s) : x[2] \notin newer[x[1]]

\* ... or s itself is out of date as a whole.
Due(s) == Own(s) \cap newer[s] = {} \/ Awaited(s)

\* The outputs by which a change that f has not seen is noticed.
Marks(s, f) == IF Leads(s, f) # {} THEN Leads(s, f) ELSE Own(s)

\* The steps of the run so far are those of its plan.
Placed ==
  phase = "running" =>
    \A s \in Steps :
      /\ step[s] = "todo" => wrote[s] = 0
      /\ step[s] # "todo" => \E k \in 1 .. Len(Plan) : k <= stage /\ s \in Plan[k]
      /\ step[s] = "running" => s \in Group
      /\ step[s] = "skipped" => run.resume /\ s \in Resumable

\* Unless something changed from outside, a step that is over is fresh.
Renewed ==
  phase = "running" =>
    \A s \in Resumable : calm \/ Inputs[s] \cap Sources = {} =>
      /\ After(s) => newer[s] = Outputs[s]
      /\ step[s] = "running" => Written(s) \cap Outputs[s] \subseteq newer[s]

\* A step that is over, or was so once, has all of its files or was cut short.
There ==
  \A s \in Makers :
    /\ Own(s) \subseteq exists /\ ~Writing(s) => Made[s] \subseteq exists \cup cut
    /\ phase = "running" /\ After(s) => Made[s] \subseteq exists \cup cut
    /\ Running(s) => Written(s) \subseteq exists

\* What lags behind is out of date by the modification times, or waits for
\* something that is.
Noticed ==
  \A s \in Makers : \A f \in Made[s], i \in Watched(s) : Late(f, i) =>
    /\ Writing(s) /\ f \in Written(s) => Leads(s, f) # {} /\ (Leads(s, f) \cap newer[s] = {} \/ Awaited(s))
    /\ ~Writing(s) => f \in cut \/ Marks(s, f) \cap newer[s] = {} \/ Awaited(s)

\* What makes t run makes s run as well, ...
SharedHolds == \A s \in Makers, t \in Steps : Shared(s, t) => newer[t] = Outputs[t] \/ Due(s)

\* ... and so does what has been written in this run.
DueHolds ==
  phase = "running" => \A s \in Makers : step[s] = "todo" =>
    /\ \A w \in Steps : (\E f \in Written(w) : Heeded(s, f)) \/ (step[w] = "done" /\ Rewrites(w, s)) => Due(s)
    /\ \A t \in Steps : step[t] = "running" /\ (Shared(s, t) \/ \A plan \in Plans : Preceded(s, t, plan, Resumable))
         => Due(s)

\* While nothing changes from outside, what the run has made is current.
Current ==
  phase = "running" /\ calm =>
    \A s \in Makers : \A f \in Made[s], i \in Watched(s) : Late(f, i) =>
      /\ After(s) => f \in cut
      /\ step[s] = "running" => f \notin Written(s)

MockMatches == phase = "running" /\ Mock \in Resumable /\ After(Mock) => Matches(run.mock)

\* A repetition finds every step done.
Reusable ==
  /\ \A s \in Planned \cap Resumable : newer[s] = Outputs[s]
  /\ Mock \in Planned \cap Resumable => Matches(run.mock)

Vouched ==
  phase = "ok" /\ calm =>
    /\ \A s \in Planned \cap Makers : \A f \in Made[s], i \in Watched(s) : Late(f, i) => f \in cut
    /\ Reusable

Repeats ==
  /\ again /\ phase = "running" => run.resume /\ calm /\ Reusable
  /\ FinishedIsReused

FreshInv ==
  /\ Placed /\ Renewed /\ There /\ Noticed /\ SharedHolds /\ DueHolds /\ Current
  /\ MockMatches /\ Vouched /\ Repeats

-------------------------------------------------------------------------------
(***************************************************************************)
(* The table.                                                              *)
(***************************************************************************)
LEMMA MakersFacts ==
  ASSUME NEW s \in Makers
  PROVE  /\ s \in Steps /\ s \in Resumable /\ s \notin Optional
         /\ Own(s) # {} /\ Own(s) \subseteq Outputs[s] /\ Own(s) \subseteq Made[s]
         /\ \A f \in Made[s] : Leads(s, f) \subseteq Own(s)
         /\ Made[s] \cap Sources = {}
<1>1. s \in Steps /\ s \in Resumable /\ s \notin Optional /\ Own(s) # {} /\ Made[s] \cap Sources = {}
  BY TableAssumption DEF Makers
<1> QED
  BY <1>1 DEF Own, Leads

LEMMA MarksFacts ==
  ASSUME NEW s \in Makers, NEW f \in Made[s]
  PROVE  Marks(s, f) # {} /\ Marks(s, f) \subseteq Own(s)
  BY MakersFacts DEF Marks

\* Who writes a file.
LEMMA OneMaker ==
  ASSUME NEW s \in Steps, NEW t \in Steps, s # t
  PROVE  /\ Made[s] \cap Made[t] = {}
         /\ Own(s) \cap WritesOf(t) = {}
         /\ \A f \in Made[s] \cap WritesOf(t) : f \in Reads[t]
<1>1. Made[s] \cap Made[t] = {}
  BY TableAssumption
<1>2. Made[t] = {f \in WritesOf(t) : f \notin Reads[t]}
  BY DEF Made, InPlace
<1> QED
  BY <1>1, <1>2 DEF Own

LEMMA NoLoop == ASSUME NEW s \in Steps PROVE Inputs[s] \cap Outputs[s] = {}
  BY TableAssumption

\* A script changes its own inputs before it writes its outputs.
LEMMA OwnOrder ==
  ASSUME NEW s \in Steps, NEW k \in 1 .. Len(Writes[s]), NEW j \in 1 .. Len(Writes[s]), j < k,
         Writes[s][k] \in Inputs[s] \cup Reads[s]
  PROVE  Writes[s][j] \notin Made[s] \cup Outputs[s]
  BY TableAssumption

LEMMA Planned1 ==
  ASSUME run \in Requests
  PROVE  /\ Plan \in Plans /\ Len(Plan) \in Nat
         /\ \A k \in 1 .. Len(Plan) : Plan[k] \subseteq Steps
         /\ Planned \subseteq Steps
  BY PlanType DEF Plans, Plan, Planned

\* What is written in a stage is no input of the stages behind it, nor of the
\* other steps of the stage.
LEMMA NoWayBack ==
  ASSUME NEW plan \in Plans, NEW s \in Steps, NEW t \in Steps, s # t,
         NEW j \in 1 .. Len(plan), NEW k \in 1 .. Len(plan), s \in plan[j], t \in plan[k], j <= k
  PROVE  /\ s \in Makers => WritesOf(t) \cap Watched(s) = {}
         /\ s \in Resumable => WritesOf(t) \cap Inputs[s] = {}
  BY TableAssumption

LEMMA OnceInPlan ==
  ASSUME NEW plan \in Plans, NEW s \in Steps,
         NEW j \in 1 .. Len(plan), NEW k \in 1 .. Len(plan), s \in plan[j], s \in plan[k]
  PROVE  j = k
  BY TableAssumption

LEMMA NeverResumed ==
  ASSUME NEW plan \in Plans, NEW s \in Resumable, NEW t \in Steps \ Resumable,
         NEW j \in 1 .. Len(plan), NEW k \in 1 .. Len(plan), s \in plan[j], t \in plan[k]
  PROVE  WritesOf(t) \cap Inputs[s] = {}
  BY TableAssumption, PipelineAssumption

LEMMA ResumableFacts ==
  ASSUME NEW s \in Resumable
  PROVE  s \in Steps /\ s \notin Optional /\ Outputs[s] # {} /\ Outputs[s] \subseteq WritesOf(s)
  BY TableAssumption, PipelineAssumption

\* The maker of what a script changes in place comes before it.
LEMMA MakerAhead ==
  ASSUME NEW t \in Steps, NEW s \in Steps, NEW f \in WritesOf(t) \cap Reads[t] \cap Made[s], NEW plan \in Plans
  PROVE  Ahead(s, t, plan)
  BY TableAssumption

LEMMA LeadsOrQuiet ==
  ASSUME NEW s \in Makers, NEW f \in Made[s]
  PROVE  Leads(s, f) # {} \/ Watched(s) \cap Sources = {}
  BY TableAssumption

LEMMA SourcesHeeded == ASSUME NEW s \in Makers, NEW i \in Watched(s) \cap Sources PROVE Heeded(s, i)
  BY TableAssumption

LEMMA WritersForeseen ==
  ASSUME NEW s \in Makers, NEW t \in Steps \ {s}, NEW i \in Watched(s) \cap WritesOf(t)
  PROVE  Foreseen(s, t, i)
  BY TableAssumption

-------------------------------------------------------------------------------
(***************************************************************************)
(* The steps of a run.                                                     *)
(***************************************************************************)
\* A step that changes only what became of t, which is in the current stage.
LEMMA PlacedOne ==
  ASSUME TypeOK, Placed, phase = "running", NEW t \in Steps, step[t] = "running" \/ t \in Group,
         phase' = phase, run' = run, stage' = stage, wrote'[t] = wrote[t] \/ step'[t] # "todo",
         \A s \in Steps \ {t} : step'[s] = step[s] /\ wrote'[s] = wrote[s],
         step'[t] # "todo", step'[t] = "skipped" => run.resume /\ t \in Resumable
  PROVE  Placed'
<1>1. t \in Group /\ Group' = Group /\ Plan' = Plan
  BY DEF Placed, Group, Plan
<1>2. stage \in 1 .. Len(Plan) /\ t \in Plan[stage]
  BY <1>1 DEF Group
<1>3. ASSUME NEW s \in Steps
      PROVE  /\ step'[s] = "todo" => wrote'[s] = 0
             /\ step'[s] # "todo" => \E k \in 1 .. Len(Plan) : k <= stage /\ s \in Plan[k]
             /\ step'[s] = "running" => s \in Group
             /\ step'[s] = "skipped" => run.resume /\ s \in Resumable
  <2>1. CASE s = t
    <3>1. stage <= stage
      BY <1>2
    <3> QED
      BY <1>1, <1>2, <2>1, <3>1
  <2>2. CASE s # t
    BY <2>2 DEF Placed
  <2> QED
    BY <2>1, <2>2
<1> QED
  BY <1>1, <1>3 DEF Placed

LEMMA PlacedStep ==
  ASSUME TypeOK, Asked, Placed, [Next]_vars
  PROVE  Placed'
<1> USE DEF TypeOK, Asked
<1>1. CASE UNCHANGED vars
  BY <1>1 DEF vars, disk, Placed, Plan, Group
<1>2. ASSUME NEW r \in Requests, Begin(r) PROVE Placed'
  BY <1>2 DEF Begin, Placed
<1>3. CASE Preflight
  <2>1. Plan' = Plan /\ stage = 0 /\ stage' = 1
    BY <1>3 DEF Preflight, Plan
  <2>2. \A s \in Steps : step[s] # "running"
    BY <1>3 DEF Preflight, Placed, Group
  <2>3. \A s \in Steps : step[s] = "todo"
    BY <1>3 DEF Preflight, Placed
  <2> QED
    BY <1>3, <2>1, <2>3 DEF Preflight, Placed
<1>4. CASE PreflightFails \/ RunFails \/ FinishRun \/ Crash
  BY <1>4 DEF PreflightFails, RunFails, FinishRun, Crash, Placed
<1>5. CASE NextStage
  <2>1. Plan' = Plan /\ stage' = stage + 1 /\ phase = "running" /\ stage \in Nat /\ step' = step /\ wrote' = wrote
    BY <1>5, PlanType, PipelineAssumption DEF NextStage, Ended, Plan
  <2>2. \A s \in Steps : step[s] # "running"
    BY <1>5 DEF NextStage, Ended, Placed
  <2>3. ASSUME NEW s \in Steps, step[s] # "todo"
        PROVE  \E k \in 1 .. Len(Plan) : k <= stage + 1 /\ s \in Plan[k]
    <3>1. PICK k \in 1 .. Len(Plan) : k <= stage /\ s \in Plan[k]
      BY <2>1, <2>3 DEF Placed
    <3>2. k <= stage + 1
      BY <2>1, <3>1
    <3> QED
      BY <3>1, <3>2
  <2> QED
    BY <1>5, <2>1, <2>2, <2>3 DEF NextStage, Placed
<1>6. ASSUME NEW t \in Steps, SkipStep(t) PROVE Placed'
  <2>1. run.resume /\ t \in Resumable
    BY <1>6 DEF SkipStep, Skips, OutputExists, IsFresh
  <2> QED
    BY <1>6, <2>1, PlacedOne DEF SkipStep, Group
<1>7. ASSUME NEW t \in Steps, StartStep(t) PROVE Placed'
  BY <1>7, PlacedOne DEF StartStep, Group
<1>8. ASSUME NEW t \in Steps, FailStep(t) \/ WriteLast(t) \/ WriteNothing(t) PROVE Placed'
  BY <1>8, PlacedOne DEF FailStep, WriteLast, WriteNothing, Running
<1>9. ASSUME NEW t \in Steps, WriteNext(t) PROVE Placed'
  BY <1>9, PlacedOne DEF WriteNext, Running
<1>10. ASSUME NEW f \in Sources, Touch(f) PROVE Placed'
  BY <1>10 DEF Touch, Placed, Plan, Group
<1> QED
  BY <1>1, <1>2, <1>3, <1>4, <1>5, <1>6, <1>7, <1>8, <1>9, <1>10 DEF Next

\* Who runs is in the stage of the run; who is behind it is in no later stage.
LEMMA RunningPlace ==
  ASSUME TypeOK, Asked, Placed, NEW t \in Steps, Running(t)
  PROVE  /\ run \in Requests /\ Plan \in Plans /\ Len(Plan) \in Nat
         /\ stage \in 1 .. Len(Plan) /\ t \in Plan[stage]
         /\ \A s \in Steps : step[s] # "todo" => \E j \in 1 .. Len(Plan) : j <= stage /\ s \in Plan[j]
<1>1. run \in Requests /\ Plan \in Plans /\ Len(Plan) \in Nat
  BY Planned1 DEF Running, Asked
<1>2. t \in Group
  BY DEF Running, Placed
<1> QED
  BY <1>1, <1>2 DEF Group, Running, Placed

\* What t writes is no input of another step that is over or beside it.
LEMMA WritesAhead ==
  ASSUME TypeOK, Asked, Placed, NEW t \in Steps, Running(t), NEW s \in Steps \ {t}, step[s] # "todo"
  PROVE  /\ s \in Makers => WritesOf(t) \cap Watched(s) = {}
         /\ s \in Resumable => WritesOf(t) \cap Inputs[s] = {}
<1>1. PICK j \in 1 .. Len(Plan) : j <= stage /\ s \in Plan[j]
  BY RunningPlace
<1> QED
  BY <1>1, RunningPlace, NoWayBack

\* The steps that a plan has before a running one are over.
LEMMA AheadIsOver ==
  ASSUME TypeOK, Asked, Placed, Passed, NEW t \in Steps, phase = "running", t \in Group,
         NEW s \in Steps \ Optional, Ahead(s, t, Plan)
  PROVE  After(s) /\ s # t
<1>1. run \in Requests /\ Plan \in Plans /\ Len(Plan) \in Nat /\ stage \in 1 .. Len(Plan) /\ t \in Plan[stage]
  BY Planned1 DEF Group, Asked
<1>2. PICK j \in 1 .. stage - 1 : s \in Plan[j]
  BY <1>1 DEF Ahead
<1>3. j \in 1 .. Len(Plan) /\ j < stage
  BY <1>1, <1>2
<1>4. After(s)
  BY <1>2, <1>3 DEF Passed, After
<1>5. s # t
  BY <1>1, <1>2, <1>3, OnceInPlan
<1> QED
  BY <1>4, <1>5

-------------------------------------------------------------------------------
(***************************************************************************)
(* What a change does to the modification times.                           *)
(***************************************************************************)
LEMMA DatedFacts ==
  ASSUME TypeOK, NEW g \in Files, Dated(g), NEW s \in Steps
  PROVE  /\ newer'[s] \subseteq newer[s] \cup {g} /\ newer'[s] \subseteq Outputs[s]
         /\ g \notin Inputs[s] => newer[s] \subseteq newer'[s]
         /\ g \in Inputs[s] => newer'[s] = {}
         /\ g \in Outputs[s] => g \in newer'[s]
         /\ exists' = exists \cup {g}
<1>1. newer'[s] = (IF g \in Inputs[s] THEN {} ELSE newer[s]) \cup ({g} \cap Outputs[s])
  BY DEF Dated
<1>2. Inputs[s] \cap Outputs[s] = {} /\ newer[s] \subseteq Outputs[s]
  BY NoLoop DEF TypeOK
<1> QED
  BY <1>1, <1>2 DEF Dated

\* A step that stays fresh has nothing new among its inputs.
LEMMA StillFresh ==
  ASSUME TypeOK, NEW g \in Files, Dated(g), NEW s \in Steps, newer[s] = Outputs[s], g \notin Inputs[s]
  PROVE  newer'[s] = Outputs[s]
<1>1. newer[s] \subseteq newer'[s] /\ newer'[s] \subseteq Outputs[s]
  BY DatedFacts
<1> QED
  BY <1>1

LEMMA FeedersFacts ==
  ASSUME NEW s \in Steps, NEW x \in Near(s) \cup Far(s)
  PROVE  /\ x[1] \in Feeders(s) /\ x[1] \in Steps /\ x[2] \in Outputs[x[1]]
         /\ x \in Near(s) => x[2] \in Inputs[s]
         /\ x \in Far(s) => \E y \in Near(s) : x[2] \in Inputs[y[1]]
<1>1. x[1] \in Feeders(s)
  BY DEF Near, Far
<1>2. x[1] \in Steps
  BY <1>1, PipelineAssumption DEF Feeders
<1> QED
  BY <1>1, <1>2 DEF Near, Far

\* When a step that s waits for has new inputs, s waits for it.
LEMMA NewInputs ==
  ASSUME TypeOK, NEW g \in Files, Dated(g), NEW s \in Steps, NEW x \in Near(s) \cup Far(s), g \in Inputs[x[1]]
  PROVE  Awaited(s)'
<1>1. newer'[x[1]] = {}
  BY DatedFacts, FeedersFacts
<1> QED
  BY <1>1 DEF Awaited

LEMMA HeededNow ==
  ASSUME TypeOK, NEW g \in Files, Dated(g), NEW s \in Steps, Heeded(s, g)
  PROVE  Awaited(s)' \/ newer'[s] = {}
  BY NewInputs, DatedFacts DEF Heeded

LEMMA AwaitedKept ==
  ASSUME TypeOK, NEW g \in Files, Dated(g), NEW s \in Steps, Awaited(s)
  PROVE  Awaited(s)' \/ newer'[s] = {}
<1>1. PICK x \in Near(s) \cup Far(s) : x[2] \notin newer[x[1]]
  BY DEF Awaited
<1>2. CASE x[2] # g
  <2>1. x[2] \notin newer'[x[1]]
    BY <1>1, <1>2, DatedFacts, FeedersFacts
  <2> QED
    BY <2>1 DEF Awaited
<1>3. CASE x[2] = g
  BY <1>3, HeededNow, FeedersFacts DEF Heeded
<1> QED
  BY <1>2, <1>3

LEMMA DueKept ==
  ASSUME TypeOK, NEW g \in Files, Dated(g), NEW s \in Steps, g \notin Own(s)
  PROVE  Due(s) => Due(s)'
<1>1. CASE Own(s) \cap newer[s] = {}
  BY <1>1, DatedFacts DEF Due
<1>2. CASE Awaited(s)
  BY <1>2, AwaitedKept DEF Due
<1> QED
  BY <1>1, <1>2 DEF Due

\* So is what marks a file as out of date.
LEMMA MarksKept ==
  ASSUME TypeOK, NEW g \in Files, Dated(g), NEW s \in Steps, NEW marks, g \notin marks,
         marks \cap newer[s] = {} \/ Awaited(s)
  PROVE  marks \cap newer'[s] = {} \/ Awaited(s)'
<1>1. CASE marks \cap newer[s] = {}
  BY <1>1, DatedFacts
<1>2. CASE Awaited(s)
  BY <1>2, AwaitedKept
<1> QED
  BY <1>1, <1>2

\* What t writes now, and what it leaves alone.
Write(t, g) ==
  /\ Running(t) /\ wrote[t] + 1 \in 1 .. Len(Writes[t]) /\ g = Writes[t][wrote[t] + 1]
  /\ WriteFile(t, g)
  /\ phase' = phase /\ run' = run /\ stage' = stage /\ calm' = calm /\ again' = again
  /\ \A s \in Steps \ {t} : step'[s] = step[s] /\ wrote'[s] = wrote[s]
  /\ \/ step'[t] = "running" /\ wrote'[t] = wrote[t] + 1 /\ cut' = cut
     \/ wrote[t] + 1 = Len(Writes[t]) /\ step'[t] = "done" /\ wrote'[t] = wrote[t] /\ cut' = cut \ Made[t]

LEMMA OneWrite ==
  ASSUME TypeOK, NEW t \in Steps, WriteNext(t) \/ WriteLast(t)
  PROVE  \E g \in Files : Write(t, g)
<1>1. wrote[t] + 1 \in 1 .. Len(Writes[t]) /\ Writes[t][wrote[t] + 1] \in Files
  BY WrittenNext, WrittenLast, TableType
<1>2. CASE WriteNext(t)
  BY <1>1, <1>2 DEF WriteNext, Write, Running, TypeOK
<1>3. CASE WriteLast(t)
  BY <1>1, <1>3 DEF WriteLast, Write, Running, TypeOK
<1> QED
  BY <1>2, <1>3

\* The files of t before and with this one.
LEMMA WriteFacts ==
  ASSUME TypeOK, NEW t \in Steps, NEW g \in Files, Write(t, g)
  PROVE  /\ Dated(g) /\ g \in WritesOf(t) /\ wrote[t] \in Nat /\ (Placed => t \in Group)
         /\ \A f \in Written(t) : f \in WritesOf(t) /\ \E j \in 1 .. Len(Writes[t]) : j < wrote[t] + 1 /\ f = Writes[t][j]
         /\ step'[t] = "running" => Written(t)' = Written(t) \cup {g}
         /\ step'[t] # "running" => WritesOf(t) = Written(t) \cup {g} /\ step'[t] = "done" /\ Written(t)' = Written(t)
         /\ \A s \in Steps \ {t} : Written(s)' = Written(s)
         /\ Made[t] \cap {g} \cap Reads[t] = {}
<1>1. Dated(g) /\ wrote[t] \in Nat /\ Len(Writes[t]) \in Nat
  BY TableType DEF Write, WriteFile, TypeOK
<1>2. g \in WritesOf(t)
  BY DEF Write, WritesOf
<1>3. Placed => t \in Group
  BY DEF Write, Running, Placed
<1>4. ASSUME NEW f \in Written(t)
      PROVE  f \in WritesOf(t) /\ \E j \in 1 .. Len(Writes[t]) : j < wrote[t] + 1 /\ f = Writes[t][j]
  <2>1. PICK j \in 1 .. wrote[t] : f = Writes[t][j]
    BY DEF Written
  <2>2. j \in 1 .. Len(Writes[t]) /\ j < wrote[t] + 1
    BY <1>1, <2>1 DEF TypeOK
  <2> QED
    BY <2>1, <2>2 DEF WritesOf
<1>5. \A k \in 1 .. wrote[t] + 1 : k \in 1 .. wrote[t] \/ k = wrote[t] + 1
  BY <1>1
<1>6. 1 .. wrote[t] \subseteq 1 .. wrote[t] + 1 /\ wrote[t] + 1 \in 1 .. wrote[t] + 1
  BY <1>1
<1>7. {Writes[t][k] : k \in 1 .. wrote[t] + 1} = Written(t) \cup {g}
  BY <1>5, <1>6 DEF Written, Write
<1>8. step'[t] = "running" => Written(t)' = Written(t) \cup {g}
  BY <1>7 DEF Write, Written
<1>9. step'[t] # "running" => WritesOf(t) = Written(t) \cup {g} /\ step'[t] = "done" /\ Written(t)' = Written(t)
  BY <1>7 DEF Write, Written, WritesOf
<1>10. \A s \in Steps \ {t} : Written(s)' = Written(s)
  BY DEF Write, Written
<1>11. Made[t] \cap {g} \cap Reads[t] = {}
  BY DEF Made, InPlace
<1> QED
  BY <1>1, <1>2, <1>3, <1>4, <1>8, <1>9, <1>10, <1>11

-------------------------------------------------------------------------------
\* What a change of a source is.
LEMMA TouchFacts ==
  ASSUME TypeOK, NEW g \in Sources, Touch(g)
  PROVE  /\ g \in Files /\ Dated(g) /\ calm' = FALSE /\ again' = FALSE
         /\ phase' = phase /\ run' = run /\ step' = step /\ wrote' = wrote /\ cut' = cut
         /\ \A s \in Steps : g \notin Made[s] /\ g \notin Own(s)
         /\ \A s \in Steps : Written(s)' = Written(s)
<1>1. g \in Files
  BY PipelineAssumption
<1>2. \A s \in Steps : g \notin Made[s] /\ g \notin Own(s)
  BY TableAssumption DEF Own
<1> QED
  BY <1>1, <1>2 DEF Touch, Written

\* No script runs when a run ends.
LEMMA Idle ==
  ASSUME TypeOK, Asked, Placed, PreflightFails \/ RunFails \/ FinishRun, NEW s \in Steps
  PROVE  step[s] # "running" /\ phase = "running"
<1>1. CASE PreflightFails
  BY <1>1 DEF PreflightFails, Placed, Group
<1>2. CASE RunFails
  BY <1>2 DEF RunFails, Ended, Placed
<1>3. CASE FinishRun
  <2>1. run \in Requests /\ Len(Plan) \in Nat
    BY <1>3, PlanType DEF FinishRun, Asked
  <2> QED
    BY <1>3, <2>1 DEF FinishRun, Placed, Group
<1> QED
  BY <1>1, <1>2, <1>3

\* The kinds of steps.
Control == Preflight \/ PreflightFails \/ NextStage \/ RunFails \/ FinishRun
LEMMA Kinds ==
  ASSUME TypeOK, [Next]_vars
  PROVE  \/ UNCHANGED vars \/ (\E r \in Requests : Begin(r)) \/ Control \/ Crash
         \/ \E t \in Steps : \/ SkipStep(t) \/ StartStep(t) \/ FailStep(t) \/ WriteNothing(t)
                             \/ \E g \in Files : Write(t, g)
         \/ \E g \in Sources : Touch(g)
  BY OneWrite DEF Next, Control

LEMMA ControlFacts ==
  ASSUME TypeOK, Asked, Placed, Control
  PROVE  /\ phase = "running" /\ UNCHANGED <<run, step, wrote, disk, cut, again, calm>>
         /\ phase' = "running" \/ \A s \in Steps : step[s] # "running"
<1>1. phase = "running" /\ UNCHANGED <<run, step, wrote, disk, cut, again, calm>>
  BY DEF Control, Preflight, PreflightFails, NextStage, RunFails, FinishRun, Ended
<1>2. Preflight \/ NextStage => phase' = "running"
  BY DEF Preflight, NextStage, Ended
<1> QED
  BY <1>1, <1>2, Idle DEF Control

\* A script that writes nothing makes nothing.
LEMMA NothingFacts ==
  ASSUME NEW t \in Steps, Writes[t] = <<>>
  PROVE  WritesOf(t) = {} /\ t \notin Resumable /\ t \notin Makers /\ Made[t] = {}
<1>1. WritesOf(t) = {} /\ Made[t] = {}
  BY DEF WritesOf, Made
<1>2. t \notin Resumable
  BY <1>1, ResumableFacts
<1> QED
  BY <1>1, <1>2 DEF Makers

LEMMA RenewedStep ==
  ASSUME TypeOK, Asked, Placed, Renewed, [Next]_vars
  PROVE  Renewed'
<1> DEFINE P(s) == calm \/ Inputs[s] \cap Sources = {} =>
      /\ After(s) => newer[s] = Outputs[s]
      /\ step[s] = "running" => Written(s) \cap Outputs[s] \subseteq newer[s]
<1>0. phase = "running" => \A s \in Resumable : P(s)
  BY DEF Renewed
<1>a. phase' = "running" /\ (\A s \in Resumable : P(s)') => Renewed'
  BY DEF Renewed
<1>b. phase' # "running" => Renewed'
  BY DEF Renewed
<1>1. CASE UNCHANGED vars
  BY <1>1, <1>0, <1>a, <1>b DEF vars, disk, After, Written
<1>2. ASSUME NEW r \in Requests, Begin(r) PROVE Renewed'
  <2>1. \A s \in Resumable : P(s)'
    BY <1>2, ResumableFacts DEF Begin, After
  <2> QED
    BY <2>1, <1>a, <1>b
<1>3. CASE Control
  <2>1. phase = "running" /\ UNCHANGED <<step, wrote, newer, calm>>
    BY <1>3, ControlFacts DEF disk
  <2> QED
    BY <1>0, <2>1, <1>a, <1>b DEF After, Written
<1>4. CASE Crash
  BY <1>4, <1>b DEF Crash
<1>5. ASSUME NEW t \in Steps, SkipStep(t) PROVE Renewed'
  <2>1. phase = "running" /\ newer' = newer /\ wrote' = wrote /\ calm' = calm /\ step'[t] = "skipped"
    BY <1>5 DEF SkipStep, Group, disk, TypeOK
  <2>2. newer[t] = Outputs[t] /\ \A s \in Steps \ {t} : step'[s] = step[s]
    BY <1>5 DEF SkipStep, Skips, OutputExists, IsFresh, TypeOK
  <2>3. ASSUME NEW s \in Resumable PROVE P(s)'
    BY <2>1, <2>2, <1>0, ResumableFacts DEF After, Written
  <2> QED
    BY <2>3, <1>a, <1>b
<1>6. ASSUME NEW t \in Steps, StartStep(t) PROVE Renewed'
  <2>1. phase = "running" /\ newer' = newer /\ wrote' = wrote /\ calm' = calm /\ step'[t] = "running"
    BY <1>6 DEF StartStep, Group, TypeOK
  <2>2. wrote[t] = 0 /\ \A s \in Steps \ {t} : step'[s] = step[s]
    BY <1>6, <2>1 DEF StartStep, Placed, TypeOK
  <2>3. Written(t)' = {}
    BY <2>1, <2>2 DEF Written
  <2>4. ASSUME NEW s \in Resumable PROVE P(s)'
    <3>1. CASE s = t
      BY <2>1, <2>3, <3>1 DEF After
    <3>2. CASE s # t
      BY <2>1, <2>2, <1>0, <3>2, ResumableFacts DEF After, Written
    <3> QED
      BY <3>1, <3>2
  <2> QED
    BY <2>4, <1>a, <1>b
<1>7. ASSUME NEW t \in Steps, FailStep(t) PROVE Renewed'
  <2>1. phase = "running" /\ newer' = newer /\ wrote' = wrote /\ calm' = calm /\ step'[t] = "failed"
    BY <1>7 DEF FailStep, Running, disk, TypeOK
  <2>2. \A s \in Steps \ {t} : step'[s] = step[s]
    BY <1>7 DEF FailStep, TypeOK
  <2>3. ASSUME NEW s \in Resumable PROVE P(s)'
    BY <2>1, <2>2, <1>0, ResumableFacts DEF After, Written
  <2> QED
    BY <2>3, <1>a, <1>b
<1>8. ASSUME NEW t \in Steps, WriteNothing(t) PROVE Renewed'
  <2>1. phase = "running" /\ newer' = newer /\ wrote' = wrote /\ calm' = calm
    BY <1>8 DEF WriteNothing, Running, disk
  <2>2. t \notin Resumable /\ \A s \in Steps \ {t} : step'[s] = step[s]
    BY <1>8, NothingFacts DEF WriteNothing, TypeOK
  <2>3. ASSUME NEW s \in Resumable PROVE P(s)'
    BY <2>1, <2>2, <1>0, ResumableFacts DEF After, Written
  <2> QED
    BY <2>3, <1>a, <1>b
<1>9. ASSUME NEW t \in Steps, NEW g \in Files, Write(t, g) PROVE Renewed'
  <2>1. /\ phase = "running" /\ step[t] = "running" /\ Running(t) /\ calm' = calm
        /\ \A s \in Steps \ {t} : step'[s] = step[s]
    BY <1>9 DEF Write, Running
  <2>2. ASSUME NEW s \in Resumable, s # t PROVE P(s)'
    <3>1. CASE step[s] = "todo"
      BY <2>1, <2>2, <3>1, ResumableFacts DEF After
    <3>2. CASE step[s] # "todo"
      <4>1. g \notin Inputs[s] /\ s \in Steps
        BY <1>9, <2>1, <2>2, <3>2, WritesAhead, WriteFacts, ResumableFacts
      <4>2. newer[s] \subseteq newer'[s] /\ newer'[s] \subseteq Outputs[s]
        BY <1>9, <4>1, WriteFacts, DatedFacts
      <4>3. step'[s] = step[s] /\ Written(s)' = Written(s)
        BY <1>9, <2>1, <2>2, <4>1, WriteFacts
      <4> QED
        BY <1>0, <2>1, <4>2, <4>3 DEF After
    <3> QED
      BY <3>1, <3>2
  <2>3. ASSUME t \in Resumable PROVE P(t)'
    <3>1. newer'[t] \subseteq Outputs[t] /\ (g \in Outputs[t] => g \in newer'[t]) /\ (g \notin Inputs[t] => newer[t] \subseteq newer'[t])
      BY <1>9, WriteFacts, DatedFacts
    <3>2. ASSUME g \in Inputs[t] PROVE Written(t) \cap Outputs[t] = {} /\ g \notin Outputs[t]
      <4>1. \A f \in Written(t) : f \notin Outputs[t]
        BY <1>9, <3>2, WriteFacts, OwnOrder DEF Write
      <4> QED
        BY <4>1, <3>2, NoLoop
    <3>3. calm \/ Inputs[t] \cap Sources = {} => (Written(t) \cup {g}) \cap Outputs[t] \subseteq newer'[t]
      BY <1>0, <2>1, <2>3, <3>1, <3>2
    <3>4. CASE step'[t] = "running"
      <4>1. Written(t)' = Written(t) \cup {g}
        BY <1>9, <3>4, WriteFacts
      <4> QED
        BY <2>1, <3>3, <3>4, <4>1 DEF After
    <3>5. CASE step'[t] # "running"
      <4>1. Outputs[t] \subseteq Written(t) \cup {g}
        BY <1>9, <2>3, <3>5, WriteFacts, ResumableFacts
      <4>2. calm \/ Inputs[t] \cap Sources = {} => newer'[t] = Outputs[t]
        BY <3>1, <3>3, <4>1
      <4> QED
        BY <2>1, <3>5, <4>2
    <3> QED
      BY <3>4, <3>5
  <2>4. \A s \in Resumable : P(s)'
    BY <2>2, <2>3
  <2> QED
    BY <2>4, <1>a, <1>b
<1>10. ASSUME NEW g \in Sources, Touch(g) PROVE Renewed'
  <2>1. Dated(g) /\ g \in Files /\ calm' = FALSE /\ phase' = phase /\ step' = step
    BY <1>10, TouchFacts
  <2>2. ASSUME NEW s \in Resumable, phase = "running" PROVE P(s)'
    <3>1. s \in Steps
      BY ResumableFacts
    <3>2. Inputs[s] \cap Sources = {} => newer[s] \subseteq newer'[s] /\ newer'[s] \subseteq Outputs[s]
      BY <2>1, <3>1, DatedFacts
    <3>3. Written(s)' = Written(s)
      BY <1>10, <3>1, TouchFacts
    <3> QED
      BY <1>0, <2>1, <2>2, <3>2, <3>3 DEF After
  <2> QED
    BY <2>1, <2>2, <1>a, <1>b
<1> QED
  BY <1>1, <1>2, <1>3, <1>4, <1>5, <1>6, <1>7, <1>8, <1>9, <1>10, Kinds

LEMMA ThereStep ==
  ASSUME TypeOK, Asked, Placed, There, [Next]_vars
  PROVE  There'
<1> DEFINE P(s) ==
      /\ Own(s) \subseteq exists /\ ~Writing(s) => Made[s] \subseteq exists \cup cut
      /\ phase = "running" /\ After(s) => Made[s] \subseteq exists \cup cut
      /\ Running(s) => Written(s) \subseteq exists
<1> USE DEF Writing, Running, After
<1>0. \A s \in Makers : P(s)
  BY DEF There
<1>a. (\A s \in Makers : P(s)') => There'
  BY DEF There
<1>1. CASE UNCHANGED vars
  BY <1>0, <1>1, <1>a DEF vars, disk, Written
<1>2. ASSUME NEW r \in Requests, Begin(r) PROVE There'
  <2>1. phase # "running" /\ exists' = exists /\ cut' = cut
    BY <1>2 DEF Begin, disk
  <2>2. \A s \in Steps : step'[s] = "todo"
    BY <1>2 DEF Begin
  <2> QED
    BY <1>0, <2>1, <2>2, <1>a, MakersFacts
<1>3. CASE Control
  <2>1. /\ phase = "running" /\ UNCHANGED <<exists, cut, step, wrote>>
        /\ phase' = "running" \/ \A s \in Steps : step[s] # "running"
    BY <1>3, ControlFacts DEF disk
  <2> QED
    BY <1>0, <2>1, <1>a, MakersFacts DEF Written
<1>4. CASE Crash
  <2>1. phase = "running" /\ phase' = "died" /\ exists' = exists /\ cut \subseteq cut'
    BY <1>4 DEF Crash, disk
  <2>2. \A s \in Steps : Writing(s) => Made[s] \subseteq cut'
    BY <1>4 DEF Crash, HalfDone
  <2> QED
    BY <1>0, <2>1, <2>2, <1>a, MakersFacts
<1>5. ASSUME NEW t \in Steps, SkipStep(t) PROVE There'
  <2>1. /\ phase = "running" /\ phase' = phase /\ exists' = exists /\ cut' = cut /\ wrote' = wrote
        /\ step[t] = "todo" /\ step'[t] = "skipped" /\ \A s \in Steps \ {t} : step'[s] = step[s]
    BY <1>5 DEF SkipStep, Group, disk, TypeOK
  <2>2. Outputs[t] \subseteq exists
    BY <1>5 DEF SkipStep, Skips, OutputExists, IsFresh, TypeOK
  <2>3. t \in Makers => Own(t) \subseteq exists
    BY <2>2, MakersFacts
  <2>4. ASSUME NEW s \in Makers PROVE P(s)'
    BY <1>0, <2>1, <2>3, MakersFacts DEF Written
  <2> QED
    BY <2>4, <1>a
<1>6. ASSUME NEW t \in Steps, StartStep(t) PROVE There'
  <2>1. /\ phase = "running" /\ phase' = phase /\ exists' = exists /\ cut' = cut /\ wrote' = wrote /\ wrote[t] = 0
        /\ step[t] = "todo" /\ step'[t] = "running" /\ \A s \in Steps \ {t} : step'[s] = step[s]
    BY <1>6 DEF StartStep, Group, TypeOK, Placed
  <2>2. Written(t)' = {}
    BY <2>1 DEF Written
  <2>3. ASSUME NEW s \in Makers PROVE P(s)'
    <3>1. CASE s = t
      BY <1>0, <2>1, <2>2, <3>1
    <3>2. CASE s # t
      BY <1>0, <2>1, <3>2, MakersFacts DEF Written
    <3> QED
      BY <3>1, <3>2
  <2> QED
    BY <2>3, <1>a
<1>7. ASSUME NEW t \in Steps, FailStep(t) PROVE There'
  <2>1. /\ phase = "running" /\ phase' = phase /\ exists' = exists /\ cut \subseteq cut' /\ wrote' = wrote
        /\ step[t] = "running" /\ step'[t] = "failed" /\ \A s \in Steps \ {t} : step'[s] = step[s]
    BY <1>7 DEF FailStep, disk, TypeOK
  <2>2. Writing(t) => Made[t] \subseteq cut'
    BY <1>7 DEF FailStep, HalfDone
  <2>3. ASSUME NEW s \in Makers PROVE P(s)'
    BY <1>0, <2>1, <2>2, MakersFacts DEF Written
  <2> QED
    BY <2>3, <1>a
<1>8. ASSUME NEW t \in Steps, WriteNothing(t) PROVE There'
  <2>1. /\ phase = "running" /\ phase' = phase /\ exists' = exists /\ cut' = cut /\ wrote' = wrote
        /\ t \notin Makers /\ \A s \in Steps \ {t} : step'[s] = step[s]
    BY <1>8, NothingFacts DEF WriteNothing, disk, TypeOK
  <2>2. ASSUME NEW s \in Makers PROVE P(s)'
    BY <1>0, <2>1, MakersFacts DEF Written
  <2> QED
    BY <2>2, <1>a
<1>9. ASSUME NEW t \in Steps, NEW g \in Files, Write(t, g) PROVE There'
  <2>1. /\ phase = "running" /\ phase' = phase /\ step[t] = "running" /\ g \in WritesOf(t) /\ wrote[t] \in Nat
        /\ exists' = exists \cup {g}
        /\ \A s \in Steps \ {t} : step'[s] = step[s] /\ wrote'[s] = wrote[s] /\ Written(s)' = Written(s)
    BY <1>9, WriteFacts, DatedFacts DEF Write
  <2>2. ASSUME NEW s \in Makers, s # t PROVE P(s)'
    <3>1. g \notin Own(s) /\ s \in Steps /\ Made[s] \cap Made[t] = {}
      BY <2>1, <2>2, OneMaker, MakersFacts
    <3>2. \A f \in Made[s] : f \in cut => f \in cut'
      BY <1>9, <3>1 DEF Write
    <3> QED
      BY <1>0, <2>1, <2>2, <3>1, <3>2
  <2>3. ASSUME t \in Makers PROVE P(t)'
    <3>1. Written(t) \cup {g} \subseteq exists'
      BY <1>0, <2>1, <2>3
    <3>2. CASE step'[t] = "running"
      <4>1. Written(t)' = Written(t) \cup {g} /\ wrote'[t] > 0
        BY <1>9, <2>1, <3>2, WriteFacts DEF Write
      <4> QED
        BY <2>1, <3>1, <3>2, <4>1
    <3>3. CASE step'[t] # "running"
      <4>1. Made[t] \subseteq exists'
        BY <1>9, <3>1, <3>3, WriteFacts, TableType
      <4> QED
        BY <2>1, <3>3, <4>1
    <3> QED
      BY <3>2, <3>3
  <2> QED
    BY <2>2, <2>3, <1>a
<1>10. ASSUME NEW g \in Sources, Touch(g) PROVE There'
  <2>1. /\ Dated(g) /\ g \in Files /\ phase' = phase /\ step' = step /\ wrote' = wrote /\ cut' = cut
        /\ exists' = exists \cup {g}
    BY <1>10, TouchFacts DEF Dated
  <2>2. ASSUME NEW s \in Makers PROVE P(s)'
    <3>1. g \notin Own(s) /\ Written(s)' = Written(s)
      BY <1>10, TouchFacts, MakersFacts
    <3> QED
      BY <1>0, <2>1, <3>1
  <2> QED
    BY <2>2, <1>a
<1> QED
  BY <1>1, <1>2, <1>3, <1>4, <1>5, <1>6, <1>7, <1>8, <1>9, <1>10, Kinds

\* Steps that write nothing.
LEMMA DryFacts ==
  ASSUME TypeOK,
         \/ UNCHANGED vars \/ (\E r \in Requests : Begin(r)) \/ Control \/ Crash
         \/ \E t \in Steps : SkipStep(t) \/ StartStep(t) \/ FailStep(t) \/ WriteNothing(t)
  PROVE  UNCHANGED <<newer, exists, lag, raced, synthetic>>
  BY DEF vars, disk, Begin, Control, Preflight, PreflightFails, NextStage, RunFails, FinishRun, Crash,
         SkipStep, StartStep, FailStep, WriteNothing

\* A step of another plan is not what s waits for.
LEMMA SharedFacts ==
  ASSUME NEW s \in Makers, NEW t \in Steps, Shared(s, t)
  PROVE  /\ t \in Feeders(s) /\ t \in Resumable /\ t \notin Optional /\ t # Mock
         /\ Inputs[t] \cap Sources = {} /\ \A j \in Inputs[t] : Heeded(s, j)
         /\ \A plan \in Plans : Ahead(t, s, plan)
  BY DEF Shared, Feeders

LEMMA SharedStep ==
  ASSUME TypeOK, Asked, Placed, Passed, Renewed, SharedHolds, [Next]_vars
  PROVE  SharedHolds'
<1>1. ASSUME UNCHANGED newer PROVE SharedHolds'
  BY <1>1 DEF SharedHolds, Due, Awaited
<1>2. ASSUME NEW w \in Steps, NEW g \in Files, Write(w, g), NEW s \in Makers, NEW t \in Steps, Shared(s, t)
      PROVE  newer'[t] = Outputs[t] \/ Due(s)'
  <2>1. Dated(g) /\ g \in WritesOf(w) /\ s \in Steps /\ Running(w) /\ w \in Group
    BY <1>2, WriteFacts, MakersFacts DEF Write
  <2>2. CASE newer[t] = Outputs[t]
    <3>1. CASE g \notin Inputs[t]
      BY <2>1, <2>2, <3>1, StillFresh
    <3>2. CASE g \in Inputs[t]
      <4>1. Heeded(s, g)
        BY <1>2, <3>2, SharedFacts
      <4> QED
        BY <2>1, <4>1, HeededNow DEF Due
    <3> QED
      BY <3>1, <3>2
  <2>3. CASE Due(s) /\ g \notin Own(s)
    BY <2>1, <2>3, DueKept
  <2>4. CASE g \in Own(s)
    <3>1. w = s
      BY <2>1, <2>4, OneMaker
    <3>2. run \in Requests /\ Plan \in Plans /\ Ahead(t, s, Plan)
      BY <1>2, <2>1, RunningPlace, SharedFacts
    <3>3. After(t) /\ t # s
      BY <1>2, <2>1, <3>1, <3>2, AheadIsOver, SharedFacts DEF Running
    <3>4. newer[t] = Outputs[t]
      BY <1>2, <2>1, <3>3, SharedFacts DEF Renewed, Running
    <3>5. g \notin Inputs[t]
      BY <1>2, <2>1, <3>1, <3>3, WritesAhead, SharedFacts DEF After
    <3> QED
      BY <2>1, <3>4, <3>5, StillFresh
  <2> QED
    BY <1>2, <2>2, <2>3, <2>4 DEF SharedHolds
<1>3. ASSUME NEW g \in Sources, Touch(g), NEW s \in Makers, NEW t \in Steps, Shared(s, t)
      PROVE  newer'[t] = Outputs[t] \/ Due(s)'
  <2>1. Dated(g) /\ g \in Files /\ s \in Steps /\ g \notin Own(s) /\ g \notin Inputs[t]
    BY <1>3, TouchFacts, MakersFacts, SharedFacts
  <2> QED
    BY <1>3, <2>1, DueKept, StillFresh DEF SharedHolds
<1> QED
  BY <1>1, <1>2, <1>3, Kinds, DryFacts DEF SharedHolds

LEMMA DueStep ==
  ASSUME TypeOK, Asked, Placed, Passed, SharedHolds, DueHolds, [Next]_vars
  PROVE  DueHolds'
<1> DEFINE Cause(w, s) == (\E f \in Written(w) : Heeded(s, f)) \/ (step[w] = "done" /\ Rewrites(w, s))
           Coming(t, s) == Shared(s, t) \/ \A plan \in Plans : Preceded(s, t, plan, Resumable)
           P(s) == /\ \A w \in Steps : Cause(w, s) => Due(s)
                   /\ \A t \in Steps : step[t] = "running" /\ Coming(t, s) => Due(s)
<1>0. phase = "running" => \A s \in Makers : step[s] = "todo" => P(s)
  BY DEF DueHolds
<1>a. phase' = "running" /\ (\A s \in Makers : step'[s] = "todo" => P(s)') => DueHolds'
  BY DEF DueHolds
<1>b. phase' # "running" => DueHolds'
  BY DEF DueHolds
<1>c. newer' = newer => \A s \in Makers : Due(s)' <=> Due(s)
  BY DEF Due, Awaited
<1>1. CASE UNCHANGED vars
  BY <1>0, <1>1, <1>a, <1>b, <1>c DEF vars, disk, Written
<1>2. ASSUME NEW r \in Requests, Begin(r) PROVE DueHolds'
  <2>1. \A w \in Steps : step'[w] = "todo" /\ Written(w)' = {}
    BY <1>2 DEF Begin, Written
  <2> QED
    BY <2>1, <1>a, <1>b
<1>3. CASE Control
  <2>1. phase = "running" /\ UNCHANGED <<step, wrote, newer>>
    BY <1>3, ControlFacts DEF disk
  <2> QED
    BY <1>0, <2>1, <1>a, <1>b, <1>c DEF Written
<1>4. CASE Crash
  BY <1>4, <1>b DEF Crash
<1>5. ASSUME NEW t \in Steps, SkipStep(t) \/ FailStep(t) \/ WriteNothing(t) PROVE DueHolds'
  <2>1. phase = "running" /\ newer' = newer /\ wrote' = wrote /\ step'[t] # "running" /\ step'[t] # "todo"
    BY <1>5 DEF SkipStep, FailStep, WriteNothing, Running, Group, disk, TypeOK
  <2>2. step'[t] = "done" => \A s \in Makers : ~Rewrites(t, s)
    BY <1>5, NothingFacts DEF SkipStep, FailStep, WriteNothing, TypeOK, Rewrites
  <2>3. \A w \in Steps \ {t} : step'[w] = step[w]
    BY <1>5 DEF SkipStep, FailStep, WriteNothing, TypeOK
  <2>4. \A w \in Steps : Written(w)' = Written(w)
    BY <2>1 DEF Written
  <2>5. ASSUME NEW s \in Makers, step'[s] = "todo" PROVE P(s)'
    BY <1>0, <1>c, <2>1, <2>2, <2>3, <2>4, <2>5, MakersFacts
  <2> QED
    BY <2>5, <1>a, <1>b
<1>6. ASSUME NEW t \in Steps, StartStep(t) PROVE DueHolds'
  <2>1. /\ phase = "running" /\ t \in Group /\ newer' = newer /\ wrote' = wrote /\ step'[t] = "running"
        /\ \A w \in Steps \ {t} : step'[w] = step[w]
    BY <1>6 DEF StartStep, Group, TypeOK
  <2>2. \A w \in Steps : Written(w)' = Written(w)
    BY <2>1 DEF Written
  <2>3. run \in Requests /\ Plan \in Plans /\ t \in Plan[stage] /\ stage \in 1 .. Len(Plan)
    BY <2>1, Planned1 DEF Asked, Group
  <2>4. ASSUME NEW s \in Makers, step[s] = "todo",
               NEW fresh \in {{}, Resumable}, Preceded(s, t, Plan, fresh), fresh = {} => ~run.resume
        PROVE  Due(s)
    <3>1. PICK w \in Steps \ (Optional \cup fresh) : Rewrites(w, s) /\ Ahead(w, t, Plan)
      BY <2>3, <2>4 DEF Preceded
    <3>2. After(w)
      BY <2>1, <2>3, <3>1, AheadIsOver
    <3>3. step[w] = "done"
      BY <2>1, <2>4, <3>1, <3>2 DEF After, Placed
    <3> QED
      BY <1>0, <2>1, <2>4, <3>1, <3>3
  <2>5. ASSUME NEW s \in Makers, step[s] = "todo", Coming(t, s) PROVE Due(s)
    <3>1. CASE \A plan \in Plans : Preceded(s, t, plan, Resumable)
      <4>1. Resumable # {}
        BY MakersFacts
      <4> QED
        BY <2>3, <2>4, <2>5, <3>1, <4>1
    <3>2. CASE Shared(s, t) /\ run.resume
      <4>1. newer[t] # Outputs[t]
        BY <1>6, <3>2, SharedFacts, ResumableFacts DEF StartStep, Skips, OutputExists, IsFresh
      <4> QED
        BY <3>2, <4>1 DEF SharedHolds
    <3>3. CASE Shared(s, t) /\ ~run.resume
      <4>1. Preceded(s, t, Plan, {})
        BY <2>3, <3>3 DEF Shared, Plan
      <4> QED
        BY <2>4, <2>5, <3>3, <4>1
    <3> QED
      BY <2>5, <3>1, <3>2, <3>3
  <2>6. ASSUME NEW s \in Makers, step'[s] = "todo" PROVE P(s)'
    <3>1. s # t /\ step[s] = "todo" /\ (Due(s)' <=> Due(s))
      BY <1>c, <2>1, <2>6, MakersFacts
    <3>2. ASSUME NEW w \in Steps, Cause(w, s)' PROVE Due(s)'
      BY <1>0, <2>1, <2>2, <3>1, <3>2
    <3>3. ASSUME NEW w \in Steps, step'[w] = "running", Coming(w, s) PROVE Due(s)'
      BY <1>0, <2>1, <2>5, <3>1, <3>3
    <3> QED
      BY <3>2, <3>3
  <2> QED
    BY <2>1, <2>6, <1>6, <1>a, <1>b
<1>7. ASSUME NEW w \in Steps, NEW g \in Files, Write(w, g) PROVE DueHolds'
  <2>1. /\ phase = "running" /\ phase' = phase /\ step[w] = "running" /\ g \in WritesOf(w) /\ Dated(g)
        /\ \A u \in Steps \ {w} : step'[u] = step[u] /\ Written(u)' = Written(u)
    BY <1>7, WriteFacts DEF Write, Running
  <2>2. ASSUME NEW s \in Makers, step'[s] = "todo" PROVE P(s)'
    <3>1. s # w /\ step[s] = "todo" /\ s \in Steps
      BY <1>7, <2>1, <2>2, MakersFacts DEF Write
    <3>2. Due(s) => Due(s)'
      BY <2>1, <3>1, OneMaker, DueKept
    <3>3. Heeded(s, g) => Due(s)'
      BY <2>1, <3>1, HeededNow DEF Due
    <3>4. ASSUME NEW u \in Steps, u # w, Cause(u, s)' PROVE Due(s)'
      BY <1>0, <2>1, <3>1, <3>2, <3>4
    <3>5. ASSUME Cause(w, s)' PROVE Due(s)'
      <4>1. CASE step'[w] = "running"
        <5>1. Written(w)' = Written(w) \cup {g}
          BY <1>7, <4>1, WriteFacts
        <5> QED
          BY <1>0, <2>1, <3>1, <3>2, <3>3, <3>5, <4>1, <5>1
      <4>2. CASE step'[w] # "running"
        <5>1. WritesOf(w) = Written(w) \cup {g} /\ Written(w)' = Written(w)
          BY <1>7, <4>2, WriteFacts
        <5>2. \E f \in WritesOf(w) : Heeded(s, f)
          BY <3>5, <5>1 DEF Rewrites
        <5> QED
          BY <1>0, <2>1, <3>1, <3>2, <3>3, <5>1, <5>2
      <4> QED
        BY <4>1, <4>2
    <3>6. ASSUME NEW t \in Steps, step'[t] = "running", Coming(t, s) PROVE Due(s)'
      <4>1. step[t] = "running"
        BY <2>1, <3>6
      <4> QED
        BY <1>0, <2>1, <3>1, <3>2, <3>6, <4>1
    <3> QED
      BY <3>4, <3>5, <3>6
  <2> QED
    BY <2>1, <2>2, <1>a
<1>8. ASSUME NEW g \in Sources, Touch(g) PROVE DueHolds'
  <2>1. /\ Dated(g) /\ g \in Files /\ phase' = phase /\ step' = step
        /\ \A u \in Steps : Written(u)' = Written(u)
    BY <1>8, TouchFacts
  <2>2. \A s \in Makers : Due(s) => Due(s)'
    BY <1>8, <2>1, TouchFacts, MakersFacts, DueKept
  <2>3. ASSUME phase = "running", NEW s \in Makers, step'[s] = "todo" PROVE P(s)'
    BY <1>0, <2>1, <2>2, <2>3
  <2> QED
    BY <2>1, <2>3, <1>a, <1>b
<1> QED
  BY <1>1, <1>2, <1>3, <1>4, <1>5, <1>6, <1>7, <1>8, Kinds

-------------------------------------------------------------------------------
\* Why a file may be late after t has written g.
LEMMA LateWritten ==
  ASSUME TypeOK, NEW t \in Steps, NEW g \in Files, Write(t, g),
         NEW s \in Makers, NEW f \in Made[s], NEW i \in Watched(s), Late(f, i)'
  PROVE  \/ Late(f, i) /\ (t = s => f # g)
         \/ i = g /\ f # g
         \/ t # s /\ f = g /\ f \notin exists /\ f \in Reads[t]
<1>1. /\ <<f, i>> \in lag' /\ <<f, i>> \notin raced' /\ s \in Steps
      /\ f \notin Reads[s] /\ i \in Reads[s] /\ f # i
  BY MakersFacts DEF Late, Made, InPlace, Watched
<1>2. WriteFile(t, g)
  BY DEF Write
<1>3. CASE <<f, i>> \in Behind(g)
  BY <1>1, <1>3 DEF Behind
<1>4. CASE <<f, i>> \in {g} \X Unseen(t, g)
  <2>1. f = g /\ i \in Unseen(t, g)
    BY <1>4
  <2>2. InPlace(t, g)
    <3>1. SUFFICES ASSUME ~InPlace(t, g) PROVE <<f, i>> \in raced'
      BY <1>1
    <3>2. i \in missed[t]
      BY <2>1, <3>1 DEF Unseen
    <3> QED
      BY <1>2, <2>1, <3>1, <3>2 DEF WriteFile
  <2> QED
    BY <1>1, <2>1, <2>2 DEF Unseen, InPlace
<1>5. CASE <<f, i>> \notin Behind(g) /\ <<f, i>> \notin {g} \X Unseen(t, g)
  <2>1. CASE InPlace(t, g)
    <3>1. <<f, i>> \in lag /\ <<f, i>> \notin raced
      BY <1>1, <1>2, <1>5, <2>1 DEF WriteFile
    <3> QED
      BY <1>1, <2>1, <3>1 DEF Late, InPlace
  <2>2. CASE ~InPlace(t, g)
    <3>1. <<f, i>> \in lag \ OfFile(lag, g)
      BY <1>1, <1>2, <1>5, <2>2 DEF WriteFile
    <3>2. <<f, i>> \notin raced \ OfFile(raced, g)
      BY <1>1, <1>2, <2>2 DEF WriteFile
    <3>3. f # g
      BY <3>1 DEF OfFile
    <3> QED
      BY <3>1, <3>2, <3>3 DEF Late, OfFile
  <2> QED
    BY <2>1, <2>2
<1> QED
  BY <1>3, <1>4, <1>5

LEMMA LateTouched ==
  ASSUME TypeOK, NEW g \in Sources, Touch(g), NEW f, NEW i, Late(f, i)'
  PROVE  Late(f, i) \/ i = g
  BY DEF Late, Touch, Behind

\* What a script writes does not make what it wrote before late.
LEMMA OwnLate ==
  ASSUME TypeOK, NEW s \in Makers, NEW g \in Files, Write(s, g),
         NEW f \in Made[s], NEW i \in Watched(s), Late(f, i)', f \in Written(s) \cup {g}
  PROVE  Late(f, i) /\ f # g /\ f \in Written(s)
<1>1. s \in Steps /\ i \in Reads[s]
  BY MakersFacts DEF Watched
<1>2. (Late(f, i) /\ f # g) \/ (i = g /\ f # g)
  BY <1>1, LateWritten
<1>3. ~(i = g /\ f # g)
  <2>1. SUFFICES ASSUME i = g, f \in Written(s) PROVE FALSE
    OBVIOUS
  <2>2. PICK j \in 1 .. Len(Writes[s]) : j < wrote[s] + 1 /\ f = Writes[s][j]
    BY <1>1, <2>1, WriteFacts
  <2>3. wrote[s] + 1 \in 1 .. Len(Writes[s]) /\ Writes[s][wrote[s] + 1] \in Reads[s]
    BY <1>1, <2>1 DEF Write
  <2> QED
    BY <1>1, <2>2, <2>3, OwnOrder
<1> QED
  BY <1>2, <1>3

\* Nor does it write again what comes before a file in writing.
LEMMA LeadsWritten ==
  ASSUME TypeOK, NEW s \in Makers, NEW g \in Files, Write(s, g), NEW f \in Made[s], f \in Written(s), f # g
  PROVE  g \notin Leads(s, f)
<1>1. s \in Steps
  BY MakersFacts
<1>2. PICK k \in 1 .. Len(Writes[s]) : k < wrote[s] + 1 /\ f = Writes[s][k]
  BY <1>1, WriteFacts
<1>3. wrote[s] + 1 \in 1 .. Len(Writes[s]) /\ g = Writes[s][wrote[s] + 1] /\ wrote[s] \in Nat
  BY <1>1, WriteFacts DEF Write
<1>4. ~(wrote[s] + 1 < k)
  BY <1>2, <1>3
<1> QED
  BY <1>2, <1>3, <1>4 DEF Leads

\* What another script changes under s has been noticed before.
LEMMA ForeseenHolds ==
  ASSUME TypeOK, Asked, Placed, DueHolds, NEW t \in Steps, NEW g \in Files, Write(t, g),
         NEW s \in Makers, s # t, g \in Watched(s)
  PROVE  step[s] = "todo" /\ Due(s)'
<1>1. /\ phase = "running" /\ Running(t) /\ step[t] = "running" /\ Dated(g)
      /\ g \in WritesOf(t) /\ s \in Steps /\ g \notin Own(s)
  BY WriteFacts, MakersFacts, OneMaker DEF Write, Running
<1>2. step[s] = "todo"
  BY <1>1, WritesAhead
<1>3. CASE Heeded(s, g)
  BY <1>1, <1>2, <1>3, HeededNow DEF Due
<1>4. CASE Due(s)
  BY <1>1, <1>2, <1>4, DueKept
<1>5. CASE Announced(s, t, g)
  <2>1. wrote[t] + 1 \in 1 .. Len(Writes[t]) /\ Writes[t][wrote[t] + 1] = g /\ wrote[t] \in Nat
    BY WriteFacts DEF Write
  <2>2. PICK j \in 1 .. wrote[t] + 1 - 1 : Heeded(s, Writes[t][j])
    BY <1>5, <2>1 DEF Announced
  <2>3. j \in 1 .. wrote[t]
    BY <2>1, <2>2
  <2>4. \E f \in Written(t) : Heeded(s, f)
    BY <2>2, <2>3 DEF Written
  <2> QED
    BY <1>1, <1>2, <1>4, <2>4 DEF DueHolds
<1>6. CASE Shared(s, t) \/ \A plan \in Plans : Preceded(s, t, plan, Resumable)
  BY <1>1, <1>2, <1>4, <1>6 DEF DueHolds
<1> QED
  BY <1>1, <1>2, <1>3, <1>5, <1>6, WritersForeseen DEF Foreseen

LEMMA NoticedStep ==
  ASSUME TypeOK, Asked, Placed, Passed, There, DueHolds, Noticed, [Next]_vars
  PROVE  Noticed'
<1> DEFINE Open(s, f) == Leads(s, f) # {} /\ (Leads(s, f) \cap newer[s] = {} \/ Awaited(s))
           Shut(s, f) == f \in cut \/ Marks(s, f) \cap newer[s] = {} \/ Awaited(s)
           P(s, f) == /\ Writing(s) /\ f \in Written(s) => Open(s, f)
                      /\ ~Writing(s) => Shut(s, f)
<1>0. \A s \in Makers : \A f \in Made[s], i \in Watched(s) : Late(f, i) => P(s, f)
  BY DEF Noticed
<1>a. (\A s \in Makers : \A f \in Made[s], i \in Watched(s) : Late(f, i)' => P(s, f)') => Noticed'
  BY DEF Noticed
\* When nothing is written, only what is cut short and who is writing change.
<1>b. ASSUME UNCHANGED <<newer, exists, lag, raced, synthetic>>, cut \subseteq cut',
             \A s \in Makers : ~Writing(s)' => ~Writing(s) \/ Made[s] \subseteq cut',
             \A s \in Makers : Writing(s)' => Writing(s) /\ Written(s)' = Written(s)
      PROVE  Noticed'
  <2>1. ASSUME NEW s \in Makers, NEW f \in Made[s], NEW i \in Watched(s), Late(f, i)' PROVE P(s, f)'
    <3>1. Late(f, i) /\ (Awaited(s)' <=> Awaited(s)) /\ newer' = newer
      BY <1>b, <2>1 DEF Late, Awaited
    <3>2. P(s, f)
      BY <1>0, <3>1
    <3> QED
      BY <1>b, <3>1, <3>2
  <2> QED
    BY <2>1, <1>a
<1>1. CASE UNCHANGED vars
  BY <1>1, <1>b DEF vars, disk, Writing, Running, Written
<1>2. ASSUME NEW r \in Requests, Begin(r) PROVE Noticed'
  <2>1. \A s \in Makers : ~Writing(s) /\ ~Writing(s)'
    BY <1>2, MakersFacts DEF Begin, Writing, Running
  <2> QED
    BY <1>2, <2>1, <1>b, DryFacts DEF Begin
<1>3. CASE Control
  <2>1. /\ phase = "running" /\ UNCHANGED <<step, wrote, cut>>
        /\ phase' = "running" \/ \A s \in Makers : step[s] # "running"
    BY <1>3, ControlFacts, MakersFacts
  <2>2. \A s \in Makers : (Writing(s)' <=> Writing(s)) /\ Written(s)' = Written(s)
    BY <2>1 DEF Writing, Running, Written
  <2> QED
    BY <1>3, <2>1, <2>2, <1>b, DryFacts
<1>4. CASE Crash
  <2>1. \A s \in Makers : ~Writing(s)'
    BY <1>4 DEF Crash, Writing, Running
  <2>2. cut \subseteq cut' /\ \A s \in Makers : Writing(s) => Made[s] \subseteq cut'
    BY <1>4, MakersFacts DEF Crash, HalfDone, Writing, Running
  <2> QED
    BY <1>4, <2>1, <2>2, <1>b, DryFacts
<1>5. ASSUME NEW t \in Steps, SkipStep(t) \/ StartStep(t) \/ WriteNothing(t) PROVE Noticed'
  <2>1. phase' = phase /\ cut' = cut /\ wrote' = wrote /\ \A s \in Steps \ {t} : step'[s] = step[s]
    BY <1>5 DEF SkipStep, StartStep, WriteNothing, TypeOK
  <2>2. t \in Makers => ~Writing(t) /\ ~Writing(t)'
    <3>1. CASE SkipStep(t) \/ StartStep(t)
      <4>1. step[t] = "todo" /\ wrote[t] = 0 /\ wrote' = wrote
        BY <3>1 DEF SkipStep, StartStep, Group, Placed
      <4> QED
        BY <4>1 DEF Writing, Running
    <3>2. CASE WriteNothing(t)
      BY <3>2, NothingFacts DEF WriteNothing
    <3> QED
      BY <1>5, <3>1, <3>2
  <2>3. \A s \in Makers : (Writing(s)' <=> Writing(s)) /\ Written(s)' = Written(s)
    BY <2>1, <2>2, MakersFacts DEF Writing, Running, Written
  <2> QED
    BY <1>5, <2>1, <2>3, <1>b, DryFacts
<1>6. ASSUME NEW t \in Steps, FailStep(t) PROVE Noticed'
  <2>1. /\ phase' = phase /\ wrote' = wrote /\ step'[t] = "failed" /\ cut \subseteq cut'
        /\ \A s \in Steps \ {t} : step'[s] = step[s]
    BY <1>6 DEF FailStep, TypeOK
  <2>2. Writing(t) => Made[t] \subseteq cut'
    BY <1>6 DEF FailStep, HalfDone, Writing, Running
  <2>3. \A s \in Makers : s # t => (Writing(s)' <=> Writing(s)) /\ Written(s)' = Written(s)
    BY <2>1, MakersFacts DEF Writing, Running, Written
  <2>4. ~Writing(t)'
    BY <2>1 DEF Writing, Running
  <2> QED
    BY <1>6, <2>1, <2>2, <2>3, <2>4, <1>b, DryFacts
<1>7. ASSUME NEW t \in Steps, NEW g \in Files, Write(t, g),
             NEW s \in Makers, NEW f \in Made[s], NEW i \in Watched(s), Late(f, i)'
      PROVE  P(s, f)'
  <2>1. /\ phase = "running" /\ phase' = phase /\ Running(t) /\ step[t] = "running" /\ Dated(g)
        /\ g \in WritesOf(t) /\ s \in Steps /\ wrote[t] \in Nat
    BY <1>7, WriteFacts, MakersFacts DEF Write, Running
  <2>2. CASE s = t
    <3>1. ASSUME f \in Written(s) \cup {g}
          PROVE  Open(s, f)'
      <4>1. Late(f, i) /\ f # g /\ f \in Written(s)
        BY <1>7, <2>2, <3>1, OwnLate
      <4>2. wrote[s] > 0
        <5>1. PICK k \in 1 .. wrote[s] : f = Writes[s][k]
          BY <4>1 DEF Written
        <5> QED
          BY <2>1, <2>2, <5>1
      <4>3. Open(s, f)
        BY <1>0, <2>1, <2>2, <4>1, <4>2 DEF Writing
      <4>4. g \notin Leads(s, f)
        BY <1>7, <2>2, <4>1, LeadsWritten
      <4> QED
        BY <2>1, <4>3, <4>4, MarksKept
    <3>2. CASE step'[t] = "running"
      <4>1. wrote'[t] = wrote[t] + 1 /\ Written(t)' = Written(t) \cup {g}
        BY <1>7, <3>2, WriteFacts DEF Write
      <4>2. Writing(t)'
        BY <2>1, <3>2, <4>1 DEF Writing, Running
      <4> QED
        BY <2>2, <3>1, <4>1, <4>2
    <3>3. CASE step'[t] # "running"
      <4>1. f \in Written(s) \cup {g}
        BY <1>7, <2>1, <2>2, <3>3, WriteFacts, TableType
      <4>2. ~Writing(t)'
        BY <3>3 DEF Writing, Running
      <4>3. Open(s, f)' => Shut(s, f)'
        BY DEF Marks
      <4> QED
        BY <2>2, <3>1, <4>1, <4>2, <4>3
    <3> QED
      BY <3>2, <3>3
  <2>3. CASE s # t
    <3>1. /\ g \notin Own(s) /\ Made[s] \cap Made[t] = {} /\ step'[s] = step[s] /\ wrote'[s] = wrote[s]
          /\ Written(s)' = Written(s)
      BY <1>7, <2>1, <2>3, OneMaker, WriteFacts DEF Write
    <3>2. Writing(s)' <=> Writing(s)
      BY <2>1, <3>1 DEF Writing, Running
    <3>3. (f \in cut => f \in cut') /\ Leads(s, f) \subseteq Own(s) /\ Marks(s, f) \subseteq Own(s)
      BY <1>7, <3>1, MakersFacts, MarksFacts DEF Write
    <3>4. CASE Late(f, i)
      <4>1. P(s, f)
        BY <1>0, <3>4
      <4>2. Open(s, f) => Open(s, f)'
        BY <2>1, <3>1, <3>3, MarksKept
      <4>3. Shut(s, f) => Shut(s, f)'
        BY <2>1, <3>1, <3>3, MarksKept
      <4> QED
        BY <3>1, <3>2, <4>1, <4>2, <4>3
    <3>5. CASE i = g
      <4>1. step[s] = "todo" /\ Due(s)'
        BY <1>7, <2>3, <3>5, ForeseenHolds
      <4>2. ~Writing(s)
        BY <4>1 DEF Writing, Running
      <4> QED
        BY <3>2, <3>3, <4>1, <4>2 DEF Due
    <3>6. CASE f = g /\ f \notin exists /\ f \in Reads[t]
      <4>1. Plan \in Plans /\ t \in Group /\ s \notin Optional
        BY <1>7, <2>1, RunningPlace, WriteFacts, MakersFacts
      <4>2. Ahead(s, t, Plan)
        BY <2>1, <3>6, <4>1, MakerAhead
      <4>3. After(s)
        BY <2>1, <4>1, <4>2, AheadIsOver
      <4>4. f \in cut /\ ~Writing(s)
        BY <2>1, <3>6, <4>3 DEF There, Writing, Running, After
      <4> QED
        BY <3>2, <3>3, <4>4
    <3> QED
      BY <1>7, <3>4, <3>5, <3>6, LateWritten
  <2> QED
    BY <2>2, <2>3
<1>8. ASSUME NEW g \in Sources, Touch(g), NEW s \in Makers, NEW f \in Made[s], NEW i \in Watched(s), Late(f, i)'
      PROVE  P(s, f)'
  <2>1. /\ Dated(g) /\ g \in Files /\ s \in Steps /\ g \notin Own(s) /\ cut' = cut
        /\ (Writing(s)' <=> Writing(s)) /\ Written(s)' = Written(s)
        /\ Leads(s, f) \subseteq Own(s) /\ Marks(s, f) \subseteq Own(s)
    BY <1>8, TouchFacts, MakersFacts, MarksFacts DEF Writing, Running
  <2>2. CASE Late(f, i)
    <3>1. P(s, f)
      BY <1>0, <2>2
    <3>2. Open(s, f) => Open(s, f)'
      BY <2>1, MarksKept
    <3>3. Shut(s, f) => Shut(s, f)'
      BY <2>1, MarksKept
    <3> QED
      BY <2>1, <3>1, <3>2, <3>3
  <2>3. CASE i = g
    <3>1. Leads(s, f) # {}
      BY <1>8, <2>3, LeadsOrQuiet
    <3>2. Awaited(s)' \/ newer'[s] = {}
      BY <1>8, <2>1, <2>3, SourcesHeeded, HeededNow
    <3> QED
      BY <3>1, <3>2
  <2> QED
    BY <1>8, <2>2, <2>3, LateTouched
<1>9. (\E t \in Steps : \E g \in Files : Write(t, g)) => Noticed'
  BY <1>7, <1>a
<1>10. (\E g \in Sources : Touch(g)) => Noticed'
  BY <1>8, <1>a
<1> QED
  BY <1>1, <1>2, <1>3, <1>4, <1>5, <1>6, <1>9, <1>10, Kinds

LEMMA CurrentStep ==
  ASSUME TypeOK, Asked, Placed, Passed, Renewed, There, Noticed, Current, [Next]_vars
  PROVE  Current'
<1> DEFINE P(s, f) == /\ After(s) => f \in cut
                      /\ step[s] = "running" => f \notin Written(s)
<1>0. phase = "running" /\ calm =>
        \A s \in Makers : \A f \in Made[s], i \in Watched(s) : Late(f, i) => P(s, f)
  BY DEF Current
<1>a. phase' = "running" /\ calm' /\ (\A s \in Makers : \A f \in Made[s], i \in Watched(s) : Late(f, i)' => P(s, f)')
        => Current'
  BY DEF Current
<1>b. ~(phase' = "running" /\ calm') => Current'
  BY DEF Current
\* Nothing is written, and t only fails or had nothing to write.
<1>c. ASSUME phase = "running", calm' = calm, UNCHANGED <<newer, exists, lag, raced, synthetic>>, cut \subseteq cut',
             \A s \in Makers : Written(s)' = Written(s) /\ (step'[s] = step[s] \/ step'[s] = "failed")
      PROVE  Current'
  BY <1>0, <1>a, <1>b, <1>c DEF Late, After
<1>1. CASE UNCHANGED vars
  BY <1>1, <1>0, <1>a, <1>b DEF vars, disk, Late, After, Written
<1>2. ASSUME NEW r \in Requests, Begin(r) PROVE Current'
  <2>1. \A s \in Makers : step'[s] = "todo"
    BY <1>2, MakersFacts DEF Begin, After
  <2> QED
    BY <2>1, <1>a, <1>b DEF After
<1>3. CASE Control
  <2>1. phase = "running" /\ calm' = calm /\ cut' = cut /\ step' = step /\ wrote' = wrote
    BY <1>3, ControlFacts
  <2> QED
    BY <1>3, <2>1, <1>c, DryFacts DEF Written
<1>4. CASE Crash
  BY <1>4, <1>b DEF Crash
<1>5. ASSUME NEW t \in Steps, SkipStep(t) PROVE Current'
  <2>1. /\ phase = "running" /\ calm' = calm /\ cut' = cut /\ wrote' = wrote /\ t \in Group
        /\ step[t] = "todo" /\ step'[t] = "skipped" /\ \A s \in Steps \ {t} : step'[s] = step[s]
    BY <1>5 DEF SkipStep, Group, TypeOK
  <2>2. newer[t] = Outputs[t]
    BY <1>5 DEF SkipStep, Skips, OutputExists, IsFresh
  <2>3. Plan \in Plans
    BY <2>1, Planned1 DEF Asked
  <2>4. ASSUME calm, t \in Makers, NEW f \in Made[t], NEW i \in Watched(t), Late(f, i) PROVE f \in cut
    <3>1. ~Writing(t)
      BY <2>1 DEF Writing, Running
    <3>2. Marks(t, f) \cap newer[t] # {}
      BY <2>2, <2>4, MarksFacts, MakersFacts
    <3>3. ~Awaited(t)
      <4>1. SUFFICES ASSUME NEW x \in Near(t) \cup Far(t) PROVE x[2] \in newer[x[1]]
        BY DEF Awaited
      <4>2. x[1] \in Resumable /\ x[1] \in Steps \ Optional /\ Ahead(x[1], t, Plan) /\ x[2] \in Outputs[x[1]]
        BY <2>3, FeedersFacts DEF Feeders
      <4>3. After(x[1])
        BY <2>1, <4>2, AheadIsOver
      <4> QED
        BY <2>1, <2>4, <4>2, <4>3 DEF Renewed
    <3> QED
      BY <2>4, <3>1, <3>2, <3>3 DEF Noticed
  <2>5. UNCHANGED <<lag, raced>>
    BY <1>5, DryFacts
  <2>6. ASSUME calm', NEW s \in Makers, NEW f \in Made[s], NEW i \in Watched(s), Late(f, i)' PROVE P(s, f)'
    <3>1. Late(f, i) /\ Written(s)' = Written(s) /\ s \in Steps
      BY <2>1, <2>5, <2>6, MakersFacts DEF Late, Written
    <3> QED
      BY <1>0, <2>1, <2>4, <2>6, <3>1 DEF After
  <2> QED
    BY <1>a, <1>b, <2>6
<1>6. ASSUME NEW t \in Steps, StartStep(t) PROVE Current'
  <2>1. /\ phase = "running" /\ calm' = calm /\ cut' = cut /\ wrote' = wrote /\ wrote[t] = 0
        /\ step'[t] = "running" /\ \A s \in Steps \ {t} : step'[s] = step[s]
    BY <1>6 DEF StartStep, Group, TypeOK, Placed
  <2>2. UNCHANGED <<lag, raced>> /\ Written(t)' = {}
    BY <1>6, <2>1, DryFacts DEF Written
  <2>3. ASSUME calm', NEW s \in Makers, NEW f \in Made[s], NEW i \in Watched(s), Late(f, i)' PROVE P(s, f)'
    <3>1. Late(f, i) /\ s \in Steps
      BY <2>2, <2>3, MakersFacts DEF Late
    <3>2. s # t => Written(s)' = Written(s)
      BY <2>1 DEF Written
    <3> QED
      BY <1>0, <2>1, <2>2, <2>3, <3>1, <3>2 DEF After
  <2> QED
    BY <1>a, <1>b, <2>3
<1>7. ASSUME NEW t \in Steps, FailStep(t) PROVE Current'
  <2>1. /\ phase = "running" /\ calm' = calm /\ cut \subseteq cut' /\ wrote' = wrote
        /\ step'[t] = "failed" /\ \A s \in Steps \ {t} : step'[s] = step[s]
    BY <1>7 DEF FailStep, Running, TypeOK
  <2> QED
    BY <1>7, <2>1, <1>c, DryFacts, MakersFacts DEF Written
<1>8. ASSUME NEW t \in Steps, WriteNothing(t) PROVE Current'
  <2>1. /\ phase = "running" /\ calm' = calm /\ cut' = cut /\ wrote' = wrote
        /\ t \notin Makers /\ \A s \in Steps \ {t} : step'[s] = step[s]
    BY <1>8, NothingFacts DEF WriteNothing, Running, TypeOK
  <2> QED
    BY <1>8, <2>1, <1>c, DryFacts, MakersFacts DEF Written
<1>9. ASSUME NEW t \in Steps, NEW g \in Files, Write(t, g), calm',
             NEW s \in Makers, NEW f \in Made[s], NEW i \in Watched(s), Late(f, i)'
      PROVE  P(s, f)'
  <2>1. /\ phase = "running" /\ calm /\ Running(t) /\ step[t] = "running" /\ g \in WritesOf(t) /\ s \in Steps
    BY <1>9, WriteFacts, MakersFacts DEF Write, Running
  <2>2. CASE s = t
    <3>1. f \notin Written(s) \cup {g}
      BY <1>0, <1>9, <2>1, <2>2, OwnLate
    <3>2. CASE step'[t] = "running"
      BY <1>9, <2>2, <3>1, <3>2, WriteFacts DEF After
    <3>3. CASE step'[t] # "running"
      BY <1>9, <2>1, <2>2, <3>1, <3>3, WriteFacts, TableType
    <3> QED
      BY <3>2, <3>3
  <2>3. CASE s # t
    <3>1. /\ Made[s] \cap Made[t] = {} /\ step'[s] = step[s] /\ Written(s)' = Written(s)
          /\ (f \in cut => f \in cut')
      BY <1>9, <2>1, <2>3, OneMaker, WriteFacts DEF Write
    <3>2. CASE Late(f, i)
      BY <1>0, <2>1, <3>1, <3>2 DEF After
    <3>3. CASE i = g
      <4>1. step[s] = "todo"
        BY <1>9, <2>1, <2>3, <3>3, WritesAhead
      <4> QED
        BY <3>1, <4>1 DEF After
    <3>4. CASE f = g /\ f \notin exists /\ f \in Reads[t]
      <4>1. After(s) => f \in cut
        BY <2>1, <3>4 DEF There
      <4>2. step[s] = "running" => f \notin Written(s)
        BY <2>1, <3>4 DEF There, Running
      <4> QED
        BY <3>1, <4>1, <4>2 DEF After
    <3> QED
      BY <1>9, <3>2, <3>3, <3>4, LateWritten
  <2> QED
    BY <2>2, <2>3
<1>10. (\E t \in Steps : \E g \in Files : Write(t, g)) => Current'
  BY <1>9, <1>a, <1>b
<1>11. (\E g \in Sources : Touch(g)) => Current'
  BY TouchFacts, <1>b
<1> QED
  BY <1>1, <1>2, <1>3, <1>4, <1>5, <1>6, <1>7, <1>8, <1>10, <1>11, Kinds

LEMMA MockFacts == Mock \in Makers /\ Mock \in Resumable /\ Mock \in Steps /\ Status \in Made[Mock]
<1>1. Mock \in Makers
  BY MockAssumption DEF Makers
<1> QED
  BY <1>1, MakersFacts, MockAssumption

\* A script other than the chain does not change whether the status file vouches.
LEMMA StatusKept ==
  ASSUME TypeOK, NEW t \in Steps \ {Mock}, NEW g \in Files, Write(t, g), NEW mock, Matches(mock)
  PROVE  Matches(mock)'
<1>1. Status \in synthetic' <=> Status \in synthetic
  BY OthersWrite, MockFacts DEF Write, Advice
<1>2. exists \subseteq exists'
  BY WriteFacts, DatedFacts
<1> QED
  BY <1>1, <1>2 DEF Matches

LEMMA MockMatchesStep ==
  ASSUME Inv, Inv', Placed, There, There', MockMatches, [Next]_vars
  PROVE  MockMatches'
<1> USE DEF Inv
<1>a. phase' # "running" \/ ~After(Mock)' => MockMatches'
  BY DEF MockMatches
<1>b. ASSUME phase = "running", run' = run, synthetic' = synthetic, exists \subseteq exists', After(Mock)' => After(Mock)
      PROVE  MockMatches'
  BY <1>b, MockFacts DEF MockMatches, Matches
<1>1. CASE UNCHANGED vars
  BY <1>1 DEF vars, disk, MockMatches, Matches, After
<1>2. ASSUME NEW r \in Requests, Begin(r) PROVE MockMatches'
  BY <1>2, <1>a, MockFacts DEF Begin, After
<1>3. CASE Control
  BY <1>3, <1>b, ControlFacts DEF disk, After
<1>4. CASE Crash
  BY <1>4, <1>a DEF Crash
<1>5. ASSUME NEW t \in Steps, SkipStep(t) PROVE MockMatches'
  <2>1. CASE t = Mock
    <3>1. Matches(run.mock) /\ run' = run /\ UNCHANGED disk
      BY <1>5, <2>1 DEF SkipStep, Skips, OutputExists
    <3> QED
      BY <3>1 DEF MockMatches, Matches, disk
  <2>2. CASE t # Mock
    BY <1>5, <2>2, <1>b DEF SkipStep, Group, disk, After, TypeOK
  <2> QED
    BY <2>1, <2>2
<1>6. ASSUME NEW t \in Steps, StartStep(t) \/ FailStep(t) \/ WriteNothing(t) PROVE MockMatches'
  <2>1. phase = "running" /\ run' = run /\ synthetic' = synthetic /\ exists' = exists
    BY <1>6 DEF StartStep, FailStep, WriteNothing, Running, Group, disk
  <2>2. t # Mock => step'[Mock] = step[Mock]
    BY <1>6, MockFacts DEF StartStep, FailStep, WriteNothing, TypeOK
  <2>3. t = Mock => ~After(t)'
    BY <1>6, MockFacts, NothingFacts DEF StartStep, FailStep, WriteNothing, After, TypeOK
  <2> QED
    BY <2>1, <2>2, <2>3, <1>a, <1>b DEF After
<1>7. ASSUME NEW t \in Steps, NEW g \in Files, Write(t, g) PROVE MockMatches'
  <2>1. CASE t # Mock
    <3>1. phase = "running" /\ step'[Mock] = step[Mock] /\ run' = run
      BY <1>7, <2>1, MockFacts DEF Write, Running
    <3>2. Matches(run.mock) => Matches(run.mock)'
      <4>1. PICK mock : mock = run.mock
        OBVIOUS
      <4>2. Matches(mock) => Matches(mock)'
        BY <1>7, <2>1, StatusKept
      <4> QED
        BY <3>1, <4>1, <4>2 DEF Matches
    <3> QED
      BY <3>1, <3>2, MockFacts DEF MockMatches, After
  <2>2. CASE t = Mock
    <3>1. CASE step'[t] = "running"
      BY <2>2, <3>1, <1>a DEF After
    <3>2. CASE step'[t] # "running"
      <4>1. /\ step'[Mock] = "done" /\ cut' = cut \ Made[Mock] /\ run' = run /\ phase = "running" /\ phase' = phase
            /\ WritesOf(Mock) = Written(Mock) \cup {g}
        BY <1>7, <2>2, <3>2, WriteFacts DEF Write, Running
      <4>2. AsAsked'
        BY <4>1 DEF Chosen
      <4>3. Status \in synthetic' <=> run'.mock
        BY <4>1, <4>2, MockFacts DEF AsAsked, Advice
      <4>4. Status \in exists'
        <5>1. Status \in Written(Mock) \cup {g}
          BY <4>1, MockFacts, TableType
        <5>2. Written(Mock) \cup {g} \subseteq exists'
          BY <1>7, <2>2, MockFacts, WriteFacts, DatedFacts DEF There, Write
        <5> QED
          BY <5>1, <5>2
      <4> QED
        BY <4>3, <4>4 DEF MockMatches, Matches
    <3> QED
      BY <3>1, <3>2
  <2> QED
    BY <2>1, <2>2
<1>8. ASSUME NEW g \in Sources, Touch(g) PROVE MockMatches'
  <2>1. run' = run /\ synthetic' = synthetic /\ exists \subseteq exists' /\ step' = step /\ phase' = phase
    BY <1>8 DEF Touch, Dated
  <2> QED
    BY <2>1, <1>a, <1>b DEF After
<1> QED
  BY <1>1, <1>2, <1>3, <1>4, <1>5, <1>6, <1>7, <1>8, Kinds

LEMMA VouchedStep ==
  ASSUME Inv, Placed, Renewed, Current, MockMatches, Vouched, [Next]_vars
  PROVE  Vouched'
<1> USE DEF Inv
<1>a. phase' # "ok" \/ ~calm' => Vouched'
  BY DEF Vouched
<1>1. CASE UNCHANGED vars
  BY <1>1 DEF vars, disk, Vouched, Late, Planned, Plan, Reusable, Matches
<1>2. CASE FinishRun
  <2>1. /\ phase = "running" /\ stage = Len(Plan) + 1 /\ UNCHANGED <<run, step, disk, cut, calm>>
    BY <1>2 DEF FinishRun
  <2>2. run \in Requests /\ Len(Plan) \in Nat /\ Planned \subseteq Steps
    BY <2>1, Planned1 DEF Asked
  <2>3. \A s \in Planned \ Optional : After(s)
    BY <2>1, <2>2 DEF Planned, Passed, After
  <2>4. Planned' = Planned /\ (Reusable => Reusable')
    BY <2>1 DEF Planned, Plan, Reusable, Matches, disk
  <2>5. ASSUME calm, NEW s \in Planned \cap Makers, NEW f \in Made[s], NEW i \in Watched(s), Late(f, i)
        PROVE  f \in cut
    BY <2>1, <2>3, <2>5, MakersFacts DEF Current
  <2>6. calm => Reusable
    <3>1. calm => \A s \in Planned \cap Resumable : newer[s] = Outputs[s]
      BY <2>1, <2>3, ResumableFacts DEF Renewed
    <3>2. Mock \in Planned => Matches(run.mock)
      BY <2>1, <2>3, MockFacts, MockAssumption DEF MockMatches
    <3> QED
      BY <3>1, <3>2 DEF Reusable
  <2>7. \A f, i : Late(f, i)' <=> Late(f, i)
    BY <2>1 DEF Late, disk
  <2> QED
    BY <2>1, <2>4, <2>5, <2>6, <2>7 DEF Vouched
<1>3. CASE \E r \in Requests : Begin(r)
  BY <1>3, <1>a DEF Begin
<1>4. CASE Preflight \/ PreflightFails \/ NextStage \/ RunFails \/ Crash
  BY <1>4, <1>a DEF Preflight, PreflightFails, NextStage, RunFails, Crash, Ended
<1>5. CASE \E t \in Steps : SkipStep(t) \/ StartStep(t) \/ FailStep(t) \/ WriteNothing(t)
  BY <1>5, <1>a DEF SkipStep, StartStep, FailStep, WriteNothing, Group, Running
<1>6. CASE \E t \in Steps, g \in Files : Write(t, g)
  BY <1>6, <1>a DEF Write, Running
<1>7. CASE \E g \in Sources : Touch(g)
  BY <1>7, <1>a, TouchFacts
<1> QED
  BY <1>1, <1>2, <1>3, <1>4, <1>5, <1>6, <1>7, Kinds DEF Control

\* A step of the plan that writes is no input of those that can be resumed.
LEMMA ReusableKept ==
  ASSUME Inv, Placed, Reusable, NEW t \in Steps \ Resumable, NEW g \in Files, Write(t, g)
  PROVE  Reusable'
<1> USE DEF Inv
<1>1. /\ run' = run /\ Plan \in Plans /\ Planned \subseteq Steps /\ Planned' = Planned
      /\ stage \in 1 .. Len(Plan) /\ t \in Plan[stage] /\ Dated(g) /\ g \in WritesOf(t)
  BY RunningPlace, Planned1, WriteFacts DEF Write, Planned, Plan
<1>2. ASSUME NEW s \in Planned \cap Resumable PROVE newer'[s] = Outputs[s]
  <2>1. g \notin Inputs[s]
    <3>1. PICK k \in 1 .. Len(Plan) : s \in Plan[k]
      BY DEF Planned
    <3> QED
      BY <1>1, <3>1, NeverResumed
  <2> QED
    BY <1>1, <2>1, StillFresh, ResumableFacts DEF Reusable
<1>3. Mock \in Planned \cap Resumable => Matches(run.mock)'
  <2>1. PICK mock : mock = run.mock
    OBVIOUS
  <2>2. t # Mock /\ (Matches(mock) => Matches(mock)')
    BY MockFacts, StatusKept
  <2> QED
    BY <1>1, <2>1, <2>2 DEF Reusable, Matches
<1> QED
  BY <1>1, <1>2, <1>3 DEF Reusable

LEMMA RepeatsStep ==
  ASSUME Inv, Placed, Vouched, Repeats, [Next]_vars
  PROVE  Repeats'
<1> USE DEF Inv
<1>a. ~again' => Repeats'
  BY DEF Repeats, FinishedIsReused
<1>b. ASSUME again' = again, run' = run, calm' = calm, UNCHANGED disk, phase' = "running" => phase = "running",
             \A s \in Resumable : step'[s] = step[s] \/ step'[s] = "skipped"
      PROVE  Repeats'
  <2>1. Reusable => Reusable'
    BY <1>b DEF Reusable, Matches, disk, Planned, Plan
  <2> QED
    BY <1>b, <2>1 DEF Repeats, FinishedIsReused
<1>1. CASE UNCHANGED vars
  BY <1>1, <1>b DEF vars
<1>2. ASSUME NEW r \in Requests, Begin(r) PROVE Repeats'
  <2>1. /\ run' = r /\ calm' = TRUE /\ UNCHANGED disk /\ \A s \in Steps : step'[s] = "todo"
        /\ again' => phase = "ok" /\ calm /\ r.resume /\ Key(r) = Key(run)
    BY <1>2 DEF Begin
  <2>2. again' => r.kind = run.kind /\ r.mock = run.mock
    BY <2>1 DEF Key
  <2>3. again' => Planned' = Planned
    BY <2>1, <2>2 DEF Planned, Plan
  <2>4. again' => Reusable'
    BY <2>1, <2>2, <2>3 DEF Vouched, Reusable, Matches, disk
  <2> QED
    BY <2>1, <2>4, ResumableFacts DEF Repeats, FinishedIsReused
<1>3. CASE Control
  BY <1>3, <1>b, ControlFacts
<1>4. CASE Crash
  BY <1>4, <1>b DEF Crash
<1>5. ASSUME NEW t \in Steps, SkipStep(t) PROVE Repeats'
  BY <1>5, <1>b DEF SkipStep, TypeOK
<1>6. ASSUME NEW t \in Steps, StartStep(t) PROVE Repeats'
  <2>1. /\ phase = "running" /\ t \in Group /\ run' = run /\ calm' = calm /\ again' = again /\ phase' = phase
        /\ UNCHANGED <<newer, exists, synthetic>> /\ \A s \in Steps \ {t} : step'[s] = step[s]
    BY <1>6 DEF StartStep, Group, TypeOK
  <2>2. again => t \notin Resumable
    <3>1. SUFFICES ASSUME again, t \in Resumable PROVE FALSE
      OBVIOUS
    <3>2. t \in Planned
      BY <2>1 DEF Group, Planned
    <3>3. run.resume /\ newer[t] = Outputs[t] /\ (t = Mock => Matches(run.mock))
      BY <2>1, <3>1, <3>2 DEF Repeats, Reusable
    <3> QED
      BY <1>6, <3>1, <3>3, ResumableFacts DEF StartStep, Skips, OutputExists, IsFresh
  <2>3. Reusable => Reusable'
    BY <2>1 DEF Reusable, Matches, Planned, Plan
  <2> QED
    BY <2>1, <2>2, <2>3, ResumableFacts DEF Repeats, FinishedIsReused
<1>7. ASSUME NEW t \in Steps, FailStep(t) \/ WriteNothing(t) PROVE Repeats'
  <2>1. /\ phase = "running" /\ step[t] = "running" /\ run' = run /\ calm' = calm /\ again' = again
        /\ UNCHANGED disk /\ \A s \in Steps \ {t} : step'[s] = step[s]
    BY <1>7 DEF FailStep, WriteNothing, Running, TypeOK
  <2>2. again => t \notin Resumable
    BY <2>1 DEF Repeats, FinishedIsReused
  <2> QED
    BY <2>1, <2>2, <1>a, <1>b, ResumableFacts
<1>8. ASSUME NEW t \in Steps, NEW g \in Files, Write(t, g) PROVE Repeats'
  <2>1. /\ phase = "running" /\ step[t] = "running" /\ run' = run /\ calm' = calm /\ again' = again
        /\ \A s \in Steps \ {t} : step'[s] = step[s]
    BY <1>8 DEF Write, Running
  <2>2. again => t \notin Resumable /\ Reusable
    BY <2>1 DEF Repeats, FinishedIsReused
  <2>3. again => Reusable'
    BY <1>8, <2>2, ReusableKept
  <2> QED
    BY <2>1, <2>2, <2>3, ResumableFacts DEF Repeats, FinishedIsReused
<1>9. CASE \E g \in Sources : Touch(g)
  BY <1>9, <1>a, TouchFacts
<1> QED
  BY <1>1, <1>2, <1>3, <1>4, <1>5, <1>6, <1>7, <1>8, <1>9, Kinds

LEMMA FreshStep ==
  ASSUME Inv, FreshInv, [Next]_vars
  PROVE  FreshInv'
<1>1. Inv'
  BY InvStep
<1>2. TypeOK /\ Asked /\ Passed
  BY DEF Inv
<1>3. Placed' /\ Renewed' /\ There' /\ SharedHolds' /\ DueHolds'
  BY <1>2, PlacedStep, RenewedStep, ThereStep, SharedStep, DueStep DEF FreshInv
<1>4. Noticed' /\ Current'
  BY <1>2, NoticedStep, CurrentStep DEF FreshInv
<1>5. MockMatches' /\ Vouched' /\ Repeats'
  BY <1>1, <1>3, MockMatchesStep, VouchedStep, RepeatsStep DEF FreshInv
<1> QED
  BY <1>3, <1>4, <1>5 DEF FreshInv

LEMMA FreshInit == ASSUME Init PROVE FreshInv
<1>1. /\ phase = "none" /\ lag = {} /\ again = FALSE /\ exists = Sources
      /\ \A s \in Steps : newer[s] = {}
  BY DEF Init
<1>2. Placed /\ Renewed /\ DueHolds /\ Current /\ MockMatches /\ Vouched /\ Repeats /\ Noticed
  BY <1>1 DEF Placed, Renewed, DueHolds, Current, MockMatches, Vouched, Repeats, FinishedIsReused, Noticed, Late
<1>3. There
  <2>1. \A s \in Makers : ~(Own(s) \subseteq exists)
    BY <1>1, MakersFacts
  <2> QED
    BY <1>1, <2>1 DEF There, Running
<1>4. SharedHolds
  BY <1>1, MakersFacts DEF SharedHolds, Due
<1> QED
  BY <1>2, <1>3, <1>4 DEF FreshInv

\* For any table that satisfies TableAssumption: after a run that ended well,
\* resumed or not, and with whatever failed before, everything the run is
\* responsible for was made from the files as they are now; and repeating it
\* with --resume-existing calls no script that can be skipped.
THEOREM FinishedStaysFresh == Spec => []FinishedIsFresh
<1>1. Inv /\ FreshInv => FinishedIsFresh
  <2>1. SUFFICES ASSUME Inv, FreshInv PROVE FinishedIsCurrent /\ FinishedIsReused
    BY DEF FinishedIsFresh
  <2>2. ASSUME phase = "ok", calm, NEW s \in Planned, NEW f \in Made[s], NEW i \in Reads[s], <<f, i>> \in lag
        PROVE  i \in Unwatched[s] \/ <<f, i>> \in raced \/ f \in cut
    <3>1. s \in Steps
      BY <2>1, <2>2, Planned1 DEF Inv, Asked
    <3> QED
      BY <2>1, <2>2, <3>1 DEF FreshInv, Vouched, Makers, Watched, Late
  <2>3. FinishedIsCurrent
    BY <2>2 DEF FinishedIsCurrent
  <2> QED
    BY <2>1, <2>3 DEF FreshInv, Repeats
<1>2. Init => Inv /\ FreshInv
  BY InvInit, FreshInit
<1>3. (Inv /\ FreshInv) /\ [Next]_vars => (Inv /\ FreshInv)'
  BY InvStep, FreshStep
<1> QED
  BY <1>1, <1>2, <1>3, PTL DEF Spec
====
