------------------------- MODULE PortfolioStateProofs --------------------------
(***************************************************************************)
(* First the lock: mutual exclusion of file_lock for any number of users,  *)
(* and that it implements Mutex, where either the platform protects an     *)
(* open file or bodies are short and breakers act one at a time.  Then     *)
(* what is written under it: when operations do not overlap and            *)
(* screenshots wait for settlements, the positions stay real, whatever the *)
(* previews, the registrations in between, the retries and the failures.   *)
(***************************************************************************)
EXTENDS FileLock, PortfolioState, FiniteSetTheorems, TLAPS

-------------------------------------------------------------------------------
(***************************************************************************)
(* The lock.                                                               *)
(***************************************************************************)
\* The holder's file is the one on disk: nobody unlinks it, and nobody else's
\* creation can succeed.
HolderKeepsFile == \A p \in Users : pc[p] = "held" => file # NoFile /\ file.by = p /\ file.open

\* Without the platform's protection: a file is the releaser's until it is gone,
\* a file in use is young, and a breaker's file stays the old one it looked at.
Undisturbed ==
  CanUnlinkOpen =>
    \A p \in Users :
      /\ pc[p] \in {"held", "release"} => file # NoFile /\ file.by = p /\ ~file.old
      /\ pc[p] = "unlink" => file # NoFile /\ file.old

\* One waiter is about to unlink.
OneBreaker == CanUnlinkOpen => \A p, q \in Users : pc[p] = "unlink" /\ pc[q] = "unlink" => p = q

Held == LockTypeOK /\ HolderKeepsFile /\ Undisturbed /\ OneBreaker

LEMMA NoBreaker ==
  ASSUME Guarded, CanUnlinkOpen, Cardinality({q \in Users : pc[q] = "unlink"}) < Breakers
  PROVE  \A q \in Users : pc[q] # "unlink"
<1> DEFINE S == {q \in Users : pc[q] = "unlink"}
<1>1. IsFiniteSet(S)
  BY FS_Subset, FileLockAssumption DEF FileLockAssumption
<1>2. Cardinality(S) \in Nat
  BY <1>1, FS_CardinalityType
<1>3. Cardinality(S) = 0
  BY <1>2 DEF Guarded
<1>4. S = {}
  BY <1>1, <1>3, FS_EmptySet
<1> QED BY <1>4

LEMMA NewFile ==
  ASSUME NEW p \in Users PROVE [by |-> p, open |-> TRUE, old |-> FALSE] # NoFile
<1>1. [by |-> p, open |-> TRUE, old |-> FALSE] \in LockFile
  BY DEF LockFile
<1> QED BY <1>1, NoFileAssumption

LEMMA LockTypeStep == LockTypeOK /\ [FileLockNext]_lockVars => LockTypeOK'
<1> SUFFICES ASSUME LockTypeOK, [FileLockNext]_lockVars PROVE LockTypeOK'
  OBVIOUS
<1> USE FileLockAssumption DEF FileLockAssumption, LockTypeOK, LockFile, Goto
<1>1. ASSUME NEW p \in Users, Enter(p) \/ Exists(p) \/ Poll(p) \/ TimeOut(p) PROVE LockTypeOK'
  BY <1>1 DEF Enter, Exists, Poll, TimeOut
<1>2. ASSUME NEW p \in Users, Create(p) PROVE LockTypeOK'
  BY <1>2 DEF Create
<1>9. ASSUME NEW p \in Users, CreateFails(p) PROVE LockTypeOK'
  BY <1>9 DEF CreateFails
<1>3. ASSUME NEW p \in Users, Stat(p) PROVE LockTypeOK'
  BY <1>3 DEF Stat
<1>4. ASSUME NEW p \in Users, Unlink(p) PROVE LockTypeOK'
  BY <1>4 DEF Unlink
<1>5. ASSUME NEW p \in Users, Close(p) PROVE LockTypeOK'
  BY <1>5 DEF Close
<1>10. ASSUME NEW p \in Users, UserDies(p) PROVE LockTypeOK'
  <2>1. lockFaults' \in 0 .. MaxLockFaults
    BY <1>10 DEF UserDies
  <2>2. file' \in LockFile \cup {NoFile}
    BY <1>10 DEF UserDies
  <2> QED BY <1>10, <2>1, <2>2 DEF UserDies
<1>6. ASSUME NEW p \in Users, Release(p) PROVE LockTypeOK'
  BY <1>6 DEF Release
<1>7. ASSUME Age PROVE LockTypeOK'
  BY <1>7 DEF Age
<1>8. ASSUME UNCHANGED lockVars PROVE LockTypeOK'
  BY <1>8 DEF lockVars
<1> QED
  BY <1>1, <1>2, <1>3, <1>4, <1>5, <1>6, <1>7, <1>8, <1>9, <1>10 DEF FileLockNext, Step

LEMMA HeldStep == ASSUME Guarded PROVE Held /\ [FileLockNext]_lockVars => Held'
<1> SUFFICES ASSUME Held, [FileLockNext]_lockVars PROVE HolderKeepsFile' /\ Undisturbed' /\ OneBreaker'
  BY LockTypeStep DEF Held
<1> USE FileLockAssumption, NoFileAssumption
    DEF FileLockAssumption, Held, LockTypeOK, LockFile, Goto, HolderKeepsFile, Undisturbed, OneBreaker
<1> DEFINE Kept == HolderKeepsFile' /\ Undisturbed' /\ OneBreaker'
<1>1. ASSUME NEW p \in Users, Enter(p) \/ Exists(p) \/ Poll(p) \/ TimeOut(p) PROVE Kept
  BY <1>1 DEF Enter, Exists, Poll, TimeOut
<1>2. ASSUME NEW p \in Users, Create(p) PROVE Kept
  BY <1>2, NewFile DEF Create
<1>9. ASSUME NEW p \in Users, CreateFails(p) PROVE Kept
  BY <1>9 DEF CreateFails
<1>3. ASSUME NEW p \in Users, Stat(p) PROVE Kept
  BY <1>3, NoBreaker DEF Stat, Stale
<1>4. ASSUME NEW p \in Users, Unlink(p) PROVE Kept
  BY <1>4 DEF Unlink, Removable, Guarded
<1>5. ASSUME NEW p \in Users, Close(p) PROVE Kept
  BY <1>5 DEF Close
<1>10. ASSUME NEW p \in Users, UserDies(p) PROVE Kept
  BY <1>10 DEF UserDies
<1>6. ASSUME NEW p \in Users, Release(p) PROVE Kept
  BY <1>6 DEF Release, Removable, Guarded
<1>7. ASSUME Age PROVE Kept
  BY <1>7 DEF Age, Guarded
<1>8. ASSUME UNCHANGED lockVars PROVE Kept
  BY <1>8 DEF lockVars
<1> QED
  BY <1>1, <1>2, <1>3, <1>4, <1>5, <1>6, <1>7, <1>8, <1>9, <1>10 DEF FileLockNext, Step

LEMMA HeldInit == FileLockInit => Held
  BY FileLockAssumption DEF FileLockAssumption, FileLockInit, Held, LockTypeOK, HolderKeepsFile, Undisturbed, OneBreaker

LEMMA HeldHolds == ASSUME Guarded PROVE FileLockSpec => []Held
<1>1. FileLockInit => Held
  BY HeldInit
<1>2. Held /\ [FileLockNext]_lockVars => Held'
  BY HeldStep
<1> QED BY <1>1, <1>2, PTL DEF FileLockSpec

\* The variables of file_lock keep their types.
THEOREM LockTypeCorrect == FileLockSpec => []LockTypeOK
<1>1. FileLockInit => LockTypeOK
  BY HeldInit DEF Held
<1> QED BY <1>1, LockTypeStep, PTL DEF FileLockSpec

\* No two operations are inside file_lock's body at once, on a platform that
\* protects open files or where breakers act one at a time.
THEOREM Exclusive == ASSUME Guarded PROVE FileLockSpec => []MutualExclusion
<1>1. Held => MutualExclusion
  BY DEF Held, HolderKeepsFile, MutualExclusion
<1> QED BY <1>1, HeldHolds, PTL

-------------------------------------------------------------------------------
\* The owner, as the file tells it: under Held, whoever has its body running
\* created the file on disk.
FileOwner == IF file = NoFile THEN Free
             ELSE IF pc[file.by] = "held" THEN file.by ELSE Orphan

LEMMA OwnerByFile == Held => Owner = FileOwner
<1> SUFFICES ASSUME Held PROVE Owner = FileOwner
  OBVIOUS
<1> USE NoFileAssumption DEF Held, LockTypeOK, LockFile, HolderKeepsFile, Owner, FileOwner
<1>1. CASE Holders = {}
  <2>1. file # NoFile => pc[file.by] # "held"
    BY <1>1 DEF Holders
  <2> QED BY <1>1, <2>1
<1>2. CASE Holders # {}
  <2> DEFINE p == CHOOSE q \in Holders : TRUE
  <2>1. p \in Holders
    BY <1>2
  <2>2. p \in Users /\ pc[p] = "held"
    BY <2>1 DEF Holders
  <2>3. file # NoFile /\ file.by = p
    BY <2>2
  <2> QED BY <1>2, <2>2, <2>3
<1> QED BY <1>1, <1>2

LEMMA OwnerByFileNext == (Held => Owner = FileOwner)'
  BY OwnerByFile, PTL

LEMMA LockInit == FileLockInit => Lock!Init
  BY DEF FileLockInit, Lock!Init, Owner, Holders

LEMMA LockStep == ASSUME Guarded PROVE Held /\ [FileLockNext]_lockVars => [Lock!Next]_Owner
<1> SUFFICES ASSUME Held, [FileLockNext]_lockVars PROVE [Lock!Next]_Owner
  OBVIOUS
<1>0. Owner = FileOwner /\ Owner' = FileOwner'
  BY HeldStep, OwnerByFile, OwnerByFileNext
<1> USE FileLockAssumption, NoFileAssumption
    DEF FileLockAssumption, FileOwner, Held, LockTypeOK, LockFile, Goto, HolderKeepsFile, Undisturbed,
        Lock!Next, Lock!Acquire, Lock!Leave, Lock!Break
<1>1. ASSUME NEW p \in Users, Enter(p) \/ Exists(p) \/ Poll(p) \/ TimeOut(p)
      PROVE  [Lock!Next]_Owner
  BY <1>0, <1>1 DEF Enter, Exists, Poll, TimeOut
<1>2. ASSUME NEW p \in Users, Create(p) \/ CreateFails(p) PROVE [Lock!Next]_Owner
  <2>1. file = NoFile /\ file'.by = p /\ file' # NoFile /\ pc'[p] \in {"held", "idle"}
    BY <1>2, NewFile DEF Create, CreateFails
  <2>2. Lock!Acquire(p)
    BY <2>1, <1>0
  <2> QED BY <2>2
<1>3. ASSUME NEW p \in Users, Stat(p) PROVE [Lock!Next]_Owner
  BY <1>0, <1>3 DEF Stat
<1>4. ASSUME NEW p \in Users, Unlink(p) PROVE [Lock!Next]_Owner
  BY <1>0, <1>4 DEF Unlink, Removable, Guarded
<1>5. ASSUME NEW p \in Users, Close(p) \/ UserDies(p) PROVE [Lock!Next]_Owner
  BY <1>0, <1>5 DEF Close, UserDies
<1>6. ASSUME NEW p \in Users, Release(p) PROVE [Lock!Next]_Owner
  BY <1>0, <1>6 DEF Release, Removable, Guarded
<1>7. ASSUME Age PROVE [Lock!Next]_Owner
  BY <1>0, <1>7 DEF Age
<1>8. ASSUME UNCHANGED lockVars PROVE [Lock!Next]_Owner
  BY <1>0, <1>8 DEF lockVars
<1> QED
  BY <1>1, <1>2, <1>3, <1>4, <1>5, <1>6, <1>7, <1>8 DEF FileLockNext, Step

\* file_lock implements the lock that Settlement's operations rely on.
THEOREM MutexImplemented == ASSUME Guarded PROVE FileLockSpec => ImplementsMutex
<1>1. FileLockInit => Lock!Init
  BY LockInit
<1>2. Held /\ [FileLockNext]_lockVars => [Lock!Next]_Owner
  BY LockStep
<1> QED BY <1>1, <1>2, HeldHolds, PTL DEF FileLockSpec, ImplementsMutex, Lock!Spec

-------------------------------------------------------------------------------
(***************************************************************************)
(* The positions.                                                          *)
(***************************************************************************)
\* What is said only of the trades that are neither lost nor early.
Kept(t) == t \notin lost \cup early

\* Only executed trades get anywhere.
Executed ==
  /\ settled \subseteq real /\ event \subseteq real /\ current.ids \subseteq real
  /\ \A t \in Trades : current.eff[t] > 0 => t \in real
  /\ \A r \in Ids : preview[r] # None => preview[r].shot \subseteq real
  /\ \A p \in Procs : op[p] # None /\ op[p].kind = "revalue" =>
       op[p].state.ids \subseteq real /\ \A t \in Trades : op[p].state.eff[t] > 0 => t \in real

\* A portfolio contains a trade as often as its metadata name it.
Once(c, t) == c.eff[t] = IF t \in c.ids THEN 1 ELSE 0

\* So does the file, and a trade is marked, or has an event, only if the file names it.
Counted ==
  \A t \in Trades : Kept(t) => Once(current, t) /\ (t \in settled \cup event => t \in current.ids)

\* So does what a revaluation has read; what it lacks has been missed.
Loaded ==
  \A p \in Procs : op[p] # None /\ op[p].kind = "revalue" =>
    /\ \A t \in Trades : Kept(t) => Once(op[p].state, t)
    /\ current.ids \subseteq op[p].state.ids \cup op[p].missed

\* A screenshot shows what the portfolio it is compared with contains, or its
\* registration has missed it.
Shots ==
  \A r \in Ids : preview[r] # None =>
    \A t \in Trades : Kept(t) /\ preview[r].state.eff[t] > 0 => t \in preview[r].shot \cup preview[r].missed

\* While an operation works on a screenshot, so it is with the portfolio of now.
Compared ==
  \A p \in Procs : op[p] # None /\ op[p].kind \in {"register", "apply"} =>
    \A t \in current.ids : Kept(t) =>
      t \in preview[op[p].id].shot \cup preview[op[p].id].missed \cup op[p].missed

\* An operation works on a preview that is on file.
OnFile ==
  \A p \in Procs : op[p] # None /\ op[p].kind # "revalue" => preview[op[p].id] # None

Typed == TypeOK /\ OnFile

Inv == Typed /\ Executed /\ Counted /\ Loaded /\ Shots /\ Compared

-------------------------------------------------------------------------------
LEMMA Present ==
  /\ \A r \in Ids : \A x \in Preview : x # None
  /\ \A o \in Op : o # None
  BY NoneAssumption

LEMMA HashType == ASSUME NEW c \in State PROVE Hash(c) \in Hashes
  BY DEF State, Hash, Hashes

LEMMA OpType ==
  ASSUME NEW o \in Op
  PROVE  /\ o.kind \in {"revalue", "register", "apply", "store"}
         /\ o.kind = "revalue" => o.state \in State
         /\ o.kind # "revalue" => o.id \in Ids
         /\ o.missed \in SUBSET Trades
  BY DEF Op

\* Overtaking an operation changes what it has missed, and nothing else.
Overtaken(o, s) == [o EXCEPT !.missed = @ \cup s]

LEMMA OvertakenIs ==
  ASSUME NEW o \in Op, NEW s \in SUBSET Trades
  PROVE  /\ Overtaken(o, s) \in Op /\ Overtaken(o, s).kind = o.kind
         /\ Overtaken(o, s).missed = o.missed \cup s
         /\ o.kind = "revalue" => Overtaken(o, s).state = o.state
         /\ o.kind # "revalue" => Overtaken(o, s).id = o.id
<1>1. CASE o \in [kind: {"revalue"}, state: State, missed: SUBSET Trades]
  <2>1. Overtaken(o, s) \in [kind: {"revalue"}, state: State, missed: SUBSET Trades]
    BY <1>1 DEF Overtaken
  <2> QED BY <1>1, <2>1 DEF Overtaken, Op
<1>2. CASE o \in [kind: {"register", "apply", "store"}, id: Ids, missed: SUBSET Trades]
  <2>1. Overtaken(o, s) \in [kind: {"register", "apply", "store"}, id: Ids, missed: SUBSET Trades]
    BY <1>2 DEF Overtaken
  <2> QED BY <1>2, <2>1 DEF Overtaken, Op
<1> QED BY <1>1, <1>2 DEF Op

New == current'.ids \ current.ids

\* Every operation that goes on is the one it was, and misses the new trades.
LEMMA OvertakeIs ==
  ASSUME TypeOK, New \in SUBSET Trades, NEW old \in [Procs -> Op \cup {None}], op' = Overtake(Procs, old)
  PROVE  /\ op' \in [Procs -> Op \cup {None}]
         /\ \A q \in Procs : IF old[q] = None THEN op'[q] = None
                             ELSE /\ op'[q] # None /\ op'[q].kind = old[q].kind
                                  /\ op'[q].missed = old[q].missed \cup New
                                  /\ old[q].kind = "revalue" => op'[q].state = old[q].state
                                  /\ old[q].kind # "revalue" => op'[q].id = old[q].id
<1> SUFFICES ASSUME NEW q \in Procs
    PROVE  /\ op'[q] \in Op \cup {None}
           /\ IF old[q] = None THEN op'[q] = None
              ELSE /\ op'[q] # None /\ op'[q].kind = old[q].kind
                   /\ op'[q].missed = old[q].missed \cup New
                   /\ old[q].kind = "revalue" => op'[q].state = old[q].state
                   /\ old[q].kind # "revalue" => op'[q].id = old[q].id
  BY DEF Overtake
<1>1. CASE old[q] = None
  BY <1>1 DEF Overtake
<1>2. CASE old[q] # None
  <2>1. old[q] \in Op /\ op'[q] = Overtaken(old[q], New)
    BY <1>2 DEF Overtake, Overtaken, New
  <2> HIDE DEF New
  <2> QED BY <1>2, <2>1, OvertakenIs, NoneAssumption
<1> QED BY <1>1, <1>2

LEMMA AfterTradeType ==
  ASSUME TypeOK, NEW t \in Trades
  PROVE  AfterTrade(t) \in State /\ AfterTrade(t).ids = current.ids \cup {t}
         /\ \A u \in Trades : AfterTrade(t).eff[u] = IF u = t THEN current.eff[u] + 1 ELSE current.eff[u]
<1>1. current.eff[t] + 1 \in Nat
  BY DEF TypeOK, State
<1> QED BY <1>1 DEF AfterTrade, TypeOK, State

LEMMA TypeStep == Typed /\ [Next]_vars => Typed'
<1> SUFFICES ASSUME Typed, [Next]_vars PROVE Typed'
  OBVIOUS
<1> USE PortfolioAssumption DEF PortfolioAssumption, Typed, TypeOK, OnFile
<1>1. ASSUME NEW t \in Trades, Execute(t) PROVE Typed'
  BY <1>1 DEF Execute
<1>2. ASSUME NEW t \in Trades, Settle(t) PROVE Typed'
  <2>1. current' \in State /\ New \in SUBSET Trades
    BY <1>2, AfterTradeType DEF Settle, New, State
  <2> QED BY <1>2, <2>1, OvertakeIs DEF Settle
<1>3. ASSUME NEW t \in Trades, SettleDies(t) PROVE Typed'
  <2>1. faults' \in 0 .. MaxFaults
    BY <1>3 DEF SettleDies, Fault
  <2>2. current' \in State /\ New \in SUBSET Trades
    BY <1>3, AfterTradeType DEF SettleDies, New, State
  <2> QED BY <1>3, <2>1, <2>2, OvertakeIs DEF SettleDies
<1>4. ASSUME NEW r \in Ids, PreviewReconciliation(r) PROVE Typed'
  <2>1. [shot |-> real, state |-> Hash(current), missed |-> {}] \in Preview
    BY HashType DEF Preview
  <2> QED BY <1>4, <2>1, Present DEF PreviewReconciliation
<1>5. ASSUME NEW p \in Procs, Load(p) PROVE Typed'
  BY <1>5 DEF Load, Begin, Op
<1>6. ASSUME NEW p \in Procs, Save(p) PROVE Typed'
  <2>1. op[p] \in Op
    BY <1>6 DEF Save
  <2>2. op[p].state \in State
    BY <1>6, <2>1, OpType DEF Save
  <2>3. current' \in State /\ New \in SUBSET Trades
    BY <1>6, <2>2 DEF Save, Tick, State, New
  <2>4. lost' \in SUBSET Trades /\ clock' \in Nat
    BY <1>6, <2>1, OpType DEF Save, Tick
  <2> DEFINE old == [op EXCEPT ![p] = None]
  <2>5. old \in [Procs -> Op \cup {None}] /\ \A q \in Procs : old[q] # None => old[q] = op[q]
    OBVIOUS
  <2>6. op' = Overtake(Procs, old) /\ UNCHANGED <<real, event, settled, preview, applied, early, faults>>
    BY <1>6 DEF Save
  <2> HIDE DEF old
  <2>7. op' \in [Procs -> Op \cup {None}]
    BY <2>3, <2>5, <2>6, OvertakeIs
  <2>8. OnFile'
    BY <2>3, <2>5, <2>6, OvertakeIs
  <2> QED BY <2>3, <2>4, <2>6, <2>7, <2>8
<1>7. ASSUME NEW p \in Procs, NEW r \in Ids, RegisterCheck(p, r) \/ ApplyCheck(p, r) PROVE Typed'
  <2>1. preview[r] # None
    BY <1>7 DEF RegisterCheck, ApplyCheck, Unchanged
  <2> QED BY <1>7, <2>1 DEF RegisterCheck, ApplyCheck, Begin, Op
<1>8. ASSUME NEW p \in Procs, NEW r \in Ids, RegisterStore(p, r) PROVE Typed'
  <2> DEFINE new == [shot |-> preview[op[p].id].shot, state |-> Hash(current),
                     missed |-> preview[op[p].id].missed \cup op[p].missed]
  <2>1. op[p] \in Op
    BY <1>8 DEF RegisterStore
  <2>2. op[p].id \in Ids
    BY <1>8, <2>1, OpType DEF RegisterStore
  <2>3. preview[op[p].id] \in Preview
    BY <1>8, <2>2 DEF RegisterStore
  <2>4. new \in Preview
    BY <2>1, <2>3, HashType, OpType DEF Preview
  <2> QED BY <1>8, <2>4, Present DEF RegisterStore, End
<1>9. ASSUME NEW p \in Procs, ApplyWrite(p) PROVE Typed'
  <2>1. op[p] \in Op
    BY <1>9 DEF ApplyWrite
  <2>2. op[p].id \in Ids
    BY <1>9, <2>1, OpType DEF ApplyWrite
  <2>3. [op[p] EXCEPT !.kind = "store"] \in Op
    BY <1>9, <2>1 DEF ApplyWrite, Op
  <2>4. clock' \in Nat
    BY <1>9 DEF ApplyWrite, Tick
  <2>5. current' \in State
    BY <1>9, <2>4 DEF ApplyWrite, State
  <2>6. preview[op[p].id] # None
    BY <1>9 DEF ApplyWrite
  <2>7. [op[p] EXCEPT !.kind = "store"].id = op[p].id
    BY <1>9, <2>1 DEF ApplyWrite, Op
  <2>8. preview[op[p].id] \in Preview /\ op[p].missed \in SUBSET Trades
    BY <2>1, <2>2, <2>6, OpType
  <2>9. lost' \in SUBSET Trades /\ early' \in SUBSET Trades
    BY <1>9, <2>8 DEF ApplyWrite, Preview
  <2> QED BY <1>9, <2>3, <2>4, <2>5, <2>6, <2>7, <2>9 DEF ApplyWrite
<1>10. ASSUME NEW p \in Procs, ApplyStore(p) PROVE Typed'
  <2>1. op[p] \in Op
    BY <1>10 DEF ApplyStore
  <2>2. op[p].id \in Ids
    BY <1>10, <2>1, OpType DEF ApplyStore
  <2> QED BY <1>10, <2>2 DEF ApplyStore, End
<1>11. ASSUME NEW p \in Procs, Crash(p) PROVE Typed'
  BY <1>11 DEF Crash, End, Fault
<1>12. ASSUME UNCHANGED vars PROVE Typed'
  BY <1>12 DEF vars
<1> QED
  BY <1>1, <1>2, <1>3, <1>4, <1>5, <1>6, <1>7, <1>8, <1>9, <1>10, <1>11, <1>12 DEF Next

-------------------------------------------------------------------------------
\* What an operation carries over a step of another one.
SameOp(o, n) ==
  /\ n # None /\ o # None /\ n.kind = o.kind /\ n.missed = o.missed \cup New
  /\ o.kind = "revalue" => n.state = o.state
  /\ o.kind # "revalue" => n.id = o.id

\* Each operation after a step is one from before it.
SameOps == \A q \in Procs : op'[q] # None => SameOp(op[q], op'[q])

\* A step that leaves the screenshots alone and only executes or exempts more.
Onward ==
  /\ UNCHANGED preview /\ real \subseteq real'
  /\ lost \subseteq lost' /\ early \subseteq early'

LEMMA Carried ==
  ASSUME Inv, Typed', SameOps, Onward
  PROVE  Loaded' /\ Shots' /\ Compared'
<1> USE DEF Inv, Typed, Onward
<1>1. \A t \in Trades : Kept(t)' => Kept(t)
  BY DEF Kept
<1>2. current'.ids \subseteq current.ids \cup New
  BY DEF New
<1>3. Loaded'
  <2> SUFFICES ASSUME NEW p \in Procs, op'[p] # None, op'[p].kind = "revalue"
               PROVE  /\ \A t \in Trades : Kept(t)' => Once(op'[p].state, t)
                      /\ current'.ids \subseteq op'[p].state.ids \cup op'[p].missed
    BY DEF Loaded, Once
  <2>1. op[p] # None /\ op[p].kind = "revalue" /\ op'[p].state = op[p].state /\ op'[p].missed = op[p].missed \cup New
    BY DEF SameOps, SameOp
  <2> QED BY <1>1, <1>2, <2>1 DEF Loaded, Once
<1>4. Shots'
  BY <1>1 DEF Shots
<1>5. Compared'
  <2> SUFFICES ASSUME NEW p \in Procs, op'[p] # None, op'[p].kind \in {"register", "apply"},
                      NEW t \in current'.ids, Kept(t)'
               PROVE  t \in preview[op'[p].id].shot \cup preview[op'[p].id].missed \cup op'[p].missed
    BY DEF Compared
  <2>1. op[p] # None /\ op[p].kind \in {"register", "apply"} /\ op'[p].id = op[p].id /\ op'[p].missed = op[p].missed \cup New
    BY DEF SameOps, SameOp
  <2>2. t \in New \/ t \in current.ids
    BY <1>2
  <2>3. Kept(t)
    BY DEF Kept
  <2> QED BY <2>1, <2>2, <2>3 DEF Compared
<1> QED BY <1>3, <1>4, <1>5

LEMMA ExecutedCarried ==
  ASSUME Inv, SameOps, Onward, current'.ids \subseteq real', \A t \in Trades : current'.eff[t] > 0 => t \in real',
         settled' \subseteq real', event' \subseteq real'
  PROVE  Executed'
<1> USE DEF Inv, Onward, Executed
<1>1. ASSUME NEW p \in Procs, op'[p] # None, op'[p].kind = "revalue"
      PROVE  op'[p].state.ids \subseteq real' /\ \A t \in Trades : op'[p].state.eff[t] > 0 => t \in real'
  BY <1>1 DEF SameOps, SameOp
<1>2. \A r \in Ids : preview'[r] # None => preview'[r].shot \subseteq real'
  OBVIOUS
<1> QED BY <1>1, <1>2

\* With the same portfolio, operations stay as they are.
LEMMA Unmoved ==
  ASSUME TypeOK, current'.ids = current.ids, NEW q \in Procs, op'[q] = op[q], op'[q] # None
  PROVE  SameOp(op[q], op'[q])
<1>1. New = {} /\ op[q] \in Op
  BY DEF New, TypeOK
<1> QED BY <1>1, OpType DEF SameOp

\* A trade enters current.json.
LEMMA EnteredIs ==
  ASSUME Inv, NEW t \in real, t \in Trades, ~HasSettlement(t), current' = AfterTrade(t), op' = Overtake(Procs, op),
         UNCHANGED <<real, preview, lost, early>>, settled' \subseteq settled \cup {t}, event' \subseteq event \cup {t},
         Typed'
  PROVE  Executed' /\ Counted' /\ Loaded' /\ Shots' /\ Compared'
<1> USE DEF Inv, Typed
<1>1. current' \in State /\ current'.ids = current.ids \cup {t} /\
      \A u \in Trades : current'.eff[u] = IF u = t THEN current.eff[u] + 1 ELSE current.eff[u]
  BY AfterTradeType
<1>2. New = {t} /\ t \notin current.ids /\ t \notin event
  BY <1>1 DEF New, HasSettlement
<1>3. SameOps
  <2>1. op \in [Procs -> Op \cup {None}] /\ New \in SUBSET Trades
    BY <1>2 DEF TypeOK
  <2> QED BY <2>1, OvertakeIs DEF SameOps, SameOp
<1>4. Onward
  BY DEF Onward
<1>5. Loaded' /\ Shots' /\ Compared'
  BY <1>3, <1>4, Carried
<1>6. Executed'
  <2>1. current'.ids \subseteq real' /\ settled' \subseteq real' /\ event' \subseteq real'
    BY <1>1 DEF Executed
  <2>2. \A u \in Trades : current'.eff[u] > 0 => u \in real'
    BY <1>1 DEF Executed
  <2> QED BY <1>3, <1>4, <2>1, <2>2, ExecutedCarried
<1>7. Counted'
  <2> SUFFICES ASSUME NEW u \in Trades, Kept(u)
               PROVE  /\ current'.eff[u] = IF u \in current'.ids THEN 1 ELSE 0
                      /\ u \in settled' \cup event' => u \in current'.ids
    BY DEF Counted, Kept, Once
  <2>1. current.eff[u] = (IF u \in current.ids THEN 1 ELSE 0) /\ (u \in settled \cup event => u \in current.ids)
    BY DEF Counted, Once
  <2> QED BY <1>1, <1>2, <2>1
<1> QED BY <1>5, <1>6, <1>7

\* The file, and whatever says that a trade is settled, stay as they are.
LEMMA CountedKept ==
  ASSUME Inv, UNCHANGED <<current, event, settled>>, lost \subseteq lost', early \subseteq early'
  PROVE  Counted'
  BY DEF Inv, Counted, Kept, Once

LEMMA InvStep == Inv /\ [Next]_vars => Inv'
<1> SUFFICES ASSUME Inv, [Next]_vars
             PROVE  Executed' /\ Counted' /\ Loaded' /\ Shots' /\ Compared'
  BY TypeStep DEF Inv
<1> DEFINE Rest == Executed' /\ Counted' /\ Loaded' /\ Shots' /\ Compared'
<1>0. Typed /\ Typed' /\ TypeOK
  BY TypeStep DEF Inv, Typed
<1>1. ASSUME UNCHANGED <<current, event, settled, preview, lost, early>>, real \subseteq real',
             \A q \in Procs : op'[q] # None => op'[q] = op[q]
      PROVE  Rest
  <2>1. SameOps
    BY <1>0, <1>1, Unmoved DEF SameOps
  <2>2. Onward
    BY <1>1 DEF Onward
  <2>3. Executed'
    BY <1>1, <2>1, <2>2, ExecutedCarried DEF Inv, Executed
  <2> QED BY <1>0, <1>1, <2>1, <2>2, <2>3, Carried, CountedKept
<1>2. ASSUME NEW t \in Trades, Execute(t) PROVE Rest
  BY <1>1, <1>2 DEF Execute
<1>3. ASSUME NEW t \in Trades, Settle(t) PROVE Rest
  <2>1. CASE ~HasSettlement(t)
    BY <1>0, <1>3, <2>1, EnteredIs DEF Settle
  <2>2. CASE HasSettlement(t)
    <3>1. current' = current /\ New = {}
      BY <1>3, <2>2 DEF Settle, New
    <3>2. op \in [Procs -> Op \cup {None}] /\ op' = Overtake(Procs, op) /\ New \in SUBSET Trades
      BY <1>0, <1>3, <3>1 DEF TypeOK, Settle
    <3>3. SameOps
      BY <1>0, <3>2, OvertakeIs DEF SameOps, SameOp
    <3>4. Onward
      BY <1>3 DEF Settle, Onward
    <3>5. Loaded' /\ Shots' /\ Compared'
      BY <1>0, <3>3, <3>4, Carried
    <3>6. Executed'
      BY <1>3, <3>1, <3>3, <3>4, ExecutedCarried DEF Settle, Inv, Executed
    <3>7. Counted'
      BY <1>3, <2>2, <3>1 DEF Settle, HasSettlement, Inv, Counted, Kept, Once
    <3> QED BY <3>5, <3>6, <3>7
  <2> QED BY <2>1, <2>2
<1>4. ASSUME NEW t \in Trades, SettleDies(t) PROVE Rest
  <2>1. event' \subseteq event \cup {t} /\ settled' = settled
    BY <1>4 DEF SettleDies
  <2> QED BY <1>0, <1>4, <2>1, EnteredIs DEF SettleDies
<1>5. ASSUME NEW r \in Ids, PreviewReconciliation(r) PROVE Rest
  <2>1. /\ UNCHANGED <<real, current, event, settled, op, lost, early>> /\ preview[r] = None
        /\ preview' = [preview EXCEPT ![r] = [shot |-> real, state |-> Hash(current), missed |-> {}]]
        /\ preview \in [Ids -> Preview \cup {None}]
    BY <1>0, <1>5 DEF PreviewReconciliation, TypeOK
  <2>2. preview'[r].shot = real /\ preview'[r].state.eff = current.eff
    BY <2>1 DEF Hash
  <2>3. Executed'
    BY <2>1, <2>2 DEF Inv, Executed
  <2>4. Counted' /\ Loaded'
    BY <2>1 DEF Inv, Counted, Loaded, Kept, Once
  <2>5. Shots'
    BY <2>1, <2>2 DEF Inv, Executed, Shots, Kept
  <2>6. Compared'
    <3> SUFFICES ASSUME NEW q \in Procs, op[q] # None, op[q].kind \in {"register", "apply"}
                 PROVE  preview'[op[q].id] = preview[op[q].id]
      BY <2>1 DEF Inv, Compared, Kept
    <3>1. op[q] \in Op /\ preview[op[q].id] # None
      BY <1>0 DEF Typed, TypeOK, OnFile
    <3>2. op[q].id \in Ids
      BY <3>1, OpType
    <3> QED BY <2>1, <3>1, <3>2
  <2> QED BY <2>3, <2>4, <2>5, <2>6
<1>6. ASSUME NEW p \in Procs, Load(p) PROVE Rest
  <2>1. /\ UNCHANGED <<real, current, event, settled, preview, lost, early>>
        /\ op' = [op EXCEPT ![p] = [kind |-> "revalue", state |-> current, missed |-> {}]]
        /\ op \in [Procs -> Op \cup {None}]
    BY <1>0, <1>6 DEF Load, Begin, TypeOK
  <2>2. op'[p].kind = "revalue" /\ op'[p].state = current /\ \A q \in Procs \ {p} : op'[q] = op[q]
    BY <2>1
  <2>3. Executed'
    BY <2>1, <2>2 DEF Inv, Executed
  <2>4. Loaded'
    BY <2>1, <2>2 DEF Inv, Counted, Loaded, Kept, Once
  <2>5. Counted' /\ Shots'
    BY <2>1 DEF Inv, Counted, Shots, Kept, Once
  <2>6. Compared'
    BY <2>1, <2>2 DEF Inv, Compared, Kept
  <2> QED BY <2>3, <2>4, <2>5, <2>6
<1>7. ASSUME NEW p \in Procs, Save(p) PROVE Rest
  <2> DEFINE old == [op EXCEPT ![p] = None]
  <2>1. /\ op[p] # None /\ op[p].kind = "revalue" /\ op[p] \in Op
        /\ current' = [op[p].state EXCEPT !.stamp = clock']
        /\ op' = Overtake(Procs, old) /\ lost' = lost \cup op[p].missed
        /\ UNCHANGED <<real, event, settled, preview, early>>
    BY <1>0, <1>7 DEF Save, TypeOK
  <2>2. op[p].state \in State /\ op[p].missed \in SUBSET Trades
    BY <2>1, OpType
  <2>3. current'.eff = op[p].state.eff /\ current'.ids = op[p].state.ids
    BY <2>1, <2>2 DEF State
  <2>4. New \in SUBSET Trades
    BY <2>2, <2>3 DEF New, State
  <2>5. SameOps
    <3>1. old \in [Procs -> Op \cup {None}] /\ \A q \in Procs : old[q] # None => old[q] = op[q]
      BY <1>0 DEF TypeOK
    <3> HIDE DEF old
    <3> QED BY <1>0, <2>1, <2>4, <3>1, OvertakeIs DEF SameOps, SameOp
  <2>6. Onward
    BY <2>1 DEF Onward
  <2>7. Loaded' /\ Shots' /\ Compared'
    BY <1>0, <2>5, <2>6, Carried
  <2>8. Executed'
    <3>1. current'.ids \subseteq real' /\ \A t \in Trades : current'.eff[t] > 0 => t \in real'
      BY <2>1, <2>3 DEF Inv, Executed
    <3> QED BY <2>1, <2>5, <2>6, <3>1, ExecutedCarried DEF Inv, Executed
  <2>9. Counted'
    <3> SUFFICES ASSUME NEW t \in Trades, Kept(t)'
                 PROVE  Once(current', t) /\ (t \in settled \cup event => t \in current'.ids)
      BY <2>1 DEF Counted, Once
    <3>1. Kept(t) /\ t \notin op[p].missed
      BY <2>1 DEF Kept
    <3>2. Once(op[p].state, t) /\ current.ids \subseteq op[p].state.ids \cup op[p].missed
      BY <2>1, <3>1 DEF Inv, Loaded
    <3>3. t \in settled \cup event => t \in current.ids
      BY <3>1 DEF Inv, Counted
    <3> QED BY <2>3, <3>1, <3>2, <3>3 DEF Once
  <2> QED BY <2>7, <2>8, <2>9
<1>8. ASSUME NEW p \in Procs, NEW r \in Ids, RegisterCheck(p, r) \/ ApplyCheck(p, r) PROVE Rest
  <2>1. /\ UNCHANGED <<real, current, event, settled, preview, lost, early>> /\ Unchanged(r)
        /\ op'[p].kind \in {"register", "apply"} /\ op'[p].id = r /\ \A q \in Procs \ {p} : op'[q] = op[q]
    BY <1>0, <1>8 DEF RegisterCheck, ApplyCheck, Begin, TypeOK
  <2>2. Executed' /\ Loaded'
    BY <2>1 DEF Inv, Executed, Loaded, Kept, Once
  <2>3. Counted' /\ Shots'
    BY <2>1 DEF Inv, Counted, Shots, Kept, Once
  <2>4. \A t \in current.ids : Kept(t) => t \in preview[r].shot \cup preview[r].missed
    <3>1. \A t \in current.ids : Kept(t) => t \in Trades /\ current.eff[t] = 1
      BY <1>0 DEF Inv, Counted, Once, TypeOK, State
    <3>2. preview[r] # None /\ preview[r].state.eff = current.eff
      BY <2>1 DEF Unchanged, Hash
    <3> QED BY <3>1, <3>2 DEF Inv, Shots
  <2>5. Compared'
    BY <2>1, <2>4 DEF Inv, Compared, Kept
  <2> QED BY <2>2, <2>3, <2>5
<1>9. ASSUME NEW p \in Procs, NEW new \in Ids, RegisterStore(p, new) PROVE Rest
  <2>1. /\ op[p] # None /\ op[p].kind = "register" /\ op[p] \in Op /\ preview[new] = None
        /\ preview' = [preview EXCEPT ![new] =
             [shot |-> preview[op[p].id].shot, state |-> Hash(current),
              missed |-> preview[op[p].id].missed \cup op[p].missed]]
        /\ op' = [op EXCEPT ![p] = None] /\ op \in [Procs -> Op \cup {None}]
        /\ UNCHANGED <<real, current, event, settled, lost, early>>
        /\ preview \in [Ids -> Preview \cup {None}]
    BY <1>0, <1>9 DEF RegisterStore, End, TypeOK
  <2>2. op[p].id \in Ids /\ preview[op[p].id] # None
    BY <1>0, <2>1, OpType DEF Typed, OnFile
  <2>3. /\ preview'[new].shot = preview[op[p].id].shot /\ preview'[new].state.eff = current.eff
        /\ preview'[new].missed = preview[op[p].id].missed \cup op[p].missed
        /\ \A r \in Ids \ {new} : preview'[r] = preview[r]
    BY <2>1 DEF Hash
  <2>4. \A q \in Procs : op'[q] # None => op'[q] = op[q] /\ op[q] # None
    BY <2>1
  <2>5. Executed'
    BY <2>1, <2>2, <2>3, <2>4 DEF Inv, Executed
  <2>6. Counted' /\ Loaded'
    BY <2>1, <2>4 DEF Inv, Counted, Loaded, Kept, Once
  <2>7. Shots'
    <3> SUFFICES ASSUME NEW t \in Trades, Kept(t), current.eff[t] > 0
                 PROVE  t \in preview'[new].shot \cup preview'[new].missed
      BY <2>1, <2>3 DEF Inv, Shots, Kept
    <3>1. t \in current.ids
      BY DEF Inv, Counted, Once
    <3>2. t \in preview[op[p].id].shot \cup preview[op[p].id].missed \cup op[p].missed
      BY <2>1, <3>1 DEF Inv, Compared
    <3> QED BY <2>3, <3>2
  <2>8. Compared'
    <3> SUFFICES ASSUME NEW q \in Procs, op'[q] # None, op'[q].kind \in {"register", "apply"}
                 PROVE  preview'[op[q].id] = preview[op[q].id]
      BY <2>1, <2>4 DEF Inv, Compared, Kept
    <3>1. op[q] = op'[q] /\ op[q] \in Op /\ preview[op[q].id] # None
      BY <1>0, <2>4 DEF Typed, TypeOK, OnFile
    <3>2. op[q].id \in Ids
      BY <3>1, OpType
    <3> QED BY <2>1, <2>3, <3>1, <3>2
  <2> QED BY <2>5, <2>6, <2>7, <2>8
<1>10. ASSUME NEW p \in Procs, ApplyWrite(p) PROVE Rest
  <2> DEFINE old == preview[op[p].id]
  <2>1. /\ op[p] # None /\ op[p].kind = "apply" /\ op[p] \in Op
        /\ current' = [current EXCEPT !.eff = [t \in Trades |-> IF t \in old.shot THEN 1 ELSE 0], !.stamp = clock']
        /\ op' = [op EXCEPT ![p].kind = "store"] /\ op \in [Procs -> Op \cup {None}]
        /\ lost' = lost \cup op[p].missed \cup old.missed
        /\ early' = early \cup {t \in old.shot : ~HasSettlement(t)}
        /\ UNCHANGED <<real, event, settled, preview>> /\ current \in State
    BY <1>0, <1>10 DEF ApplyWrite, TypeOK
  <2>2. op[p].id \in Ids /\ old # None
    BY <1>0, <2>1, OpType DEF Typed, OnFile
  <2>3. current'.ids = current.ids /\ \A t \in Trades : current'.eff[t] = IF t \in old.shot THEN 1 ELSE 0
    BY <2>1 DEF State
  <2>4. /\ op'[p].kind = "store" /\ \A q \in Procs \ {p} : op'[q] = op[q]
        /\ op'[p].id = op[p].id /\ op'[p].missed = op[p].missed /\ op'[p] # None
    <3>1. op'[p] = [op[p] EXCEPT !.kind = "store"]
      BY <2>1
    <3>2. op'[p] \in Op \cup {None}
      BY <1>0 DEF Typed, TypeOK
    <3>3. [op[p] EXCEPT !.kind = "store"] \in Op
      BY <2>1 DEF Op
    <3> QED BY <2>1, <3>1, <3>3, Present DEF Op
  <2>5. \A t \in Trades : Kept(t)' => Kept(t) /\ t \notin op[p].missed \cup old.missed /\ (t \in old.shot => HasSettlement(t))
    BY <2>1 DEF Kept
  <2>6. Executed'
    BY <2>1, <2>2, <2>3, <2>4 DEF Inv, Executed
  <2>7. Loaded'
    BY <2>3, <2>4, <2>5 DEF Inv, Loaded, Once
  <2>8. Shots'
    BY <2>1, <2>5 DEF Inv, Shots
  <2>9. Compared'
    <3>1. \A t \in current'.ids : t \in Trades
      BY <2>1, <2>3 DEF State
    <3> QED BY <2>1, <2>3, <2>4, <2>5, <3>1 DEF Inv, Compared
  <2>10. Counted'
    <3> SUFFICES ASSUME NEW t \in Trades, Kept(t)'
                 PROVE  Once(current', t) /\ (t \in settled \cup event => t \in current'.ids)
      BY <2>1 DEF Counted, Once
    <3>1. Kept(t) /\ (t \in settled \cup event => t \in current.ids)
      BY <2>5 DEF Inv, Counted
    <3>2. t \in old.shot => t \in current.ids
      BY <2>5, <3>1 DEF HasSettlement
    <3>3. t \in current.ids => t \in old.shot
      BY <2>1, <2>5, <3>1 DEF Inv, Compared
    <3> QED BY <2>3, <3>1, <3>2, <3>3 DEF Once
  <2> QED BY <2>6, <2>7, <2>8, <2>9, <2>10
<1>11. ASSUME NEW p \in Procs, ApplyStore(p) \/ Crash(p) PROVE Rest
  <2>1. \A q \in Procs : op'[q] # None => op'[q] = op[q]
    BY <1>0, <1>11 DEF ApplyStore, Crash, End, TypeOK
  <2>2. UNCHANGED <<real, current, event, settled, preview, lost, early>>
    BY <1>11 DEF ApplyStore, Crash
  <2> QED BY <1>1, <2>1, <2>2
<1>12. ASSUME UNCHANGED vars PROVE Rest
  BY <1>1, <1>12 DEF vars
<1> QED
  BY <1>2, <1>3, <1>4, <1>5, <1>6, <1>7, <1>8, <1>9, <1>10, <1>11, <1>12 DEF Next

LEMMA InvInit == Init => Inv
<1> SUFFICES ASSUME Init PROVE Inv
  OBVIOUS
<1>1. Typed
  BY PortfolioAssumption DEF PortfolioAssumption, Init, Typed, TypeOK, OnFile, State
<1>2. Executed /\ Counted /\ Loaded /\ Shots /\ Compared
  BY DEF Init, Executed, Counted, Once, Loaded, Shots, Compared
<1> QED BY <1>1, <1>2 DEF Inv

LEMMA InvHolds == Spec => []Inv
<1>1. Init => Inv
  BY InvInit
<1>2. Inv /\ [Next]_vars => Inv'
  BY InvStep
<1> QED BY <1>1, <1>2, PTL DEF Spec

\* current.json, the previews and what every process has read keep their types,
\* however operations overlap.
THEOREM TypeCorrect == Spec => []TypeOK
<1>1. Init => Typed
  BY InvInit DEF Inv
<1>2. Typed => TypeOK
  BY DEF Typed
<1> QED BY <1>1, <1>2, TypeStep, PTL DEF Spec

\* Settlements, revaluations and reconciliations, however they overlap, die and
\* are retried, leave every settled trade in the positions once, except those
\* that entered between an operation's reading and its write, and those that an
\* applied screenshot showed before they were settled.
THEOREM PositionsAreRealHolds == Spec => []PositionsAreReal
<1>1. Inv => PositionsAreReal
  BY DEF PositionsAreReal, Inv, Executed, Counted, Kept, Once
<1> QED BY <1>1, InvHolds, PTL
================================================================================
