------------------------------ MODULE LongMemory ------------------------------
(***************************************************************************)
(* The long-term memory: a table of records, a full-text index in a second  *)
(* database and mirror files of the table.  Analyses, the builders and the  *)
(* replay experiments write records; the user approves, rejects, archives   *)
(* or demotes them from the workbench.  Every writer reads the table first, *)
(* commits, then brings the index and the mirrors up to date, each on its   *)
(* own: writers interleave between those steps, and may die there.  A       *)
(* builder writes its records one after the other, and then its list of     *)
(* them over the mirror of their domain.                                    *)
(***************************************************************************)
EXTENDS Naturals, Sequences, FiniteSets

CONSTANTS Ids,          \* the records' memory_id
          Key,          \* [Ids -> the (domain, entity, type) a rule speaks of]
          Profiles,     \* the ids of fund profiles, never rules
          Untrusted,    \* the ids learnt from what the trust audit does not accept
          Writers,      \* threads and scripts that write the memory
          Derived,      \* the statuses an analysis proposes
          Themes,       \* the ids of a domain with a builder that has its mirror (market, execution)
          Proposals,    \* the statuses this builder proposes
          Actions,      \* what the user does to a record
          MaxDay,       \* bound of the calendar
          MaxJobs,      \* bound of the writes
          None

ASSUME MemoryAssumption ==
  /\ IsFiniteSet(Ids) /\ Profiles \subseteq Ids /\ Untrusted \subseteq Ids
  /\ Themes \subseteq Ids /\ Proposals \subseteq {"candidate", "strategic"}
  /\ None \notin Ids \cup Writers
  /\ Derived \subseteq {"candidate", "strategic", "permanent", "archived", "rejected"}
  /\ Actions \subseteq {"approve", "reject", "archive", "demote"}
  /\ MaxDay \in Nat \ {0} /\ MaxJobs \in Nat

VARIABLES db,        \* memory_records
          decisions, \* memory_approvals: the last action on each record
          index,     \* the ids the full-text index finds
          mirror,    \* the statuses the mirror files show
          themes,    \* those that the mirror of the builder's domain shows
          job,       \* what each writer is in the middle of
          today,
          jobs,      \* writes started
          alone,     \* the writers that met no other since they started
          raced      \* keys that writers met on

memory == <<db, decisions, index, mirror, themes, job, today, jobs, alone, raced>>

Active == {"candidate", "strategic", "permanent"}
Status == Active \cup {"archived", "rejected"}
Days   == 0 .. MaxDay
Record == [status: Status, sup: Ids \cup {None}, from: Days, approved: Days,
           updated: Days, text: Days]

\* No job, or a job that writes the records of S: its commit still to do, then
\* the index entries still to do, then the snapshot it will dump.  A builder has
\* items, what it proposes, and rest, those it has not written to the end.
Stages == {"commit", "index", "mirror", "dump", "next"}
Act    == [id: Ids, what: Actions]
Items  == UNION {[T -> Proposals] : T \in SUBSET Themes}
Job(S) == [stage: Stages, writes: [S -> Record], todo: Seq(Ids),
           act: Act \cup {None}, seen: [Ids -> Status \cup {None}] \cup {None},
           items: Items \cup {None}, rest: Seq(Ids)]

\* None is nothing else.
ASSUME NoneAssumption ==
  /\ None \notin Record /\ None \notin Status /\ None \notin Act
  /\ None \notin {"approve", "reject", "archive", "demote"}
  /\ None \notin Items
  /\ \A S \in SUBSET Ids : None \notin Job(S)

Init ==
  /\ db = [i \in Ids |-> None]
  /\ decisions = [i \in Ids |-> None]
  /\ index = {}
  /\ mirror = [i \in Ids |-> None]
  /\ themes = [i \in Themes |-> None]
  /\ job = [w \in Writers |-> None]
  /\ today = 1
  /\ jobs = 0
  /\ alone = {}
  /\ raced = {}

Busy == {w \in Writers : job[w] # None}
Stored(i) == db[i] # None
Is(i, s) == Stored(i) /\ db[i].status = s

\* The statuses of the table, as a mirror or the index shows them.
Shown == [i \in Ids |-> IF Stored(i) THEN db[i].status ELSE None]
OfThemes(m) == [i \in Themes |-> m[i]]

Start(w, j) ==
  /\ job[w] = None
  /\ jobs < MaxJobs
  /\ jobs' = jobs + 1
  /\ job' = [job EXCEPT ![w] = j]
  /\ alone' = IF Busy = {} THEN {w} ELSE {}

\* An upsert replaces all but an approval, and takes no approval upon itself.
Upserted(i, s, from) ==
  LET kept == Is(i, "permanent")
  IN [status |-> IF kept THEN "permanent" ELSE IF s = "permanent" THEN "strategic" ELSE s,
      approved |-> IF kept THEN db[i].approved ELSE 0,
      sup |-> None, from |-> from, updated |-> today, text |-> today]

StartUpsert(w, i, s, from) ==
  /\ Start(w, [stage |-> "commit", writes |-> [x \in {i} |-> Upserted(x, s, from)],
               todo |-> <<i>>, act |-> None, seen |-> None, items |-> None, rest |-> <<>>])
  /\ UNCHANGED <<db, decisions, index, mirror, themes, today, raced>>

\* Mutant of Rivals: the rules still to be confirmed are replaced.
RivalsPending(i) == {x \in Ids \ {i} : Is(x, "strategic") /\ Key[x] = Key[i]}

Rivals(i) == {x \in Ids \ {i} : Is(x, "permanent") /\ Key[x] = Key[i]}

NextStatus == [approve |-> "permanent", reject |-> "rejected",
               archive |-> "archived", demote |-> "candidate"]

\* approve_memory: the approved record and the ones it replaces; the
\* metadata, superseded_by with it, is carried over from the record read.
Decided(i, a) ==
  LET replaced == IF a = "approve" THEN Rivals(i) ELSE {}
  IN [x \in {i} \cup replaced |->
        IF x = i THEN [db[x] EXCEPT !.status = NextStatus[a], !.updated = today,
                                    !.approved = IF a = "approve" THEN today ELSE 0]
        ELSE [db[x] EXCEPT !.status = "archived", !.sup = i, !.updated = today]]

OrderOf(S) == CHOOSE s \in [1 .. Cardinality(S) -> S] : \A m, n \in DOMAIN s : s[m] = s[n] => m = n

\* can_promote_to_permanent
CanPromote(i) == i \notin Profiles /\ i \notin Untrusted

StartDecision(w, i, a) ==
  /\ Stored(i)
  /\ a = "approve" => CanPromote(i)
  /\ LET d == Decided(i, a)
     IN Start(w, [stage |-> "commit", writes |-> d,
                  todo |-> <<i>> \o OrderOf(DOMAIN d \ {i}), act |-> [id |-> i, what |-> a],
                  seen |-> None, items |-> None, rest |-> <<>>])
  /\ UNCHANGED <<db, decisions, index, mirror, themes, today, raced>>

\* The UPDATEs of a decision leave the text and its validity as they are.
Written(w, x) ==
  LET new == job[w].writes[x]
  IN IF job[w].act = None \/ ~Stored(x) THEN new
     ELSE [new EXCEPT !.text = db[x].text, !.from = db[x].from,
                      !.approved = IF x = job[w].act.id THEN @ ELSE db[x].approved]

Commit(w) ==
  /\ job[w] # None /\ job[w].stage = "commit"
  /\ LET S == DOMAIN job[w].writes
     IN /\ db' = [x \in Ids |-> IF x \in S THEN Written(w, x) ELSE db[x]]
        /\ raced' = IF w \in alone THEN raced ELSE raced \cup {Key[x] : x \in S}
  /\ decisions' = IF job[w].act = None THEN decisions
                  ELSE [decisions EXCEPT ![job[w].act.id] = job[w].act.what]
  /\ job' = [job EXCEPT ![w].stage = "index"]
  /\ UNCHANGED <<index, mirror, themes, today, jobs, alone>>

\* Mutant of SyncIndex: a record that is no longer active stays in the index.
SyncIndexAdds(w) ==
  /\ job[w] # None /\ job[w].stage = "index"
  /\ LET i == Head(job[w].todo)
         rest == Tail(job[w].todo)
     IN /\ index' = IF job[w].writes[i].status \in Active THEN index \cup {i} ELSE index
        /\ job' = [job EXCEPT ![w].todo = rest,
                              ![w].stage = IF rest = <<>> THEN "mirror" ELSE "index"]
  /\ UNCHANGED <<db, decisions, mirror, themes, today, jobs, alone, raced>>

\* sync_search_index is given the record as its writer wrote it.
SyncIndex(w) ==
  /\ job[w] # None /\ job[w].stage = "index"
  /\ LET i == Head(job[w].todo)
         rest == Tail(job[w].todo)
     IN /\ index' = IF job[w].writes[i].status \in Active THEN index \cup {i} ELSE index \ {i}
        /\ job' = [job EXCEPT ![w].todo = rest,
                              ![w].stage = IF rest = <<>> THEN "mirror" ELSE "index"]
  /\ UNCHANGED <<db, decisions, mirror, themes, today, jobs, alone, raced>>

ReadForMirrors(w) ==
  /\ job[w] # None /\ job[w].stage = "mirror"
  /\ job' = [job EXCEPT ![w].stage = "dump", ![w].seen = Shown]
  /\ UNCHANGED <<db, decisions, index, mirror, themes, today, jobs, alone, raced>>

Leave(w) ==
  /\ job' = [job EXCEPT ![w] = None]
  /\ alone' = alone \ {w}

\* The mirrors, that of the builder's domain with them; a builder goes on.
WriteMirrors(w) ==
  /\ job[w] # None /\ job[w].stage = "dump"
  /\ mirror' = job[w].seen
  /\ themes' = OfThemes(job[w].seen)
  /\ IF job[w].items = None THEN Leave(w)
     ELSE /\ job' = [job EXCEPT ![w].stage = "next", ![w].rest = Tail(@)]
          /\ UNCHANGED alone
  /\ UNCHANGED <<db, decisions, index, today, jobs, raced>>

-------------------------------------------------------------------------------
\* build_market_memory, build_execution_memory: a record for each regime, or rule,
\* it derives from the files of the day, none of them dated.
StartBuild(w, items, order) ==
  /\ Start(w, [stage |-> "next", writes |-> [x \in {} |-> None], todo |-> <<>>,
               act |-> None, seen |-> None, items |-> items, rest |-> order])
  /\ UNCHANGED <<db, decisions, index, mirror, themes, today, raced>>

\* upsert_memory_record of the next one reads the table.
Derive(w) ==
  /\ job[w] # None /\ job[w].stage = "next" /\ job[w].rest # <<>>
  /\ LET i == Head(job[w].rest)
     IN job' = [job EXCEPT ![w].stage = "commit", ![w].todo = <<i>>,
                           ![w].writes = [x \in {i} |-> Upserted(x, job[w].items[x], 0)]]
  /\ UNCHANGED <<db, decisions, index, mirror, themes, today, jobs, alone, raced>>

\* What it has proposed goes over the mirror, whatever the table made of it.
DumpItems(w) ==
  /\ job[w] # None /\ job[w].stage = "next" /\ job[w].rest = <<>>
  /\ themes' = [i \in Themes |-> IF i \in DOMAIN job[w].items THEN job[w].items[i] ELSE None]
  /\ Leave(w)
  /\ UNCHANGED <<db, decisions, index, mirror, today, jobs, raced>>

-------------------------------------------------------------------------------

\* The writer dies, or a database is locked for longer than it waits.
Die(w) ==
  /\ job[w] # None
  /\ Leave(w)
  /\ UNCHANGED <<db, decisions, index, mirror, themes, today, jobs, raced>>

NewDay ==
  /\ today < MaxDay
  /\ today' = today + 1
  /\ UNCHANGED <<db, decisions, index, mirror, themes, job, jobs, alone, raced>>

\* A dated record speaks from the date of its analysis, which may be past.
Upsert == \E w \in Writers, i \in Ids, s \in Derived, from \in 0 .. today : StartUpsert(w, i, s, from)
Decide == \E w \in Writers, i \in Ids, a \in Actions : StartDecision(w, i, a)
Build  == \E w \in Writers, S \in SUBSET Themes : \E items \in [S -> Proposals] :
            \E order \in [1 .. Cardinality(S) -> S] :
              {order[n] : n \in DOMAIN order} = S /\ StartBuild(w, items, order)
Step   == \E w \in Writers : Commit(w) \/ SyncIndex(w) \/ ReadForMirrors(w) \/ WriteMirrors(w)
                              \/ Derive(w) \/ DumpItems(w)
Fail   == \E w \in Writers : Die(w)

Next == Upsert \/ Build \/ Decide \/ Step \/ Fail \/ NewDay
Spec == Init /\ [][Next]_memory

(***************************************************************************)
(* Properties.                                                              *)
(***************************************************************************)
JobOK(j) == DOMAIN j.writes \subseteq Ids /\ j \in Job(DOMAIN j.writes)

\* Every variable keeps to its type, and at most one writer is alone.
MemoryTypeOK ==
  /\ db \in [Ids -> Record \cup {None}]
  /\ decisions \in [Ids -> Actions \cup {None}]
  /\ index \subseteq Ids
  /\ mirror \in [Ids -> Status \cup {None}]
  /\ themes \in [Themes -> Status \cup {None}]
  /\ DOMAIN job = Writers /\ \A w \in Busy : JobOK(job[w])
  /\ today \in 1 .. MaxDay /\ jobs \in 0 .. MaxJobs
  /\ alone \in SUBSET Busy /\ raced \subseteq {Key[i] : i \in Ids}

\* Two approved rules never speak of the same thing, unless two writers met
\* on it: the SELECT of the rules to replace is outside the transaction of
\* the UPDATEs (approve_memory).
OneRulePerKey ==
  \A i, j \in Ids : Is(i, "permanent") /\ Is(j, "permanent") /\ Key[i] = Key[j] /\ i # j
                      => Key[i] \in raced

\* A rule is in force exactly as long as the user's last word on it is its
\* approval and none replaced it: neither an analysis that proposes it as
\* permanent nor one that derives it again gives or takes that standing.
OnlyTheUserPromotes ==
  \A i \in Ids : Key[i] \notin raced =>
    /\ Is(i, "permanent") => decisions[i] = "approve" /\ db[i].approved > 0
    /\ Stored(i) /\ decisions[i] = "approve" /\ ~Is(i, "permanent")
         => \E j \in Ids \ {i} : Key[j] = Key[i] /\ decisions[j] # None

\* A write that meets no other leaves the index right about what it wrote and
\* the mirrors right about everything, whatever died before it.  So does a
\* builder, for all it wrote, up to its last file: there it shows its own
\* records as it proposed them, also those that the user has approved.
AloneHeals ==
  [][\A w \in alone :
       /\ WriteMirrors(w) =>
            /\ mirror' = Shown /\ themes' = OfThemes(Shown)
            /\ \A i \in DOMAIN job[w].writes : i \in index <=> db[i].status \in Active
       /\ DumpItems(w) =>
            /\ DOMAIN job[w].items # {} => mirror = Shown
            /\ \A i \in DOMAIN job[w].items :
                 /\ i \in index
                 /\ themes'[i] # Shown[i] => Is(i, "permanent")]_memory

\* The rules in force are the user's: the three invariants above, which two
\* writers that meet, die or come late may break each in its own way.
MemoryIsSound == MemoryTypeOK /\ OneRulePerKey /\ OnlyTheUserPromotes
================================================================================
