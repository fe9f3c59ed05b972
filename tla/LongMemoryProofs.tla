--------------------------- MODULE LongMemoryProofs ---------------------------
(***************************************************************************)
(* For any records, rules, writers and statuses: the rules in force are the *)
(* user's, and a write that meets no other leaves the index and the mirrors *)
(* right, a builder all but the mirror it keeps for itself.                 *)
(***************************************************************************)
EXTENDS RagIndex, FiniteSetTheorems, SequenceTheorems, TLAPS

\* The records whose index entry a job has still to do.
Left(j) == {j.todo[n] : n \in 1 .. Len(j.todo)}

\* What a builder has still to write, and what it has written.
RestOf(j) == {j.rest[n] : n \in 1 .. Len(j.rest)}
Wrote(j)  == DOMAIN j.items \ RestOf(j)

\* A builder upserts the first of the rest, and proposes no approval.
Building(j) ==
  IF j.items = None THEN j.stage # "next"
  ELSE /\ j.act = None /\ RestOf(j) \subseteq DOMAIN j.items
       /\ j.stage # "next" =>
            /\ j.rest # <<>> /\ DOMAIN j.writes = {j.rest[1]}
            /\ j.writes[j.rest[1]].status \in {j.items[j.rest[1]], "permanent"}

\* A job of any writer, however stale: it syncs what it writes, and decides
\* on what it writes.
Formed(j) ==
  /\ j.stage \in {"commit", "index"} <=> j.todo # <<>>
  /\ Left(j) \subseteq DOMAIN j.writes
  /\ j.act # None => j.act.id \in DOMAIN j.writes
  /\ j.stage = "dump" => j.seen \in [Ids -> Status \cup {None}]
  /\ Building(j)

\* What a lone writer is about to commit fits the table as it is: an upsert
\* gives and takes no approval, a decision on a record archives its rivals.
UpsertFits(j) ==
  \A x \in DOMAIN j.writes :
    /\ Is(x, "permanent") <=> j.writes[x].status = "permanent"
    /\ Is(x, "permanent") => j.writes[x].approved = db[x].approved

DecisionFits(j) ==
  /\ j.writes[j.act.id].status = NextStatus[j.act.what]
  /\ j.act.what = "approve" => Rivals(j.act.id) \subseteq DOMAIN j.writes /\ j.writes[j.act.id].approved > 0
  /\ \A x \in DOMAIN j.writes \ {j.act.id} : j.writes[x].status = "archived" /\ Key[x] = Key[j.act.id]

Fits(j) ==
  j.stage = "commit" =>
    /\ DOMAIN j.writes \subseteq Left(j)
    /\ IF j.act = None THEN UpsertFits(j) ELSE DecisionFits(j)

\* What a lone builder has written is in the table, as it proposed it or as
\* the user approved it, in the index and, between two records, in the mirrors.
Keeps(j) ==
  j.items # None =>
    /\ \A x \in Wrote(j) : Stored(x) /\ x \in index /\ db[x].status \in {j.items[x], "permanent"}
    /\ j.stage = "next" /\ Wrote(j) # {} => mirror = Shown

\* What a lone writer has committed is still there, and in the index apart
\* from the entries it has still to do.
Holds(j) ==
  /\ j.stage # "commit" =>
       \A x \in DOMAIN j.writes :
         /\ Stored(x) /\ db[x].status = j.writes[x].status
         /\ x \in Left(j) \/ (x \in index <=> db[x].status \in Active)
  /\ j.stage = "dump" => j.seen = Shown
  /\ Keeps(j)

Jobs  == \A w \in Busy : Formed(job[w])
Lone  == \A w \in alone : Busy = {w} /\ Fits(job[w]) /\ Holds(job[w])
Known == \A i \in Ids : decisions[i] # None => Stored(i)

Inv == MemoryTypeOK /\ Jobs /\ Lone /\ Known /\ OneRulePerKey /\ OnlyTheUserPromotes

-------------------------------------------------------------------------------
(***************************************************************************)
(* The operators.                                                           *)
(***************************************************************************)
\* A finite set is listed in order, completely.
LEMMA OrderOfAll ==
  ASSUME NEW S, IsFiniteSet(S)
  PROVE  OrderOf(S) \in Seq(S) /\ S = {OrderOf(S)[n] : n \in 1 .. Len(OrderOf(S))}
<1> DEFINE N == Cardinality(S)
           Once(s) == \A m, n \in DOMAIN s : s[m] = s[n] => m = n
<1>1. N \in Nat /\ ExistsBijection(1 .. N, S)
  BY FS_CardinalityType
<1>2. PICK f \in Bijection(1 .. N, S) : TRUE
  BY <1>1 DEF ExistsBijection
<1>3. f \in [1 .. N -> S] /\ Once(f)
  BY <1>2 DEF Bijection, Injection, IsInjective
<1>4. OrderOf(S) \in [1 .. N -> S] /\ Once(OrderOf(S))
  <2>1. \E s \in [1 .. N -> S] : Once(s)
    BY <1>3
  <2>2. OrderOf(S) = CHOOSE s \in [1 .. N -> S] : Once(s)
    BY DEF OrderOf
  <2> HIDE DEF Once
  <2> QED
    BY <2>1, <2>2
<1>5. OrderOf(S) \in Injection(1 .. N, S)
  BY <1>4 DEF Injection, IsInjective
<1>6. IsFiniteSet(1 .. N) /\ Cardinality(1 .. N) = N
  <2>1. IsFiniteSet(1 .. N) /\ Cardinality(1 .. N) = IF 1 > N THEN 0 ELSE N - 1 + 1
    BY <1>1, FS_Interval, 1 \in Int, N \in Int
  <2> QED
    BY <2>1, <1>1
<1>7. OrderOf(S) \in Surjection(1 .. N, S)
  BY <1>5, <1>6, FS_Injection
<1>8. OrderOf(S) \in Seq(S) /\ Len(OrderOf(S)) = N
  BY <1>1, <1>4
<1> QED
  BY <1>7, <1>8, <1>4 DEF Surjection

\* A first element and the rest.
LEMMA FirstAndRest ==
  ASSUME NEW T, NEW i \in T, NEW o \in Seq(T), NEW t, t = <<i>> \o o
  PROVE  t \in Seq(T) /\ t # <<>> /\ {t[n] : n \in 1 .. Len(t)} = {i} \cup {o[n] : n \in 1 .. Len(o)}
<1> DEFINE r == <<i>>
<1>1. r \in Seq(T) /\ Len(r) = 1 /\ r[1] = i /\ t = r \o o /\ Len(o) \in Nat
  OBVIOUS
<1> HIDE DEF r
<1>2. /\ r \o o \in Seq(T) /\ Len(r \o o) = Len(r) + Len(o)
      /\ \A n \in 1 .. Len(r) + Len(o) : (r \o o)[n] = IF n <= Len(r) THEN r[n] ELSE o[n - Len(r)]
  BY <1>1, ConcatProperties
<1>3. /\ t \in Seq(T) /\ Len(t) = 1 + Len(o)
      /\ \A n \in 1 .. 1 + Len(o) : t[n] = IF n <= 1 THEN r[n] ELSE o[n - 1]
  BY <1>1, <1>2
<1>4. t[1] = i /\ 1 \in 1 .. Len(t)
  BY <1>1, <1>3
<1>5. ASSUME NEW n \in 1 .. Len(o)
      PROVE  n + 1 \in 1 .. Len(t) /\ t[n + 1] = o[n]
  <2>1. n + 1 \in 1 .. 1 + Len(o) /\ ~ (n + 1 <= 1) /\ (n + 1) - 1 = n
    BY <1>1
  <2> QED
    BY <1>3, <2>1
<1>6. ASSUME NEW n \in 1 .. Len(t), n # 1
      PROVE  n - 1 \in 1 .. Len(o) /\ t[n] = o[n - 1]
  BY <1>1, <1>3, <1>6
<1> QED
  BY <1>1, <1>3, <1>4, <1>5, <1>6

\* The job of a decision has an index entry to do for each record it writes.
Entries(S, i) == <<i>> \o OrderOf(S \ {i})

LEMMA EntriesAreAll ==
  ASSUME NEW S \in SUBSET Ids, NEW i \in S
  PROVE  /\ Entries(S, i) \in Seq(Ids) /\ Entries(S, i) # <<>>
         /\ S = {Entries(S, i)[n] : n \in 1 .. Len(Entries(S, i))}
<1> DEFINE o == OrderOf(S \ {i})
           t == Entries(S, i)
<1>1. IsFiniteSet(S \ {i})
  BY MemoryAssumption, FS_Subset
<1>2. o \in Seq(S \ {i}) /\ S \ {i} = {o[n] : n \in 1 .. Len(o)}
  BY <1>1, OrderOfAll
<1>3. t = <<i>> \o o
  BY DEF Entries
<1> HIDE DEF o, t
<1>4. o \in Seq(Ids) /\ i \in Ids
  BY <1>2
<1>5. t \in Seq(Ids) /\ t # <<>> /\ {t[n] : n \in 1 .. Len(t)} = {i} \cup {o[n] : n \in 1 .. Len(o)}
  BY <1>3, <1>4, FirstAndRest
<1> QED
  BY <1>2, <1>5 DEF t

LEMMA StatusType ==
  /\ Active \subseteq Status /\ Derived \subseteq Status
  /\ \A a \in Actions : NextStatus[a] \in Status /\ (NextStatus[a] = "permanent" <=> a = "approve")
  BY MemoryAssumption DEF Active, Status, NextStatus

LEMMA DaysType == Days \subseteq Nat /\ 0 \in Days
  BY MemoryAssumption DEF Days

\* A field of a record may be set to a value of its type.
LEMMA UpsertedType ==
  ASSUME MemoryTypeOK, NEW i \in Ids, NEW s \in Status, NEW from \in 0 .. today
  PROVE  /\ Upserted(i, s, from) \in Record
         /\ Is(i, "permanent") <=> Upserted(i, s, from).status = "permanent"
         /\ Is(i, "permanent") => Upserted(i, s, from).approved = db[i].approved
<1> DEFINE u == Upserted(i, s, from)
<1>1. from \in Days /\ today \in Days
  BY MemoryAssumption DEF MemoryTypeOK, Days
<1>2. CASE Is(i, "permanent")
  <2>1. db[i] \in Record
    BY <1>2 DEF MemoryTypeOK, Is, Stored
  <2>2. db[i].approved \in Days
    BY <2>1 DEF Record
  <2> QED
    BY <1>1, <1>2, <2>2 DEF Upserted, Record, Status, Active
<1>3. CASE ~Is(i, "permanent")
  BY <1>1, <1>3, StatusType, DaysType DEF Upserted, Record, Status, Active
<1> QED
  BY <1>2, <1>3

LEMMA DecidedType ==
  ASSUME MemoryTypeOK, NEW i \in Ids, NEW a \in Actions, Stored(i), NEW d, d = Decided(i, a)
  PROVE  /\ DOMAIN d \subseteq Ids /\ i \in DOMAIN d /\ d \in [DOMAIN d -> Record]
         /\ d[i].status = NextStatus[a]
         /\ a = "approve" => Rivals(i) \subseteq DOMAIN d /\ d[i].approved > 0
         /\ \A x \in DOMAIN d \ {i} : d[x].status = "archived" /\ Key[x] = Key[i]
<1> DEFINE R == IF a = "approve" THEN Rivals(i) ELSE {}
           New(x) == IF x = i THEN [db[x] EXCEPT !.status = NextStatus[a], !.updated = today,
                                                 !.approved = IF a = "approve" THEN today ELSE 0]
                     ELSE [db[x] EXCEPT !.status = "archived", !.sup = i, !.updated = today]
<1>1. d = [x \in {i} \cup R |-> New(x)]
  BY DEF Decided
<1>2. R \subseteq Ids \ {i} /\ \A x \in R : Stored(x) /\ Key[x] = Key[i]
  BY DEF Rivals, Is
<1>3. today \in Days /\ today > 0 /\ 0 \in Days
  BY MemoryAssumption DEF MemoryTypeOK, Days
<1>4. ASSUME NEW x \in {i} \cup R
      PROVE  New(x) \in Record
  <2>1. db[x] \in Record
    BY <1>2 DEF MemoryTypeOK, Stored
  <2>2. NextStatus[a] \in Status /\ "archived" \in Status
    BY StatusType DEF Status
  <2> QED
    BY <2>1, <2>2, <1>3 DEF Record
<1>5. New(i).status = NextStatus[a] /\ (a = "approve" => New(i).approved = today)
  <2>1. db[i] \in Record
    BY DEF MemoryTypeOK, Stored
  <2> QED
    BY <2>1 DEF Record
<1>6. ASSUME NEW x \in R
      PROVE  New(x).status = "archived"
  <2>1. db[x] \in Record /\ x # i
    BY <1>2 DEF MemoryTypeOK, Stored
  <2> QED
    BY <2>1 DEF Record
<1> HIDE DEF New
<1>7. DOMAIN d = {i} \cup R /\ \A x \in {i} \cup R : d[x] = New(x)
  BY <1>1
<1>8. d \in [DOMAIN d -> Record]
  BY <1>1, <1>4, <1>7
<1> QED
  BY <1>2, <1>3, <1>5, <1>6, <1>7, <1>8

-------------------------------------------------------------------------------
(***************************************************************************)
(* A write begins.                                                          *)
(***************************************************************************)
Begins(w, j) ==
  /\ Start(w, j) /\ UNCHANGED <<db, decisions, index, mirror, themes, today, raced>>
  /\ JobOK(j) /\ Formed(j) /\ Fits(j) /\ Holds(j)

LEMMA UpsertBegins ==
  ASSUME MemoryTypeOK, NEW w \in Writers, NEW i \in Ids, NEW s \in Derived, NEW from \in 0 .. today,
         StartUpsert(w, i, s, from)
  PROVE  \E j : Begins(w, j)
<1> DEFINE j == [stage |-> "commit", writes |-> [x \in {i} |-> Upserted(x, s, from)],
                 todo |-> <<i>>, act |-> None, seen |-> None, items |-> None, rest |-> <<>>]
<1>s. s \in Status
  BY StatusType
<1>u. PICK u : u = Upserted(i, s, from)
  OBVIOUS
<1>f. /\ u \in Record
      /\ Is(i, "permanent") <=> u.status = "permanent"
      /\ Is(i, "permanent") => u.approved = db[i].approved
  BY <1>s, <1>u, UpsertedType
<1>1. DOMAIN j.writes = {i} /\ j.writes[i] = u /\ j.writes \in [{i} -> Record]
  BY <1>f, <1>u
<1>2. j.todo \in Seq(Ids) /\ j.todo # <<>> /\ Left(j) = {i}
  BY DEF Left
<1>3. JobOK(j)
  BY <1>1, <1>2 DEF JobOK, Job, Stages
<1>4. Formed(j) /\ Holds(j)
  BY <1>1, <1>2 DEF Formed, Building, Holds, Keeps
<1>5. Fits(j)
  BY <1>1, <1>2, <1>f DEF Fits, UpsertFits
<1>6. Start(w, j) /\ UNCHANGED <<db, decisions, index, mirror, themes, today, raced>>
  BY DEF StartUpsert
<1> QED
  BY <1>3, <1>4, <1>5, <1>6 DEF Begins

LEMMA DecisionBegins ==
  ASSUME MemoryTypeOK, NEW w \in Writers, NEW i \in Ids, NEW a \in Actions, StartDecision(w, i, a)
  PROVE  \E j : Begins(w, j)
<1> DEFINE d == Decided(i, a)
           t == Entries(DOMAIN d, i)
           j == [stage |-> "commit", writes |-> d, todo |-> t, act |-> [id |-> i, what |-> a],
                 seen |-> None, items |-> None, rest |-> <<>>]
<1>1. Stored(i)
  BY DEF StartDecision
<1>2. /\ DOMAIN d \subseteq Ids /\ i \in DOMAIN d /\ d \in [DOMAIN d -> Record]
      /\ d[i].status = NextStatus[a]
      /\ a = "approve" => Rivals(i) \subseteq DOMAIN d /\ d[i].approved > 0
      /\ \A x \in DOMAIN d \ {i} : d[x].status = "archived" /\ Key[x] = Key[i]
  BY <1>1, DecidedType
<1>3. Start(w, j) /\ UNCHANGED <<db, decisions, index, mirror, themes, today, raced>>
  BY DEF StartDecision, Entries
<1> HIDE DEF d
<1>4. t \in Seq(Ids) /\ t # <<>> /\ DOMAIN d = {t[n] : n \in 1 .. Len(t)}
  BY <1>2, EntriesAreAll
<1> HIDE DEF t
<1>5. j.act \in Act /\ j.act # None
  BY NoneAssumption DEF Act
<1>6. JobOK(j)
  BY <1>2, <1>4, <1>5 DEF JobOK, Job, Stages
<1>7. Formed(j) /\ Holds(j)
  BY <1>2, <1>4 DEF Formed, Left, Building, Holds, Keeps
<1>8. Fits(j)
  BY <1>2, <1>4, <1>5 DEF Fits, DecisionFits, Left
<1> QED
  BY <1>3, <1>6, <1>7, <1>8 DEF Begins

LEMMA BuildBegins ==
  ASSUME MemoryTypeOK, NEW w \in Writers, NEW S \in SUBSET Themes, NEW items \in [S -> Proposals],
         NEW order \in [1 .. Cardinality(S) -> S], {order[n] : n \in DOMAIN order} = S,
         StartBuild(w, items, order)
  PROVE  \E j : Begins(w, j)
<1> DEFINE none == [x \in {} |-> None]
           j == [stage |-> "next", writes |-> none, todo |-> <<>>, act |-> None, seen |-> None,
                 items |-> items, rest |-> order]
<1>1. S \subseteq Ids /\ Cardinality(S) \in Nat
  BY MemoryAssumption, FS_Subset, FS_CardinalityType
<1>2. order \in Seq(Ids) /\ Len(order) = Cardinality(S) /\ DOMAIN order = 1 .. Len(order)
  BY <1>1
<1>3. items # None
  BY NoneAssumption DEF Items
<1>4. DOMAIN none = {} /\ none \in [DOMAIN none -> Record] /\ <<>> \in Seq(Ids)
  OBVIOUS
<1>5. Start(w, j) /\ UNCHANGED <<db, decisions, index, mirror, themes, today, raced>>
  BY DEF StartBuild
<1> HIDE DEF none
<1>6. JobOK(j)
  <2>1. items \in Items
    BY DEF Items
  <2> QED
    BY <1>2, <1>4, <2>1 DEF JobOK, Job, Stages
<1>7. RestOf(j) = S /\ Wrote(j) = {} /\ Left(j) = {}
  BY <1>2 DEF RestOf, Wrote, Left
<1>8. Formed(j)
  BY <1>3, <1>4, <1>7 DEF Formed, Building
<1>9. Fits(j) /\ Holds(j)
  BY <1>4, <1>7 DEF Fits, Holds, Keeps
<1> QED
  BY <1>5, <1>6, <1>8, <1>9 DEF Begins

LEMMA BeginInv ==
  ASSUME Inv, NEW w \in Writers, NEW j, Begins(w, j)
  PROVE  Inv'
<1>1. /\ UNCHANGED <<db, decisions, index, mirror, themes, today, raced>>
      /\ job[w] = None /\ job' = [job EXCEPT ![w] = j]
      /\ jobs < MaxJobs /\ jobs' = jobs + 1
      /\ alone' = IF Busy = {} THEN {w} ELSE {}
  BY DEF Begins, Start
<1>2. JobOK(j) /\ Formed(j) /\ Fits(j) /\ Holds(j)
  BY DEF Begins
<1>3. j # None
  BY <1>2, NoneAssumption DEF JobOK
<1>4. Busy' = Busy \cup {w}
  BY <1>1, <1>3 DEF Inv, MemoryTypeOK, Busy
<1>5. job'[w] = j /\ \A v \in Busy : job'[v] = job[v]
  BY <1>1 DEF Inv, MemoryTypeOK, Busy
<1>6. MemoryTypeOK'
  <2>1. DOMAIN job' = Writers /\ \A v \in Busy' : JobOK(job'[v])
    BY <1>1, <1>2, <1>4, <1>5 DEF Inv, MemoryTypeOK
  <2>2. jobs' \in 0 .. MaxJobs
    BY <1>1, MemoryAssumption DEF Inv, MemoryTypeOK
  <2> QED
    BY <1>1, <1>4, <2>1, <2>2 DEF Inv, MemoryTypeOK
<1>7. Jobs'
  BY <1>2, <1>4, <1>5 DEF Inv, Jobs, Formed, Left, Building, RestOf
<1>8. Lone'
  <2>1. SUFFICES ASSUME NEW v \in alone'
                 PROVE  Busy' = {v} /\ Fits(job[v])' /\ Holds(job[v])'
    BY DEF Lone
  <2>2. v = w /\ Busy = {}
    BY <1>1
  <2>3. Fits(j)'
    BY <1>1, <1>2 DEF Fits, UpsertFits, DecisionFits, Rivals, Is, Stored
  <2>4. Holds(j)'
    BY <1>1, <1>2 DEF Holds, Keeps, Wrote, RestOf, Left, Shown, Stored
  <2> QED
    BY <1>2, <1>4, <1>5, <2>2, <2>3, <2>4
<1>9. (Known /\ OneRulePerKey /\ OnlyTheUserPromotes)'
  BY <1>1 DEF Inv, Known, OneRulePerKey, OnlyTheUserPromotes, Is, Stored
<1> QED
  BY <1>6, <1>7, <1>8, <1>9 DEF Inv

-------------------------------------------------------------------------------
(***************************************************************************)
(* A write goes on.                                                         *)
(***************************************************************************)
LEMMA ItemsType ==
  ASSUME NEW j, JobOK(j), j.items # None
  PROVE  /\ DOMAIN j.items \subseteq Themes /\ DOMAIN j.items \subseteq Ids
         /\ \A x \in DOMAIN j.items : j.items[x] \in {"candidate", "strategic"}
<1>1. j.items \in Items
  BY DEF JobOK, Job
<1>2. PICK T \in SUBSET Themes : j.items \in [T -> Proposals]
  BY <1>1 DEF Items
<1> QED
  BY <1>2, MemoryAssumption

\* A job goes back to its commit, with other records to write.
LEMMA Rewritten ==
  ASSUME NEW j, JobOK(j), NEW T \in SUBSET Ids, NEW ws \in [T -> Record], NEW t \in Seq(Ids)
  PROVE  JobOK([j EXCEPT !.stage = "commit", !.todo = t, !.writes = ws])
<1> DEFINE k == [j EXCEPT !.stage = "commit", !.todo = t, !.writes = ws]
<1>1. j \in Job(DOMAIN j.writes)
  BY DEF JobOK
<1>2. k.writes = ws /\ DOMAIN ws = T
  BY <1>1 DEF Job
<1>3. k \in Job(T)
  BY <1>1 DEF Job, Stages
<1> QED
  BY <1>2, <1>3 DEF JobOK

LEMMA JobType ==
  ASSUME Inv, NEW w \in Writers, job[w] # None
  PROVE  /\ w \in Busy /\ JobOK(job[w]) /\ Formed(job[w])
         /\ DOMAIN job[w].writes \subseteq Ids /\ job[w].writes \in [DOMAIN job[w].writes -> Record]
         /\ job[w].todo \in Seq(Ids) /\ job[w].rest \in Seq(Ids)
         /\ job[w].act \in Act \cup {None}
         /\ job[w].act # None => job[w].act.id \in DOMAIN job[w].writes /\ job[w].act.what \in Actions
         /\ w \in alone => alone = {w} /\ Busy = {w} /\ Fits(job[w]) /\ Holds(job[w])
<1>1. w \in Busy
  BY DEF Busy
<1>2. JobOK(job[w]) /\ Formed(job[w])
  BY <1>1 DEF Inv, MemoryTypeOK, Jobs
<1>3. w \in alone => alone = {w} /\ Busy = {w} /\ Fits(job[w]) /\ Holds(job[w])
  BY <1>1 DEF Inv, MemoryTypeOK, Lone
<1> QED
  BY <1>1, <1>2, <1>3 DEF JobOK, Job, Formed, Act

\* A job that a step of its writer has moved on.
LEMMA MovedType ==
  ASSUME Inv, NEW w \in Writers, NEW k, job[w] # None, JobOK(k), Formed(k), job' = [job EXCEPT ![w] = k]
  PROVE  /\ job'[w] = k /\ \A v \in Writers \ {w} : job'[v] = job[v]
         /\ Busy' = Busy
         /\ DOMAIN job' = Writers /\ (\A v \in Busy : JobOK(job[v]))' /\ Jobs'
<1>1. job'[w] = k /\ (\A v \in Writers \ {w} : job'[v] = job[v]) /\ DOMAIN job' = Writers
  BY DEF Inv, MemoryTypeOK
<1>2. k # None
  BY NoneAssumption DEF JobOK
<1>3. Busy' = Busy
  BY <1>1, <1>2 DEF Busy
<1>4. (\A v \in Busy : JobOK(job[v]))'
  BY <1>1, <1>3 DEF Inv, MemoryTypeOK, Busy
<1>5. Jobs'
  BY <1>1, <1>3 DEF Inv, Jobs, Busy, Formed, Left, Building, RestOf
<1> QED
  BY <1>1, <1>3, <1>4, <1>5

\* The record that a builder is writing is none of those it has written, and
\* these stay as they are while it does.
LEMMA WroteApart ==
  ASSUME NEW j, JobOK(j), Formed(j), j.items # None, j.stage # "next"
  PROVE  DOMAIN j.writes \cap Wrote(j) = {}
<1>1. j.rest \in Seq(Ids) /\ j.rest # <<>> /\ DOMAIN j.writes = {j.rest[1]}
  BY DEF JobOK, Job, Formed, Building
<1>2. 1 \in 1 .. Len(j.rest)
  BY <1>1
<1>3. j.rest[1] \in RestOf(j)
  BY <1>2 DEF RestOf
<1> QED
  BY <1>1, <1>3 DEF Wrote

LEMMA KeepsOn ==
  ASSUME NEW w \in Writers, Keeps(job[w]),
         job'[w].items = job[w].items, job'[w].rest = job[w].rest, job'[w].stage # "next",
         job[w].items # None =>
           \A x \in Wrote(job[w]) : db'[x] = db[x] /\ (x \in index => x \in index')
  PROVE  Keeps(job[w])'
BY DEF Keeps, Wrote, RestOf, Stored

\* What is committed is what the writer wrote, apart from the fields that the
\* UPDATEs of a decision leave alone.
LEMMA WrittenType ==
  ASSUME Inv, NEW w \in Writers, job[w] # None, NEW x \in DOMAIN job[w].writes
  PROVE  /\ Written(w, x) \in Record
         /\ Written(w, x).status = job[w].writes[x].status
         /\ job[w].act = None \/ x = job[w].act.id => Written(w, x).approved = job[w].writes[x].approved
<1>1. job[w].writes[x] \in Record /\ x \in Ids
  BY JobType
<1>2. CASE job[w].act = None \/ ~Stored(x)
  BY <1>1, <1>2 DEF Written
<1>3. CASE job[w].act # None /\ Stored(x)
  <2>1. db[x] \in Record
    BY <1>1, <1>3 DEF Inv, MemoryTypeOK, Stored
  <2> QED
    BY <1>1, <1>3, <2>1 DEF Written, Record
<1> QED
  BY <1>2, <1>3

LEMMA CommitInv ==
  ASSUME Inv, NEW w \in Writers, Commit(w)
  PROVE  Inv'
<1> DEFINE j == job[w]
           k == [j EXCEPT !.stage = "index"]
           S == DOMAIN j.writes
<1>1. /\ j # None /\ j.stage = "commit"
      /\ db' = [x \in Ids |-> IF x \in S THEN Written(w, x) ELSE db[x]]
      /\ raced' = IF w \in alone THEN raced ELSE raced \cup {Key[x] : x \in S}
      /\ decisions' = IF j.act = None THEN decisions ELSE [decisions EXCEPT ![j.act.id] = j.act.what]
      /\ job' = [job EXCEPT ![w] = k]
      /\ UNCHANGED <<index, mirror, themes, today, jobs, alone>>
  BY DEF Commit, Inv, MemoryTypeOK
<1>2. /\ w \in Busy /\ JobOK(j) /\ Formed(j)
      /\ S \subseteq Ids /\ j.writes \in [S -> Record] /\ j.todo \in Seq(Ids)
      /\ j.act # None => j.act.id \in S /\ j.act.what \in Actions
      /\ w \in alone => alone = {w} /\ Busy = {w} /\ Fits(j) /\ Holds(j)
  BY <1>1, JobType
<1>3. /\ JobOK(k) /\ k.stage = "index" /\ k.writes = j.writes /\ k.todo = j.todo /\ k.act = j.act
      /\ k.items = j.items /\ k.rest = j.rest
  BY <1>2 DEF JobOK, Job, Stages
<1>4. Formed(k)
  BY <1>1, <1>2, <1>3 DEF Formed, Left, Building, RestOf
<1>5. \A x \in S : /\ Written(w, x) \in Record /\ Written(w, x).status = j.writes[x].status
                   /\ j.act = None \/ x = j.act.id => Written(w, x).approved = j.writes[x].approved
  BY <1>1, WrittenType
<1> HIDE DEF k, j, S
<1>6. /\ job'[w] = k /\ Busy' = Busy /\ Jobs'
      /\ DOMAIN job' = Writers /\ (\A v \in Busy : JobOK(job[v]))'
  BY <1>1, <1>3, <1>4, MovedType DEF j
<1>7. /\ \A x \in S : db'[x] = Written(w, x) /\ db'[x] \in Record /\ Stored(x)' /\ db'[x].status = j.writes[x].status
      /\ \A x \in Ids \ S : db'[x] = db[x]
  BY <1>1, <1>2, <1>5, NoneAssumption DEF Stored
<1>8. /\ decisions' \in [Ids -> Actions \cup {None}]
      /\ \A x \in Ids \ S : decisions'[x] = decisions[x]
      /\ \A x \in Ids : j.act = None \/ x # j.act.id => decisions'[x] = decisions[x]
      /\ j.act # None => decisions'[j.act.id] = j.act.what
      /\ \A x \in Ids : decisions[x] # None => decisions'[x] # None
  BY <1>1, <1>2, MemoryAssumption, NoneAssumption DEF Inv, MemoryTypeOK
<1>9. MemoryTypeOK'
  <2>1. db' \in [Ids -> Record \cup {None}]
    BY <1>1, <1>5 DEF Inv, MemoryTypeOK
  <2>2. raced' \subseteq {Key[i] : i \in Ids}
    BY <1>1, <1>2 DEF Inv, MemoryTypeOK
  <2> QED
    BY <1>1, <1>6, <1>8, <2>1, <2>2 DEF Inv, MemoryTypeOK
<1>10. Lone'
  <2>1. SUFFICES ASSUME NEW v \in alone'
                 PROVE  Busy' = {v} /\ Fits(job[v])' /\ Holds(job[v])'
    BY DEF Lone
  <2>2. v = w /\ w \in alone /\ Busy = {w} /\ Fits(j)
    BY <1>1, <1>2 DEF Inv, Lone
  <2>3. S \subseteq Left(k)
    BY <1>1, <1>3, <2>2 DEF Fits, Left, S
  <2>4. Left(job[w])' = Left(k) /\ DOMAIN job'[w].writes = S /\ job'[w].writes = j.writes
    BY <1>3, <1>6 DEF Left, S
  <2>5. Keeps(job[w])'
    <3>1. j.items # None => S \cap Wrote(j) = {} /\ Wrote(j) \subseteq Ids
      <4>1. j.items # None => DOMAIN j.items \subseteq Ids
        BY <1>2, ItemsType
      <4> QED
        BY <1>1, <1>2, <4>1, WroteApart DEF S, Wrote
    <3>2. Keeps(j)
      BY <1>2, <2>2 DEF Holds
    <3> QED
      BY <1>1, <1>3, <1>6, <1>7, <3>1, <3>2, KeepsOn DEF j
  <2>7. Holds(job[w])'
    BY <1>3, <1>6, <1>7, <2>3, <2>4, <2>5 DEF Holds
  <2>6. Fits(job[w])'
    BY <1>3, <1>6 DEF Fits
  <2> QED
    BY <1>6, <2>2, <2>6, <2>7
<1>11. Known'
  BY <1>2, <1>7, <1>8 DEF Inv, Known, Stored
\* The keys of what is written are raced, or the writer is alone.
<1>12. CASE w \notin alone
  <2>1. raced \subseteq raced' /\ \A x \in Ids : Key[x] \notin raced' => x \notin S
    BY <1>1, <1>12
  <2>2. OneRulePerKey'
    <3>1. SUFFICES ASSUME NEW x \in Ids, NEW y \in Ids, Is(x, "permanent")', Is(y, "permanent")',
                          Key[x] = Key[y], x # y, Key[x] \notin raced'
                   PROVE  FALSE
      BY DEF OneRulePerKey
    <3>2. db'[x] = db[x] /\ db'[y] = db[y] /\ Key[x] \notin raced
      BY <2>1, <3>1, <1>7
    <3> QED
      BY <3>1, <3>2 DEF Inv, OneRulePerKey, Is, Stored
  <2>3. OnlyTheUserPromotes'
    <3>1. SUFFICES ASSUME NEW x \in Ids, Key[x] \notin raced'
                   PROVE  /\ Is(x, "permanent")' => decisions'[x] = "approve" /\ db'[x].approved > 0
                          /\ Stored(x)' /\ decisions'[x] = "approve" /\ ~Is(x, "permanent")'
                               => \E y \in Ids \ {x} : Key[y] = Key[x] /\ decisions'[y] # None
      BY DEF OnlyTheUserPromotes
    <3>2. db'[x] = db[x] /\ decisions'[x] = decisions[x] /\ Key[x] \notin raced
      BY <2>1, <3>1, <1>7, <1>8
    <3> QED
      BY <3>2, <1>8 DEF Inv, OnlyTheUserPromotes, Is, Stored
  <2> QED
    BY <1>9, <1>6, <1>10, <1>11, <2>2, <2>3 DEF Inv
\* An upsert leaves every approval as it was.
<1>13. CASE w \in alone /\ j.act = None
  <2>1. ASSUME NEW x \in Ids
        PROVE  /\ Is(x, "permanent")' <=> Is(x, "permanent")
               /\ Is(x, "permanent") => db'[x].approved = db[x].approved
    <3>1. CASE x \in S
      <4>1. UpsertFits(j)
        BY <1>1, <1>2, <1>13 DEF Fits
      <4>2. /\ Is(x, "permanent") <=> j.writes[x].status = "permanent"
            /\ Is(x, "permanent") => j.writes[x].approved = db[x].approved
        BY <3>1, <4>1 DEF UpsertFits, S
      <4>3. db'[x].approved = j.writes[x].approved
        BY <1>5, <1>7, <1>13, <3>1
      <4> QED
        BY <1>7, <3>1, <4>2, <4>3 DEF Is
    <3>2. CASE x \notin S
      BY <1>7, <3>2 DEF Is, Stored
    <3> QED
      BY <3>1, <3>2
  <2>2. \A x \in Ids : Stored(x)' /\ decisions[x] # None => Stored(x)
    BY DEF Inv, Known
  <2>3. decisions' = decisions /\ raced' = raced
    BY <1>1, <1>13
  <2>4. OneRulePerKey'
    BY <2>1, <2>3 DEF Inv, OneRulePerKey
  <2>5. OnlyTheUserPromotes'
    <3>1. SUFFICES ASSUME NEW x \in Ids, Key[x] \notin raced
                   PROVE  /\ Is(x, "permanent")' => decisions[x] = "approve" /\ db'[x].approved > 0
                          /\ Stored(x)' /\ decisions[x] = "approve" /\ ~Is(x, "permanent")'
                               => \E y \in Ids \ {x} : Key[y] = Key[x] /\ decisions[y] # None
      BY <2>3 DEF OnlyTheUserPromotes
    <3>2. "approve" # None
      BY NoneAssumption
    <3> QED
      BY <2>1, <2>2, <3>1, <3>2 DEF Inv, OnlyTheUserPromotes
  <2> QED
    BY <1>9, <1>6, <1>10, <1>11, <2>4, <2>5 DEF Inv
\* A decision writes its record and the rules it replaces.
<1>14. CASE w \in alone /\ j.act # None
  <2>0. PICK i \in S, a \in Actions : i = j.act.id /\ a = j.act.what
    BY <1>2, <1>14
  <2>1. /\ db'[i].status = NextStatus[a]
        /\ a = "approve" => Rivals(i) \subseteq S /\ db'[i].approved > 0
        /\ \A x \in S \ {i} : db'[x].status = "archived" /\ Key[x] = Key[i]
    BY <1>1, <1>2, <1>5, <1>7, <1>14, <2>0 DEF Fits, DecisionFits, S
  <2>2. raced' = raced /\ decisions'[i] = a /\ \A x \in Ids \ {i} : decisions'[x] = decisions[x]
    BY <1>1, <1>8, <1>14, <2>0
  <2>3. a # None /\ i \in Ids
    BY <1>2, MemoryAssumption, NoneAssumption
  <2>4. Is(i, "permanent")' <=> a = "approve"
    BY <1>7, <2>1, StatusType DEF Is
  <2>5. \A x \in S \ {i} : ~Is(x, "permanent")'
    BY <2>1 DEF Is
  <2>6. \A x \in Ids \ S : Is(x, "permanent")' <=> Is(x, "permanent")
    BY <1>7 DEF Is, Stored
  <2>7. OneRulePerKey'
    <3>1. SUFFICES ASSUME NEW x \in Ids, NEW y \in Ids, Is(x, "permanent")', Is(y, "permanent")',
                          Key[x] = Key[y], x # y, Key[x] \notin raced
                   PROVE  FALSE
      BY <2>2 DEF OneRulePerKey
    <3>2. x \in {i} \cup (Ids \ S) /\ y \in {i} \cup (Ids \ S)
      BY <2>5, <3>1
    <3>3. CASE x \notin S /\ y \notin S
      BY <2>6, <3>1, <3>3 DEF Inv, OneRulePerKey
    <3>4. CASE x = i
      <4>1. y \notin S /\ Is(y, "permanent") /\ a = "approve"
        BY <2>4, <2>6, <3>1, <3>2, <3>4
      <4>2. y \in Rivals(i)
        BY <4>1, <3>1, <3>4 DEF Rivals
      <4> QED
        BY <2>1, <4>1, <4>2
    <3>5. CASE y = i
      <4>1. x \notin S /\ Is(x, "permanent") /\ a = "approve"
        BY <2>4, <2>6, <3>1, <3>2, <3>5
      <4>2. x \in Rivals(i)
        BY <4>1, <3>1, <3>5 DEF Rivals
      <4> QED
        BY <2>1, <4>1, <4>2
    <3> QED
      BY <3>2, <3>3, <3>4, <3>5
  <2>8. OnlyTheUserPromotes'
    <3>1. SUFFICES ASSUME NEW x \in Ids, Key[x] \notin raced
                   PROVE  /\ Is(x, "permanent")' => decisions'[x] = "approve" /\ db'[x].approved > 0
                          /\ Stored(x)' /\ decisions'[x] = "approve" /\ ~Is(x, "permanent")'
                               => \E y \in Ids \ {x} : Key[y] = Key[x] /\ decisions'[y] # None
      BY <2>2 DEF OnlyTheUserPromotes
    <3>2. CASE x = i
      BY <2>1, <2>2, <2>4, <3>2
    <3>3. CASE x \in S /\ x # i
      BY <2>1, <2>2, <2>3, <2>5, <3>3
    <3>4. CASE x \notin S
      <4>1. decisions'[x] = decisions[x] /\ db'[x] = db[x]
        BY <1>7, <1>8, <3>4
      <4> QED
        BY <1>8, <3>1, <4>1 DEF Inv, OnlyTheUserPromotes, Is, Stored
    <3> QED
      BY <3>2, <3>3, <3>4
  <2> QED
    BY <1>9, <1>6, <1>10, <1>11, <2>7, <2>8 DEF Inv
<1> QED
  BY <1>12, <1>13, <1>14

\* The steps after the commit leave the table as it is.
LEMMA TableKept ==
  ASSUME UNCHANGED <<db, decisions, raced>>
  PROVE  Known /\ OneRulePerKey /\ OnlyTheUserPromotes => (Known /\ OneRulePerKey /\ OnlyTheUserPromotes)'
  BY DEF Known, OneRulePerKey, OnlyTheUserPromotes, Is, Stored

LEMMA SyncIndexInv ==
  ASSUME Inv, NEW w \in Writers, SyncIndex(w)
  PROVE  Inv'
<1> DEFINE j == job[w]
           i == Head(j.todo)
           rest == Tail(j.todo)
           k == [j EXCEPT !.todo = rest, !.stage = IF rest = <<>> THEN "mirror" ELSE "index"]
           S == DOMAIN j.writes
<1>1. /\ j # None /\ j.stage = "index"
      /\ index' = IF j.writes[i].status \in Active THEN index \cup {i} ELSE index \ {i}
      /\ job' = [job EXCEPT ![w] = k]
      /\ UNCHANGED <<db, decisions, mirror, themes, today, jobs, alone, raced>>
  BY DEF SyncIndex, Inv, MemoryTypeOK
<1>2. /\ w \in Busy /\ JobOK(j) /\ Formed(j)
      /\ S \subseteq Ids /\ j.writes \in [S -> Record] /\ j.todo \in Seq(Ids)
      /\ w \in alone => alone = {w} /\ Busy = {w} /\ Fits(j) /\ Holds(j)
  BY <1>1, JobType
<1>3. j.todo # <<>>
  BY <1>1, <1>2 DEF Formed
<1>4. /\ i \in Ids /\ rest \in Seq(Ids) /\ Len(rest) = Len(j.todo) - 1 /\ Len(j.todo) \in Nat \ {0}
      /\ i = j.todo[1] /\ \A n \in 1 .. Len(rest) : rest[n] = j.todo[n + 1]
  BY <1>2, <1>3
<1>5. Left(j) = {i} \cup {rest[n] : n \in 1 .. Len(rest)}
  <2> DEFINE t == j.todo
  <2>1. t[1] = i /\ 1 \in 1 .. Len(t)
    BY <1>4
  <2>2. ASSUME NEW n \in 1 .. Len(rest)
        PROVE  n + 1 \in 1 .. Len(t) /\ t[n + 1] = rest[n]
    BY <1>4
  <2>3. ASSUME NEW n \in 1 .. Len(t), n # 1
        PROVE  n - 1 \in 1 .. Len(rest) /\ t[n] = rest[n - 1]
    BY <1>4, <2>3
  <2>4. Left(j) = {t[n] : n \in 1 .. Len(t)}
    BY DEF Left
  <2> HIDE DEF t, i, rest
  <2>5. {t[n] : n \in 1 .. Len(t)} \subseteq {i} \cup {rest[n] : n \in 1 .. Len(rest)}
    BY <2>1, <2>3
  <2>6. {i} \cup {rest[n] : n \in 1 .. Len(rest)} \subseteq {t[n] : n \in 1 .. Len(t)}
    BY <2>1, <2>2
  <2> QED
    BY <2>4, <2>5, <2>6
<1>6. i \in S
  BY <1>2, <1>5 DEF Formed
<1>7. /\ k.stage \in Stages /\ k.stage # "commit" /\ k.stage # "dump"
      /\ k.stage = "index" <=> k.todo # <<>>
      /\ k.writes = j.writes /\ k.todo = rest /\ k.act = j.act /\ k.seen = j.seen
      /\ k.stage # "next" /\ k.items = j.items /\ k.rest = j.rest
      /\ JobOK(k)
  BY <1>2, <1>4 DEF JobOK, Job, Stages
<1>8. Formed(k)
  BY <1>1, <1>2, <1>5, <1>7 DEF Formed, Left, Building, RestOf
<1> HIDE DEF k, j, S, i, rest
<1>9. /\ job'[w] = k /\ Busy' = Busy /\ Jobs'
      /\ DOMAIN job' = Writers /\ (\A v \in Busy : JobOK(job[v]))'
  BY <1>1, <1>7, <1>8, MovedType DEF j
<1>10. MemoryTypeOK'
  BY <1>1, <1>4, <1>9 DEF Inv, MemoryTypeOK
<1>11. Lone'
  <2>1. SUFFICES ASSUME NEW v \in alone'
                 PROVE  Busy' = {v} /\ Fits(job[v])' /\ Holds(job[v])'
    BY DEF Lone
  <2>2. v = w /\ w \in alone /\ Busy = {w} /\ Holds(j)
    BY <1>1, <1>2 DEF Inv, Lone
  <2>3. Left(job[w])' = {rest[n] : n \in 1 .. Len(rest)}
    BY <1>7, <1>9 DEF Left
  <2>4. ASSUME NEW x \in S
        PROVE  /\ Stored(x)' /\ db'[x].status = j.writes[x].status
               /\ x \in Left(job[w])' \/ (x \in index' <=> db'[x].status \in Active)
    <3>1. /\ Stored(x) /\ db[x].status = j.writes[x].status
          /\ x \in Left(j) \/ (x \in index <=> db[x].status \in Active)
      BY <1>1, <2>2 DEF Holds, S
    <3>2. x # i => (x \in index' <=> x \in index)
      BY <1>1
    <3>3. x = i => (x \in index' <=> j.writes[x].status \in Active)
      BY <1>1
    <3> QED
      BY <1>1, <1>5, <2>3, <3>1, <3>2, <3>3 DEF Stored
  <2>5. Keeps(job[w])'
    <3>1. j.items # None => S \cap Wrote(j) = {}
      BY <1>1, <1>2, WroteApart DEF S
    <3>2. Keeps(j)
      BY <2>2 DEF Holds
    <3>3. \A x : x # i /\ x \in index => x \in index'
      BY <1>1
    <3> QED
      BY <1>1, <1>6, <1>7, <1>9, <3>1, <3>2, <3>3, KeepsOn DEF j
  <2>7. Holds(job[w])'
    BY <1>7, <1>9, <2>4, <2>5 DEF Holds, S, Active
  <2>6. Fits(job[w])'
    BY <1>7, <1>9 DEF Fits
  <2> QED
    BY <1>9, <2>2, <2>6, <2>7
<1> QED
  BY <1>1, <1>9, <1>10, <1>11, TableKept DEF Inv

LEMMA ReadForMirrorsInv ==
  ASSUME Inv, NEW w \in Writers, ReadForMirrors(w)
  PROVE  Inv'
<1> DEFINE j == job[w]
           k == [j EXCEPT !.stage = "dump", !.seen = Shown]
<1>1. /\ j # None /\ j.stage = "mirror"
      /\ job' = [job EXCEPT ![w] = k]
      /\ UNCHANGED <<db, decisions, index, mirror, themes, today, jobs, alone, raced>>
  BY DEF ReadForMirrors, Inv, MemoryTypeOK
<1>2. /\ w \in Busy /\ JobOK(j) /\ Formed(j)
      /\ w \in alone => alone = {w} /\ Busy = {w} /\ Fits(j) /\ Holds(j)
  BY <1>1, JobType
<1>3. Shown \in [Ids -> Status \cup {None}]
  BY DEF Inv, MemoryTypeOK, Shown, Stored, Record
<1>4. /\ k.stage = "dump" /\ k.writes = j.writes /\ k.todo = j.todo /\ k.act = j.act /\ k.seen = Shown
      /\ k.items = j.items /\ k.rest = j.rest /\ JobOK(k)
  BY <1>2, <1>3 DEF JobOK, Job, Stages
<1>5. Formed(k)
  BY <1>1, <1>2, <1>3, <1>4 DEF Formed, Left, Building, RestOf
<1> HIDE DEF k, j
<1>6. /\ job'[w] = k /\ Busy' = Busy /\ Jobs'
      /\ DOMAIN job' = Writers /\ (\A v \in Busy : JobOK(job[v]))'
  BY <1>1, <1>4, <1>5, MovedType DEF j
<1>7. MemoryTypeOK'
  BY <1>1, <1>6 DEF Inv, MemoryTypeOK
<1>8. Lone'
  <2>1. SUFFICES ASSUME NEW v \in alone'
                 PROVE  Busy' = {v} /\ Fits(job[v])' /\ Holds(job[v])'
    BY DEF Lone
  <2>2. v = w /\ Busy = {w} /\ Holds(j)
    BY <1>1, <1>2 DEF Inv, Lone
  <2>3. Left(job[w])' = Left(j)
    BY <1>4, <1>6 DEF Left
  <2>4. Shown' = Shown
    BY <1>1 DEF Shown, Stored
  <2>5. Keeps(job[w])'
    <3>1. Keeps(j)
      BY <2>2 DEF Holds
    <3> QED
      BY <1>1, <1>4, <1>6, <3>1, KeepsOn DEF j
  <2>7. Holds(job[w])'
    BY <1>1, <1>4, <1>6, <2>2, <2>3, <2>4, <2>5 DEF Holds, Stored
  <2>6. Fits(job[w])'
    BY <1>4, <1>6 DEF Fits
  <2> QED
    BY <1>6, <2>2, <2>6, <2>7
<1> QED
  BY <1>1, <1>6, <1>7, <1>8, TableKept DEF Inv

\* A writer that ends or dies leaves the others as they are.
LEMMA LeaveInv ==
  ASSUME Inv, NEW w \in Writers, job[w] # None, Leave(w), mirror' \in [Ids -> Status \cup {None}],
         themes' \in [Themes -> Status \cup {None}], UNCHANGED <<db, decisions, index, today, jobs, raced>>
  PROVE  Inv'
<1>1. /\ job'[w] = None /\ (\A v \in Writers \ {w} : job'[v] = job[v]) /\ DOMAIN job' = Writers
      /\ alone' = alone \ {w}
  BY DEF Leave, Inv, MemoryTypeOK
<1>2. Busy' = Busy \ {w}
  BY <1>1 DEF Busy
<1>3. MemoryTypeOK'
  BY <1>1, <1>2 DEF Inv, MemoryTypeOK, Busy
<1>4. Jobs'
  BY <1>1, <1>2 DEF Inv, Jobs, Formed, Left, Building, RestOf, Busy
<1>5. Lone'
  BY <1>1 DEF Inv, Lone, Busy
<1> QED
  BY <1>3, <1>4, <1>5, TableKept DEF Inv

LEMMA WriteMirrorsInv ==
  ASSUME Inv, NEW w \in Writers, WriteMirrors(w)
  PROVE  Inv'
<1> DEFINE j == job[w]
           k == [j EXCEPT !.stage = "next", !.rest = Tail(@)]
<1>1. /\ j # None /\ j.stage = "dump" /\ mirror' = j.seen /\ themes' = OfThemes(j.seen)
      /\ UNCHANGED <<db, decisions, index, today, jobs, raced>>
  BY DEF WriteMirrors
<1>2. /\ w \in Busy /\ JobOK(j) /\ Formed(j) /\ j.rest \in Seq(Ids)
      /\ w \in alone => alone = {w} /\ Busy = {w} /\ Holds(j)
  BY <1>1, JobType
<1>3. mirror' \in [Ids -> Status \cup {None}] /\ themes' \in [Themes -> Status \cup {None}]
  BY <1>1, <1>2, MemoryAssumption DEF Formed, OfThemes
<1>4. CASE j.items = None
  BY <1>1, <1>3, <1>4, LeaveInv DEF WriteMirrors
<1>5. CASE j.items # None
  <2>1. job' = [job EXCEPT ![w] = k] /\ UNCHANGED alone
    BY <1>5 DEF WriteMirrors, Inv, MemoryTypeOK
  <2>2. /\ j.rest # <<>> /\ DOMAIN j.writes = {j.rest[1]} /\ j.act = None
        /\ j.writes[j.rest[1]].status \in {j.items[j.rest[1]], "permanent"}
        /\ RestOf(j) \subseteq DOMAIN j.items /\ j.todo = <<>>
    BY <1>1, <1>2, <1>5 DEF Formed, Building
  <2>3. /\ Tail(j.rest) \in Seq(Ids) /\ Len(Tail(j.rest)) = Len(j.rest) - 1 /\ Len(j.rest) \in Nat \ {0}
        /\ \A n \in 1 .. Len(Tail(j.rest)) : Tail(j.rest)[n] = j.rest[n + 1]
    BY <1>2, <2>2
  <2>4. /\ k.stage = "next" /\ k.writes = j.writes /\ k.todo = <<>> /\ k.act = None /\ k.items = j.items
        /\ k.rest = Tail(j.rest) /\ k.seen = j.seen /\ JobOK(k)
    BY <1>2, <2>2, <2>3 DEF JobOK, Job, Stages
  <2>5. RestOf(j) \subseteq {j.rest[1]} \cup RestOf(k) /\ RestOf(k) \subseteq RestOf(j) /\ j.rest[1] \in RestOf(j)
    <3>1. \A n \in 1 .. Len(j.rest) : n = 1 \/ (n - 1 \in 1 .. Len(Tail(j.rest)) /\ (n - 1) + 1 = n)
      BY <2>3
    <3>2. \A n \in 1 .. Len(Tail(j.rest)) : n + 1 \in 1 .. Len(j.rest)
      BY <2>3
    <3>3. 1 \in 1 .. Len(j.rest)
      BY <2>3
    <3>4. \A n \in 1 .. Len(j.rest) : n = 1 \/ j.rest[n] = Tail(j.rest)[n - 1]
      BY <2>3, <3>1
    <3> DEFINE r == j.rest
               q == Tail(j.rest)
    <3>5. RestOf(j) = {r[n] : n \in 1 .. Len(r)} /\ RestOf(k) = {q[n] : n \in 1 .. Len(q)}
      BY <2>4 DEF RestOf
    <3>6. /\ \A n \in 1 .. Len(r) : n = 1 \/ (n - 1 \in 1 .. Len(q) /\ r[n] = q[n - 1])
          /\ \A n \in 1 .. Len(q) : n + 1 \in 1 .. Len(r) /\ q[n] = r[n + 1]
          /\ 1 \in 1 .. Len(r) /\ Len(r) \in Nat /\ Len(q) \in Nat
      BY <2>3, <3>1, <3>2, <3>3, <3>4
    <3> HIDE DEF r, q
    <3>7. r[1] \in {r[n] : n \in 1 .. Len(r)}
      BY <3>6
    <3>8. {r[n] : n \in 1 .. Len(r)} \subseteq {r[1]} \cup {q[n] : n \in 1 .. Len(q)}
      <4>1. ASSUME NEW n \in 1 .. Len(r), n # 1
            PROVE  r[n] \in {q[m] : m \in 1 .. Len(q)}
        <5>1. n - 1 \in 1 .. Len(q) /\ r[n] = q[n - 1]
          BY <3>6, <4>1
        <5> QED
          BY <5>1
      <4> QED
        BY <4>1
    <3>9. {q[n] : n \in 1 .. Len(q)} \subseteq {r[n] : n \in 1 .. Len(r)}
      <4>1. ASSUME NEW n \in 1 .. Len(q)
            PROVE  q[n] \in {r[m] : m \in 1 .. Len(r)}
        <5>1. n + 1 \in 1 .. Len(r) /\ q[n] = r[n + 1]
          BY <3>6
        <5> QED
          BY <5>1
      <4> QED
        BY <4>1
    <3> QED
      BY <3>5, <3>7, <3>8, <3>9 DEF r
  <2>6. Formed(k)
    BY <1>2, <1>5, <2>2, <2>4, <2>5 DEF Formed, Left, Building
  <2>i. DOMAIN j.items \subseteq Ids /\ \A x \in DOMAIN j.items : j.items[x] \in Active
    BY <1>2, <1>5, ItemsType DEF Active
  <2> HIDE DEF k, j
  <2>7. /\ job'[w] = k /\ Busy' = Busy /\ Jobs'
        /\ DOMAIN job' = Writers /\ (\A v \in Busy : JobOK(job[v]))'
    BY <1>1, <2>1, <2>4, <2>6, MovedType DEF j
  <2>8. MemoryTypeOK'
    BY <1>1, <1>3, <2>1, <2>7 DEF Inv, MemoryTypeOK
  <2>9. Lone'
    <3>1. SUFFICES ASSUME NEW v \in alone'
                   PROVE  Busy' = {v} /\ Fits(job[v])' /\ Holds(job[v])'
      BY DEF Lone
    <3>2. v = w /\ Busy = {w} /\ Holds(j)
      BY <1>2, <2>1 DEF Inv, Lone
    <3>3. Shown' = Shown /\ j.seen = Shown
      BY <1>1, <3>2 DEF Shown, Stored, Holds
    <3>4. ASSUME NEW x \in DOMAIN j.writes
          PROVE  Stored(x)' /\ db'[x].status = j.writes[x].status /\ (x \in index' <=> db'[x].status \in Active)
      <4>1. Left(j) = {}
        BY <2>2 DEF Left
      <4> QED
        BY <1>1, <3>2, <4>1 DEF Holds, Stored
    <3>5. \A x \in Wrote(j) : Stored(x)' /\ x \in index' /\ db'[x].status \in {j.items[x], "permanent"}
      BY <1>1, <1>5, <3>2 DEF Holds, Keeps, Stored
    <3>6. Wrote(k) \subseteq Wrote(j) \cup {j.rest[1]} /\ Wrote(k) \subseteq DOMAIN j.items
      BY <2>4, <2>5 DEF Wrote
    <3>7. \A x \in Wrote(k) : Stored(x)' /\ x \in index' /\ db'[x].status \in {k.items[x], "permanent"}
      <4>1. j.rest[1] \in DOMAIN j.items => j.rest[1] \in index'
        BY <2>2, <2>i, <3>4 DEF Active
      <4>2. j.rest[1] \in DOMAIN j.writes
        BY <2>2
      <4> QED
        BY <2>2, <2>4, <3>4, <3>5, <3>6, <4>1, <4>2
    <3>8. Keeps(job[w])'
      BY <1>1, <2>4, <2>7, <3>3, <3>7 DEF Keeps, Wrote, RestOf
    <3>9. Holds(job[w])' /\ Fits(job[w])'
      BY <2>4, <2>7, <3>4, <3>8 DEF Holds, Fits
    <3> QED
      BY <2>7, <3>2, <3>9
  <2> QED
    BY <1>1, <2>7, <2>8, <2>9, TableKept DEF Inv
<1> QED
  BY <1>4, <1>5

\* A builder reads the table for its next record.
LEMMA DeriveInv ==
  ASSUME Inv, NEW w \in Writers, Derive(w)
  PROVE  Inv'
<1> DEFINE j == job[w]
           i == Head(j.rest)
           u == Upserted(i, j.items[i], 0)
           k == [j EXCEPT !.stage = "commit", !.todo = <<i>>, !.writes = [x \in {i} |-> Upserted(x, j.items[x], 0)]]
<1>1. /\ j # None /\ j.stage = "next" /\ j.rest # <<>>
      /\ job' = [job EXCEPT ![w] = k]
      /\ UNCHANGED <<db, decisions, index, mirror, themes, today, jobs, alone, raced>>
  BY DEF Derive, Inv, MemoryTypeOK
<1>2. /\ w \in Busy /\ JobOK(j) /\ Formed(j) /\ j.rest \in Seq(Ids)
      /\ w \in alone => alone = {w} /\ Busy = {w} /\ Holds(j)
  BY <1>1, JobType
<1>3. /\ j.items # None /\ j.act = None /\ RestOf(j) \subseteq DOMAIN j.items
  BY <1>1, <1>2 DEF Formed, Building
<1>4. i = j.rest[1] /\ i \in RestOf(j) /\ i \in Ids
  <2>1. 1 \in 1 .. Len(j.rest) /\ i = j.rest[1] /\ i \in Ids
    BY <1>1, <1>2
  <2> QED
    BY <2>1 DEF RestOf
<1>5. j.items[i] \in {"candidate", "strategic"} /\ j.items[i] \in Status
  BY <1>2, <1>3, <1>4, ItemsType DEF Status, Active
<1>6. /\ u \in Record
      /\ Is(i, "permanent") <=> u.status = "permanent"
      /\ Is(i, "permanent") => u.approved = db[i].approved
  <2>1. 0 \in 0 .. today
    BY DEF Inv, MemoryTypeOK
  <2> QED
    BY <1>4, <1>5, <2>1, UpsertedType DEF Inv
<1>7. u.status \in {j.items[i], "permanent"}
  BY <1>5 DEF Upserted
<1>8. /\ k.stage = "commit" /\ k.todo = <<i>> /\ k.act = None /\ k.items = j.items /\ k.rest = j.rest
      /\ DOMAIN k.writes = {i} /\ k.writes[i] = u /\ k.writes \in [{i} -> Record]
  <2>1. k.writes = [x \in {i} |-> Upserted(x, j.items[x], 0)]
    BY <1>2 DEF JobOK, Job
  <2> HIDE DEF u
  <2>2. [x \in {i} |-> Upserted(x, j.items[x], 0)] = [x \in {i} |-> u]
    BY DEF u
  <2> QED
    BY <1>2, <1>3, <1>6, <2>1, <2>2 DEF JobOK, Job
<1>9. Left(k) = {i} /\ k.todo \in Seq(Ids) /\ k.todo # <<>>
  <2>1. Len(k.todo) = 1 /\ k.todo[1] = i
    BY <1>8
  <2> HIDE DEF k
  <2>2. Left(k) = {i}
    BY <2>1 DEF Left
  <2> QED
    BY <1>4, <1>8, <2>2
<1>10. JobOK(k)
  <2>1. DOMAIN [x \in {i} |-> Upserted(x, j.items[x], 0)] = {i}
    OBVIOUS
  <2>2. [x \in {i} |-> Upserted(x, j.items[x], 0)] \in [{i} -> Record]
    <3>1. \A x \in {i} : Upserted(x, j.items[x], 0) \in Record
      BY <1>6
    <3> QED
      BY <3>1
  <2>3. <<i>> \in Seq(Ids)
    BY <1>4
  <2> QED
    BY <1>2, <1>4, <2>1, <2>2, <2>3, Rewritten
<1>11. RestOf(k) = RestOf(j) /\ Wrote(k) = Wrote(j)
  BY <1>8 DEF RestOf, Wrote
<1> HIDE DEF k, j, i, u
<1>12. Formed(k)
  BY <1>1, <1>3, <1>4, <1>7, <1>8, <1>9, <1>11 DEF Formed, Building
<1>13. /\ job'[w] = k /\ Busy' = Busy /\ Jobs'
       /\ DOMAIN job' = Writers /\ (\A v \in Busy : JobOK(job[v]))'
  BY <1>1, <1>10, <1>12, MovedType DEF j
<1>14. MemoryTypeOK'
  BY <1>1, <1>13 DEF Inv, MemoryTypeOK
<1>15. Lone'
  <2>1. SUFFICES ASSUME NEW v \in alone'
                 PROVE  Busy' = {v} /\ Fits(job[v])' /\ Holds(job[v])'
    BY DEF Lone
  <2>2. v = w /\ Busy = {w} /\ Keeps(j)
    BY <1>1, <1>2 DEF Inv, Lone, Holds
  <2>3. UpsertFits(k) /\ DOMAIN k.writes \subseteq Left(k)
    BY <1>6, <1>8, <1>9 DEF UpsertFits
  <2>4. Fits(job[w])'
    <3>2. UpsertFits(job[w])'
      BY <1>1, <1>8, <1>13, <2>3 DEF UpsertFits, Is, Stored
    <3>3. (DOMAIN job[w].writes \subseteq Left(job[w]))'
      BY <1>13, <2>3 DEF Left
    <3> QED
      BY <1>8, <1>13, <3>2, <3>3 DEF Fits
  <2>5. Keeps(job[w])'
    BY <1>1, <1>8, <1>13, <2>2, KeepsOn DEF j
  <2>6. Holds(job[w])'
    BY <1>8, <1>13, <2>5 DEF Holds
  <2> QED
    BY <1>13, <2>2, <2>4, <2>6
<1> QED
  BY <1>1, <1>13, <1>14, <1>15, TableKept DEF Inv

LEMMA DumpItemsInv ==
  ASSUME Inv, NEW w \in Writers, DumpItems(w)
  PROVE  Inv'
<1>1. /\ job[w] # None /\ job[w].stage = "next"
      /\ themes' = [i \in Themes |-> IF i \in DOMAIN job[w].items THEN job[w].items[i] ELSE None]
  BY DEF DumpItems
<1>2. JobOK(job[w]) /\ job[w].items # None
  BY <1>1, JobType DEF Formed, Building
<1>3. \A i \in DOMAIN job[w].items : job[w].items[i] \in Status
  BY <1>2, ItemsType DEF Status, Active
<1>4. themes' \in [Themes -> Status \cup {None}]
  BY <1>1, <1>3
<1> QED
  BY <1>1, <1>4, LeaveInv DEF DumpItems, Inv, MemoryTypeOK

LEMMA NewDayInv ==
  ASSUME Inv, NewDay
  PROVE  Inv'
<1>1. today' \in 1 .. MaxDay /\ UNCHANGED <<db, decisions, index, mirror, themes, job, jobs, alone, raced>>
  BY MemoryAssumption DEF NewDay, Inv, MemoryTypeOK
<1>2. MemoryTypeOK'
  BY <1>1 DEF Inv, MemoryTypeOK, Busy
<1>3. Jobs' /\ Lone'
  BY <1>1 DEF Inv, Jobs, Lone, Busy, Formed, Left, Building, RestOf, Wrote, Fits, UpsertFits,
              DecisionFits, Rivals, Holds, Keeps, Shown, Is, Stored
<1> QED
  BY <1>1, <1>2, <1>3, TableKept DEF Inv

-------------------------------------------------------------------------------
(***************************************************************************)
(* The theorems.                                                            *)
(***************************************************************************)
LEMMA InitInv == Init => Inv
<1> SUFFICES ASSUME Init PROVE Inv
  OBVIOUS
<1>1. Busy = {} /\ \A i \in Ids : db[i] = None
  BY DEF Init, Busy
<1>2. MemoryTypeOK
  BY <1>1, MemoryAssumption DEF Init, MemoryTypeOK
<1> QED
  BY <1>1, <1>2 DEF Init, Inv, Jobs, Lone, Known, OneRulePerKey, OnlyTheUserPromotes, Is, Stored

LEMMA NextInv == Inv /\ [Next]_memory => Inv'
<1> SUFFICES ASSUME Inv, [Next]_memory PROVE Inv'
  OBVIOUS
<1>1. CASE Upsert
  <2>1. PICK w \in Writers, i \in Ids, s \in Derived, from \in 0 .. today : StartUpsert(w, i, s, from)
    BY <1>1 DEF Upsert
  <2> QED
    BY <2>1, UpsertBegins, BeginInv DEF Inv
<1>2. CASE Decide
  <2>1. PICK w \in Writers, i \in Ids, a \in Actions : StartDecision(w, i, a)
    BY <1>2 DEF Decide
  <2> QED
    BY <2>1, DecisionBegins, BeginInv DEF Inv
<1>3. CASE Step
  BY <1>3, CommitInv, SyncIndexInv, ReadForMirrorsInv, WriteMirrorsInv,
     DeriveInv, DumpItemsInv DEF Step
<1>4. CASE Fail
  <2>1. PICK w \in Writers : Die(w)
    BY <1>4 DEF Fail
  <2> QED
    BY <2>1, LeaveInv DEF Die, Inv, MemoryTypeOK
<1>5. CASE NewDay
  BY <1>5, NewDayInv
<1>6. CASE UNCHANGED memory
  BY <1>6 DEF memory, Inv, MemoryTypeOK, Jobs, Lone, Known, OneRulePerKey, OnlyTheUserPromotes, Busy, Formed,
              Left, Building, RestOf, Wrote, Fits, UpsertFits, DecisionFits, Rivals, Holds, Keeps, Shown,
              Is, Stored
<1>7. CASE Build
  <2>1. PICK w \in Writers, S \in SUBSET Themes :
          \E items \in [S -> Proposals] : \E order \in [1 .. Cardinality(S) -> S] :
            {order[n] : n \in DOMAIN order} = S /\ StartBuild(w, items, order)
    BY <1>7 DEF Build
  <2>2. PICK items \in [S -> Proposals], order \in [1 .. Cardinality(S) -> S] :
          {order[n] : n \in DOMAIN order} = S /\ StartBuild(w, items, order)
    BY <2>1
  <2> QED
    BY <2>2, BuildBegins, BeginInv DEF Inv
<1> QED
  BY <1>1, <1>2, <1>3, <1>4, <1>5, <1>6, <1>7 DEF Next

\* Two approved rules speak of the same thing only where writers met, and
\* what is in force is what the user approved and did not take back
\* (approve_memory, upsert_memory_records), for any number of records,
\* writers and writes.
THEOREM RulesAreTheUsers == Spec => []MemoryIsSound
<1>1. Inv => MemoryIsSound
  BY DEF Inv, MemoryIsSound
<1> QED
  BY <1>1, InitInv, NextInv, PTL DEF Spec

\* A write that meets no other leaves the index right about all it wrote and
\* the mirrors equal to the table, however many writes died half-way before it
\* (sync_search_index, sync_json_mirrors).  A builder that meets no other ends
\* with all it derived indexed and the other mirrors right, and in the mirror of
\* its own domain with its proposals, wrong only about approved records
\* (build_market_memory, build_execution_memory).
THEOREM LoneWriteHeals == Spec => AloneHeals
<1> DEFINE Mirrored(w) ==
             /\ mirror' = Shown /\ themes' = OfThemes(Shown)
             /\ \A i \in DOMAIN job[w].writes : i \in index <=> db[i].status \in Active
           Dumped(w) ==
             /\ DOMAIN job[w].items # {} => mirror = Shown
             /\ \A i \in DOMAIN job[w].items :
                  /\ i \in index
                  /\ themes'[i] # Shown[i] => Is(i, "permanent")
           Heals ==
             \A w \in alone :
               /\ WriteMirrors(w) =>
                    /\ mirror' = Shown /\ themes' = OfThemes(Shown)
                    /\ \A i \in DOMAIN job[w].writes : i \in index <=> db[i].status \in Active
               /\ DumpItems(w) =>
                    /\ DOMAIN job[w].items # {} => mirror = Shown
                    /\ \A i \in DOMAIN job[w].items :
                         /\ i \in index
                         /\ themes'[i] # Shown[i] => Is(i, "permanent")
<1>1. ASSUME Inv, NEW w \in alone, WriteMirrors(w)
      PROVE  Mirrored(w)
  <2>1. /\ w \in Writers /\ job[w] # None /\ job[w].stage = "dump" /\ mirror' = job[w].seen
        /\ themes' = OfThemes(job[w].seen)
    BY <1>1 DEF WriteMirrors, Inv, MemoryTypeOK, Busy
  <2>2. Formed(job[w]) /\ Holds(job[w]) /\ job[w].todo \in Seq(Ids)
    BY <1>1, <2>1, JobType
  <2>3. Left(job[w]) = {}
    BY <2>1, <2>2 DEF Formed, Left
  <2> QED
    BY <2>1, <2>2, <2>3 DEF Holds
<1>2. ASSUME Inv, NEW w \in alone, DumpItems(w)
      PROVE  Dumped(w)
  <2>1. /\ w \in Writers /\ job[w] # None /\ job[w].stage = "next" /\ job[w].rest = <<>>
        /\ themes' = [i \in Themes |-> IF i \in DOMAIN job[w].items THEN job[w].items[i] ELSE None]
    BY <1>2 DEF DumpItems, Inv, MemoryTypeOK, Busy
  <2>2. JobOK(job[w]) /\ Formed(job[w]) /\ Holds(job[w])
    BY <1>2, <2>1, JobType
  <2>3. job[w].items # None /\ DOMAIN job[w].items \subseteq Themes
    BY <2>1, <2>2, ItemsType DEF Formed, Building
  <2>4. Wrote(job[w]) = DOMAIN job[w].items
    BY <2>1 DEF Wrote, RestOf
  <2>5. /\ DOMAIN job[w].items # {} => mirror = Shown
        /\ \A x \in DOMAIN job[w].items :
             Stored(x) /\ x \in index /\ db[x].status \in {job[w].items[x], "permanent"}
    BY <2>1, <2>2, <2>3, <2>4 DEF Holds, Keeps
  <2>6. ASSUME NEW i \in DOMAIN job[w].items, themes'[i] # Shown[i]
        PROVE  Is(i, "permanent")
    <3>1. i \in Ids /\ i \in Themes
      BY <2>3, MemoryAssumption
    <3>2. themes'[i] = job[w].items[i] /\ Shown[i] = db[i].status
      BY <2>1, <2>5, <3>1 DEF Shown
    <3> QED
      BY <2>5, <2>6, <3>2 DEF Is
  <2> QED
    BY <2>5, <2>6
<1>3. Inv /\ [Next]_memory => [Heals]_memory
  BY <1>1, <1>2
<1> HIDE DEF Heals
<1>4. Spec => [][Heals]_memory
  BY <1>3, InitInv, NextInv, PTL DEF Spec
<1> QED
  BY <1>4 DEF AloneHeals, Heals

-------------------------------------------------------------------------------
(***************************************************************************)
(* The index.                                                               *)
(***************************************************************************)
\* The documents a scope may have.
Kind(s) == IF s = "memory" THEN Ids ELSE Pieces

\* What an undated document says was written no later than it claims to be of.
Timely(c) == c \in Content /\ (c.from = 0 => c.text <= c.asOf)

AnyBundle == [scope: Scopes, ok: BOOLEAN, docs: UNION {[S -> Content] : S \in SUBSET Docs}]

Collected(b) ==
  /\ b \in AnyBundle
  /\ DOMAIN b.docs \subseteq Kind(b.scope)
  /\ \A d \in DOMAIN b.docs : Timely(b.docs[d])

InTodo(t) == {t[n] : n \in 1 .. Len(t)}

\* The memory and the sources as an ingest finds them.
Aged == \A i \in Ids : Stored(i) => db[i].text <= db[i].updated /\ db[i].updated <= today

IngestTypeOK ==
  /\ context \in [Dates -> {None} \cup SUBSET Pieces]
  /\ fresh \subseteq Scopes
  /\ ingest # None =>
       /\ ingest = [todo |-> ingest.todo, stage |-> ingest.stage, alone |-> ingest.alone]
       /\ ingest.stage \in {"documents", "chunks", "tombstones", "manifest"}
       /\ ingest.todo \in Seq(AnyBundle) /\ ingest.todo # <<>>
       /\ \A b \in InTodo(ingest.todo) : Collected(b)

\* A document is of a scope of its kind.
Placed == \A d \in Docs : docs[d] # None => d \in Kind(docs[d].scope)

\* The text of a chunk is no newer than the record, than what an ingest has
\* still to write of it, and than what its document claims to be of.
OlderChunks ==
  \A i \in Ids : chunks[i] # None =>
    /\ Stored(i) /\ chunks[i].text <= db[i].text
    /\ docs[i] # None /\ docs[i].says.from = 0 => chunks[i].text <= docs[i].says.asOf

OlderIn(t) ==
  \A b \in t : \A i \in Ids \cap DOMAIN b.docs :
    /\ Stored(i) /\ b.docs[i].text <= db[i].text
    /\ chunks[i] # None => chunks[i].text <= b.docs[i].text
    /\ \A c \in t : i \in DOMAIN c.docs => c.docs[i].text = b.docs[i].text

Older == OlderChunks /\ (ingest # None => OlderIn(InTodo(ingest.todo)))

\* How far the ingest is with the bundle b.
Progress(b, stage, alone_) ==
  /\ stage # "documents" =>
       /\ b.scope \notin fresh
       /\ \A d \in DOMAIN b.docs :
            /\ docs[d] # None /\ docs[d].scope = b.scope /\ docs[d].says = b.docs[d]
            /\ alone_ => docs[d].active
  /\ stage \in {"tombstones", "manifest"} =>
       \A d \in DOMAIN b.docs :
         /\ chunks[d] # None /\ chunks[d].scope = b.scope
         /\ alone_ => chunks[d].active
  /\ stage = "manifest" =>
       \A d \in Docs \ DOMAIN b.docs : docs[d] # None /\ docs[d].scope = b.scope => ~docs[d].active

Underway == ingest # None => Progress(Head(ingest.todo), ingest.stage, ingest.alone)

\* The index agrees with the source of the scope s.
Agrees(s) ==
  /\ manifest[s] # None
  /\ \A d \in DOMAIN Source(s) :
       /\ docs[d] # None /\ d \in manifest[s]
       /\ docs[d].scope = s =>
            /\ docs[d].active /\ docs[d].says = Source(s)[d]
            /\ chunks[d] # None /\ chunks[d].scope = s /\ chunks[d].active
  /\ \A d \in Docs \ DOMAIN Source(s) : docs[d] # None /\ docs[d].scope = s => ~docs[d].active

IndexInv ==
  /\ MemoryTypeOK /\ Aged
  /\ IndexTypeOK /\ IngestTypeOK /\ Placed /\ Older /\ Underway
  /\ \A s \in fresh : Agrees(s)

\* Parts of a sequence of bundles.
LEMMA TodoParts ==
  ASSUME NEW S, NEW t \in Seq(S), t # <<>>
  PROVE  /\ Head(t) \in InTodo(t) /\ Head(t) \in S
         /\ Tail(t) \in Seq(S) /\ InTodo(Tail(t)) \subseteq InTodo(t)
<1>1. Len(t) \in Nat \ {0} /\ Head(t) = t[1]
  BY EmptySeq
<1>2. Tail(t) \in Seq(S) /\ Len(Tail(t)) = Len(t) - 1 /\ \A n \in 1 .. Len(t) - 1 : Tail(t)[n] = t[n + 1]
  BY <1>1
<1>3. t[1] \in S
  BY <1>1
<1>4. InTodo(Tail(t)) \subseteq InTodo(t)
  <2> SUFFICES ASSUME NEW n \in 1 .. Len(t) - 1 PROVE Tail(t)[n] \in InTodo(t)
    BY <1>2 DEF InTodo
  <2>1. n + 1 \in 1 .. Len(t)
    BY <1>1
  <2> QED
    BY <1>2, <2>1 DEF InTodo
<1> QED
  BY <1>1, <1>2, <1>3, <1>4 DEF InTodo

\* What a source holds is of its scope, and says when it was written.
LEMMA SourceType ==
  ASSUME MemoryTypeOK, Aged, IngestTypeOK, NEW s \in Scopes
  PROVE  /\ Source(s) \in [DOMAIN Source(s) -> Content]
         /\ DOMAIN Source(s) \subseteq Kind(s)
         /\ \A d \in DOMAIN Source(s) : Timely(Source(s)[d])
         /\ s = "memory" => \A i \in DOMAIN Source(s) : Stored(i) /\ Source(s)[i].text = db[i].text
<1>1. CASE s = "memory"
  <2>1. Source(s) = [i \in {x \in Ids : Stored(x)} |-> OfRecord(i)]
    BY <1>1 DEF Source
  <2>2. ASSUME NEW i \in Ids, Stored(i)
        PROVE  Timely(OfRecord(i)) /\ OfRecord(i).text = db[i].text
    <3>1. db[i] \in Record
      BY <2>2 DEF MemoryTypeOK, Stored
    <3>2. db[i].text <= db[i].updated
      BY <2>2 DEF Aged
    <3> QED
      BY <3>1, <3>2 DEF OfRecord, Timely, Content, Record
  <2> QED
    BY <1>1, <2>1, <2>2 DEF Kind, Timely
<1>2. CASE s # "memory"
  <2> DEFINE P == IF context[s] = None THEN {} ELSE context[s]
  <2>1. Source(s) = [p \in P |-> OfPiece(p)]
    BY <1>2 DEF Source
  <2>2. P \subseteq Pieces
    BY <1>2 DEF IngestTypeOK, Scopes
  <2>3. ASSUME NEW p \in Pieces PROVE Timely(OfPiece(p))
    <3>1. DateOf[p] \in Days /\ 0 \in Days /\ DateOf[p] \in Nat
      BY RagAssumption, MemoryAssumption DEF Days
    <3> QED
      BY <3>1 DEF OfPiece, Timely, Content, Status, Active
  <2> HIDE DEF P
  <2> QED
    BY <1>2, <2>1, <2>2, <2>3 DEF Kind, Timely
<1> QED
  BY <1>1, <1>2

LEMMA MemoryKept ==
  ASSUME MemoryTypeOK, Aged, UNCHANGED memory
  PROVE  MemoryTypeOK' /\ Aged'
BY DEF memory, MemoryTypeOK, Aged, Busy, Stored

LEMMA SourceKept ==
  ASSUME UNCHANGED <<db, context>>
  PROVE  \A s : Source(s)' = Source(s)
BY DEF Source, OfRecord, OfPiece, Stored

\* An ingest starts with what its sources hold, all of it as it is now.
LEMMA StartIngestInv ==
  ASSUME IndexInv, UNCHANGED memory, NEW plan \in Plans, NEW failed, StartIngest(plan, failed)
  PROVE  IndexInv'
<1> DEFINE t == Bundles(plan, failed)
           Of(n) == [scope |-> plan[n], ok |-> n \notin failed,
                     docs |-> IF n \in failed THEN [d \in {} |-> None] ELSE Source(plan[n])]
<1>0. /\ ingest' = [todo |-> t, stage |-> "documents", alone |-> TRUE]
      /\ UNCHANGED <<db, today, context, docs, chunks, manifest, fresh>>
  BY DEF StartIngest, memory
<1>1. plan \in Seq(Scopes) /\ plan # <<>> /\ t = [n \in 1 .. Len(plan) |-> Of(n)]
  BY RagAssumption DEF Bundles
<1>2. ASSUME NEW n \in 1 .. Len(plan)
      PROVE  /\ Collected(Of(n))
             /\ \A i \in Ids \cap DOMAIN Of(n).docs : Stored(i) /\ Of(n).docs[i].text = db[i].text
  <2>1. plan[n] \in Scopes
    BY <1>1
  <2>2. CASE n \in failed
    <3>1. Of(n).docs = [d \in {} |-> None] /\ Of(n).scope = plan[n] /\ Of(n).ok \in BOOLEAN
      BY <2>2
    <3>2. [d \in {} |-> None] \in [{} -> Content] /\ {} \in SUBSET Docs
      OBVIOUS
    <3> QED
      BY <2>1, <2>2, <3>1, <3>2 DEF Collected, AnyBundle
  <2>3. CASE n \notin failed
    <3>1. Of(n) = [scope |-> plan[n], ok |-> TRUE, docs |-> Source(plan[n])]
      BY <2>3
    <3>2. /\ Source(plan[n]) \in [DOMAIN Source(plan[n]) -> Content]
          /\ DOMAIN Source(plan[n]) \subseteq Kind(plan[n])
          /\ \A d \in DOMAIN Source(plan[n]) : Timely(Source(plan[n])[d])
          /\ plan[n] = "memory" =>
               \A i \in DOMAIN Source(plan[n]) : Stored(i) /\ Source(plan[n])[i].text = db[i].text
      BY <2>1, SourceType DEF IndexInv
    <3>3. DOMAIN Source(plan[n]) \in SUBSET Docs
      BY <3>2 DEF Kind, Docs
    <3>4. plan[n] # "memory" => Ids \cap DOMAIN Source(plan[n]) = {}
      BY <3>2, RagAssumption DEF Kind
    <3>5. Of(n) \in AnyBundle
      BY <2>1, <3>1, <3>2, <3>3 DEF AnyBundle
    <3> QED
      BY <3>1, <3>2, <3>4, <3>5 DEF Collected
  <2> QED
    BY <2>2, <2>3
<1> HIDE DEF Of
<1>3. t \in Seq(AnyBundle) /\ t # <<>> /\ InTodo(t) = {Of(n) : n \in 1 .. Len(plan)}
  <2>1. Len(plan) \in Nat \ {0}
    BY <1>1, EmptySeq
  <2>2. \A n \in 1 .. Len(plan) : Of(n) \in AnyBundle
    BY <1>2 DEF Collected
  <2>3. t \in Seq(AnyBundle) /\ Len(t) = Len(plan)
    BY <1>1, <2>1, <2>2
  <2> QED
    BY <1>1, <2>1, <2>3 DEF InTodo
<1> HIDE DEF t
<1>4. MemoryTypeOK' /\ Aged'
  BY MemoryKept DEF IndexInv
<1>5. IndexTypeOK' /\ Placed' /\ \A s \in fresh' : Agrees(s)'
  BY <1>0, SourceKept DEF IndexInv, IndexTypeOK, ActiveManifests, Placed, Agrees
<1>6. ingest'.todo = t /\ ingest'.stage = "documents" /\ ingest'.alone = TRUE
      /\ ingest' = [todo |-> ingest'.todo, stage |-> ingest'.stage, alone |-> ingest'.alone]
  BY <1>0
<1>7. IngestTypeOK'
  <2>1. \A b \in InTodo(t) : Collected(b)
    BY <1>2, <1>3
  <2> QED
    BY <1>0, <1>3, <1>6, <2>1 DEF IndexInv, IngestTypeOK, Collected, Timely
<1>8. Older'
  <2>1. ASSUME NEW b \in InTodo(t), NEW i \in Ids \cap DOMAIN b.docs
        PROVE  Stored(i) /\ b.docs[i].text = db[i].text /\ db[i].text \in Nat
    <3>1. PICK n \in 1 .. Len(plan) : b = Of(n)
      BY <1>3
    <3>2. Stored(i) /\ b.docs[i].text = db[i].text
      BY <1>2, <3>1, <2>1
    <3>3. db[i] \in Record
      BY <3>2 DEF IndexInv, MemoryTypeOK, Stored
    <3> QED
      BY <3>2, <3>3, DaysType DEF Record
  <2>2. OlderIn(InTodo(t))
    BY <2>1 DEF IndexInv, Older, OlderChunks, OlderIn
  <2> QED
    BY <1>0, <1>6, <2>2 DEF IndexInv, Older, OlderChunks, OlderIn, Stored
<1>9. Underway'
  BY <1>6 DEF Underway, Progress
<1> QED
  BY <1>4, <1>5, <1>7, <1>8, <1>9 DEF IndexInv

\* What the steps of an ingest may use of it.
LEMMA IngestParts ==
  ASSUME IndexInv, ingest # None
  PROVE  /\ Bundle \in InTodo(ingest.todo) /\ Collected(Bundle) /\ Bundle.scope \in Scopes
         /\ DOMAIN Bundle.docs \subseteq Kind(Bundle.scope) /\ DOMAIN Bundle.docs \subseteq Docs
         /\ Bundle.docs \in [DOMAIN Bundle.docs -> Content]
         /\ Progress(Bundle, ingest.stage, ingest.alone)
<1>1. ingest.todo \in Seq(AnyBundle) /\ ingest.todo # <<>> /\ \A b \in InTodo(ingest.todo) : Collected(b)
  BY DEF IndexInv, IngestTypeOK
<1>2. Bundle \in InTodo(ingest.todo) /\ Collected(Bundle)
  BY <1>1, TodoParts DEF Bundle
<1>3. Bundle \in AnyBundle /\ DOMAIN Bundle.docs \subseteq Kind(Bundle.scope)
  BY <1>2 DEF Collected
<1>4. PICK S \in SUBSET Docs : Bundle.docs \in [S -> Content]
  BY <1>3 DEF AnyBundle
<1>5. Progress(Bundle, ingest.stage, ingest.alone)
  BY DEF IndexInv, Underway, Bundle
<1> QED
  BY <1>2, <1>3, <1>4, <1>5 DEF AnyBundle, Kind, Docs

LEMMA StageMoves ==
  ASSUME IndexInv, ingest # None, UNCHANGED <<memory, context>>, fresh' \subseteq fresh,
         NEW stage \in {"chunks", "tombstones", "manifest"}, ingest' = [ingest EXCEPT !.stage = stage]
  PROVE  /\ MemoryTypeOK' /\ Aged' /\ IngestTypeOK'
         /\ ingest'.todo = ingest.todo /\ ingest'.stage = stage /\ ingest'.alone = ingest.alone
         /\ db' = db /\ \A s : Source(s)' = Source(s)
<1>1. ingest = [todo |-> ingest.todo, stage |-> ingest.stage, alone |-> ingest.alone]
  BY DEF IndexInv, IngestTypeOK
<1>2. ingest' = [todo |-> ingest.todo, stage |-> stage, alone |-> ingest.alone]
  BY <1>1
<1>3. MemoryTypeOK' /\ Aged'
  BY MemoryKept DEF IndexInv
<1>4. ingest'.todo = ingest.todo /\ ingest'.stage = stage /\ ingest'.alone = ingest.alone
  BY <1>2
<1>5. IngestTypeOK'
  BY <1>2, <1>4 DEF IndexInv, IngestTypeOK, Collected, Timely
<1> QED
  BY <1>3, <1>4, <1>5, SourceKept DEF memory

\* Opening the store adds to active manifests documents there are.
LEMMA OpenedGrows ==
  ASSUME IndexTypeOK
  PROVE  /\ Opened \in [Scopes -> {None} \cup SUBSET Docs]
         /\ \A s \in Scopes : /\ Opened[s] = None <=> manifest[s] = None
                              /\ manifest[s] # None =>
                                   manifest[s] \subseteq Opened[s] /\ \A d \in Opened[s] : docs[d] # None
<1>1. ASSUME NEW s \in Scopes, manifest[s] # None
      PROVE  /\ Completed(s) \in SUBSET Docs /\ Completed(s) # None
             /\ manifest[s] \subseteq Completed(s) /\ \A d \in Completed(s) : docs[d] # None
  <2>1. OfKind(s) \subseteq Docs /\ EvidenceOf(s) \subseteq Docs
    BY RagAssumption DEF OfKind, EvidenceOf, Docs
  <2>2. manifest[s] \in SUBSET Docs /\ \A d \in manifest[s] : docs[d] # None
    BY <1>1 DEF IndexTypeOK, ActiveManifests
  <2>3. \A d \in Standing(OfKind(s)) \cup Standing(EvidenceOf(s)) : d \in Docs /\ docs[d] # None
    BY <2>1 DEF Standing
  <2>4. Completed(s) \in SUBSET Docs /\ \A d \in Completed(s) : docs[d] # None
    BY <2>2, <2>3 DEF Completed
  <2>5. manifest[s] \subseteq Completed(s)
    BY DEF Completed
  <2> QED
    BY <2>4, <2>5, NothingAssumption
<1>2. \A s \in Scopes : Opened[s] = IF manifest[s] = None THEN None ELSE Completed(s)
  BY DEF Opened
<1>3. Opened \in [Scopes -> {None} \cup SUBSET Docs]
  BY <1>1 DEF Opened
<1> QED
  BY <1>1, <1>2, <1>3

\* Where a call opened the store or did not, nothing else is new to the manifests.
LEMMA ManifestsGrow ==
  ASSUME IndexTypeOK, manifest' \in {manifest, Opened}
  PROVE  /\ manifest' \in [Scopes -> {None} \cup SUBSET Docs]
         /\ \A s \in Scopes : /\ manifest'[s] = None <=> manifest[s] = None
                              /\ manifest[s] # None =>
                                   manifest[s] \subseteq manifest'[s] /\ \A d \in manifest'[s] : docs[d] # None
<1>1. CASE manifest' = manifest
  BY <1>1 DEF IndexTypeOK, ActiveManifests
<1>2. CASE manifest' = Opened
  BY <1>2, OpenedGrows
<1> QED
  BY <1>1, <1>2

LEMMA UpsertDocumentsInv ==
  ASSUME IndexInv, UNCHANGED memory, UpsertDocuments
  PROVE  IndexInv'
<1>b. PICK b : b = Bundle
  OBVIOUS
<1>a. PICK a : a = ingest.alone
  OBVIOUS
<1> DEFINE New(d) == [scope |-> b.scope, active |-> TRUE, says |-> b.docs[d]]
<1>0. /\ ingest # None /\ ingest.stage = "documents"
      /\ docs' = [d \in Docs |-> IF d \in DOMAIN b.docs THEN New(d) ELSE docs[d]]
      /\ fresh' = fresh \ {b.scope}
      /\ ingest' = [ingest EXCEPT !.stage = "chunks"]
      /\ manifest' \in {manifest, Opened}
      /\ UNCHANGED <<context, chunks>>
  BY <1>b DEF UpsertDocuments, At
<1>m. /\ manifest' \in [Scopes -> {None} \cup SUBSET Docs]
      /\ \A s \in Scopes : /\ manifest'[s] = None <=> manifest[s] = None
                           /\ manifest[s] # None =>
                                manifest[s] \subseteq manifest'[s] /\ \A d \in manifest'[s] : docs[d] # None
  BY <1>0, ManifestsGrow DEF IndexInv
<1>1. /\ b \in InTodo(ingest.todo) /\ Collected(b) /\ b.scope \in Scopes
      /\ DOMAIN b.docs \subseteq Kind(b.scope) /\ DOMAIN b.docs \subseteq Docs
      /\ b.docs \in [DOMAIN b.docs -> Content]
  BY <1>0, <1>a, <1>b, IngestParts
<1>2. /\ MemoryTypeOK' /\ Aged' /\ IngestTypeOK'
      /\ ingest'.todo = ingest.todo /\ ingest'.stage = "chunks" /\ ingest'.alone = a
      /\ db' = db /\ \A s : Source(s)' = Source(s)
  BY <1>0, <1>a, StageMoves
<1>3. ASSUME NEW d \in DOMAIN b.docs
      PROVE  /\ New(d) \in Document /\ New(d) # None
             /\ New(d).scope = b.scope /\ New(d).active /\ New(d).says = b.docs[d]
  <2>1. b.docs[d] \in Content
    BY <1>1
  <2>2. New(d) \in Document
    BY <1>1, <2>1 DEF Document
  <2> QED
    BY <2>2, NothingAssumption
<1> HIDE DEF New
<1>4. /\ \A d \in DOMAIN b.docs : docs'[d] = New(d)
      /\ \A d \in Docs \ DOMAIN b.docs : docs'[d] = docs[d]
  BY <1>0, <1>1
<1>5. IndexTypeOK'
  <2>1. docs' \in [Docs -> {None} \cup Document] /\ \A d \in Docs : docs[d] # None => docs'[d] # None
    BY <1>0, <1>1, <1>3, <1>4 DEF IndexInv, IndexTypeOK
  <2> QED
    BY <1>0, <1>m, <2>1 DEF IndexInv, IndexTypeOK, ActiveManifests
<1>6. Placed'
  BY <1>1, <1>3, <1>4 DEF IndexInv, Placed
<1>7. Older'
  <2>1. ASSUME NEW i \in Ids, chunks[i] # None, docs'[i] # None, docs'[i].says.from = 0
        PROVE  chunks[i].text <= docs'[i].says.asOf
    <3>1. CASE i \in DOMAIN b.docs
      <4>1. docs'[i].says = b.docs[i] /\ Timely(b.docs[i])
        BY <1>1, <1>3, <1>4, <3>1 DEF Collected
      <4>2. b.docs[i].text <= b.docs[i].asOf
        BY <2>1, <4>1 DEF Timely
      <4>3. chunks[i].text <= b.docs[i].text
        BY <1>0, <1>1, <2>1, <3>1 DEF IndexInv, Older, OlderChunks, OlderIn
      <4>4. chunks[i].text \in Nat /\ b.docs[i].text \in Nat /\ b.docs[i].asOf \in Nat
        <5>1. i \in Docs
          BY DEF Docs
        <5>2. chunks[i] \in Chunk
          BY <2>1, <5>1 DEF IndexInv, IndexTypeOK
        <5> QED
          BY <4>1, <5>2, DaysType DEF Chunk, Timely, Content
      <4> QED
        BY <4>1, <4>2, <4>3, <4>4
    <3>2. CASE i \notin DOMAIN b.docs
      BY <1>4, <2>1, <3>2 DEF IndexInv, Older, OlderChunks, Docs
    <3> QED
      BY <3>1, <3>2
  <2>2. OlderChunks'
    BY <1>0, <1>2, <2>1 DEF IndexInv, Older, OlderChunks, Stored
  <2>3. OlderIn(InTodo(ingest.todo))'
    BY <1>0, <1>2 DEF IndexInv, Older, OlderIn, Stored
  <2> QED
    BY <2>2, <2>3 DEF Older
<1>8. Progress(b, "chunks", a)'
  BY <1>0, <1>3, <1>4 DEF Progress
<1>9. Underway'
  BY <1>2, <1>8, <1>b DEF Underway, Bundle, Progress
<1>10. ASSUME NEW s \in fresh' PROVE Agrees(s)'
  <2>1. s # b.scope /\ Agrees(s) /\ s \in Scopes
    BY <1>0, <1>10 DEF IndexInv, IngestTypeOK
  <2>2. DOMAIN Source(s) \subseteq Docs
    BY <2>1, SourceType DEF IndexInv, Kind, Docs
  <2> QED
    BY <1>0, <1>m, <1>2, <1>3, <1>4, <2>1, <2>2 DEF Agrees
<1> QED
  BY <1>2, <1>5, <1>6, <1>7, <1>9, <1>10 DEF IndexInv

LEMMA UpsertChunksInv ==
  ASSUME IndexInv, UNCHANGED memory, UpsertChunks
  PROVE  IndexInv'
<1>b. PICK b : b = Bundle
  OBVIOUS
<1>a. PICK a : a = ingest.alone
  OBVIOUS
<1> DEFINE New(d) == [scope |-> b.scope, active |-> TRUE, text |-> b.docs[d].text]
<1>0. /\ ingest # None /\ ingest.stage = "chunks"
      /\ chunks' = [d \in Docs |-> IF d \in DOMAIN b.docs THEN New(d) ELSE chunks[d]]
      /\ ingest' = [ingest EXCEPT !.stage = "tombstones"]
      /\ manifest' \in {manifest, Opened}
      /\ UNCHANGED <<context, docs, fresh>>
  BY <1>b DEF UpsertChunks, At
<1>m. /\ manifest' \in [Scopes -> {None} \cup SUBSET Docs]
      /\ \A s \in Scopes : /\ manifest'[s] = None <=> manifest[s] = None
                           /\ manifest[s] # None =>
                                manifest[s] \subseteq manifest'[s] /\ \A d \in manifest'[s] : docs[d] # None
  BY <1>0, ManifestsGrow DEF IndexInv
<1>1. /\ b \in InTodo(ingest.todo) /\ Collected(b) /\ b.scope \in Scopes
      /\ DOMAIN b.docs \subseteq Kind(b.scope) /\ DOMAIN b.docs \subseteq Docs
      /\ b.docs \in [DOMAIN b.docs -> Content]
      /\ Progress(b, ingest.stage, a)
  BY <1>0, <1>a, <1>b, IngestParts
<1>2. /\ MemoryTypeOK' /\ Aged' /\ IngestTypeOK'
      /\ ingest'.todo = ingest.todo /\ ingest'.stage = "tombstones" /\ ingest'.alone = a
      /\ db' = db /\ \A s : Source(s)' = Source(s)
  BY <1>0, <1>a, StageMoves
<1>3. ASSUME NEW d \in DOMAIN b.docs
      PROVE  /\ New(d) \in Chunk /\ New(d) # None
             /\ New(d).scope = b.scope /\ New(d).active /\ New(d).text = b.docs[d].text
  <2>1. b.docs[d] \in Content
    BY <1>1
  <2>2. New(d) \in Chunk
    BY <1>1, <2>1 DEF Chunk, Content
  <2> QED
    BY <2>2, NothingAssumption
<1> HIDE DEF New
<1>4. /\ \A d \in DOMAIN b.docs : chunks'[d] = New(d)
      /\ \A d \in Docs \ DOMAIN b.docs : chunks'[d] = chunks[d]
  BY <1>0, <1>1
<1>5. IndexTypeOK'
  <2>1. chunks' \in [Docs -> {None} \cup Chunk]
    BY <1>0, <1>1, <1>3, <1>4 DEF IndexInv, IndexTypeOK
  <2> QED
    BY <1>0, <1>m, <2>1 DEF IndexInv, IndexTypeOK, ActiveManifests
<1>6. Placed'
  BY <1>0 DEF IndexInv, Placed
<1>7. Older'
  <2>1. ASSUME NEW i \in Ids, chunks'[i] # None
        PROVE  /\ Stored(i) /\ chunks'[i].text <= db[i].text
               /\ docs[i] # None /\ docs[i].says.from = 0 => chunks'[i].text <= docs[i].says.asOf
               /\ \A c \in InTodo(ingest.todo) : i \in DOMAIN c.docs => chunks'[i].text <= c.docs[i].text
    <3>1. CASE i \in DOMAIN b.docs
      <4>1. chunks'[i].text = b.docs[i].text /\ docs[i].says = b.docs[i] /\ Timely(b.docs[i])
        BY <1>0, <1>1, <1>3, <1>4, <3>1 DEF Collected, Progress
      <4>2. Stored(i) /\ b.docs[i].text <= db[i].text
            /\ \A c \in InTodo(ingest.todo) : i \in DOMAIN c.docs => c.docs[i].text = b.docs[i].text
        BY <1>0, <1>1, <3>1 DEF IndexInv, Older, OlderChunks, OlderIn
      <4>3. b.docs[i].text \in Nat
        BY <4>1, DaysType DEF Timely, Content
      <4> QED
        BY <4>1, <4>2, <4>3 DEF Timely
    <3>2. CASE i \notin DOMAIN b.docs
      <4>1. chunks'[i] = chunks[i]
        BY <1>4, <3>2 DEF Docs
      <4> QED
        BY <1>0, <2>1, <4>1 DEF IndexInv, Older, OlderChunks, OlderIn
    <3> QED
      BY <3>1, <3>2
  <2>2. OlderChunks'
    BY <1>0, <1>2, <2>1 DEF OlderChunks, Stored
  <2>3. \A c \in InTodo(ingest.todo) : \A i \in Ids \cap DOMAIN c.docs :
           chunks'[i] # None => chunks'[i].text <= c.docs[i].text
    BY <2>1
  <2>4. OlderIn(InTodo(ingest.todo))
    BY <1>0 DEF IndexInv, Older
  <2>5. /\ InTodo(ingest'.todo) = InTodo(ingest.todo)
        /\ docs' = docs /\ db' = db
    BY <1>0, <1>2
  <2>6. OlderIn(InTodo(ingest.todo))'
    BY <2>3, <2>4, <2>5 DEF OlderIn, Stored
  <2> QED
    BY <2>2, <2>6 DEF Older
<1>8. Progress(b, "tombstones", a)'
  BY <1>0, <1>1, <1>3, <1>4 DEF Progress
<1>9. Underway'
  BY <1>2, <1>8, <1>b DEF Underway, Bundle, Progress
<1>10. ASSUME NEW s \in fresh' PROVE Agrees(s)'
  <2>1. s # b.scope /\ Agrees(s) /\ s \in Scopes
    BY <1>0, <1>1, <1>10 DEF IndexInv, IngestTypeOK, Progress
  <2>2. DOMAIN Source(s) \subseteq Docs
    BY <2>1, SourceType DEF IndexInv, Kind, Docs
  <2>3. \A d \in Docs : docs[d].scope = s => chunks'[d] = chunks[d]
    BY <1>0, <1>1, <1>4, <2>1 DEF Progress
  <2> QED
    BY <1>0, <1>m, <1>2, <2>1, <2>2, <2>3 DEF Agrees
<1> QED
  BY <1>2, <1>5, <1>6, <1>7, <1>9, <1>10 DEF IndexInv

LEMMA DeactivateInv ==
  ASSUME IndexInv, UNCHANGED memory, DeactivateMissingScope
  PROVE  IndexInv'
<1>b. PICK b : b = Bundle
  OBVIOUS
<1>a. PICK a : a = ingest.alone
  OBVIOUS
<1>0. /\ ingest # None /\ ingest.stage = "tombstones"
      /\ docs' = [d \in Docs |-> Buried(docs, d)]
      /\ chunks' = [d \in Docs |-> Buried(chunks, d)]
      /\ ingest' = [ingest EXCEPT !.stage = "manifest"]
      /\ manifest' \in {manifest, Opened}
      /\ UNCHANGED <<context, fresh>>
  BY DEF DeactivateMissingScope, At
<1>m. /\ manifest' \in [Scopes -> {None} \cup SUBSET Docs]
      /\ \A s \in Scopes : /\ manifest'[s] = None <=> manifest[s] = None
                           /\ manifest[s] # None =>
                                manifest[s] \subseteq manifest'[s] /\ \A d \in manifest'[s] : docs[d] # None
  BY <1>0, ManifestsGrow DEF IndexInv
<1>1. /\ b \in InTodo(ingest.todo) /\ Collected(b) /\ b.scope \in Scopes
      /\ DOMAIN b.docs \subseteq Kind(b.scope) /\ DOMAIN b.docs \subseteq Docs
      /\ Progress(b, ingest.stage, a)
  BY <1>0, <1>a, <1>b, IngestParts
<1>2. /\ MemoryTypeOK' /\ Aged' /\ IngestTypeOK'
      /\ ingest'.todo = ingest.todo /\ ingest'.stage = "manifest" /\ ingest'.alone = a
      /\ db' = db /\ \A s : Source(s)' = Source(s)
  BY <1>0, <1>a, StageMoves
<1>3. ASSUME NEW d \in Docs
      PROVE  /\ docs'[d] # None <=> docs[d] # None
             /\ docs'[d] # None => /\ docs'[d] \in Document /\ docs'[d].scope = docs[d].scope
                                   /\ docs'[d].says = docs[d].says
             /\ docs[d] # None /\ docs[d].scope = b.scope /\ d \notin DOMAIN b.docs => ~docs'[d].active
             /\ docs[d].scope # b.scope \/ d \in DOMAIN b.docs => docs'[d] = docs[d]
  <2>1. docs[d] \in {None} \cup Document /\ docs'[d] = Buried(docs, d)
    BY <1>0 DEF IndexInv, IndexTypeOK
  <2>2. CASE docs[d] # None /\ docs[d].scope = b.scope /\ d \notin DOMAIN b.docs
    <3>1. docs'[d] = [docs[d] EXCEPT !.active = FALSE] /\ docs[d] \in Document
      BY <1>b, <2>1, <2>2 DEF Buried
    <3>2. docs'[d] \in Document
      BY <3>1 DEF Document
    <3> QED
      BY <2>2, <3>1, <3>2, NothingAssumption DEF Document
  <2>3. CASE ~(docs[d] # None /\ docs[d].scope = b.scope /\ d \notin DOMAIN b.docs)
    BY <1>b, <2>1, <2>3 DEF Buried
  <2> QED
    BY <2>2, <2>3
<1>4. ASSUME NEW d \in Docs
      PROVE  /\ chunks'[d] # None <=> chunks[d] # None
             /\ chunks'[d] # None => /\ chunks'[d] \in Chunk /\ chunks'[d].scope = chunks[d].scope
                                     /\ chunks'[d].text = chunks[d].text
             /\ chunks[d].scope # b.scope \/ d \in DOMAIN b.docs => chunks'[d] = chunks[d]
  <2>1. chunks[d] \in {None} \cup Chunk /\ chunks'[d] = Buried(chunks, d)
    BY <1>0 DEF IndexInv, IndexTypeOK
  <2>2. CASE chunks[d] # None /\ chunks[d].scope = b.scope /\ d \notin DOMAIN b.docs
    <3>1. chunks'[d] = [chunks[d] EXCEPT !.active = FALSE] /\ chunks[d] \in Chunk
      BY <1>b, <2>1, <2>2 DEF Buried
    <3>2. chunks'[d] \in Chunk
      BY <3>1 DEF Chunk
    <3> QED
      BY <2>2, <3>1, <3>2, NothingAssumption DEF Chunk
  <2>3. CASE ~(chunks[d] # None /\ chunks[d].scope = b.scope /\ d \notin DOMAIN b.docs)
    BY <1>b, <2>1, <2>3 DEF Buried
  <2> QED
    BY <2>2, <2>3
<1>5. IndexTypeOK'
  <2>1. docs' \in [Docs -> {None} \cup Document] /\ chunks' \in [Docs -> {None} \cup Chunk]
    BY <1>0, <1>3, <1>4
  <2>2. ASSUME NEW s \in Scopes, manifest'[s] # None, NEW d \in manifest'[s]
        PROVE  docs'[d] # None
    BY <1>m, <1>3, <2>2
  <2> QED
    BY <1>m, <2>1, <2>2 DEF IndexTypeOK, ActiveManifests
<1>6. Placed'
  BY <1>3 DEF IndexInv, Placed
<1>7. Older'
  <2>1. Ids \subseteq Docs
    BY DEF Docs
  <2>2. OlderChunks'
    BY <1>2, <1>3, <1>4, <2>1 DEF IndexInv, Older, OlderChunks, Stored
  <2>3. \A i \in Ids : chunks'[i] # None <=> chunks[i] # None
    BY <1>4, <2>1
  <2>4. \A i \in Ids : chunks'[i] # None => chunks'[i].text = chunks[i].text
    BY <1>4, <2>1
  <2>5. OlderIn(InTodo(ingest.todo))'
    BY <1>0, <1>2, <2>3, <2>4 DEF IndexInv, Older, OlderIn, Stored
  <2> QED
    BY <2>2, <2>5 DEF Older
<1>8. Progress(b, "manifest", a)'
  <2>1. b.scope \notin fresh
    BY <1>0, <1>1 DEF Progress
  <2>2. ASSUME NEW d \in DOMAIN b.docs
        PROVE  /\ docs'[d] # None /\ docs'[d].scope = b.scope /\ docs'[d].says = b.docs[d]
               /\ a => docs'[d].active
               /\ chunks'[d] # None /\ chunks'[d].scope = b.scope
               /\ a => chunks'[d].active
    <3>1. docs'[d] = docs[d] /\ chunks'[d] = chunks[d]
      BY <1>1, <1>3, <1>4, <2>2
    <3> QED
      BY <1>0, <1>1, <2>2, <3>1 DEF Progress
  <2>3. \A d \in Docs \ DOMAIN b.docs : docs'[d] # None /\ docs'[d].scope = b.scope => ~docs'[d].active
    BY <1>3
  <2> QED
    BY <1>0, <2>1, <2>2, <2>3 DEF Progress
<1>9. Underway'
  BY <1>2, <1>8, <1>b DEF Underway, Bundle, Progress
<1>10. ASSUME NEW s \in fresh' PROVE Agrees(s)'
  <2>1. s # b.scope /\ Agrees(s) /\ s \in Scopes
    BY <1>0, <1>1, <1>10 DEF IndexInv, IngestTypeOK, Progress
  <2>2. DOMAIN Source(s) \subseteq Docs
    BY <2>1, SourceType DEF IndexInv, Kind, Docs
  <2>3. \A d \in Docs : (docs'[d] # None <=> docs[d] # None)
                        /\ (docs'[d] # None => docs'[d].scope = docs[d].scope)
                        /\ (docs[d].scope = s => docs'[d] = docs[d])
                        /\ (chunks[d].scope = s => chunks'[d] = chunks[d])
    BY <1>3, <1>4, <2>1
  <2> QED
    BY <1>0, <1>m, <1>2, <2>1, <2>2, <2>3 DEF Agrees
<1> QED
  BY <1>2, <1>5, <1>6, <1>7, <1>9, <1>10 DEF IndexInv

LEMMA WriteManifestInv ==
  ASSUME IndexInv, UNCHANGED memory, WriteManifest
  PROVE  IndexInv'
<1>b. PICK b : b = Bundle
  OBVIOUS
<1>a. PICK a : a = ingest.alone
  OBVIOUS
<1>t. PICK t : t = ingest.todo
  OBVIOUS
<1>0. /\ ingest # None /\ ingest.stage = "manifest"
      /\ manifest' = IF b.ok THEN [Opened EXCEPT ![b.scope] = DOMAIN b.docs] ELSE Opened
      /\ fresh' = IF b.ok /\ a /\ b.docs = Source(b.scope) THEN fresh \cup {b.scope} ELSE fresh
      /\ ingest' = IF Tail(t) = <<>> THEN None
                   ELSE [ingest EXCEPT !.todo = Tail(@), !.stage = "documents"]
      /\ UNCHANGED <<context, docs, chunks>>
  BY <1>a, <1>b, <1>t DEF WriteManifest, At
<1>m. /\ Opened \in [Scopes -> {None} \cup SUBSET Docs]
      /\ \A s \in Scopes : /\ Opened[s] = None <=> manifest[s] = None
                           /\ manifest[s] # None =>
                                manifest[s] \subseteq Opened[s] /\ \A d \in Opened[s] : docs[d] # None
  BY OpenedGrows DEF IndexInv
<1>1. /\ b \in InTodo(ingest.todo) /\ Collected(b) /\ b.scope \in Scopes
      /\ DOMAIN b.docs \subseteq Kind(b.scope) /\ DOMAIN b.docs \subseteq Docs
      /\ Progress(b, ingest.stage, a)
  BY <1>0, <1>a, <1>b, IngestParts
<1>2. MemoryTypeOK' /\ Aged' /\ db' = db /\ \A s : Source(s)' = Source(s)
  BY <1>0, MemoryKept, SourceKept DEF IndexInv, memory
<1>3. t \in Seq(AnyBundle) /\ t # <<>> /\ Tail(t) \in Seq(AnyBundle) /\ InTodo(Tail(t)) \subseteq InTodo(t)
  BY <1>0, <1>t, TodoParts DEF IndexInv, IngestTypeOK
<1>4. ingest' # None => /\ ingest' = [todo |-> ingest'.todo, stage |-> ingest'.stage, alone |-> ingest'.alone]
                        /\ ingest'.todo = Tail(t) /\ Tail(t) # <<>>
                        /\ ingest'.stage = "documents" /\ ingest'.alone = a
  <2>1. PICK r, u : r = ingest /\ u = Tail(t)
    OBVIOUS
  <2>2. [ingest EXCEPT !.todo = Tail(@), !.stage = "documents"]
          = [todo |-> u, stage |-> "documents", alone |-> a]
    <3>1. r = [todo |-> r.todo, stage |-> r.stage, alone |-> r.alone] /\ r.todo = t /\ r.alone = a
      BY <1>0, <1>a, <1>t, <2>1 DEF IndexInv, IngestTypeOK
    <3>2. PICK s : s = [r EXCEPT !.todo = u, !.stage = "documents"]
      OBVIOUS
    <3>3. s = [todo |-> u, stage |-> "documents", alone |-> r.alone]
      BY <3>1, <3>2
    <3> QED
      BY <2>1, <3>1, <3>2, <3>3
  <2>3. CASE Tail(t) = <<>>
    BY <1>0, <2>3
  <2>4. CASE Tail(t) # <<>>
    <3>1. ingest' = [todo |-> Tail(t), stage |-> "documents", alone |-> a]
      BY <1>0, <2>1, <2>2, <2>4
    <3> QED
      BY <2>4, <3>1
  <2> QED
    BY <2>3, <2>4
<1>5. IngestTypeOK'
  <2>1. fresh' \subseteq Scopes /\ context' = context
    BY <1>0, <1>1 DEF IndexInv, IngestTypeOK
  <2>2. \A c \in InTodo(t) : Collected(c)
    BY <1>0, <1>t DEF IndexInv, IngestTypeOK
  <2> QED
    BY <1>3, <1>4, <2>1, <2>2 DEF IndexInv, IngestTypeOK, Collected, Timely
<1>6. IndexTypeOK'
  <2>1. DOMAIN b.docs \in SUBSET Docs /\ \A d \in DOMAIN b.docs : docs[d] # None
    BY <1>0, <1>1 DEF Progress
  <2>2. manifest' \in [Scopes -> {None} \cup SUBSET Docs]
    BY <1>0, <1>m, <1>1, <2>1
  <2>3. ASSUME NEW s \in Scopes, manifest'[s] # None, NEW d \in manifest'[s]
        PROVE  docs[d] # None
    BY <1>0, <1>m, <1>1, <2>1, <2>3
  <2> QED
    BY <1>0, <2>2, <2>3 DEF IndexInv, IndexTypeOK, ActiveManifests
<1>7. Placed'
  BY <1>0 DEF IndexInv, Placed
<1>8. Older'
  <2>1. OlderChunks'
    BY <1>0, <1>2 DEF IndexInv, Older, OlderChunks, Stored
  <2>2. OlderIn(InTodo(Tail(t)))'
    BY <1>0, <1>2, <1>3, <1>t DEF IndexInv, Older, OlderIn, Stored
  <2> QED
    BY <1>4, <2>1, <2>2 DEF Older, OlderIn
<1>9. Underway'
  BY <1>4 DEF Underway, Progress
<1>10. ASSUME NEW s \in fresh' PROVE Agrees(s)'
  <2>1. CASE s = b.scope
    <3>1. s \notin fresh
      BY <1>0, <1>1, <2>1 DEF Progress
    <3>2. b.ok /\ a /\ b.docs = Source(s)
      BY <1>0, <1>10, <2>1, <3>1
    <3>3. manifest'[s] = DOMAIN Source(s) /\ manifest'[s] # None
      BY <1>0, <1>m, <1>1, <2>1, <3>2, NothingAssumption
    <3>4. \A d \in DOMAIN Source(s) :
            /\ docs[d] # None /\ docs[d].active /\ docs[d].says = Source(s)[d]
            /\ chunks[d] # None /\ chunks[d].scope = s /\ chunks[d].active
      BY <1>0, <1>1, <2>1, <3>2 DEF Progress
    <3>5. \A d \in Docs \ DOMAIN Source(s) : docs[d] # None /\ docs[d].scope = s => ~docs[d].active
      BY <1>0, <1>1, <2>1, <3>2 DEF Progress
    <3> QED
      BY <1>0, <1>2, <3>3, <3>4, <3>5 DEF Agrees
  <2>2. CASE s # b.scope
    <3>1. Agrees(s) /\ s \in Scopes
      BY <1>0, <1>10, <2>2 DEF IndexInv, IngestTypeOK
    <3>2. manifest'[s] # None /\ manifest[s] \subseteq manifest'[s]
      BY <1>0, <1>m, <2>2, <3>1 DEF Agrees
    <3> QED
      BY <1>0, <1>2, <3>1, <3>2 DEF Agrees
  <2> QED
    BY <2>1, <2>2
<1> QED
  BY <1>2, <1>5, <1>6, <1>7, <1>8, <1>9, <1>10 DEF IndexInv

LEMMA IngestDiesInv ==
  ASSUME IndexInv, UNCHANGED memory, IngestDies
  PROVE  IndexInv'
<1>1. /\ ingest' = None /\ UNCHANGED <<context, docs, chunks, manifest, fresh>>
  BY DEF IngestDies
<1>2. MemoryTypeOK' /\ Aged' /\ db' = db /\ \A s : Source(s)' = Source(s)
  BY <1>1, MemoryKept, SourceKept DEF IndexInv, memory
<1>3. OlderChunks'
  BY <1>1, <1>2 DEF IndexInv, Older, OlderChunks, Stored
<1>4. \A s \in fresh' : Agrees(s)'
  BY <1>1, <1>2 DEF IndexInv, Agrees
<1> QED
  BY <1>1, <1>2, <1>3, <1>4
  DEF IndexInv, IndexTypeOK, ActiveManifests, IngestTypeOK, Placed, Older, Underway

\* A purge takes documents and manifests of one kind away, and spoils the
\* ingest under way.
LEMMA PurgeInv ==
  ASSUME IndexInv, UNCHANGED memory, NEW memory_ \in BOOLEAN, Purge(memory_)
  PROVE  IndexInv'
<1>b. PICK b : b = Head(ingest.todo)
  OBVIOUS
<1>r. PICK r : r = ingest
  OBVIOUS
<1> DEFINE gone == IF memory_ THEN Ids ELSE Pieces \ Evidence
           scopes == IF memory_ THEN {"memory"} ELSE Dates
           Off(t, d) == IF d \in gone /\ t[d] # None THEN [t[d] EXCEPT !.active = FALSE] ELSE t[d]
<1>0. /\ docs' = [d \in Docs |-> Off(docs, d)]
      /\ chunks' = [d \in Docs |-> Off(chunks, d)]
      /\ manifest' = [s \in Scopes |-> IF s \in scopes THEN None ELSE Opened[s]]
      /\ fresh' = fresh \ scopes
      /\ ingest' = IF ingest = None THEN None ELSE [ingest EXCEPT !.alone = FALSE]
      /\ UNCHANGED context
  BY DEF Purge
<1>m. /\ Opened \in [Scopes -> {None} \cup SUBSET Docs]
      /\ \A s \in Scopes : /\ Opened[s] = None <=> manifest[s] = None
                           /\ manifest[s] # None =>
                                manifest[s] \subseteq Opened[s] /\ \A d \in Opened[s] : docs[d] # None
  BY OpenedGrows DEF IndexInv
<1>1. MemoryTypeOK' /\ Aged' /\ db' = db /\ \A s : Source(s)' = Source(s)
  BY <1>0, MemoryKept, SourceKept DEF IndexInv, memory
<1>2. ingest' # None => /\ r # None /\ ingest' = [todo |-> r.todo, stage |-> r.stage, alone |-> FALSE]
                        /\ ingest'.todo = r.todo /\ ingest'.stage = r.stage /\ ingest'.alone = FALSE
  <2>1. CASE r = None
    BY <1>0, <1>r, <2>1
  <2>2. CASE r # None
    <3>1. r = [todo |-> r.todo, stage |-> r.stage, alone |-> r.alone]
      BY <1>r, <2>2 DEF IndexInv, IngestTypeOK
    <3>2. ingest' = [r EXCEPT !.alone = FALSE]
      BY <1>0, <1>r, <2>2
    <3>3. ingest' = [todo |-> r.todo, stage |-> r.stage, alone |-> FALSE]
      BY <3>1, <3>2
    <3> QED
      BY <2>2, <3>3
  <2> QED
    BY <2>1, <2>2
<1>3. ASSUME NEW d \in Docs
      PROVE  /\ docs'[d] # None <=> docs[d] # None
             /\ docs'[d] # None => /\ docs'[d] \in Document /\ docs'[d].scope = docs[d].scope
                                   /\ docs'[d].says = docs[d].says
             /\ docs[d] # None /\ ~docs[d].active => ~docs'[d].active
             /\ docs[d] = None \/ d \notin gone => docs'[d] = docs[d]
  <2>1. docs[d] \in {None} \cup Document /\ docs'[d] = Off(docs, d)
    BY <1>0 DEF IndexInv, IndexTypeOK
  <2>2. CASE docs[d] # None /\ d \in gone
    <3>1. docs'[d] = [docs[d] EXCEPT !.active = FALSE] /\ docs[d] \in Document
      BY <2>1, <2>2
    <3>2. docs'[d] \in Document
      BY <3>1 DEF Document
    <3> QED
      BY <2>2, <3>1, <3>2, NothingAssumption DEF Document
  <2>3. CASE ~(docs[d] # None /\ d \in gone)
    BY <2>1, <2>3
  <2> QED
    BY <2>2, <2>3
<1>4. ASSUME NEW d \in Docs
      PROVE  /\ chunks'[d] # None <=> chunks[d] # None
             /\ chunks'[d] # None => /\ chunks'[d] \in Chunk /\ chunks'[d].scope = chunks[d].scope
                                     /\ chunks'[d].text = chunks[d].text
             /\ d \notin gone => chunks'[d] = chunks[d]
  <2>1. chunks[d] \in {None} \cup Chunk /\ chunks'[d] = Off(chunks, d)
    BY <1>0 DEF IndexInv, IndexTypeOK
  <2>2. CASE chunks[d] # None /\ d \in gone
    <3>1. chunks'[d] = [chunks[d] EXCEPT !.active = FALSE] /\ chunks[d] \in Chunk
      BY <2>1, <2>2
    <3>2. chunks'[d] \in Chunk
      BY <3>1 DEF Chunk
    <3> QED
      BY <2>2, <3>1, <3>2, NothingAssumption DEF Chunk
  <2>3. CASE ~(chunks[d] # None /\ d \in gone)
    BY <2>1, <2>3
  <2> QED
    BY <2>2, <2>3
<1>5. IndexTypeOK'
  <2>1. docs' \in [Docs -> {None} \cup Document] /\ chunks' \in [Docs -> {None} \cup Chunk]
    BY <1>0, <1>3, <1>4
  <2>2. manifest' \in [Scopes -> {None} \cup SUBSET Docs]
    BY <1>0, <1>m
  <2>3. ASSUME NEW s \in Scopes, manifest'[s] # None, NEW d \in manifest'[s]
        PROVE  docs'[d] # None
    <3>1. manifest[s] # None /\ d \in Opened[s] /\ d \in Docs
      BY <1>0, <1>m, <2>2, <2>3
    <3> QED
      BY <1>m, <1>3, <3>1
  <2> QED
    BY <2>1, <2>2, <2>3 DEF IndexTypeOK, ActiveManifests
<1>6. Placed'
  BY <1>3 DEF IndexInv, Placed
<1>7. IngestTypeOK'
  BY <1>0, <1>2, <1>r DEF IndexInv, IngestTypeOK, Collected, Timely
<1>8. Older'
  <2>1. Ids \subseteq Docs
    BY DEF Docs
  <2>2. OlderChunks'
    BY <1>1, <1>3, <1>4, <2>1 DEF IndexInv, Older, OlderChunks, Stored
  <2>3. \A i \in Ids : chunks'[i] # None <=> chunks[i] # None
    BY <1>4, <2>1
  <2>4. \A i \in Ids : chunks'[i] # None => chunks'[i].text = chunks[i].text
    BY <1>4, <2>1
  <2>5. r # None => OlderIn(InTodo(r.todo))'
    BY <1>r, <1>1, <2>3, <2>4 DEF IndexInv, Older, OlderIn, Stored
  <2> QED
    BY <1>2, <2>2, <2>5 DEF Older, OlderIn
<1>9. Underway'
  <2>1. SUFFICES ASSUME ingest' # None
                 PROVE  Progress(Head(r.todo), r.stage, FALSE)'
    BY <1>2 DEF Underway
  <2>2. /\ Progress(b, r.stage, r.alone) /\ r # None
        /\ DOMAIN b.docs \subseteq Docs /\ b = Head(r.todo)
        /\ r.stage \in {"documents", "chunks", "tombstones", "manifest"}
    BY <1>2, <1>b, <1>r, <2>1, IngestParts DEF Bundle, IndexInv, IngestTypeOK
  <2>3. ASSUME r.stage # "documents"
        PROVE  /\ b.scope \notin fresh'
               /\ \A d \in DOMAIN b.docs :
                    docs'[d] # None /\ docs'[d].scope = b.scope /\ docs'[d].says = b.docs[d]
    BY <1>0, <1>3, <2>2, <2>3 DEF Progress
  <2>4. ASSUME r.stage \in {"tombstones", "manifest"}
        PROVE  \A d \in DOMAIN b.docs : chunks'[d] # None /\ chunks'[d].scope = b.scope
    BY <1>4, <2>2, <2>4 DEF Progress
  <2>5. ASSUME r.stage = "manifest"
        PROVE  \A d \in Docs \ DOMAIN b.docs :
                 docs'[d] # None /\ docs'[d].scope = b.scope => ~docs'[d].active
    BY <1>3, <2>2, <2>5 DEF Progress
  <2>6. Progress(b, r.stage, FALSE)'
    BY <2>3, <2>4, <2>5 DEF Progress
  <2> QED
    BY <2>2, <2>6
<1>10. ASSUME NEW s \in fresh' PROVE Agrees(s)'
  <2>1. s \in fresh /\ s \notin scopes /\ Agrees(s) /\ s \in Scopes
    BY <1>0, <1>10 DEF IndexInv, IngestTypeOK
  <2>2. DOMAIN Source(s) \subseteq Docs
    BY <2>1, SourceType DEF IndexInv, Kind, Docs
  <2>3. ASSUME NEW d \in Docs, docs[d] # None, docs[d].scope = s
        PROVE  d \notin gone
    <3>1. d \in Kind(s)
      BY <2>3 DEF IndexInv, Placed
    <3> QED
      BY <2>1, <3>1, RagAssumption DEF Kind, Scopes
  <2>4. manifest'[s] # None /\ manifest[s] \subseteq manifest'[s]
    BY <1>0, <1>m, <2>1 DEF Agrees
  <2>5. \A d \in Docs : /\ docs'[d] # None <=> docs[d] # None
                        /\ docs'[d] # None => docs'[d].scope = docs[d].scope
                        /\ docs[d] # None /\ docs[d].scope = s =>
                             docs'[d] = docs[d] /\ chunks'[d] = chunks[d]
    BY <1>3, <1>4, <2>3
  <2> QED
    BY <1>1, <2>1, <2>2, <2>4, <2>5 DEF Agrees
<1> QED
  BY <1>1, <1>5, <1>6, <1>7, <1>8, <1>9, <1>10 DEF IndexInv

LEMMA QueryInv ==
  ASSUME IndexInv, UNCHANGED memory, Query
  PROVE  IndexInv'
<1>0. manifest' = Opened /\ UNCHANGED <<context, docs, chunks, ingest, fresh>>
  BY DEF Query
<1>m. /\ Opened \in [Scopes -> {None} \cup SUBSET Docs]
      /\ \A s \in Scopes : /\ Opened[s] = None <=> manifest[s] = None
                           /\ manifest[s] # None =>
                                manifest[s] \subseteq Opened[s] /\ \A d \in Opened[s] : docs[d] # None
  BY OpenedGrows DEF IndexInv
<1>1. MemoryTypeOK' /\ Aged' /\ db' = db /\ \A s : Source(s)' = Source(s)
  BY <1>0, MemoryKept, SourceKept DEF IndexInv, memory
<1>2. IndexTypeOK'
  BY <1>0, <1>m DEF IndexInv, IndexTypeOK, ActiveManifests
<1>3. IngestTypeOK'
  BY <1>0 DEF IndexInv, IngestTypeOK, Collected, Timely
<1>4. Placed' /\ Underway'
  BY <1>0 DEF IndexInv, Placed, Underway, Progress
<1>5. Older'
  BY <1>0, <1>1 DEF IndexInv, Older, OlderChunks, OlderIn, Stored
<1>6. ASSUME NEW s \in fresh' PROVE Agrees(s)'
  <2>1. Agrees(s) /\ s \in Scopes
    BY <1>0, <1>6 DEF IndexInv, IngestTypeOK
  <2>2. manifest'[s] # None /\ manifest[s] \subseteq manifest'[s]
    BY <1>0, <1>m, <2>1 DEF Agrees
  <2> QED
    BY <1>0, <1>1, <2>1, <2>2 DEF Agrees
<1> QED
  BY <1>1, <1>2, <1>3, <1>4, <1>5, <1>6 DEF IndexInv

\* A context written anew is no longer what the index has of its date.
LEMMA RewriteInv ==
  ASSUME IndexInv, UNCHANGED memory, NEW d \in Dates, NEW pieces \in SUBSET Pieces, Rewrite(d, pieces)
  PROVE  IndexInv'
<1>1. /\ context' = [context EXCEPT ![d] = pieces]
      /\ fresh' = IF context[d] = pieces THEN fresh ELSE fresh \ {d}
      /\ UNCHANGED <<docs, chunks, manifest, ingest, db>>
  BY DEF Rewrite, index_vars, memory
<1>2. MemoryTypeOK' /\ Aged'
  BY MemoryKept DEF IndexInv
<1>3. IngestTypeOK'
  BY <1>1 DEF IndexInv, IngestTypeOK, Collected, Timely
<1>4. fresh' \subseteq fresh /\ \A s \in fresh' : Source(s)' = Source(s)
  <2>1. fresh \subseteq Scopes /\ context \in [Dates -> {None} \cup SUBSET Pieces]
    BY DEF IndexInv, IngestTypeOK
  <2>2. \A s \in fresh' : s # "memory" => context'[s] = context[s]
    BY <1>1, <2>1 DEF Scopes
  <2> QED
    BY <1>1, <2>2 DEF Source, OfRecord, OfPiece, Stored
<1>5. \A s \in fresh' : Agrees(s)'
  BY <1>1, <1>4 DEF IndexInv, Agrees
<1>6. OlderChunks'
  BY <1>1 DEF IndexInv, Older, OlderChunks, Stored
<1>7. Older'
  BY <1>1, <1>6 DEF IndexInv, Older, OlderIn, Stored
<1>8. Underway'
  <2>1. ingest # None => Progress(Head(ingest.todo), ingest.stage, ingest.alone)'
    BY <1>1, <1>4 DEF IndexInv, Underway, Progress
  <2> QED
    BY <1>1, <2>1 DEF Underway, Progress
<1> QED
  BY <1>1, <1>2, <1>3, <1>5, <1>7, <1>8 DEF IndexInv, IndexTypeOK, ActiveManifests, Placed

\* The index keeps its invariant while the memory only gains text.
LEMMA MemoryMoves ==
  ASSUME IndexInv, MemoryTypeOK', Aged', UNCHANGED <<context, docs, chunks, manifest, ingest>>,
         \A i \in Ids : Stored(i) => Stored(i)' /\ db[i].text <= db'[i].text,
         fresh' \subseteq fresh, \A s \in fresh' : Source(s)' = Source(s)
  PROVE  IndexInv'
<1>1. IngestTypeOK'
  BY DEF IndexInv, IngestTypeOK, Collected, Timely
<1>2. \A s \in fresh' : Agrees(s)'
  BY DEF IndexInv, Agrees
<1>3. ASSUME NEW i \in Ids, Stored(i), NEW x \in Nat, x <= db[i].text
      PROVE  x <= db'[i].text
  <2>1. db[i] \in Record /\ db'[i] \in Record
    BY <1>3 DEF IndexInv, MemoryTypeOK, Stored
  <2>2. db[i].text \in Nat /\ db'[i].text \in Nat /\ db[i].text <= db'[i].text
    BY <1>3, <2>1, DaysType DEF Record
  <2> QED
    BY <1>3, <2>2
<1>4. OlderChunks'
  <2>1. ASSUME NEW i \in Ids, chunks[i] # None
        PROVE  /\ Stored(i)' /\ chunks[i].text <= db'[i].text
               /\ docs[i] # None /\ docs[i].says.from = 0 => chunks[i].text <= docs[i].says.asOf
    <3>1. chunks[i] \in Chunk
      BY <2>1 DEF IndexInv, IndexTypeOK, Docs
    <3>2. chunks[i].text \in Nat
      BY <3>1, DaysType DEF Chunk
    <3> QED
      BY <1>3, <2>1, <3>2 DEF IndexInv, Older, OlderChunks
  <2> QED
    BY <2>1 DEF OlderChunks
<1>5. Older'
  <2>1. ASSUME ingest # None, NEW b \in InTodo(ingest.todo), NEW i \in Ids \cap DOMAIN b.docs
        PROVE  /\ Stored(i)' /\ b.docs[i].text <= db'[i].text
               /\ chunks[i] # None => chunks[i].text <= b.docs[i].text
               /\ \A c \in InTodo(ingest.todo) : i \in DOMAIN c.docs => c.docs[i].text = b.docs[i].text
    <3>1. Timely(b.docs[i])
      BY <2>1 DEF IndexInv, IngestTypeOK, Collected
    <3>2. b.docs[i].text \in Nat
      BY <3>1, DaysType DEF Timely, Content
    <3> QED
      BY <1>3, <2>1, <3>2 DEF IndexInv, Older, OlderIn
  <2>2. ingest # None => OlderIn(InTodo(ingest.todo))'
    BY <2>1 DEF OlderIn
  <2> QED
    BY <1>4, <2>2 DEF Older, OlderIn
<1>6. Underway'
  <2>1. ingest # None => Progress(Head(ingest.todo), ingest.stage, ingest.alone)'
    BY DEF IndexInv, Underway, Progress
  <2> QED
    BY <2>1 DEF Underway, Progress
<1> QED
  BY <1>1, <1>2, <1>5, <1>6 DEF IndexInv, IndexTypeOK, ActiveManifests, Placed

\* What a write may put into the table: records of today, none with an older
\* text than it has.
Newer(writes) ==
  /\ DOMAIN writes \subseteq Ids
  /\ \A x \in DOMAIN writes :
       /\ writes[x] \in Record
       /\ writes[x].text <= writes[x].updated /\ writes[x].updated <= today
       /\ Stored(x) => db[x].text <= writes[x].text

LEMMA MemoryWriteInv ==
  ASSUME IndexInv, NEW writes, Newer(writes), MemoryWrite(writes),
         decisions' \in [Ids -> Actions \cup {None}],
         UNCHANGED <<context, docs, chunks, manifest, ingest>>
  PROVE  IndexInv'
<1>1. /\ jobs < MaxJobs /\ jobs' = jobs + 1
      /\ db' = [x \in Ids |-> IF x \in DOMAIN writes THEN writes[x] ELSE db[x]]
      /\ index' = {x \in Ids : db'[x] # None /\ db'[x].status \in Active}
      /\ mirror' = [x \in Ids |-> IF db'[x] # None THEN db'[x].status ELSE None]
      /\ fresh' = fresh \ {"memory"}
      /\ themes' = OfThemes(mirror')
      /\ UNCHANGED <<job, alone, raced, today>>
  BY DEF MemoryWrite
<1>2. ASSUME NEW i \in Ids
      PROVE  /\ db'[i] \in Record \cup {None}
             /\ Stored(i)' => db'[i].text <= db'[i].updated /\ db'[i].updated <= today
             /\ Stored(i) => Stored(i)' /\ db[i].text <= db'[i].text
  <2>1. CASE i \in DOMAIN writes
    <3>1. db'[i] = writes[i]
      BY <1>1, <2>1
    <3> QED
      BY <2>1, <3>1, NoneAssumption DEF Newer, Stored
  <2>2. CASE i \notin DOMAIN writes
    <3>1. db'[i] = db[i]
      BY <1>1, <2>2
    <3>2. Stored(i) => db[i].text \in Nat
      BY DaysType DEF IndexInv, MemoryTypeOK, Stored, Record
    <3> QED
      BY <3>1, <3>2 DEF IndexInv, MemoryTypeOK, Aged, Stored
  <2> QED
    BY <2>1, <2>2
<1>3. MemoryTypeOK'
  <2>1. db' \in [Ids -> Record \cup {None}]
    BY <1>1, <1>2
  <2>2. /\ mirror' \in [Ids -> Status \cup {None}] /\ index' \subseteq Ids
        /\ themes' \in [Themes -> Status \cup {None}]
    <3>1. \A i \in Ids : db'[i] # None => db'[i].status \in Status
      BY <1>2 DEF Record
    <3>2. mirror' \in [Ids -> Status \cup {None}] /\ index' \subseteq Ids
      BY <1>1, <3>1
    <3> QED
      BY <1>1, <3>2, MemoryAssumption DEF OfThemes
  <2>3. jobs' \in 0 .. MaxJobs
    BY <1>1, MemoryAssumption DEF IndexInv, MemoryTypeOK
  <2> QED
    BY <1>1, <2>1, <2>2, <2>3 DEF IndexInv, MemoryTypeOK, Busy
<1>4. Aged'
  BY <1>1, <1>2 DEF Aged
<1>5. \A s \in fresh' : Source(s)' = Source(s)
  BY <1>1 DEF Source, OfPiece
<1> QED
  BY <1>1, <1>2, <1>3, <1>4, <1>5, MemoryMoves

LEMMA MemoryStepInv ==
  ASSUME IndexInv, MemoryStep, UNCHANGED <<context, docs, chunks, manifest, ingest>>
  PROVE  IndexInv'
<1>t. today \in Nat /\ MemoryTypeOK
  BY MemoryAssumption DEF IndexInv, MemoryTypeOK
<1>o. \A i \in Ids : Stored(i) => db[i] \in Record /\ db[i].text \in Nat /\ db[i].text <= today
  <2> SUFFICES ASSUME NEW i \in Ids, Stored(i)
               PROVE  db[i] \in Record /\ db[i].text \in Nat /\ db[i].text <= today
    OBVIOUS
  <2>1. db[i] \in Record
    BY <1>t DEF MemoryTypeOK, Stored
  <2>2. db[i].text \in Nat /\ db[i].updated \in Nat
    BY <2>1, DaysType DEF Record
  <2> QED
    BY <2>1, <2>2, <1>t DEF IndexInv, Aged
<1>1. ASSUME NEW i \in Ids, NEW s \in Derived, NEW from \in 0 .. today, UNCHANGED decisions,
             MemoryWrite([x \in {i} |-> Upserted(x, Proposed(x, s, from), from)])
      PROVE  IndexInv'
  <2>1. PICK w : w = [x \in {i} |-> Upserted(x, Proposed(x, s, from), from)]
    OBVIOUS
  <2>2. Proposed(i, s, from) \in Status
    BY StatusType DEF Proposed, Status, Active
  <2>3. DOMAIN w = {i} /\ w[i] = Upserted(i, Proposed(i, s, from), from)
    BY <2>1
  <2>4. w[i] \in Record
    BY <1>t, <2>2, <2>3, UpsertedType
  <2>5. w[i].text = today /\ w[i].updated = today
    BY <2>3 DEF Upserted
  <2>6. Newer(w)
    BY <1>t, <1>o, <2>3, <2>4, <2>5 DEF Newer
  <2>7. decisions' \in [Ids -> Actions \cup {None}]
    BY <1>1, <1>t DEF MemoryTypeOK
  <2> QED
    BY <1>1, <2>1, <2>6, <2>7, MemoryWriteInv
<1>2. ASSUME NEW i \in Ids, NEW a \in Actions, Stored(i), MemoryWrite(Decided(i, a)),
             decisions' = [decisions EXCEPT ![i] = a]
      PROVE  IndexInv'
  <2>1. PICK d : d = Decided(i, a)
    OBVIOUS
  <2>2. DOMAIN d \subseteq Ids /\ d \in [DOMAIN d -> Record]
    BY <1>2, <1>t, <2>1, DecidedType
  <2>3. ASSUME NEW x \in DOMAIN d
        PROVE  Stored(x) /\ d[x].text = db[x].text /\ d[x].updated = today
    <3>1. Stored(x) /\ x \in Ids
      BY <1>2, <2>1, <2>2 DEF Decided, Rivals, Is
    <3>2. db[x] \in Record
      BY <1>o, <3>1
    <3> QED
      BY <2>1, <3>1, <3>2 DEF Decided, Record
  <2>4. Newer(d)
    BY <1>t, <1>o, <2>2, <2>3 DEF Newer
  <2>5. decisions' \in [Ids -> Actions \cup {None}]
    BY <1>2, <1>t DEF MemoryTypeOK
  <2> QED
    BY <1>2, <2>1, <2>4, <2>5, MemoryWriteInv
<1>3. ASSUME NewDay, UNCHANGED fresh
      PROVE  IndexInv'
  <2>1. today < MaxDay /\ today' = today + 1 /\ UNCHANGED <<db, decisions, index, mirror, themes, job, jobs, alone, raced>>
    BY <1>3 DEF NewDay
  <2>2. MemoryTypeOK'
    BY <1>t, <2>1, MemoryAssumption DEF MemoryTypeOK, Busy
  <2>3. ASSUME NEW i \in Ids, Stored(i)
        PROVE  db[i].text <= db[i].updated /\ db[i].updated <= today'
    <3>1. db[i].updated \in Nat
      BY <1>o, <2>3, DaysType DEF Record
    <3> QED
      BY <1>t, <2>1, <2>3, <3>1 DEF IndexInv, Aged
  <2>4. Aged'
    BY <2>1, <2>3 DEF Aged, Stored
  <2>5. \A s \in fresh' : Source(s)' = Source(s)
    BY <1>3, <2>1, SourceKept
  <2>6. \A i \in Ids : Stored(i) => Stored(i)' /\ db[i].text <= db'[i].text
    BY <1>o, <2>1 DEF Stored
  <2> QED
    BY <1>3, <2>2, <2>4, <2>5, <2>6, MemoryMoves
<1> QED
  BY <1>1, <1>2, <1>3 DEF MemoryStep

LEMMA KnowledgeInitInv == KnowledgeInit => IndexInv
<1> SUFFICES ASSUME KnowledgeInit PROVE IndexInv
  OBVIOUS
<1> USE DEF KnowledgeInit, RagInit
<1>1. Built \in Record /\ Built.text = 1 /\ Built.updated = 1 /\ Built.status \in Active
  BY MemoryAssumption DEF Built, Record, Status, Active, Days
<1>2. mirror \in [Ids -> Status \cup {None}] /\ themes \in [Themes -> Status \cup {None}]
  <2>1. Shown \in [Ids -> Status \cup {None}]
    BY <1>1 DEF Shown, Stored, Record
  <2> QED
    BY <2>1, MemoryAssumption DEF OfThemes
<1>3. Busy = {}
  BY DEF Busy
<1>4. MemoryTypeOK
  BY <1>1, <1>2, <1>3, MemoryAssumption DEF MemoryTypeOK
<1>5. Aged
  BY <1>1 DEF Aged
<1>6. IndexTypeOK /\ IngestTypeOK
  BY DEF IndexTypeOK, ActiveManifests, IngestTypeOK
<1>7. Placed /\ Older /\ Underway
  BY DEF Placed, Older, OlderChunks, Underway, Docs
<1> QED
  BY <1>4, <1>5, <1>6, <1>7 DEF IndexInv

LEMMA KnowledgeNextInv == IndexInv /\ [KnowledgeNext]_<<memory, rag>> => IndexInv'
<1> SUFFICES ASSUME IndexInv, [KnowledgeNext]_<<memory, rag>> PROVE IndexInv'
  OBVIOUS
<1>1. CASE MemoryStep /\ UNCHANGED <<context, docs, chunks, manifest, ingest, ingests, changes>>
  BY <1>1, MemoryStepInv
<1>2. CASE Ingest /\ UNCHANGED memory
  <2>1. ASSUME NEW plan \in Plans, NEW failed \in SUBSET DOMAIN plan, StartIngest(plan, failed)
        PROVE  IndexInv'
    BY <1>2, <2>1, StartIngestInv
  <2> QED
    BY <1>2, <2>1, UpsertDocumentsInv, UpsertChunksInv, DeactivateInv, WriteManifestInv, IngestDiesInv
    DEF Ingest
<1>3. CASE Elsewhere /\ UNCHANGED memory
  BY <1>3, QueryInv, PurgeInv, RewriteInv DEF Elsewhere
<1>4. CASE UNCHANGED <<memory, rag>>
  <2>1. /\ UNCHANGED <<context, docs, chunks, manifest, ingest, fresh>>
        /\ UNCHANGED memory /\ db' = db
    BY <1>4 DEF rag, memory
  <2>2. MemoryTypeOK' /\ Aged'
    BY <2>1, MemoryKept DEF IndexInv
  <2>3. \A i \in Ids : Stored(i) => Stored(i)' /\ db[i].text <= db'[i].text
    <3> SUFFICES ASSUME NEW i \in Ids, Stored(i) PROVE db[i].text <= db[i].text
      BY <2>1 DEF Stored
    <3>1. db[i].text \in Nat
      BY DaysType DEF IndexInv, MemoryTypeOK, Stored, Record
    <3> QED
      BY <3>1
  <2> QED
    BY <2>1, <2>2, <2>3, SourceKept, MemoryMoves
<1> QED
  BY <1>1, <1>2, <1>3, <1>4 DEF KnowledgeNext

\* An index in agreement serves what the source holds, and nothing of later.
LEMMA AgreementServes ==
  ASSUME IndexInv, NEW s \in fresh, NEW negatives
  PROVE  {d \in Served(MaxDay, negatives) : docs[d].scope = s}
           = {d \in DOMAIN Source(s) : docs[d].scope = s /\ Passes(Source(s)[d], MaxDay, negatives)}
<1>1. Agrees(s) /\ s \in Scopes /\ manifest[s] # None
  BY DEF IndexInv, IngestTypeOK, Agrees
<1>2. DOMAIN Source(s) \subseteq Docs
  BY <1>1, SourceType DEF IndexInv, Kind, Docs
<1>3. ASSUME NEW d \in Served(MaxDay, negatives), docs[d].scope = s
      PROVE  d \in DOMAIN Source(s) /\ Passes(Source(s)[d], MaxDay, negatives)
  <2>1. d \in Docs /\ docs[d] # None /\ docs[d].active /\ Passes(docs[d].says, MaxDay, negatives)
    BY DEF Served, Candidates
  <2>2. d \in DOMAIN Source(s)
    BY <1>1, <1>3, <2>1 DEF Agrees
  <2> QED
    BY <1>1, <1>3, <2>1, <2>2 DEF Agrees
<1>4. ASSUME NEW d \in DOMAIN Source(s), docs[d].scope = s, Passes(Source(s)[d], MaxDay, negatives)
      PROVE  d \in Served(MaxDay, negatives)
  <2>1. /\ docs[d] # None /\ docs[d].active /\ docs[d].says = Source(s)[d]
        /\ chunks[d] # None /\ chunks[d].active /\ d \in Opened[s]
    BY <1>1, <1>4, OpenedGrows DEF Agrees, IndexInv
  <2> QED
    BY <1>1, <1>2, <1>4, <2>1 DEF Served, Candidates, ActiveManifests
<1> QED
  BY <1>3, <1>4

LEMMA NoLaterText ==
  ASSUME IndexInv, NEW day \in 1 .. today, NEW i \in Served(day, TRUE) \cap Ids
  PROVE  chunks[i].text <= day \/ docs[i].says.from \in 1 .. day
<1>1. docs[i] # None /\ chunks[i] # None /\ docs[i].says.asOf <= day /\ docs[i].says.from <= day
  BY DEF Served, Candidates, Passes
<1>2. docs[i] \in Document /\ chunks[i] \in Chunk
  BY <1>1 DEF IndexInv, IndexTypeOK, Docs
<1>3. docs[i].says.asOf \in Nat /\ docs[i].says.from \in Nat /\ chunks[i].text \in Nat /\ day \in Nat
  <2>1. docs[i].says \in Content /\ chunks[i].text \in Days
    BY <1>2 DEF Document, Chunk
  <2>2. docs[i].says.asOf \in Days /\ docs[i].says.from \in Days
    BY <2>1 DEF Content
  <2>3. today \in Nat
    BY MemoryAssumption DEF IndexInv, MemoryTypeOK
  <2>4. day \in Nat
    BY <2>3
  <2>5. docs[i].says.asOf \in Nat /\ docs[i].says.from \in Nat
    BY <2>2, DaysType
  <2>6. chunks[i].text \in Nat
    BY <2>1, DaysType
  <2> QED
    BY <2>4, <2>5, <2>6
<1>4. docs[i].says.from = 0 => chunks[i].text <= docs[i].says.asOf
  BY <1>1 DEF IndexInv, Older, OlderChunks
<1> QED
  BY <1>1, <1>3, <1>4

\* Whatever order of ingests, failures, purges, writes of the memory and
\* rewritten contexts: a scope that was ingested to the end is served as its
\* source has it, and a question about a past day is not answered with a text
\* of later (run_ingest, purge_domain, retrieve).
THEOREM IndexStaysSound == KnowledgeSpec => []IndexIsSound
<1>1. IndexInv => IndexIsSound
  BY AgreementServes, NoLaterText DEF IndexIsSound, FreshIsServed, NoFutureText, IndexInv
<1> QED
  BY <1>1, KnowledgeInitInv, KnowledgeNextInv, PTL DEF KnowledgeSpec
===============================================================================
