------------------------------- MODULE RagIndex -------------------------------
(***************************************************************************)
(* The retrieval index beside the long-term memory and the daily contexts.  *)
(* An ingest collects its sources, then writes each bundle in four          *)
(* transactions: the documents, the chunks, the tombstones of what the      *)
(* scope no longer has, and the manifest that says what the scope holds.    *)
(* A query is served the active chunks of the active manifests that pass    *)
(* the hard filters.                                                        *)
(***************************************************************************)
EXTENDS LongMemory

CONSTANTS Dates,      \* the scopes of the daily contexts
          Pieces,     \* the documents a context can be cut into
          DayOf,      \* [Dates -> the day a context is of]
          DateOf,     \* [Pieces -> the day a piece speaks of]
          Evidence,   \* the pieces that are evidence items; the rest are sections
          Plans,      \* the sequences of scopes an ingest is asked for
          MaxIngests, \* bound of the ingests
          MaxChanges  \* bound of the rewritten contexts and of the purges

Scopes == {"memory"} \cup Dates
Docs   == Ids \cup Pieces

ASSUME RagAssumption ==
  /\ Pieces \cap Ids = {} /\ Evidence \subseteq Pieces
  /\ "memory" \notin Dates
  /\ DateOf \in [Pieces -> 1 .. MaxDay] /\ DayOf \in [Dates -> 1 .. MaxDay]
  /\ Plans \subseteq Seq(Scopes) \ {<<>>}
  /\ MaxIngests \in Nat /\ MaxChanges \in Nat

VARIABLES context,   \* the context file of each date
          docs,      \* documents: scope, active and what the source said
          chunks,    \* chunks, one for a document
          manifest,  \* the documents of each scope's active manifest
          ingest,    \* the ingest under way
          ingests, changes,
          fresh      \* scopes ingested to the end, undisturbed, unchanged and untouched since

index_vars == <<docs, chunks, manifest, ingest, ingests>>
rag        == <<context, docs, chunks, manifest, ingest, ingests, changes, fresh>>

\* What a document says: from which day and until when it may be seen.
Content == [asOf: Days, available: Days, from: Days, status: Status, review: BOOLEAN, text: Days]
Document == [scope: Scopes, active: BOOLEAN, says: Content]
Chunk    == [scope: Scopes, active: BOOLEAN, text: Days]

\* None is nothing else.
ASSUME NothingAssumption == None \notin Document \cup Chunk /\ \A S \in SUBSET Docs : S # None

OfRecord(i) ==
  LET r == db[i]
      dated == IF r.from # 0 THEN r.from ELSE r.updated
  IN [asOf |-> dated, from |-> r.from, status |-> r.status, text |-> r.text,
      available |-> IF r.approved # 0 THEN r.approved ELSE dated,
      review |-> r.status \notin Active \/ r.sup # None]

OfPiece(p) == [asOf |-> DateOf[p], available |-> DateOf[p], from |-> 0, status |-> "strategic",
               review |-> FALSE, text |-> DateOf[p]]

\* What a scope's source holds now.
Source(s) ==
  IF s = "memory" THEN [i \in {x \in Ids : Stored(x)} |-> OfRecord(i)]
  ELSE [p \in IF context[s] = None THEN {} ELSE context[s] |-> OfPiece(p)]

\* The contexts were there before the index.
RagInit ==
  /\ context = [d \in Dates |-> Pieces]
  /\ docs = [d \in Docs |-> None]
  /\ chunks = [d \in Docs |-> None]
  /\ manifest = [s \in Scopes |-> None]
  /\ ingest = None
  /\ ingests = 0 /\ changes = 0
  /\ fresh = {}

(***************************************************************************)
(* Every call opens the store first, and that completes active manifests:   *)
(* one without chunks gets the active documents of its kind and day, and a  *)
(* context's without evidence the active evidence of its day, whichever     *)
(* scope they are of (_backfill_active_manifest_membership).                *)
(***************************************************************************)
Standing(ds) == {d \in ds : docs[d] # None /\ docs[d].active}
OfKind(s)     == IF s = "memory" THEN Ids ELSE {p \in Pieces \ Evidence : DateOf[p] = DayOf[s]}
EvidenceOf(s) == IF s = "memory" THEN {} ELSE {p \in Evidence : DateOf[p] = DayOf[s]}

Completed(s) ==
  manifest[s] \cup
  {d \in Standing(OfKind(s)) : \A m \in manifest[s] : chunks[m] = None} \cup
  {d \in Standing(EvidenceOf(s)) : manifest[s] \cap Evidence = {}}

Opened == [s \in Scopes |-> IF manifest[s] = None THEN None ELSE Completed(s)]

(***************************************************************************)
(* Ingest.                                                                  *)
(***************************************************************************)
\* A collector that raises leaves a bundle without documents.
Bundles(plan, failed) ==
  [n \in DOMAIN plan |->
     [scope |-> plan[n],
      ok |-> n \notin failed,
      docs |-> IF n \in failed THEN [d \in {} |-> None] ELSE Source(plan[n])]]

StartIngest(plan, failed) ==
  /\ ingest = None
  /\ ingests < MaxIngests
  /\ ingests' = ingests + 1
  /\ ingest' = [todo |-> Bundles(plan, failed), stage |-> "documents", alone |-> TRUE]
  /\ UNCHANGED <<context, docs, chunks, manifest, changes, fresh>>

Bundle == Head(ingest.todo)
At(stage) == ingest # None /\ ingest.stage = stage

\* Mutant of UpsertDocuments: a document that was buried stays buried.
UpsertDocumentsOnly ==
  /\ At("documents")
  /\ docs' = [d \in Docs |-> IF d \in DOMAIN Bundle.docs
                             THEN [scope |-> Bundle.scope, says |-> Bundle.docs[d],
                                   active |-> docs[d] = None \/ docs[d].active]
                             ELSE docs[d]]
  /\ fresh' = fresh \ {Bundle.scope}
  /\ manifest' = IF DOMAIN Bundle.docs = {} THEN manifest ELSE Opened
  /\ ingest' = [ingest EXCEPT !.stage = "chunks"]
  /\ UNCHANGED <<context, chunks, ingests, changes>>

UpsertDocuments ==
  /\ At("documents")
  /\ docs' = [d \in Docs |-> IF d \in DOMAIN Bundle.docs
                             THEN [scope |-> Bundle.scope, active |-> TRUE, says |-> Bundle.docs[d]]
                             ELSE docs[d]]
  /\ fresh' = fresh \ {Bundle.scope}
  /\ manifest' = IF DOMAIN Bundle.docs = {} THEN manifest ELSE Opened
  /\ ingest' = [ingest EXCEPT !.stage = "chunks"]
  /\ UNCHANGED <<context, chunks, ingests, changes>>

UpsertChunks ==
  /\ At("chunks")
  /\ chunks' = [d \in Docs |-> IF d \in DOMAIN Bundle.docs
                               THEN [scope |-> Bundle.scope, active |-> TRUE, text |-> Bundle.docs[d].text]
                               ELSE chunks[d]]
  /\ manifest' = IF DOMAIN Bundle.docs = {} THEN manifest ELSE Opened
  /\ ingest' = [ingest EXCEPT !.stage = "tombstones"]
  /\ UNCHANGED <<context, docs, ingests, changes, fresh>>

Buried(table, d) == IF table[d] # None /\ table[d].scope = Bundle.scope /\ d \notin DOMAIN Bundle.docs
                    THEN [table[d] EXCEPT !.active = FALSE] ELSE table[d]

DeactivateMissingScope ==
  /\ At("tombstones")
  /\ docs' = [d \in Docs |-> Buried(docs, d)]
  /\ chunks' = [d \in Docs |-> Buried(chunks, d)]
  /\ manifest' = Opened
  /\ ingest' = [ingest EXCEPT !.stage = "manifest"]
  /\ UNCHANGED <<context, ingests, changes, fresh>>

\* The manifest of a bundle with errors is kept but not activated.
WriteManifest ==
  /\ At("manifest")
  /\ manifest' = IF Bundle.ok THEN [Opened EXCEPT ![Bundle.scope] = DOMAIN Bundle.docs] ELSE Opened
  /\ fresh' = IF Bundle.ok /\ ingest.alone /\ Bundle.docs = Source(Bundle.scope)
              THEN fresh \cup {Bundle.scope} ELSE fresh
  /\ ingest' = IF Tail(ingest.todo) = <<>> THEN None
               ELSE [ingest EXCEPT !.todo = Tail(@), !.stage = "documents"]
  /\ UNCHANGED <<context, docs, chunks, ingests, changes>>

IngestDies ==
  /\ ingest # None
  /\ ingest' = None
  /\ UNCHANGED <<context, docs, chunks, manifest, ingests, changes, fresh>>

\* purge_domain of the memory, or of the contexts: the documents of that kind
\* and the manifests of that kind, in one transaction.
Purge(memory_) ==
  /\ changes < MaxChanges
  /\ changes' = changes + 1
  /\ LET gone == IF memory_ THEN Ids ELSE Pieces \ Evidence
         scopes == IF memory_ THEN {"memory"} ELSE Dates
         Off(t, d) == IF d \in gone /\ t[d] # None THEN [t[d] EXCEPT !.active = FALSE] ELSE t[d]
     IN /\ docs' = [d \in Docs |-> Off(docs, d)]
        /\ chunks' = [d \in Docs |-> Off(chunks, d)]
        /\ manifest' = [s \in Scopes |-> IF s \in scopes THEN None ELSE Opened[s]]
        /\ fresh' = fresh \ scopes
  /\ ingest' = IF ingest = None THEN None ELSE [ingest EXCEPT !.alone = FALSE]
  /\ UNCHANGED <<context, ingests>>

\* The daily pipeline writes the context of a date again.
Rewrite(d, pieces) ==
  /\ changes < MaxChanges
  /\ changes' = changes + 1
  /\ context' = [context EXCEPT ![d] = pieces]
  /\ fresh' = IF context[d] = pieces THEN fresh ELSE fresh \ {d}
  /\ UNCHANGED index_vars

(***************************************************************************)
(* Retrieval.                                                               *)
(***************************************************************************)
\* A query opens the store as well.
Query ==
  /\ manifest' = Opened
  /\ UNCHANGED <<context, docs, chunks, ingest, ingests, changes, fresh>>

ActiveManifests == {s \in Scopes : manifest[s] # None}

\* Without any active manifest there is no membership to ask for.
Candidates ==
  {d \in Docs : /\ docs[d] # None /\ docs[d].active
                /\ chunks[d] # None /\ chunks[d].active
                /\ ActiveManifests = {} \/ \E s \in ActiveManifests : d \in Opened[s]}

Passes(c, day, negatives) ==
  /\ c.asOf <= day
  /\ c.available <= day
  /\ c.from <= day
  /\ negatives \/ ~c.review

Served(day, negatives) == {d \in Candidates : Passes(docs[d].says, day, negatives)}

(***************************************************************************)
(* The index beside the memory whose records it copies.                     *)
(***************************************************************************)
Ingest ==
  \/ \E plan \in Plans : \E failed \in SUBSET DOMAIN plan : StartIngest(plan, failed)
  \/ UpsertDocuments \/ UpsertChunks \/ DeactivateMissingScope \/ WriteManifest \/ IngestDies

Elsewhere ==
  \/ Query
  \/ \E memory_ \in BOOLEAN : Purge(memory_)
  \/ \E d \in Dates, pieces \in SUBSET Pieces : Rewrite(d, pieces)

\* A write of the memory by a writer that meets no other: the table, the
\* decision, the index and the mirrors (what LongMemory shows of it step by
\* step is not told apart here).
MemoryWrite(writes) ==
  /\ jobs < MaxJobs
  /\ jobs' = jobs + 1
  /\ db' = [x \in Ids |-> IF x \in DOMAIN writes THEN writes[x] ELSE db[x]]
  /\ index' = {x \in Ids : db'[x] # None /\ db'[x].status \in Active}
  /\ mirror' = [x \in Ids |-> IF db'[x] # None THEN db'[x].status ELSE None]
  /\ themes' = OfThemes(mirror')
  /\ fresh' = fresh \ {"memory"}
  /\ UNCHANGED <<job, alone, raced, today>>

\* An analysis (the builders date no record and ask for nothing) puts a rule
\* aside when retrieval shows it a confirmed one of the same subject.
Proposed(i, s, from) ==
  IF from # 0 /\ \E j \in Served(from, FALSE) \cap Ids : Key[j] = Key[i] /\ docs[j].says.status = "permanent"
  THEN "candidate" ELSE s

MemoryStep ==
  \/ /\ \E i \in Ids, s \in Derived, from \in 0 .. today :
          MemoryWrite([x \in {i} |-> Upserted(x, Proposed(x, s, from), from)])
     /\ UNCHANGED decisions
  \/ \E i \in Ids, a \in Actions :
       /\ Stored(i)
       /\ a = "approve" => CanPromote(i)
       /\ MemoryWrite(Decided(i, a))
       /\ decisions' = [decisions EXCEPT ![i] = a]
  \/ NewDay /\ UNCHANGED fresh

\* The builders have run on the first day, and nothing else has.
Built == [status |-> "strategic", sup |-> None, from |-> 0, approved |-> 0, updated |-> 1, text |-> 1]

KnowledgeInit ==
  /\ db = [i \in Ids |-> Built]
  /\ index = Ids
  /\ mirror = Shown /\ themes = OfThemes(Shown)
  /\ decisions = [i \in Ids |-> None]
  /\ job = [w \in Writers |-> None]
  /\ today = 1 /\ jobs = 0 /\ alone = {} /\ raced = {}
  /\ RagInit

KnowledgeNext ==
  \/ MemoryStep /\ UNCHANGED <<context, docs, chunks, manifest, ingest, ingests, changes>>
  \/ (Ingest \/ Elsewhere) /\ UNCHANGED memory
KnowledgeSpec == KnowledgeInit /\ [][KnowledgeNext]_<<memory, rag>>

(***************************************************************************)
(* Properties.                                                              *)
(***************************************************************************)
\* Documents and chunks are of the scopes, and a manifest lists documents there are.
IndexTypeOK ==
  /\ docs \in [Docs -> {None} \cup Document]
  /\ chunks \in [Docs -> {None} \cup Chunk]
  /\ manifest \in [Scopes -> {None} \cup SUBSET Docs]
  /\ \A s \in ActiveManifests : \A d \in manifest[s] : docs[d] # None

\* Once an ingest of a scope ran to its end and its source has not changed
\* since, and until the next ingest comes to it, a query is served exactly what
\* the source has, whatever an earlier ingest left undone, an error or a purge
\* took away: no record the user turned down, none forgotten.  A piece two dates
\* share is of the scope that wrote it last (run_ingest, deactivate_missing_scope).
FreshIsServed ==
  \A s \in fresh, negatives \in BOOLEAN :
    {d \in Served(MaxDay, negatives) : docs[d].scope = s}
      = {d \in DOMAIN Source(s) : docs[d].scope = s /\ Passes(Source(s)[d], MaxDay, negatives)}

\* A question about a past day is not served a text written later, unless the
\* text is of an analysis of that past day done later.
NoFutureText ==
  \A day \in 1 .. today : \A i \in Served(day, TRUE) \cap Ids :
    chunks[i].text <= day \/ docs[i].says.from \in 1 .. day

\* What a query is served: the two invariants above, on an index of the type.
IndexIsSound == IndexTypeOK /\ FreshIsServed /\ NoFutureText
================================================================================
