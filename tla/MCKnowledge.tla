----------------------------- MODULE MCKnowledge -----------------------------
(***************************************************************************)
(* The long-term memory and the index that copies it.  A behaviour shows    *)
(* either the writers of the memory step by step, with no context and no    *)
(* ingest left, or the index beside writes that are done in one go.         *)
(***************************************************************************)
EXTENDS RagIndex, TLC
CONSTANTS m1, m2, e
Keys  == [i \in Ids |-> "risk"]
Days_ == [p \in Pieces |-> 1]
ContextDays == [d \in Dates |-> IF d = "d1" THEN 1 ELSE 2]
Sym == Permutations({m1, m2})
ThePlans == {<<"memory", "d1">>, <<"d2">>}

NoContexts == context = [d \in Dates |-> None]

WritersInit ==
  /\ Init
  /\ NoContexts
  /\ docs = [d \in Docs |-> None] /\ chunks = docs
  /\ manifest = [s \in Scopes |-> None]
  /\ ingest = None /\ fresh = {}
  /\ ingests = MaxIngests /\ changes = MaxChanges

MCInit == WritersInit \/ KnowledgeInit
\* The days only matter to the retrieval.  Beside the index the memory is written twice.
MCNext == \/ NoContexts /\ Next /\ UNCHANGED <<today, rag>>
          \/ ~NoContexts /\ KnowledgeNext /\ jobs' <= 2
MCSpec == MCInit /\ [][MCNext]_<<memory, rag>>

=============================================================================
