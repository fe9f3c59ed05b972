------------------------------- MODULE Lineage -------------------------------
(***************************************************************************)
(* The lineage of what the program learns.  The tickets of a date are       *)
(* judged into an outcome artifact; the outcomes are rewritten into a log   *)
(* of policy events; the log is folded into a store of policies; the store  *)
(* is curated into a registry of skills; an audit says which of all these   *)
(* may be trusted, and a pack offers the trusted skills to new tickets.     *)
(* Each is a file of its own, written by a command of its own.              *)
(***************************************************************************)
EXTENDS Outcomes

CONSTANTS Dates,       \* the dates advice was given on
          Paths,       \* the files the trust manifest can name
          Policies, Bucket, OfFund, \* policies; the policy of a ticket, and of one whose text is gone
          Order,       \* [Policies -> Nat]: how their names compare
          Scope,       \* what each of them is about
          Sheets,      \* the quote files a day may have
          BaseSheet,   \* [Dates -> the one a day of advice has]
          Flows,       \* the trades that may be recorded
          TicketSets,  \* the sets of tickets a date may have
          Entries,     \* the entries of the trust manifest
          Kinds,       \* the events written by hand: user_approve, archive, weaken, revise
          MaxActive, MaxPolicies,  \* caps of the policies of a scope
          MaxRevs,     \* bound of the outcome artifacts written
          MaxInputs    \* bound of the changes from outside

INSTANCE ReplayTrust

ASSUME LineageAssumption ==
  /\ Dates \subseteq Calendar
  /\ IsFiniteSet(Tickets) /\ \A t \in Tickets : Ticket[t].date \in Dates
  /\ TicketSets \subseteq SUBSET Tickets
  /\ Bucket \in [Tickets -> Policies] /\ OfFund \in [Tickets -> Policies]
  /\ \A s \in Sheets \cup {BaseSheet[d] : d \in Dates} : \A f \in DOMAIN s : s[f] \in [nav: Nat, stale: BOOLEAN, date: Calendar]
  /\ \A e \in Entries : IsEntry(e)
  /\ DOMAIN Scope = Policies /\ Order \in [Policies -> Nat] /\ \A p, q \in Policies : Order[p] = Order[q] => p = q
  /\ MaxActive \in Nat /\ MaxPolicies \in Nat /\ MaxRevs \in Nat /\ MaxInputs \in Nat

\* An event of the log.
LogEntry == [type: {"support", "contradict"}, rev: Nat, policy: Policies]

ASSUME AbsentAssumption == Absent \notin LogEntry \cup {"support", "contradict"}

VARIABLES quotes, flows, tickets, manifest, files,  \* what comes from outside
          artifact,  \* the outcome artifact of each date: its hash and its outcomes
          log,       \* the derived policy events, by outcome
          manual,    \* the policy events written by hand, in the same file
          forgotten, \* those that a rewriting has lost
          store, registry, audit, pack,
          updating,  \* an updater has rewritten the log and not yet the store
          read,      \* the artifact and the tickets each date was last learned from,
                     \* unless its events were lost since
          revs, inputs

outside == <<quotes, flows, tickets, manifest, files>>
lineageVars    == <<outside, artifact, log, manual, forgotten, store, registry, audit, pack, updating, read, revs, inputs>>

LineageInit ==
  /\ quotes = [d \in Calendar |-> IF d \in Dates THEN BaseSheet[d] ELSE Absent]
  /\ flows = {}
  /\ \E s \in [Dates -> TicketSets] :
       tickets = s /\ \A d \in Dates : s[d] # {} /\ \A t \in s[d] : Ticket[t].date = d
  /\ manifest = [d \in Dates |-> Absent]
  /\ files = [p \in Paths |-> [hash |-> 1, latest |-> 1, execution |-> FALSE]]
  /\ artifact = [d \in Dates |-> Absent]
  /\ log = [t \in Tickets |-> Absent]
  /\ manual = {} /\ forgotten = {}
  /\ store = [p \in Policies |-> Absent] /\ registry = store /\ pack = store
  /\ audit = Absent
  /\ updating = FALSE
  /\ read = [d \in Dates |-> Absent]
  /\ revs = 0 /\ inputs = 0

(***************************************************************************)
(* What comes from outside: quotes, late trades, rebuilt tickets, entries   *)
(* of the trust manifest and changed files, and events written by hand.     *)
(***************************************************************************)
Input == inputs < MaxInputs /\ inputs' = inputs + 1

QuotesArrive(d, sheet) ==
  /\ Input
  /\ quotes' = [quotes EXCEPT ![d] = sheet]
  /\ UNCHANGED <<flows, tickets, manifest, files, artifact, log, manual, forgotten, store, registry, audit, pack,
                 updating, read, revs>>

TradeRecorded(f) ==
  /\ Input
  /\ flows' = flows \cup {f}
  /\ UNCHANGED <<quotes, tickets, manifest, files, artifact, log, manual, forgotten, store, registry, audit, pack,
                 updating, read, revs>>

TicketsRebuilt(d, set) ==
  /\ Input
  /\ set # {} /\ \A t \in set : Ticket[t].date = d
  /\ tickets' = [tickets EXCEPT ![d] = set]
  /\ UNCHANGED <<quotes, flows, manifest, files, artifact, log, manual, forgotten, store, registry, audit, pack,
                 updating, read, revs>>

CertifyEntry(d, entry) ==
  /\ Input
  /\ manifest' = [manifest EXCEPT ![d] = entry]
  /\ UNCHANGED <<quotes, flows, tickets, files, artifact, log, manual, forgotten, store, registry, audit, pack,
                 updating, read, revs>>

FileChanges(p) ==
  /\ Input
  /\ files' = [files EXCEPT ![p].hash = 2]
  /\ UNCHANGED <<quotes, flows, tickets, manifest, artifact, log, manual, forgotten, store, registry, audit, pack,
                 updating, read, revs>>

ByHand(p, kind) ==
  /\ Input
  /\ manual' = manual \cup {<<p, kind>>}
  /\ UNCHANGED <<outside, artifact, log, forgotten, store, registry, audit, pack, updating, read, revs>>

(***************************************************************************)
(* The commands.                                                            *)
(***************************************************************************)
\* Every artifact carries the time it was made, so its hash is a new one.
Evaluate(d) ==
  /\ revs < MaxRevs
  /\ revs' = revs + 1
  /\ artifact' = [artifact EXCEPT ![d] =
       [rev |-> revs + 1, outcomes |-> [t \in tickets[d] |-> Evaluated(quotes, flows, t)]]]
  /\ UNCHANGED <<outside, log, manual, forgotten, store, registry, audit, pack, updating, read, inputs>>

\* A ticket that is no longer in the file of its date counts for its fund.
PolicyOf(t) == IF t \in tickets[Ticket[t].date] THEN Bucket[t] ELSE OfFund[t]

Event(d, t) ==
  LET type == EventType(t, artifact[d].outcomes[t])
  IN IF type = Absent THEN Absent ELSE [type |-> type, rev |-> artifact[d].rev, policy |-> PolicyOf(t)]

\* Mutant of RewriteLog: the events replaced are those of outcomes that have one now.
RewriteLogProduced(d) ==
  /\ ~updating /\ artifact[d] # Absent
  /\ log' = [t \in Tickets |-> IF t \in DOMAIN artifact[d].outcomes /\ Event(d, t) # Absent
                               THEN Event(d, t) ELSE log[t]]
  /\ read' = [read EXCEPT ![d] = [rev |-> artifact[d].rev, tickets |-> tickets[d]]]
  /\ updating' = TRUE
  /\ UNCHANGED <<outside, artifact, manual, forgotten, store, registry, audit, pack, revs, inputs>>

\* The events of every outcome in the artifact are replaced, and those of an
\* outcome that says nothing any more are gone.
RewriteLog(d) ==
  /\ ~updating /\ artifact[d] # Absent
  /\ log' = [t \in Tickets |-> IF t \in DOMAIN artifact[d].outcomes THEN Event(d, t) ELSE log[t]]
  /\ read' = [read EXCEPT ![d] = [rev |-> artifact[d].rev, tickets |-> tickets[d]]]
  /\ updating' = TRUE
  /\ UNCHANGED <<outside, artifact, manual, forgotten, store, registry, audit, pack, revs, inputs>>

\* Opened for writing the file is empty, and it is written from the beginning:
\* the events kept, then the new ones.  A death in between leaves a part.
CutLog(d, left, hand) ==
  LET new  == DOMAIN artifact[d].outcomes
      kept == {t \in Tickets \ new : log[t] # Absent}
      all  == kept \cup {t \in new : Event(d, t) # Absent}
  IN /\ ~updating /\ artifact[d] # Absent
     /\ \E t \in new : Event(d, t) # Absent \/ log[t] # Absent
     /\ left \subseteq all /\ hand \subseteq manual /\ ~(left = all /\ hand = manual)
     /\ left \cap new # {} => kept \subseteq left /\ hand = manual
     /\ log' = [t \in Tickets |-> IF t \notin left THEN Absent ELSE IF t \in new THEN Event(d, t) ELSE log[t]]
     /\ manual' = hand /\ forgotten' = forgotten \cup (manual \ hand)
     /\ read' = [e \in Dates |-> IF e = d \/ \E t \in kept \ left : Ticket[t].date = e
                                 THEN Absent ELSE read[e]]
     /\ UNCHANGED <<outside, artifact, store, registry, audit, pack, updating, revs, inputs>>

Sources(p) == {t \in Tickets : log[t] # Absent /\ log[t].policy = p}

Count(p, type) == Cardinality({t \in Sources(p) : log[t].type = type})

Status(p) ==
  LET s == Count(p, "support")
      c == Count(p, "contradict")
  IN IF <<p, "archive">> \in manual \/ (s + c >= 3 /\ s > 0 /\ 10 * c >= 6 * (s + c)) THEN "archived"
     ELSE IF <<p, "weaken">> \in manual \/ (c > 0 /\ c >= s) THEN "weakened"
     ELSE IF <<p, "revise">> \in manual THEN "revised"
     ELSE IF <<p, "user_approve">> \in manual THEN "active"
     ELSE IF s >= 2 THEN "candidate"
     ELSE "draft"

Confidence(p) ==
  Max({0, Min({95, 20 + 8 * Count(p, "support") - 12 * Count(p, "contradict")
                     + (IF <<p, "user_approve">> \in manual THEN 10 ELSE 0)})})

Rank == [active |-> 0, candidate |-> 1, draft |-> 2, revised |-> 3, weakened |-> 4, archived |-> 5]

Known == {p \in Policies : Sources(p) # {} \/ \E k \in Kinds : <<p, k>> \in manual}

\* The caps of a scope: its best active policies stay active, and the best
\* of all its policies stay.
Peers(p) == {q \in Known : Scope[q] = Scope[p]}

Ahead(p, q) ==
  \/ Confidence(p) > Confidence(q)
  \/ Confidence(p) = Confidence(q) /\ Count(p, "support") > Count(q, "support")
  \/ Confidence(p) = Confidence(q) /\ Count(p, "support") = Count(q, "support") /\ Order[p] > Order[q]

OfActives(p) ==
  IF Status(p) = "active"
     /\ Cardinality({q \in Peers(p) : Status(q) = "active" /\ Ahead(q, p)}) >= MaxActive
  THEN "candidate" ELSE Status(p)

Before(p, q) ==
  LET r == Rank[OfActives(p)]
      s == Rank[OfActives(q)]
  IN r < s \/ (r = s /\ (Confidence(p) > Confidence(q)
                         \/ (Confidence(p) = Confidence(q) /\ Order[p] < Order[q])))

Capped(p) ==
  IF Cardinality({q \in Peers(p) : OfActives(q) # "archived" /\ Before(q, p)}) >= MaxPolicies
  THEN "archived" ELSE OfActives(p)

Materialized ==
  [p \in Policies |-> IF p \in Known
     THEN [status |-> Capped(p), support |-> Count(p, "support"), against |-> Count(p, "contradict"),
           sources |-> Sources(p)]
     ELSE Absent]

WriteStore ==
  /\ updating
  /\ store' = Materialized
  /\ updating' = FALSE
  /\ UNCHANGED <<outside, artifact, log, manual, forgotten, registry, audit, pack, read, revs, inputs>>

UpdaterDies ==
  /\ updating
  /\ updating' = FALSE
  /\ UNCHANGED <<outside, artifact, log, manual, forgotten, store, registry, audit, pack, read, revs, inputs>>

\* --materialize-only
MaterializeOnly ==
  /\ ~updating
  /\ store' = Materialized
  /\ UNCHANGED <<outside, artifact, log, manual, forgotten, registry, audit, pack, updating, read, revs, inputs>>

SkillStatus(policy) ==
  IF policy.status = "archived" THEN "archived"
  ELSE IF policy.support >= 2 /\ policy.status \in {"candidate", "active"} THEN "candidate"
  ELSE "draft"

\* The registry is written anew; the store is a file, once written.
Curate ==
  /\ \E p \in Policies : store[p] # Absent
  /\ registry' = [p \in Policies |->
       IF store[p] # Absent /\ store[p].sources # {} /\ store[p].support > 0
       THEN [status |-> SkillStatus(store[p]), sources |-> store[p].sources] ELSE Absent]
  /\ UNCHANGED <<outside, artifact, log, manual, forgotten, store, audit, pack, updating, read, revs, inputs>>

(***************************************************************************)
(* The audit.                                                               *)
(***************************************************************************)
Outcome(t) ==
  LET d == Ticket[t].date
  IN IF artifact[d] # Absent /\ t \in DOMAIN artifact[d].outcomes THEN artifact[d].outcomes[t] ELSE Absent

Learnable(d) == AllowedForLearning(manifest[d], files, [p \in {} |-> ""])

\* The trust of a set of sources of one thing.
Weakest(set) ==
  IF set = {} \/ "blocked" \in set THEN "blocked"
  ELSE IF "legacy_untrusted" \in set THEN "legacy_untrusted" ELSE "trusted"

OutcomeTrust(t) ==
  IF Outcome(t) = Absent \/ Outcome(t).status # "scored" \/ ~Outcome(t).eligible
     \/ Outcome(t).excess \in {Absent, 0} THEN "blocked"
  ELSE IF Learnable(Ticket[t].date) THEN "trusted" ELSE "legacy_untrusted"

\* Mutant of EventTrust: an event is as good as the outcome it names.
EventTrustByName(t) == IF Outcome(t) = Absent THEN "blocked" ELSE OutcomeTrust(t)

EventTrust(t) ==
  IF Outcome(t) = Absent \/ artifact[Ticket[t].date].rev # log[t].rev THEN "blocked" ELSE OutcomeTrust(t)

\* An event written by hand names no outcome.
PolicyTrust(p) ==
  LET events == {EventTrust(t) : t \in Sources(p)}
                \cup (IF \E k \in Kinds : <<p, k>> \in manual THEN {"blocked"} ELSE {})
                \cup (IF \E t \in store[p].sources : Outcome(t) = Absent THEN {"blocked"} ELSE {})
  IN IF events = {} \/ (Sources(p) = {} /\ \A k \in Kinds : <<p, k>> \notin manual) THEN "blocked"
     ELSE IF events = {"legacy_untrusted"} THEN "legacy_untrusted"
     ELSE Weakest(events \cup {OutcomeTrust(t) : t \in store[p].sources})

SkillTrust(p) ==
  IF store[p] = Absent \/ \E t \in registry[p].sources : Outcome(t) = Absent THEN "blocked"
  ELSE IF PolicyTrust(p) = "legacy_untrusted" THEN "legacy_untrusted"
  ELSE Weakest({PolicyTrust(p)} \cup {OutcomeTrust(t) : t \in registry[p].sources})

Audit ==
  /\ audit' = [p \in {q \in Policies : registry[q] # Absent} |-> [trust |-> SkillTrust(p)]]
  /\ UNCHANGED <<outside, artifact, log, manual, forgotten, store, registry, pack, updating, read, revs, inputs>>

(***************************************************************************)
(* The pack of skills, and what it offers to a ticket.                      *)
(***************************************************************************)
\* A skill the latest audit does not know is blocked.
BuildPack ==
  /\ pack' = [p \in Policies |->
       IF registry[p] # Absent /\ registry[p].status \in {"active", "candidate"}
       THEN [trust |-> IF audit # Absent /\ p \in DOMAIN audit THEN audit[p].trust ELSE "blocked"]
       ELSE Absent]
  /\ UNCHANGED <<outside, artifact, log, manual, forgotten, store, registry, audit, updating, read, revs, inputs>>

FromOutside ==
  \/ \E d \in Calendar, s \in Sheets : QuotesArrive(d, s)
  \/ \E f \in Flows : TradeRecorded(f)
  \/ \E d \in Dates, s \in TicketSets : TicketsRebuilt(d, s)
  \/ \E d \in Dates, e \in Entries : CertifyEntry(d, e)
  \/ \E p \in Paths : FileChanges(p)
  \/ \E p \in Policies, k \in Kinds : ByHand(p, k)

LineageNext ==
  \/ FromOutside
  \/ \E d \in Dates : Evaluate(d) \/ RewriteLog(d)
  \/ \E d \in Dates, left \in SUBSET Tickets, hand \in SUBSET manual : CutLog(d, left, hand)
  \/ WriteStore \/ UpdaterDies \/ MaterializeOnly
  \/ Curate \/ Audit \/ BuildPack

LineageSpec == LineageInit /\ [][LineageNext]_lineageVars

(***************************************************************************)
(* Properties.                                                              *)
(***************************************************************************)
\* The files hold what they are for, and a count is of the sources it names.
LineageTypeOK ==
  /\ \A t \in Tickets : log[t] = Absent \/ (log[t] \in LogEntry /\ log[t].rev \in 1 .. MaxRevs)
  /\ \A p \in Policies : store[p] = Absent \/
       /\ store[p].status \in DOMAIN Rank
       /\ store[p].support + store[p].against = Cardinality(store[p].sources)
  /\ \A p \in Policies : registry[p] = Absent \/ registry[p].status \in {"archived", "candidate", "draft"}
  /\ audit = Absent \/ \A p \in DOMAIN audit : audit[p].trust \in {"trusted", "legacy_untrusted", "blocked"}

\* Nothing is under way, and every artifact has been learned from as it is, the
\* dates of which a cut rewriting lost events once more.
Settled == ~updating /\ \A d \in Dates : artifact[d] # Absent =>
             read[d] # Absent /\ read[d].rev = artifact[d].rev

Said(type, p) ==
  {t \in Tickets : LET d == Ticket[t].date IN
     /\ Outcome(t) # Absent /\ EventType(t, Outcome(t)) = type
     /\ p = IF t \in read[d].tickets THEN Bucket[t] ELSE OfFund[t]}

\* Whatever is evaluated again, learned from again, or dies half way, a
\* policy counts each outcome once and as it now is, once the updater has run
\* (derive_policy_events, rewrite_policy_events, apply_event), for every date
\* whose events a death has lost: as long as the tickets of a date are not
\* other ones, whose events would stay.
StoreCountsOnce ==
  Settled /\ store = Materialized /\ (\A t \in Tickets : log[t] # Absent => Outcome(t) # Absent) =>
    \A p \in Policies : store[p] # Absent =>
      /\ store[p].support = Cardinality(Said("support", p))
      /\ store[p].against = Cardinality(Said("contradict", p))

\* A skill the audit trusts rests on outcomes that are scored and differ from
\* the benchmark, of dates that may be learned from, and its policy on events
\* that say what those outcomes say (audit_learning_trust).
TrustedIsSound ==
  [][Audit => \A p \in DOMAIN audit' : audit'[p].trust = "trusted" =>
       /\ registry[p].sources # {}
       /\ \A t \in registry[p].sources \cup store[p].sources \cup Sources(p) :
            /\ Learnable(Ticket[t].date)
            /\ Outcome(t) # Absent /\ Outcome(t).status = "scored" /\ Outcome(t).excess \notin {Absent, 0}
       /\ \A t \in Sources(p) : EventType(t, Outcome(t)) = log[t].type
       /\ \A k \in Kinds : <<p, k>> \notin manual]_lineageVars

\* No policy is active that no user approved: support alone makes candidates.
\* The approval may be lost from the log, which the store outlives.
OnlyUsersActivate ==
  \A p \in Policies : store[p] # Absent /\ store[p].status = "active" => <<p, "user_approve">> \in manual \cup forgotten
==============================================================================
