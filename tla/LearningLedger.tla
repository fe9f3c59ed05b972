---------------------------- MODULE LearningLedger ----------------------------
(***************************************************************************)
(* What the program learns from its advice.  A night reviews the advice     *)
(* that is due, counts the diagnoses for and against the rules of a ledger, *)
(* and shows the rules in a view by their stage.  A replay asks what        *)
(* today's rules would have made of past advice, and counts the             *)
(* differences in the same ledger.  Each is a program of its own that       *)
(* reads the ledger, and writes it whole, without a lock.                   *)
(***************************************************************************)
EXTENDS Reviews, Sequences, SequencesExt

CONSTANTS Horizons,     \* the horizons of a review, 0 among them
          Advices,      \* the actions a day's advice may be
          FirstNav, Navs, \* the value a fund is quoted at first, and later
          Signals,      \* the signals of a day of advice
          Replayed,     \* the action today's rules would have taken
          Fee,          \* the redeem fee, in percent
          Snapshots,    \* the days whose portfolio is on file
          Experiments,  \* names of replays
          KeptReplays,  \* how many replays the ledger remembers: 120
          MaxNights, MaxReplays, \* bounds of the nights and replays started
          MaxCertificates, \* bound of the certificates given
          MaxAdvices       \* bound of the times advice is given

ASSUME LearningAssumption ==
  /\ 1 \in Days /\ 0 \in Horizons /\ Horizons \subseteq Nat /\ Snapshots \subseteq Days
  /\ Navs \cup {FirstNav} \subseteq Nat \ {0} /\ Fee \in Nat /\ KeptReplays \in Nat \ {0}
  /\ MaxNights \in Nat /\ MaxReplays \in Nat /\ MaxCertificates \in Nat /\ MaxAdvices \in Nat

Opposites ==
  [signal_failure      |-> {"signal_confirmed", "timing_resilience"},
   signal_confirmed    |-> {"signal_failure"},
   timing_drag         |-> {"timing_resilience"},
   timing_resilience   |-> {"timing_drag"},
   good_risk_reduction |-> {"premature_de_risk"},
   premature_de_risk   |-> {"good_risk_reduction"},
   watchful_hold       |-> {"hold_missed_move"},
   hold_missed_move    |-> {"watchful_hold"}]
Labels == DOMAIN Opposites
Diagnoses == Labels \cup {"insufficient_data"}
Shown  == {"strategic", "permanent", "core_permanent"}
Jobs   == Days \X Horizons
Review == [return: Int \cup {None}, label: Diagnoses]

ASSUME NoneAssumption == None \notin Advices /\ None \notin Review

VARIABLES today, nav, advice,  \* the day, the quotes, and the advice of each day
          reviews,   \* the review of each day of advice at each horizon
          ledger,    \* the rules, and the replays that were counted
          view,      \* the rules each list of the view shows
          reports,   \* the days whose report is written
          newer,     \* those of them whose advice was written since
          records,   \* the memory record of a label: the replay it speaks of
          certified, \* the trust manifest
          night, replay, \* the programs under way
          nights, replays, certificates, advices,
          odd,       \* days whose night was run again, died late, or met new advice
          raced,     \* a program has written a ledger over one it had not read
          torn       \* the last program to write the ledger died before the view

learned == <<ledger, view, records, raced, torn>>
given   == <<today, nav, advice, certified, certificates, advices>>
learningVars    == <<given, learned, reviews, reports, newer, night, replay, nights, replays, odd>>

NoRule == [support |-> 0, against |-> 0, replayed |-> 0, refuted |-> 0, stage |-> "none"]

\* A program that is not running.
Idle == [phase |-> "idle"]

\* "counted", "tally", "evicted" and "basis" are not in the file: how often each
\* review and replay was counted, the replays forgotten, and what each was made from.
LearningInit ==
  /\ today = 1
  /\ nav = [d \in Days |-> IF d = 1 THEN FirstNav ELSE None]
  /\ advice = [d \in Days |-> None]
  /\ reviews = [j \in Jobs |-> None]
  /\ ledger = [rules |-> [l \in Labels |-> NoRule], applied |-> <<>>, evicted |-> {},
               counted |-> [j \in Jobs |-> 0], tally |-> [x \in Experiments |-> 0],
               basis |-> [x \in Experiments |-> None]]
  /\ view = [s \in Shown |-> {}]
  /\ reports = {} /\ newer = {} /\ records = [l \in Diagnoses |-> None]
  /\ certified = [d \in Days |-> None]
  /\ night = Idle /\ replay = Idle
  /\ nights = 0 /\ replays = 0 /\ certificates = 0 /\ advices = 0
  /\ odd = {} /\ raced = FALSE /\ torn = FALSE

(***************************************************************************)
(* From outside: a day passes and its quotes arrive, advice is given, and   *)
(* the user certifies what a past day's decision was made from.             *)
(***************************************************************************)
NewDay(value) ==
  /\ today + 1 \in Days /\ night = Idle /\ replay = Idle
  /\ today' = today + 1
  /\ nav' = [nav EXCEPT ![today + 1] = value]
  /\ UNCHANGED <<advice, certified, certificates, advices, learned, reviews, reports, newer, night, replay,
                 nights, replays, odd>>

Advise(a) ==
  /\ advices < MaxAdvices
  /\ advices' = advices + 1
  /\ advice' = [advice EXCEPT ![today] = a]
  /\ newer' = newer \cup ({today} \cap reports)
  /\ odd' = IF today \in reports \/ night # Idle THEN odd \cup {today} ELSE odd
  /\ UNCHANGED <<today, nav, certified, certificates, learned, reviews, reports, night, replay,
                 nights, replays>>

ReviewsOf(d) == [h \in {x \in Horizons : reviews[<<d, x>>] # None} |-> reviews[<<d, h>>]]

Certify(d, teaches) ==
  /\ advice[d] # None
  /\ certificates < MaxCertificates
  /\ certificates' = certificates + 1
  /\ certified' = [certified EXCEPT ![d] = [teaches |-> teaches, reviews |-> ReviewsOf(d)]]
  /\ UNCHANGED <<today, nav, advice, advices, learned, reviews, reports, newer, night, replay, nights, replays, odd>>

(***************************************************************************)
(* The rules.                                                               *)
(***************************************************************************)
\* No program writes the user's confirmations, which would count threefold.
Stage(rule) ==
  LET s == rule.support + 2 * rule.replayed
      c == rule.against + 2 * rule.refuted
  IN IF s = 0 /\ c > 0 THEN "archived"
     ELSE IF s >= 8 /\ c <= 1 THEN "core_permanent"
     ELSE IF s >= 5 /\ s - c >= 4 THEN "permanent"
     ELSE IF s >= 2 /\ s - c >= 1 THEN "strategic"
     ELSE "candidate"

Restaged(rules) ==
  [l \in Labels |-> IF rules[l] = NoRule THEN NoRule ELSE [rules[l] EXCEPT !.stage = Stage(rules[l])]]

\* A rule stays in the lists it was once shown in.
ListedIn(shown, rules) == [s \in Shown |-> shown[s] \cup {l \in Labels : rules[l].stage = s}]

\* A night counts a diagnosis for its rule and against those of its opposites.
Observed(rules, jobs) ==
  [l \in Labels |-> [rules[l] EXCEPT
     !.support = @ + Cardinality({j \in jobs : reviews[j].label = l}),
     !.against = @ + Cardinality({j \in jobs : reviews[j].label \in Labels /\ l \in Opposites[reviews[j].label]})]]

Synced(jobs) ==
  [ledger EXCEPT !.rules = Restaged(Observed(@, jobs)),
                 !.counted = [j \in Jobs |-> IF j \in jobs THEN @[j] + 1 ELSE @[j]]]

(***************************************************************************)
(* A night.                                                                 *)
(***************************************************************************)
\* Mutant of DueJobs: what was due before is due.
DueJobsOverdue(day) == {j \in Jobs : Due(j[1], j[2]) \in 1 .. day /\ advice[j[1]] # None}

DueJobs(day) == {j \in Jobs : Due(j[1], j[2]) = day /\ advice[j[1]] # None}

\* A resumed night skips what has a report that is no older than the advice.
StartNight(resume) ==
  /\ night = Idle /\ nights < MaxNights
  /\ ~(resume /\ today \in reports \ newer)
  /\ nights' = nights + 1
  /\ night' = [phase |-> "review", day |-> today, due |-> DueJobs(today)]
  /\ odd' = IF today \in reports THEN odd \cup {today} ELSE odd
  /\ UNCHANGED <<given, learned, reviews, reports, newer, replay, replays>>

InNight(phase) == night.phase = phase

ReviewDue ==
  /\ InNight("review")
  /\ \E signal \in Signals :
       reviews' = [j \in Jobs |-> IF j \in night.due
                     THEN ReviewOf(advice[j[1]].verb, nav, signal, j[1], j[2], night.day) ELSE reviews[j]]
  /\ night' = [night EXCEPT !.phase = "sync"]
  /\ replay' = IF replay # Idle /\ \E j \in night.due : j[1] \in replay.dates
               THEN [replay EXCEPT !.moved = TRUE] ELSE replay
  /\ UNCHANGED <<given, learned, reports, newer, nights, replays, odd>>

\* The jobs are asked for again, and those without a review are left out.
Sync ==
  /\ InNight("sync")
  /\ LET out == Synced({j \in DueJobs(night.day) : reviews[j] # None})
     IN night' = [phase |-> "ledger", day |-> night.day, read |-> <<ledger, view>>,
                  ledger |-> out, view |-> ListedIn(view, out.rules)]
  /\ UNCHANGED <<given, learned, reviews, reports, newer, replay, nights, replays, odd>>

DumpLedger ==
  /\ InNight("ledger")
  /\ ledger' = night.ledger
  /\ raced' = (raced \/ night.read # <<ledger, view>>)
  /\ night' = [night EXCEPT !.phase = "view"]
  /\ UNCHANGED <<given, view, records, torn, reviews, reports, newer, replay, nights, replays, odd>>

DumpView ==
  /\ InNight("view")
  /\ view' = night.view
  /\ raced' = (raced \/ night.read[2] # view \/ night.ledger # ledger)
  /\ night' = [night EXCEPT !.phase = "report"]
  /\ torn' = FALSE
  /\ UNCHANGED <<given, ledger, records, reviews, reports, newer, replay, nights, replays, odd>>

WriteReport ==
  /\ InNight("report")
  /\ reports' = reports \cup {night.day}
  /\ newer' = newer \ {night.day}
  /\ night' = Idle
  /\ UNCHANGED <<given, learned, reviews, replay, nights, replays, odd>>

NightDies ==
  /\ night # Idle
  /\ night' = Idle
  /\ odd' = IF night.phase \in {"view", "report"} THEN odd \cup {night.day} ELSE odd
  /\ torn' = (torn \/ night.phase = "view")
  /\ UNCHANGED <<given, ledger, view, records, raced, reviews, reports, newer, replay, nights, replays>>

(***************************************************************************)
(* A replay that is to teach.                                               *)
(***************************************************************************)
\* Mutant of Teachable: that the files are as they were certified is enough.
TeachableIntact(d) == certified[d] # None /\ certified[d].reviews = ReviewsOf(d)

Teachable(d) == certified[d] # None /\ certified[d].teaches /\ certified[d].reviews = ReviewsOf(d)

\* A replay takes every day of advice in its span.
StartReplay(name, from, to) ==
  LET dates == {d \in from .. to : advice[d] # None}
  IN /\ replay = Idle /\ replays < MaxReplays
     /\ dates # {} /\ \A d \in dates : Teachable(d)
     /\ replays' = replays + 1
     /\ replay' = [phase |-> "audited", name |-> name, dates |-> dates, moved |-> FALSE,
                   certified |-> [d \in dates |-> certified[d]]]
     /\ UNCHANGED <<given, learned, reviews, reports, newer, night, nights, odd>>

\* Dca and holds are not in the signature of a day's advice.
Signed(a) == IF a # None /\ a.verb # "scheduled_dca" THEN a ELSE [verb |-> "hold", amount |-> 0]

Delta(d, h) ==
  LET Of(a) == Edge(Signed(a).verb, Signed(a).amount, reviews[<<d, h>>].return, Fee)
  IN Of(Replayed[d]) - Of(advice[d])

\* The reviews whose advice would have been another.
Changed(dates) ==
  {j \in dates \X Horizons : reviews[j] # None /\ Signed(advice[j[1]]) # Signed(Replayed[j[1]])}

Impacted(dates, l, sign) ==
  Cardinality({j \in Changed(dates) : reviews[j].label = l /\ sign * Delta(j[1], j[2]) > 0})

\* A replay counts what it would have changed for a rule and against it.
Weighed(rules, dates) ==
  [l \in Labels |-> [rules[l] EXCEPT !.replayed = @ + Impacted(dates, l, 1),
                                    !.refuted = @ + Impacted(dates, l, -1)]]

\* The ledger with a replay counted in it.
With(x, dates, basis) ==
  LET all == Append(ledger.applied, x)
      n   == IF Len(all) > KeptReplays THEN Len(all) - KeptReplays ELSE 0
  IN [ledger EXCEPT
        !.rules   = Restaged(Weighed(@, dates)),
        !.applied = SubSeq(all, n + 1, Len(all)),
        !.evicted = @ \cup ({all[i] : i \in 1 .. n} \ {x}),
        !.tally[x] = @ + 1,
        !.basis[x] = basis]

Applied(x, dates, basis) == IF Contains(ledger.applied, x) THEN ledger ELSE With(x, dates, basis)

InReplay(phase) == replay.phase = phase

\* A day whose portfolio is not on file is skipped, and a replay that skipped
\* one teaches nothing.
Compute ==
  /\ InReplay("audited")
  /\ replay.dates \subseteq Snapshots
  /\ LET out == Applied(replay.name, replay.dates,
                        [moved |-> replay.moved, certified |-> replay.certified,
                         used |-> [d \in replay.dates |-> ReviewsOf(d)]])
     IN replay' = [phase |-> "records", name |-> replay.name, dates |-> {},
                   todo |-> {reviews[j].label : j \in Changed(replay.dates)}, moved |-> FALSE,
                   read |-> <<ledger, view>>, ledger |-> out,
                   view |-> IF out = ledger THEN view ELSE ListedIn(view, out.rules)]
  /\ UNCHANGED <<given, learned, reviews, reports, newer, night, nights, replays, odd>>

Incomplete ==
  /\ InReplay("audited")
  /\ ~(replay.dates \subseteq Snapshots)
  /\ replay' = Idle
  /\ UNCHANGED <<given, learned, reviews, reports, newer, night, nights, replays, odd>>

\* The records are written whether or not the replay was counted before.
UpsertRecord(l) ==
  /\ InReplay("records") /\ l \in replay.todo
  /\ records' = [records EXCEPT ![l] = replay.name]
  /\ replay' = [replay EXCEPT !.todo = @ \ {l}]
  /\ UNCHANGED <<given, ledger, view, raced, torn, reviews, reports, newer, night, nights, replays, odd>>

DumpReplayLedger ==
  /\ InReplay("records") /\ replay.todo = {}
  /\ ledger' = replay.ledger
  /\ raced' = (raced \/ replay.read # <<ledger, view>>)
  /\ replay' = [replay EXCEPT !.phase = "view"]
  /\ UNCHANGED <<given, view, records, torn, reviews, reports, newer, night, nights, replays, odd>>

\* A replay that was counted before shows nothing anew.
DumpReplayView ==
  /\ InReplay("view")
  /\ view' = replay.view
  /\ raced' = (raced \/ replay.read[2] # view \/ replay.ledger # ledger)
  /\ replay' = Idle
  /\ torn' = (torn /\ replay.ledger = replay.read[1])
  /\ UNCHANGED <<given, ledger, records, reviews, reports, newer, night, nights, replays, odd>>

ReplayDies ==
  /\ replay # Idle
  /\ replay' = Idle
  /\ torn' = (torn \/ replay.phase = "view")
  /\ UNCHANGED <<given, ledger, view, records, raced, reviews, reports, newer, night, nights, replays, odd>>

LearningNext ==
  \/ \E value \in Navs : NewDay(value)
  \/ \E a \in Advices : Advise(a)
  \/ \E d \in Days, teaches \in BOOLEAN : Certify(d, teaches)
  \/ \E resume \in BOOLEAN : StartNight(resume)
  \/ ReviewDue \/ Sync \/ DumpLedger \/ DumpView \/ WriteReport \/ NightDies
  \/ \E n \in Experiments, from, to \in Days : StartReplay(n, from, to)
  \/ Compute \/ Incomplete \/ DumpReplayLedger \/ DumpReplayView \/ ReplayDies
  \/ \E l \in Diagnoses : UpsertRecord(l)

LearningSpec == LearningInit /\ [][LearningNext]_learningVars

(***************************************************************************)
(* Properties.                                                              *)
(***************************************************************************)
\* The files hold what they are for, and a rule's stage is what its counts say.
LearningTypeOK ==
  /\ reviews \in [Jobs -> Review \cup {None}]
  /\ \A l \in Labels :
       LET r == ledger.rules[l] IN r.stage = IF r = NoRule THEN "none" ELSE Stage(r)
  /\ Len(ledger.applied) <= KeptReplays
  /\ records \in [Diagnoses -> Experiments \cup {None}]

\* Every review is counted by the night it is due on, once if that night is
\* resumed or dies before it writes the ledger, and never if there was no such
\* night: as long as the night is not run again on purpose, does not die
\* between the ledger and its report, no advice is written under it, and no
\* replay writes the ledger it has read (due_review_jobs, run_learning_sync).
NightCountsOnce ==
  night = Idle /\ ~raced =>
    \A j \in Jobs : LET d == Due(j[1], j[2]) IN
      advice[j[1]] # None /\ d \in 1 .. today /\ d \notin odd =>
        ledger.counted[j] = IF d \in reports THEN 1 ELSE 0

\* A replay is counted once, however often it is run, died or overlapped a
\* night, while the ledger remembers it (apply_replay_summary_to_ledger).
ReplayCountsOnce ==
  \A x \in Experiments \ ledger.evicted :
    ledger.tally[x] = IF Contains(ledger.applied, x) THEN 1 ELSE 0

\* What a replay taught came from days that may teach, all of them replayed,
\* and from the reviews that were certified, unless a night wrote one of them
\* between the audit and the replay (run_replay_experiment.main).
CertifiedTeaches ==
  \A x \in Experiments : LET b == ledger.basis[x] IN
    b # None =>
      /\ \A d \in DOMAIN b.used : d \in Snapshots /\ b.certified[d].teaches
      /\ b.moved \/ \A d \in DOMAIN b.used : b.used[d] = b.certified[d].reviews

\* The view shows each active rule in the list of its stage, unless programs
\* overlapped; what one that died before the view left out, the next that
\* counts something puts in (update_memory_from_ledger, write_learning_artifacts).
ViewShowsStages ==
  night = Idle /\ replay = Idle /\ ~raced /\ ~torn =>
    \A l \in Labels : ledger.rules[l].stage \in Shown => l \in view[ledger.rules[l].stage]
==============================================================================
