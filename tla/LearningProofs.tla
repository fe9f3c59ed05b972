---------------------------- MODULE LearningProofs ----------------------------
(***************************************************************************)
(* What is learned from, for any days, advice, replays and interleavings of *)
(* the programs that write the ledger; and what the policies rest on, for   *)
(* any tickets, quotes, events and order of the commands.                   *)
(***************************************************************************)
EXTENDS Learning, FiniteSetTheorems, SequenceTheorems, WellFoundedInduction, TLAPS

-------------------------------------------------------------------------------
(***************************************************************************)
(* Days and reviews.                                                        *)
(***************************************************************************)
LEMMA DaysType == Cardinality(Days) \in Nat /\ Days = 1 .. Cardinality(Days) /\ Days \subseteq Nat \ {0}
<1>1. Cardinality(Days) \in Nat
  BY ReviewsAssumption, FS_CardinalityType
<1> QED
  BY <1>1, ReviewsAssumption

LEMMA FirstDay ==
  ASSUME NEW S \in SUBSET Days, S # {}
  PROVE  Min(S) \in S
<1>1. S \subseteq Nat
  BY DaysType
<1>2. PICK d \in S : \A e \in S : ~ (<<e, d>> \in OpToRel(<, Nat))
  BY <1>1, NatLessThanWellFounded, WFMin
<1>3. \A e \in S : ~ (e < d)
  BY <1>1, <1>2 DEF OpToRel
<1>4. \A e \in S : d <= e
  BY <1>1, <1>3
<1> QED
  BY <1>4 DEF Min

LEMMA LastDay ==
  ASSUME NEW S \in SUBSET Days, S # {}
  PROVE  Max(S) \in S
<1> DEFINE N == Cardinality(Days)
           T == {N - d : d \in S}
<1>1. \A d \in S : d \in Nat /\ d <= N
  BY DaysType
<1>2. T \subseteq Nat /\ T # {}
  <2>1. \A d \in S : N - d \in Nat
    BY <1>1, DaysType
  <2> QED
    BY <2>1
<1>3. PICK x \in T : \A y \in T : ~ (<<y, x>> \in OpToRel(<, Nat))
  BY <1>2, NatLessThanWellFounded, WFMin
<1>4. \A y \in T : ~ (y < x)
  BY <1>2, <1>3 DEF OpToRel
<1>5. PICK d \in S : x = N - d
  OBVIOUS
<1>6. \A e \in S : ~ (N - e < N - d)
  BY <1>4, <1>5
<1>7. \A e \in S : d >= e
  BY <1>1, <1>6, DaysType
<1> QED
  BY <1>7 DEF Max

\* A review is due on the day of the advice or after it.
LEMMA DueLater ==
  ASSUME NEW b \in Days, NEW h \in Horizons
  PROVE  /\ Due(b, h) \in Nat
         /\ h = 0 => Due(b, h) = b
         /\ h # 0 => Due(b, h) = 0 \/ Due(b, h) > b
<1> DEFINE ends == {d \in Days \ Weekend : Cardinality((b + 1 .. d) \ Weekend) = h}
<1>1. b \in Nat
  BY DaysType
<1>2. CASE h = 0
  BY <1>1, <1>2 DEF Due
<1>3. CASE h # 0 /\ ends = {}
  BY <1>3 DEF Due
<1>4. CASE h # 0 /\ ends # {}
  <2>1. Min(ends) \in ends
    BY <1>4, FirstDay
  <2>2. PICK d \in Days : d = Min(ends) /\ Cardinality((b + 1 .. d) \ Weekend) = h
    BY <2>1
  <2>3. d \in Nat
    BY DaysType
  <2>4. d > b
    <3>1. SUFFICES ASSUME ~(d > b) PROVE FALSE
      OBVIOUS
    <3>2. (b + 1 .. d) \ Weekend = {}
      BY <1>1, <2>3, <3>1
    <3> QED
      BY <1>4, <2>2, <3>2, FS_EmptySet
  <2>5. Due(b, h) = d
    BY <1>4, <2>2 DEF Due
  <2> QED
    BY <1>1, <1>4, <2>3, <2>4, <2>5
<1> QED
  BY <1>2, <1>3, <1>4

LEMMA LabelNames ==
  Labels = {"signal_failure", "signal_confirmed", "timing_drag", "timing_resilience",
            "good_risk_reduction", "premature_de_risk", "watchful_hold", "hold_missed_move"}
  BY DEF Labels, Opposites

LEMMA DiagnosticType ==
  ASSUME NEW verb, NEW return, NEW signal, NEW horizon
  PROVE  Diagnostic(verb, return, signal, horizon) \in Diagnoses
  BY LabelNames DEF Diagnostic, Diagnoses

Priced == nav \in [Days -> Navs \cup {FirstNav, None}]

LEMMA PercentType ==
  ASSUME NEW a \in Nat \ {0}, NEW b \in Nat \ {0}
  PROVE  Percent(a, b) \in Int
<1>1. (b - a) * 100 \in Int
  OBVIOUS
<1> QED
  BY <1>1 DEF Percent

LEMMA QuotedDay ==
  ASSUME Priced, NEW day, LastOnOrBefore(nav, day) # 0
  PROVE  nav[LastOnOrBefore(nav, day)] \in Nat \ {0}
<1> DEFINE known == {d \in Days : d <= day /\ nav[d] # None}
<1>1. known # {} /\ LastOnOrBefore(nav, day) = Max(known)
  BY DEF LastOnOrBefore
<1>2. Max(known) \in known
  BY <1>1, LastDay
<1> QED
  BY <1>1, <1>2, LearningAssumption DEF Priced

LEMMA PeriodType == ASSUME Priced, NEW base, NEW day PROVE PeriodReturn(nav, base, day) \in Int \cup {None}
  BY QuotedDay, PercentType DEF PeriodReturn

LEMMA ChangeType == ASSUME Priced, NEW day \in Days PROVE DayChange(nav, day) \in Int \cup {None}
<1>1. nav[day] # None => nav[day] \in Nat \ {0}
  BY LearningAssumption DEF Priced
<1> QED
  BY <1>1, QuotedDay, PercentType DEF DayChange

LEMMA ReviewType ==
  ASSUME Priced, NEW verb, NEW signal, NEW base, NEW horizon, NEW day \in Days
  PROVE  ReviewOf(verb, nav, signal, base, horizon, day) \in Review
<1>1. EvaluationReturn(nav, base, horizon, day) \in Int \cup {None}
  BY PeriodType, ChangeType DEF EvaluationReturn
<1> QED
  BY <1>1, DiagnosticType DEF ReviewOf, Review

-------------------------------------------------------------------------------
(***************************************************************************)
(* A ledger, on file or in the hands of a program.                          *)
(***************************************************************************)
Fields(r) == r = [support |-> r.support, against |-> r.against, replayed |-> r.replayed,
                  refuted |-> r.refuted, stage |-> r.stage]

RuleOK(r) == Fields(r) /\ r.stage = IF r = NoRule THEN "none" ELSE Stage(r)

\* What a ledger remembers of its replays: how often each was counted, and from what.
ReplaysOnce(led) ==
  \A x \in Experiments \ led.evicted : led.tally[x] = IF Contains(led.applied, x) THEN 1 ELSE 0

Certain(b) ==
  /\ \A d \in DOMAIN b.used : d \in Snapshots /\ b.certified[d].teaches
  /\ b.moved \/ \A d \in DOMAIN b.used : b.used[d] = b.certified[d].reviews

Taught(led) == \A x \in Experiments : led.basis[x] # None => Certain(led.basis[x])

Record(led) ==
  /\ led = [rules |-> led.rules, applied |-> led.applied, evicted |-> led.evicted,
            counted |-> led.counted, tally |-> led.tally, basis |-> led.basis]
  /\ led.counted \in [Jobs -> Nat]
  /\ led.tally \in [Experiments -> Nat]
  /\ led.basis = [x \in Experiments |-> led.basis[x]]

LedgerOK(led) ==
  /\ Record(led)
  /\ \A l \in Labels : RuleOK(led.rules[l])
  /\ led.applied \in Seq(Experiments) /\ Len(led.applied) <= KeptReplays
  /\ ReplaysOnce(led)
  /\ Taught(led)

LEMMA Staged == \A r : Stage(r) # "none"
  BY DEF Stage

LEMMA RestageRule ==
  ASSUME NEW r, Fields(r), r # NoRule
  PROVE  RuleOK([r EXCEPT !.stage = Stage(r)])
<1>1. PICK s : s = [r EXCEPT !.stage = Stage(r)]
  OBVIOUS
<1>2. s = [support |-> r.support, against |-> r.against, replayed |-> r.replayed,
           refuted |-> r.refuted, stage |-> Stage(r)]
  BY <1>1 DEF Fields
<1>3. Fields(s)
  BY <1>2 DEF Fields
<1>4. s.support = r.support /\ s.against = r.against /\ s.replayed = r.replayed /\ s.refuted = r.refuted /\ s.stage = Stage(r)
  BY <1>2
<1>5. Stage(s) = Stage(r)
  BY <1>4 DEF Stage
<1>6. s # NoRule
  BY <1>4, Staged DEF NoRule
<1> QED
  BY <1>1, <1>3, <1>4, <1>5, <1>6 DEF RuleOK

LEMMA RestagedOK ==
  ASSUME NEW rules, \A l \in Labels : Fields(rules[l])
  PROVE  \A l \in Labels : RuleOK(Restaged(rules)[l])
<1> SUFFICES ASSUME NEW l \in Labels PROVE RuleOK(Restaged(rules)[l])
  OBVIOUS
<1>1. Restaged(rules)[l] = IF rules[l] = NoRule THEN NoRule ELSE [rules[l] EXCEPT !.stage = Stage(rules[l])]
  BY DEF Restaged
<1>2. RuleOK(NoRule)
  BY DEF RuleOK, Fields, NoRule
<1> QED
  BY <1>1, <1>2, RestageRule

LEMMA CountedFields ==
  ASSUME NEW r, Fields(r), NEW a, NEW b
  PROVE  /\ Fields([r EXCEPT !.support = a, !.against = b])
         /\ Fields([r EXCEPT !.replayed = a, !.refuted = b])
<1>1. r = [support |-> r.support, against |-> r.against, replayed |-> r.replayed,
           refuted |-> r.refuted, stage |-> r.stage]
  BY DEF Fields
<1>2. PICK s : s = [r EXCEPT !.support = a]
  OBVIOUS
<1>3. s = [support |-> a, against |-> r.against, replayed |-> r.replayed,
           refuted |-> r.refuted, stage |-> r.stage]
  BY <1>1, <1>2
<1>4. [s EXCEPT !.against = b] = [support |-> a, against |-> b, replayed |-> r.replayed,
                                  refuted |-> r.refuted, stage |-> r.stage]
  BY <1>3
<1>5. PICK t : t = [r EXCEPT !.replayed = a]
  OBVIOUS
<1>6. t = [support |-> r.support, against |-> r.against, replayed |-> a,
           refuted |-> r.refuted, stage |-> r.stage]
  BY <1>1, <1>5
<1>7. [t EXCEPT !.refuted = b] = [support |-> r.support, against |-> r.against, replayed |-> a,
                                  refuted |-> b, stage |-> r.stage]
  BY <1>6
<1> QED
  BY <1>2, <1>4, <1>5, <1>7 DEF Fields

LEMMA ObservedFields ==
  ASSUME NEW rules, \A l \in Labels : Fields(rules[l]), NEW jobs
  PROVE  \A l \in Labels : Fields(Observed(rules, jobs)[l])
  BY CountedFields DEF Observed

LEMMA ReplayedFields ==
  ASSUME NEW rules, \A l \in Labels : Fields(rules[l]), NEW dates
  PROVE  \A l \in Labels : Fields(Weighed(rules, dates)[l])
  BY CountedFields DEF Weighed

LEMMA SyncedLedger ==
  ASSUME LedgerOK(ledger), NEW jobs
  PROVE  /\ LedgerOK(Synced(jobs))
         /\ Synced(jobs).counted = [j \in Jobs |-> IF j \in jobs THEN ledger.counted[j] + 1 ELSE ledger.counted[j]]
<1>1. PICK led : led = ledger
  OBVIOUS
<1>2. led = [rules |-> led.rules, applied |-> led.applied, evicted |-> led.evicted,
             counted |-> led.counted, tally |-> led.tally, basis |-> led.basis]
  BY <1>1 DEF LedgerOK, Record
<1>3. PICK rules : rules = Restaged(Observed(led.rules, jobs))
  OBVIOUS
<1>4. PICK counted : counted = [j \in Jobs |-> IF j \in jobs THEN led.counted[j] + 1 ELSE led.counted[j]]
  OBVIOUS
<1>5. PICK half : half = [led EXCEPT !.rules = rules]
  OBVIOUS
<1>6. half = [rules |-> rules, applied |-> led.applied, evicted |-> led.evicted,
              counted |-> led.counted, tally |-> led.tally, basis |-> led.basis]
  BY <1>2, <1>5
<1>7. PICK out : out = [half EXCEPT !.counted = counted]
  OBVIOUS
<1>8. out = [rules |-> rules, applied |-> led.applied, evicted |-> led.evicted,
             counted |-> counted, tally |-> led.tally, basis |-> led.basis]
  BY <1>6, <1>7
<1>9. Synced(jobs) = out
  BY <1>1, <1>3, <1>4, <1>5, <1>7 DEF Synced
<1>10. out.rules = rules /\ out.applied = led.applied /\ out.evicted = led.evicted
       /\ out.counted = counted /\ out.tally = led.tally /\ out.basis = led.basis
  BY <1>8
<1>11. \A l \in Labels : Fields(led.rules[l])
  BY <1>1 DEF LedgerOK, RuleOK
<1>12. \A l \in Labels : RuleOK(rules[l])
  BY <1>3, <1>11, ObservedFields, RestagedOK
<1>13. Record(out)
  <2>1. counted \in [Jobs -> Nat]
    BY <1>1, <1>4 DEF LedgerOK, Record
  <2> QED
    BY <1>1, <1>8, <1>10, <2>1 DEF LedgerOK, Record
<1>14. ReplaysOnce(out) /\ Taught(out) /\ out.applied \in Seq(Experiments) /\ Len(out.applied) <= KeptReplays
  BY <1>1, <1>10 DEF LedgerOK, ReplaysOnce, Taught
<1> QED
  BY <1>1, <1>4, <1>9, <1>10, <1>12, <1>13, <1>14 DEF LedgerOK

\* What is remembered of the replays when one more is counted and n are forgotten.
Remembers(s, x, n) == SubSeq(Append(s, x), n + 1, Len(s) + 1)

LEMMA Remembered ==
  ASSUME NEW s \in Seq(Experiments), Len(s) <= KeptReplays, NEW x \in Experiments, NEW n \in {0, 1},
         Len(s) + 1 > KeptReplays => n = Len(s) + 1 - KeptReplays,
         ~(Len(s) + 1 > KeptReplays) => n = 0
  PROVE  /\ Remembers(s, x, n) \in Seq(Experiments) /\ Len(Remembers(s, x, n)) <= KeptReplays
         /\ Contains(Remembers(s, x, n), x)
         /\ \A y \in Experiments \ {x} :
              (\A i \in 1 .. n : Append(s, x)[i] # y) => (Contains(Remembers(s, x, n), y) <=> Contains(s, y))
<1> PICK kept : kept = Remembers(s, x, n)
  OBVIOUS
<1>1. PICK all : all = Append(s, x)
  OBVIOUS
<1>2. /\ all \in Seq(Experiments) /\ Len(all) = Len(s) + 1 /\ Len(s) \in Nat /\ all[Len(s) + 1] = x
      /\ \A i \in 1 .. Len(s) : all[i] = s[i]
  BY <1>1
<1>3. n \in {0, 1} /\ n \in Nat /\ n <= Len(s) /\ Len(s) + 1 - n <= KeptReplays
  BY <1>1, <1>2, LearningAssumption
<1>4. kept = SubSeq(all, n + 1, Len(s) + 1)
  BY <1>1, <1>2 DEF Remembers
<1>5. kept \in Seq(Experiments) /\ Len(kept) = Len(s) + 1 - n /\ \A i \in 1 .. Len(s) + 1 - n : kept[i] = all[n + i]
  <2>1. PICK a \in Int, b \in Int : a = n + 1 /\ b = Len(s) + 1
    BY <1>2, <1>3
  <2>2. \A i \in a .. b : all[i] \in Experiments
    BY <1>2, <1>3, <2>1
  <2>3. /\ SubSeq(all, a, b) \in Seq(Experiments)
        /\ Len(SubSeq(all, a, b)) = IF a <= b THEN b - a + 1 ELSE 0
        /\ \A i \in 1 .. b - a + 1 : SubSeq(all, a, b)[i] = all[a + i - 1]
    BY <2>2, SubSeqProperties
  <2> PICK m \in Nat : m = Len(s)
    BY <1>2
  <2>4. n \in Nat /\ n <= m /\ a = n + 1 /\ b = m + 1
    BY <1>3, <2>1
  <2>5. a <= b /\ b - a + 1 = m + 1 - n
    BY <2>4
  <2>6. \A i \in 1 .. m + 1 - n : a + i - 1 = n + i
    BY <2>4
  <2> QED
    <3>1. kept = SubSeq(all, a, b)
      BY <1>4, <2>1
    <3>2. kept \in Seq(Experiments) /\ Len(kept) = m + 1 - n
      BY <2>3, <2>5, <3>1
    <3>3. ASSUME NEW i \in 1 .. m + 1 - n PROVE kept[i] = all[n + i]
      <4>1. i \in 1 .. b - a + 1
        BY <2>5
      <4> QED
        BY <2>3, <2>6, <3>1, <4>1
    <3> QED
      BY <3>2, <3>3
<1>6. \A y : Contains(kept, y) <=> \E i \in 1 .. Len(s) + 1 - n : kept[i] = y
  BY <1>5 DEF Contains
<1>7. \A y : Contains(s, y) <=> \E i \in 1 .. Len(s) : s[i] = y
  BY DEF Contains
<1>8. Contains(kept, x)
  <2> PICK m \in Nat : m = Len(s)
    BY <1>2
  <2>1. PICK i : i = m + 1 - n
    OBVIOUS
  <2>2. i \in 1 .. Len(s) + 1 - n /\ n + i = Len(s) + 1
    <3>1. n \in Nat /\ n <= m
      BY <1>3
    <3> QED
      BY <2>1, <3>1
  <2>3. kept[i] = all[n + i]
    BY <1>5, <2>2
  <2> QED
    BY <1>2, <1>6, <2>2, <2>3
<1>9. ASSUME NEW y \in Experiments \ {x}, \A i \in 1 .. n : all[i] # y
      PROVE  Contains(kept, y) <=> Contains(s, y)
  <2>1. ASSUME NEW i \in 1 .. Len(s) + 1 - n, kept[i] = y PROVE \E k \in 1 .. Len(s) : s[k] = y
    <3>1. all[n + i] = y
      BY <1>5, <2>1
    <3>2. PICK k : k = n + i
      OBVIOUS
    <3>3. k \in 1 .. Len(s) + 1
      BY <1>2, <1>3, <3>2
    <3>4. k # Len(s) + 1
      BY <1>2, <1>9, <3>1, <3>2
    <3>5. k \in 1 .. Len(s)
      BY <1>2, <3>3, <3>4
    <3> QED
      BY <1>2, <3>1, <3>2, <3>5
  <2>2. ASSUME NEW k \in 1 .. Len(s), s[k] = y PROVE \E i \in 1 .. Len(s) + 1 - n : kept[i] = y
    <3>1. all[k] = y
      BY <1>2, <2>2
    <3>2. ~(k \in 1 .. n)
      BY <1>9, <3>1
    <3>3. k - n \in 1 .. Len(s) + 1 - n /\ n + (k - n) = k
      BY <1>2, <1>3, <3>2
    <3> QED
      BY <1>5, <3>1, <3>3
  <2> QED
    BY <1>6, <1>7, <2>1, <2>2
<1> QED
  BY <1>1, <1>3, <1>5, <1>8, <1>9

LEMMA WithLedger ==
  ASSUME LedgerOK(ledger), NEW x \in Experiments, ~Contains(ledger.applied, x), NEW dates, NEW basis, Certain(basis)
  PROVE  LedgerOK(With(x, dates, basis)) /\ With(x, dates, basis).counted = ledger.counted
<1>1. PICK led : led = ledger
  OBVIOUS
<1>2. led = [rules |-> led.rules, applied |-> led.applied, evicted |-> led.evicted,
             counted |-> led.counted, tally |-> led.tally, basis |-> led.basis]
  BY <1>1 DEF LedgerOK, Record
<1>3. PICK n : n = IF Len(Append(led.applied, x)) > KeptReplays THEN Len(Append(led.applied, x)) - KeptReplays ELSE 0
  OBVIOUS
<1>4. PICK rules : rules = Restaged(Weighed(led.rules, dates))
  OBVIOUS
<1>5. PICK kept : kept = SubSeq(Append(led.applied, x), n + 1, Len(Append(led.applied, x)))
  OBVIOUS
<1>6. PICK gone : gone = led.evicted \cup ({Append(led.applied, x)[i] : i \in 1 .. n} \ {x})
  OBVIOUS
<1>7. PICK tally : tally = [led.tally EXCEPT ![x] = @ + 1]
  OBVIOUS
<1>8. PICK bases : bases = [led.basis EXCEPT ![x] = basis]
  OBVIOUS
<1>9. PICK one : one = [led EXCEPT !.rules = rules]
  OBVIOUS
<1>10. one = [rules |-> rules, applied |-> led.applied, evicted |-> led.evicted,
              counted |-> led.counted, tally |-> led.tally, basis |-> led.basis]
  BY <1>2, <1>9
<1>11. PICK two : two = [one EXCEPT !.applied = kept]
  OBVIOUS
<1>12. two = [rules |-> rules, applied |-> kept, evicted |-> led.evicted,
              counted |-> led.counted, tally |-> led.tally, basis |-> led.basis]
  BY <1>10, <1>11
<1>13. PICK three : three = [two EXCEPT !.evicted = gone]
  OBVIOUS
<1>14. three = [rules |-> rules, applied |-> kept, evicted |-> gone,
                counted |-> led.counted, tally |-> led.tally, basis |-> led.basis]
  BY <1>12, <1>13
<1>15. PICK four : four = [three EXCEPT !.tally = tally]
  OBVIOUS
<1>16. four = [rules |-> rules, applied |-> kept, evicted |-> gone,
               counted |-> led.counted, tally |-> tally, basis |-> led.basis]
  BY <1>14, <1>15
<1>17. PICK out : out = [four EXCEPT !.basis = bases]
  OBVIOUS
<1>18. out = [rules |-> rules, applied |-> kept, evicted |-> gone,
              counted |-> led.counted, tally |-> tally, basis |-> bases]
  BY <1>16, <1>17
<1>19. With(x, dates, basis) = out
  <2> DEFINE all == Append(ledger.applied, x)
             m == IF Len(all) > KeptReplays THEN Len(all) - KeptReplays ELSE 0
             R == Restaged(Weighed(ledger.rules, dates))
             K == SubSeq(all, m + 1, Len(all))
             G == ledger.evicted \cup ({all[i] : i \in 1 .. m} \ {x})
             T == [ledger.tally EXCEPT ![x] = ledger.tally[x] + 1]
             B == [ledger.basis EXCEPT ![x] = basis]
  <2>1. With(x, dates, basis) = [ledger EXCEPT !.rules = R, !.applied = K, !.evicted = G, !.tally = T, !.basis = B]
    BY DEF With
  <2>2. m = n
    BY <1>1, <1>3
  <2>3. R = rules /\ T = tally /\ B = bases
    BY <1>1, <1>4, <1>7, <1>8
  <2>4. K = kept
    BY <1>1, <1>5, <2>2
  <2>5. G = gone
    BY <1>1, <1>6, <2>2
  <2> HIDE DEF R, K, G, T, B
  <2>6. With(x, dates, basis) = [led EXCEPT !.rules = rules, !.applied = kept, !.evicted = gone, !.tally = tally, !.basis = bases]
    BY <1>1, <2>1, <2>3, <2>4, <2>5
  <2> QED
    BY <1>9, <1>11, <1>13, <1>15, <1>17, <2>6
<1>20. out.rules = rules /\ out.applied = kept /\ out.evicted = gone
       /\ out.counted = led.counted /\ out.tally = tally /\ out.basis = bases
  BY <1>18
<1>21. \A l \in Labels : RuleOK(out.rules[l])
  <2>1. \A l \in Labels : Fields(led.rules[l])
    BY <1>1 DEF LedgerOK, RuleOK
  <2> QED
    BY <1>4, <1>20, <2>1, ReplayedFields, RestagedOK
<1>22. /\ kept \in Seq(Experiments) /\ Len(kept) <= KeptReplays /\ Contains(kept, x)
       /\ \A y \in Experiments \ {x} :
            (\A i \in 1 .. n : Append(led.applied, x)[i] # y) => (Contains(kept, y) <=> Contains(led.applied, y))
  <2>1. led.applied \in Seq(Experiments) /\ Len(led.applied) <= KeptReplays
    BY <1>1 DEF LedgerOK
  <2>2. PICK s : s = led.applied
    OBVIOUS
  <2>3. s \in Seq(Experiments) /\ Len(s) \in Nat /\ Len(s) <= KeptReplays /\ Len(Append(s, x)) = Len(s) + 1
    BY <2>1, <2>2
  <2>4. /\ n \in {0, 1}
        /\ Len(s) + 1 > KeptReplays => n = Len(s) + 1 - KeptReplays
        /\ ~(Len(s) + 1 > KeptReplays) => n = 0
    BY <1>3, <2>2, <2>3, LearningAssumption
  <2>5. kept = Remembers(s, x, n)
    BY <1>5, <2>2, <2>3 DEF Remembers
  <2>6. /\ Remembers(s, x, n) \in Seq(Experiments) /\ Len(Remembers(s, x, n)) <= KeptReplays
        /\ Contains(Remembers(s, x, n), x)
        /\ \A y \in Experiments \ {x} :
             (\A i \in 1 .. n : Append(s, x)[i] # y) => (Contains(Remembers(s, x, n), y) <=> Contains(s, y))
    BY <2>3, <2>4, Remembered
  <2> QED
    BY <2>2, <2>5, <2>6
<1>23. led.tally \in [Experiments -> Nat] /\ led.counted \in [Jobs -> Nat]
       /\ led.basis = [y \in Experiments |-> led.basis[y]]
  BY <1>1 DEF LedgerOK, Record
<1>24. tally \in [Experiments -> Nat] /\ tally[x] = led.tally[x] + 1
       /\ \A y \in Experiments : y # x => tally[y] = led.tally[y]
  BY <1>7, <1>23
<1>25. bases = [y \in Experiments |-> bases[y]] /\ bases[x] = basis
       /\ \A y \in Experiments : y # x => bases[y] = led.basis[y]
  BY <1>8, <1>23
<1>26. Record(out)
  BY <1>18, <1>20, <1>23, <1>24, <1>25 DEF Record
<1>27. ReplaysOnce(out)
  <2>1. SUFFICES ASSUME NEW y \in Experiments \ gone PROVE tally[y] = IF Contains(kept, y) THEN 1 ELSE 0
    BY <1>20 DEF ReplaysOnce
  <2>2. led.tally[y] = IF Contains(led.applied, y) THEN 1 ELSE 0
    BY <1>1, <1>6 DEF LedgerOK, ReplaysOnce
  <2> QED
    <3>1. CASE y = x
      BY <1>1, <1>6, <1>22, <1>24, <2>2, <3>1
    <3>2. CASE y # x
      <4>1. Contains(kept, y) <=> Contains(led.applied, y)
        BY <1>6, <1>22, <3>2
      <4> QED
        BY <1>24, <2>2, <3>2, <4>1
    <3> QED
      BY <3>1, <3>2
<1>28. Taught(out)
  BY <1>1, <1>20, <1>25 DEF LedgerOK, Taught
<1> QED
  BY <1>1, <1>19, <1>20, <1>21, <1>22, <1>26, <1>27, <1>28 DEF LedgerOK

LEMMA AppliedLedger ==
  ASSUME LedgerOK(ledger), NEW x \in Experiments, NEW dates, NEW basis, Certain(basis)
  PROVE  LedgerOK(Applied(x, dates, basis)) /\ Applied(x, dates, basis).counted = ledger.counted
  BY WithLedger DEF Applied

-------------------------------------------------------------------------------
(***************************************************************************)
(* The files, and what each program holds of them.                          *)
(***************************************************************************)
FilesOK ==
  /\ today \in Days /\ Priced
  /\ advice \in [Days -> Advices \cup {None}] /\ certified = [d \in Days |-> certified[d]]
  /\ reviews \in [Jobs -> Review \cup {None}]
  /\ records \in [Diagnoses -> Experiments \cup {None}]
  /\ reports \subseteq 1 .. today

NightShape ==
  \/ night = Idle
  \/ /\ night.phase \in {"review", "sync"}
     /\ night = [phase |-> night.phase, day |-> today, due |-> night.due]
  \/ /\ night.phase \in {"ledger", "view", "report"}
     /\ night = [phase |-> night.phase, day |-> today, read |-> night.read, ledger |-> night.ledger,
                 view |-> night.view]

ReplayShape ==
  \/ replay = Idle
  \/ /\ replay.phase = "audited" /\ replay.name \in Experiments /\ replay.dates \subseteq Days
     /\ replay.certified = [d \in replay.dates |-> replay.certified[d]]
     /\ replay = [phase |-> replay.phase, name |-> replay.name, dates |-> replay.dates, moved |-> replay.moved,
                  certified |-> replay.certified]
  \/ /\ replay.phase \in {"records", "view"} /\ replay.name \in Experiments
     /\ replay = [phase |-> replay.phase, name |-> replay.name, dates |-> replay.dates, todo |-> replay.todo,
                  moved |-> replay.moved, read |-> replay.read, ledger |-> replay.ledger, view |-> replay.view]

\* No ledger counts a review that is not due yet, or of a day without advice.
Unseen(led) ==
  \A j \in Jobs : advice[j[1]] = None \/ Due(j[1], j[2]) > today => led.counted[j] = 0

\* The view v shows the rules of a ledger.
Displays(led, v) ==
  \A l \in Labels : led.rules[l].stage \in Shown => l \in v[led.rules[l].stage]

LedgerHolds == LedgerOK(ledger) /\ Unseen(ledger)

\* A night of a day that has a report is one that was run again.
NightIsFirst == night # Idle /\ today \in reports => today \in odd

\* The night asks for every review that is due, unless advice is written under it.
NightAsks ==
  /\ night.phase = "review" => today \in odd \/ night.due = DueJobs(today)
  /\ night.phase = "sync" => today \in odd \/ \A j \in DueJobs(today) : reviews[j] # None

\* It counts them, and no others, on the ledger it has read.
NightCounts ==
  night.phase = "ledger" =>
    \A j \in Jobs :
      /\ Due(j[1], j[2]) # today => night.ledger.counted[j] = night.read[1].counted[j]
      /\ Due(j[1], j[2]) = today /\ advice[j[1]] # None /\ today \notin odd =>
           night.ledger.counted[j] = night.read[1].counted[j] + 1

NightHolds ==
  night.phase \in {"ledger", "view"} =>
    LedgerOK(night.ledger) /\ Unseen(night.ledger) /\ Displays(night.ledger, night.view)

\* What a replay read of the days it replays is what was certified, or has moved.
ReplayReads ==
  replay.phase = "audited" =>
    \A d \in replay.dates :
      /\ replay.certified[d].teaches
      /\ replay.moved \/ ReviewsOf(d) = replay.certified[d].reviews

\* A replay changes no count of a review, and shows nothing if it counts nothing.
ReplayHolds ==
  replay.phase \in {"records", "view"} =>
    /\ LedgerOK(replay.ledger) /\ Unseen(replay.ledger)
    /\ replay.ledger.counted = replay.read[1].counted
    /\ replay.ledger = replay.read[1] => replay.view = replay.read[2]
    /\ replay.ledger # replay.read[1] => Displays(replay.ledger, replay.view)

\* The ledger on file has counted the days that have a report, and the day of
\* the night that has written it and has its report still to write.
CountsHold ==
  ~raced => \A j \in Jobs :
    advice[j[1]] # None /\ Due(j[1], j[2]) \in 1 .. today /\ Due(j[1], j[2]) \notin odd =>
      ledger.counted[j] =
        IF Due(j[1], j[2]) \in reports \/ (Due(j[1], j[2]) = today /\ night.phase \in {"view", "report"})
        THEN 1 ELSE 0

ViewHolds ==
  ~raced /\ ~torn /\ night.phase # "view" /\ ~(replay.phase = "view" /\ replay.ledger # replay.read[1]) =>
    Displays(ledger, view)

LearningInv ==
  /\ FilesOK /\ NightShape /\ ReplayShape
  /\ LedgerHolds /\ NightIsFirst /\ NightAsks /\ NightCounts /\ NightHolds
  /\ ReplayReads /\ ReplayHolds
  /\ CountsHold /\ ViewHolds

LEMMA DueBounds ==
  ASSUME NEW j \in Jobs
  PROVE  Due(j[1], j[2]) \in Nat /\ j[1] \in Days /\ j[2] \in Horizons
         /\ (Due(j[1], j[2]) = 0 \/ Due(j[1], j[2]) >= j[1]) /\ j[1] \in Nat \ {0}
<1>1. j[1] \in Days /\ j[2] \in Horizons /\ j[1] \in Nat \ {0}
  BY DaysType DEF Jobs
<1> QED
  BY <1>1, DueLater

LEMMA InitLearning == LearningInit => LearningInv
<1> SUFFICES ASSUME LearningInit PROVE LearningInv
  OBVIOUS
<1>1. FilesOK
  <2>1. Priced
    BY DEF Priced, LearningInit
  <2> QED
    BY <2>1, LearningAssumption DEF FilesOK, LearningInit
<1>2. NightShape /\ ReplayShape
  BY DEF NightShape, ReplayShape, LearningInit
<1>3. LedgerHolds
  <2>1. /\ ledger = [rules |-> [l \in Labels |-> NoRule], applied |-> <<>>, evicted |-> {},
                     counted |-> [j \in Jobs |-> 0], tally |-> [x \in Experiments |-> 0],
                     basis |-> [x \in Experiments |-> None]]
    BY DEF LearningInit
  <2>2. /\ ledger.rules = [l \in Labels |-> NoRule] /\ ledger.applied = <<>> /\ ledger.evicted = {}
        /\ ledger.counted = [j \in Jobs |-> 0] /\ ledger.tally = [x \in Experiments |-> 0]
        /\ ledger.basis = [x \in Experiments |-> None]
    BY <2>1
  <2>3. Record(ledger)
    BY <2>1, <2>2 DEF Record
  <2>4. \A l \in Labels : RuleOK(ledger.rules[l])
    BY <2>2 DEF RuleOK, Fields, NoRule
  <2>5. ledger.applied \in Seq(Experiments) /\ Len(ledger.applied) <= KeptReplays
    BY <2>2, LearningAssumption
  <2>6. ReplaysOnce(ledger) /\ Taught(ledger)
    BY <2>2 DEF ReplaysOnce, Taught, Contains
  <2>7. Unseen(ledger)
    BY <2>2 DEF Unseen
  <2> QED
    BY <2>3, <2>4, <2>5, <2>6, <2>7 DEF LedgerHolds, LedgerOK
<1>4. NightIsFirst /\ NightAsks /\ NightCounts /\ NightHolds /\ ReplayReads /\ ReplayHolds
  BY DEF NightIsFirst, NightAsks, NightCounts, NightHolds, ReplayReads, ReplayHolds, LearningInit, Idle
<1>5. CountsHold
  <2> SUFFICES ASSUME NEW j \in Jobs, advice[j[1]] # None PROVE FALSE
    BY DEF CountsHold
  <2> QED
    BY DueBounds DEF LearningInit
<1>6. ViewHolds
  BY DEF ViewHolds, Displays, LearningInit, NoRule, Shown
<1> QED
  BY <1>1, <1>2, <1>3, <1>4, <1>5, <1>6 DEF LearningInv

\* One step of the two programs, or of the world outside.
LEMMA FilesStep ==
  ASSUME LearningInv, LearningNext
  PROVE  FilesOK'
<1>1. FilesOK
  BY DEF LearningInv
<1>2. ASSUME NEW value \in Navs, NewDay(value) PROVE FilesOK'
  <2>1. today \in Nat /\ today' = today + 1 /\ today' \in Days
    BY <1>1, <1>2, DaysType DEF NewDay, FilesOK
  <2>2. reports' \subseteq 1 .. today'
    BY <1>1, <1>2, <2>1 DEF NewDay, FilesOK
  <2>3. Priced'
    BY <1>1, <1>2, <2>1 DEF NewDay, FilesOK, Priced
  <2> QED
    BY <1>1, <1>2, <2>1, <2>2, <2>3 DEF NewDay, FilesOK, learned
<1>3. ASSUME NEW a \in Advices, Advise(a) PROVE FilesOK'
  BY <1>1, <1>3 DEF Advise, FilesOK, Priced, learned
<1>4. ASSUME NEW d \in Days, NEW teaches \in BOOLEAN, Certify(d, teaches) PROVE FilesOK'
  BY <1>1, <1>4 DEF Certify, FilesOK, Priced, learned
<1>5. CASE ReviewDue
  <2>1. today' = today /\ nav' = nav /\ advice' = advice /\ certified' = certified /\ records' = records
        /\ reports' = reports
    BY <1>5 DEF ReviewDue, given, learned
  <2>2. night.day \in Days
    BY <1>1, <1>5 DEF ReviewDue, InNight, LearningInv, NightShape, Idle, FilesOK
  <2>3. PICK signal \in Signals :
          reviews' = [j \in Jobs |-> IF j \in night.due
                        THEN ReviewOf(advice[j[1]].verb, nav, signal, j[1], j[2], night.day) ELSE reviews[j]]
    BY <1>5 DEF ReviewDue
  <2>4. ASSUME NEW j \in Jobs PROVE ReviewOf(advice[j[1]].verb, nav, signal, j[1], j[2], night.day) \in Review
    BY <1>1, <2>2, ReviewType DEF FilesOK
  <2>5. reviews' \in [Jobs -> Review \cup {None}]
    BY <1>1, <2>3, <2>4 DEF FilesOK
  <2> QED
    BY <1>1, <2>1, <2>5 DEF FilesOK, Priced
<1>6. CASE WriteReport
  <2>1. night.day = today /\ today \in Nat \ {0}
    BY <1>1, <1>6, DaysType DEF WriteReport, InNight, LearningInv, NightShape, Idle, FilesOK
  <2>2. reports' \subseteq 1 .. today
    BY <1>1, <1>6, <2>1 DEF WriteReport, FilesOK
  <2> QED
    BY <1>1, <1>6, <2>2 DEF WriteReport, FilesOK, Priced, given, learned
<1>7. ASSUME NEW l \in Diagnoses, UpsertRecord(l) PROVE FilesOK'
  <2>1. replay.name \in Experiments
    BY <1>7 DEF UpsertRecord, InReplay, LearningInv, ReplayShape, Idle
  <2> QED
    BY <1>1, <1>7, <2>1 DEF UpsertRecord, FilesOK, Priced, given
<1>8. CASE UNCHANGED <<given, records, reviews, reports>>
  BY <1>1, <1>8 DEF FilesOK, Priced, given
<1> QED
  BY <1>2, <1>3, <1>4, <1>5, <1>6, <1>7, <1>8 DEF LearningNext, StartNight, Sync, DumpLedger, DumpView, NightDies,
     StartReplay, Compute, Incomplete, DumpReplayLedger, DumpReplayView, ReplayDies, learned

LEMMA NightShapeStep ==
  ASSUME LearningInv, LearningNext
  PROVE  NightShape'
<1>1. FilesOK /\ NightShape
  BY DEF LearningInv
<1> PICK n : n = night
  OBVIOUS
<1>2. ASSUME NEW resume \in BOOLEAN, StartNight(resume) PROVE NightShape'
  BY <1>2 DEF StartNight, NightShape, given
<1>3. CASE ReviewDue
  <2>1. n = [phase |-> "review", day |-> today, due |-> n.due]
    BY <1>1, <1>3 DEF ReviewDue, InNight, NightShape, Idle
  <2>2. night' = [n EXCEPT !.phase = "sync"] /\ today' = today
    BY <1>3 DEF ReviewDue, given
  <2>3. night' = [phase |-> "sync", day |-> today, due |-> n.due]
    BY <2>1, <2>2
  <2> QED
    BY <2>2, <2>3 DEF NightShape
<1>4. CASE Sync
  <2>1. night.day = today
    BY <1>1, <1>4 DEF Sync, InNight, NightShape, Idle
  <2> QED
    BY <1>4, <2>1 DEF Sync, NightShape, given
<1>5. CASE DumpLedger \/ DumpView
  <2>1. PICK phase : phase = night'.phase /\ phase \in {"view", "report"} /\ n.phase \in {"ledger", "view"}
                     /\ night' = [n EXCEPT !.phase = phase]
    <3>1. n.phase \in {"ledger", "view"}
      BY <1>5 DEF DumpLedger, DumpView, InNight
    <3>2. n = [phase |-> n.phase, day |-> today, read |-> n.read, ledger |-> n.ledger, view |-> n.view]
      BY <1>1, <3>1 DEF NightShape, Idle
    <3>3. CASE DumpLedger
      <4>1. night' = [n EXCEPT !.phase = "view"]
        BY <3>3 DEF DumpLedger
      <4>2. night' = [phase |-> "view", day |-> today, read |-> n.read, ledger |-> n.ledger, view |-> n.view]
        BY <3>2, <4>1
      <4> QED
        BY <3>1, <4>1, <4>2
    <3>4. CASE DumpView
      <4>1. night' = [n EXCEPT !.phase = "report"]
        BY <3>4 DEF DumpView
      <4>2. night' = [phase |-> "report", day |-> today, read |-> n.read, ledger |-> n.ledger, view |-> n.view]
        BY <3>2, <4>1
      <4> QED
        BY <3>1, <4>1, <4>2
    <3> QED
      BY <1>5, <3>3, <3>4
  <2>2. n = [phase |-> n.phase, day |-> today, read |-> n.read, ledger |-> n.ledger, view |-> n.view]
    BY <1>1, <2>1 DEF NightShape, Idle
  <2>3. night' = [phase |-> phase, day |-> today, read |-> n.read, ledger |-> n.ledger, view |-> n.view]
    BY <2>1, <2>2
  <2>4. today' = today
    BY <1>5 DEF DumpLedger, DumpView, given
  <2> QED
    BY <2>1, <2>3, <2>4 DEF NightShape
<1>6. CASE night' = Idle
  BY <1>6 DEF NightShape
<1>7. CASE UNCHANGED <<today, night>>
  BY <1>1, <1>7 DEF NightShape
<1>8. ASSUME NEW value \in Navs, NewDay(value) PROVE NightShape'
  BY <1>8 DEF NewDay, NightShape
<1> QED
  BY <1>2, <1>3, <1>4, <1>5, <1>6, <1>7, <1>8 DEF LearningNext, Advise, Certify, WriteReport, NightDies,
     StartReplay, Compute, Incomplete, DumpReplayLedger, DumpReplayView, ReplayDies, UpsertRecord, given

LEMMA ReplayShapeStep ==
  ASSUME LearningInv, LearningNext
  PROVE  ReplayShape'
<1>1. FilesOK /\ ReplayShape
  BY DEF LearningInv
<1> PICK r : r = replay
  OBVIOUS
<1> DEFINE Holds(x) ==
      x = [phase |-> x.phase, name |-> x.name, dates |-> x.dates, todo |-> x.todo,
           moved |-> x.moved, read |-> x.read, ledger |-> x.ledger, view |-> x.view]
<1>2. CASE ReviewDue
  <2>1. CASE replay' = replay
    BY <1>1, <2>1 DEF ReplayShape
  <2>2. CASE replay # Idle /\ replay' = [r EXCEPT !.moved = TRUE]
    <3>1. CASE r.phase = "audited"
      <4>1. r = [phase |-> "audited", name |-> r.name, dates |-> r.dates, moved |-> r.moved,
                 certified |-> r.certified]
            /\ r.name \in Experiments /\ r.dates \subseteq Days
            /\ r.certified = [d \in r.dates |-> r.certified[d]]
        BY <1>1, <3>1 DEF ReplayShape, Idle
      <4>2. PICK x : x = replay' /\ x = [r EXCEPT !.moved = TRUE]
        BY <2>2
      <4>3. /\ DOMAIN x = {"phase", "name", "dates", "moved", "certified"}
            /\ x.phase = "audited" /\ x.name = r.name /\ x.dates = r.dates /\ x.certified = r.certified
        BY <4>1, <4>2
      <4>4. x = [phase |-> x.phase, name |-> x.name, dates |-> x.dates, moved |-> x.moved, certified |-> x.certified]
        BY <4>2, <4>3
      <4> QED
        BY <4>1, <4>2, <4>3, <4>4 DEF ReplayShape
    <3>2. CASE r.phase # "audited"
      <4>1. r.phase \in {"records", "view"} /\ r.name \in Experiments /\ Holds(r)
        BY <1>1, <2>2, <3>2 DEF ReplayShape
      <4>2. replay' = [phase |-> r.phase, name |-> r.name, dates |-> r.dates, todo |-> r.todo,
                       moved |-> TRUE, read |-> r.read, ledger |-> r.ledger, view |-> r.view]
        <5>1. r = [phase |-> r.phase, name |-> r.name, dates |-> r.dates, todo |-> r.todo,
                   moved |-> r.moved, read |-> r.read, ledger |-> r.ledger, view |-> r.view]
          BY <4>1
        <5>2. replay' = [r EXCEPT !.moved = TRUE]
          BY <2>2
        <5> QED
          BY <5>1, <5>2
      <4> QED
        BY <4>1, <4>2 DEF ReplayShape
    <3> QED
      BY <3>1, <3>2
  <2> QED
    BY <1>2, <2>1, <2>2 DEF ReviewDue
<1>3. ASSUME NEW n \in Experiments, NEW from \in Days, NEW to \in Days, StartReplay(n, from, to) PROVE ReplayShape'
  <2>1. PICK dates, moved, certificates1 :
          /\ dates = {d \in from .. to : advice[d] # None}
          /\ certificates1 = [d \in dates |-> certified[d]]
          /\ replay' = [phase |-> "audited", name |-> n, dates |-> dates, moved |-> moved, certified |-> certificates1]
    BY <1>3 DEF StartReplay
  <2>2. dates \subseteq Days
    BY <2>1, DaysType
  <2> QED
    BY <2>1, <2>2 DEF ReplayShape
<1>4. CASE Compute
  <2>1. r.name \in Experiments
    BY <1>1, <1>4 DEF Compute, InReplay, ReplayShape, Idle
  <2>2. PICK todo, readings, out, shown :
          replay' = [phase |-> "records", name |-> r.name, dates |-> {}, todo |-> todo, moved |-> FALSE,
                     read |-> readings, ledger |-> out, view |-> shown]
    BY <1>4 DEF Compute
  <2> QED
    BY <2>1, <2>2 DEF ReplayShape
<1>5. CASE DumpReplayLedger
  <2>1. r.name \in Experiments /\ Holds(r)
    BY <1>1, <1>5 DEF DumpReplayLedger, InReplay, ReplayShape, Idle
  <2>2. replay' = [r EXCEPT !.phase = "view"]
    BY <1>5 DEF DumpReplayLedger
  <2>3. replay' = [phase |-> "view", name |-> r.name, dates |-> r.dates, todo |-> r.todo,
                   moved |-> r.moved, read |-> r.read, ledger |-> r.ledger, view |-> r.view]
    BY <2>1, <2>2
  <2> QED
    BY <2>1, <2>3 DEF ReplayShape
<1>6. ASSUME NEW l \in Diagnoses, UpsertRecord(l) PROVE ReplayShape'
  <2>1. r.phase = "records" /\ r.name \in Experiments /\ Holds(r)
    BY <1>1, <1>6 DEF UpsertRecord, InReplay, ReplayShape, Idle
  <2>2. replay' = [r EXCEPT !.todo = r.todo \ {l}]
    BY <1>6 DEF UpsertRecord
  <2>3. replay' = [phase |-> "records", name |-> r.name, dates |-> r.dates, todo |-> r.todo \ {l},
                   moved |-> r.moved, read |-> r.read, ledger |-> r.ledger, view |-> r.view]
    BY <2>1, <2>2
  <2> QED
    BY <2>1, <2>3 DEF ReplayShape
<1>7. CASE replay' = Idle
  BY <1>7 DEF ReplayShape
<1>8. CASE replay' = replay
  BY <1>1, <1>8 DEF ReplayShape
<1> QED
  BY <1>2, <1>3, <1>4, <1>5, <1>6, <1>7, <1>8 DEF LearningNext, NewDay, Advise, Certify, StartNight, Sync,
     DumpLedger, DumpView, WriteReport, NightDies, Incomplete, DumpReplayView, ReplayDies

\* Nothing that is not due is counted when a day passes or advice is given.
LEMMA UnseenStays ==
  ASSUME LearningInv, LearningNext, NEW led, Unseen(led)
  PROVE  \A j \in Jobs : advice'[j[1]] = None \/ Due(j[1], j[2]) > today' => led.counted[j] = 0
<1>1. FilesOK /\ \A j \in Jobs : advice[j[1]] = None \/ Due(j[1], j[2]) > today => led.counted[j] = 0
  BY DEF LearningInv, Unseen
<1>2. ASSUME NEW value \in Navs, NewDay(value)
      PROVE  \A j \in Jobs : advice'[j[1]] = None \/ Due(j[1], j[2]) > today' => led.counted[j] = 0
  <2>1. today \in Nat /\ today' = today + 1 /\ advice' = advice
    BY <1>1, <1>2, DaysType DEF NewDay, FilesOK
  <2> QED
    BY <1>1, <2>1, DueBounds
<1>3. ASSUME NEW a \in Advices, Advise(a)
      PROVE  \A j \in Jobs : advice'[j[1]] = None \/ Due(j[1], j[2]) > today' => led.counted[j] = 0
  BY <1>1, <1>3, DueBounds, NoneAssumption DEF Advise, FilesOK
<1>4. CASE UNCHANGED <<today, advice>>
  BY <1>1, <1>4
<1> QED
  BY <1>2, <1>3, <1>4 DEF LearningNext, Certify, StartNight, ReviewDue, Sync, DumpLedger, DumpView, WriteReport,
     NightDies, StartReplay, Compute, Incomplete, DumpReplayLedger, DumpReplayView, ReplayDies, UpsertRecord, given

LEMMA LedgerStep ==
  ASSUME LearningInv, LearningNext
  PROVE  LedgerHolds'
<1>1. PICK led : led = ledger'
  OBVIOUS
<1>2. LedgerOK(led) /\ Unseen(led)
  <2>1. CASE DumpLedger
    BY <1>1, <2>1 DEF DumpLedger, InNight, LearningInv, NightHolds
  <2>2. CASE DumpReplayLedger
    BY <1>1, <2>2 DEF DumpReplayLedger, InReplay, LearningInv, ReplayHolds
  <2>3. CASE ledger' = ledger
    BY <1>1, <2>3 DEF LearningInv, LedgerHolds
  <2> QED
    BY <2>1, <2>2, <2>3 DEF LearningNext, NewDay, Advise, Certify, StartNight, ReviewDue, Sync, DumpView,
       WriteReport, NightDies, StartReplay, Compute, Incomplete, DumpReplayView, ReplayDies, UpsertRecord, learned
<1>3. \A j \in Jobs : advice'[j[1]] = None \/ Due(j[1], j[2]) > today' => led.counted[j] = 0
  BY <1>2, UnseenStays
<1> QED
  BY <1>1, <1>2, <1>3 DEF LedgerHolds, Unseen

LEMMA NightFirstStep ==
  ASSUME LearningInv, LearningNext
  PROVE  NightIsFirst'
<1>1. NightIsFirst /\ NightShape
  BY DEF LearningInv
<1>2. ASSUME NEW value \in Navs, NewDay(value) PROVE NightIsFirst'
  BY <1>2 DEF NewDay, NightIsFirst
<1>3. ASSUME NEW a \in Advices, Advise(a) PROVE NightIsFirst'
  BY <1>1, <1>3 DEF Advise, NightIsFirst
<1>4. ASSUME NEW resume \in BOOLEAN, StartNight(resume) PROVE NightIsFirst'
  BY <1>1, <1>4 DEF StartNight, NightIsFirst, given
<1>5. CASE night' = Idle
  BY <1>5 DEF NightIsFirst
<1>6. CASE night # Idle /\ UNCHANGED <<today, reports, odd>>
  BY <1>1, <1>6 DEF NightIsFirst
<1>7. CASE UNCHANGED <<night, today, reports, odd>>
  BY <1>1, <1>7 DEF NightIsFirst
<1>8. Idle.phase = "idle"
  BY DEF Idle
<1> QED
  BY <1>2, <1>3, <1>4, <1>5, <1>6, <1>7, <1>8 DEF LearningNext, Certify, ReviewDue, Sync, DumpLedger, DumpView,
     WriteReport, NightDies, InNight, StartReplay, Compute, Incomplete, DumpReplayLedger, DumpReplayView,
     ReplayDies, UpsertRecord, given

LEMMA NightAsksStep ==
  ASSUME LearningInv, LearningNext
  PROVE  NightAsks'
<1>1. NightAsks /\ NightShape /\ FilesOK
  BY DEF LearningInv
<1> PICK n : n = night
  OBVIOUS
<1>2. CASE ReviewDue
  <2>1. n = [phase |-> "review", day |-> today, due |-> n.due]
    BY <1>1, <1>2 DEF ReviewDue, InNight, NightShape, Idle
  <2>2. /\ night' = [n EXCEPT !.phase = "sync"] /\ today' = today /\ odd' = odd /\ advice' = advice
    BY <1>2 DEF ReviewDue, given
  <2>3. night'.phase = "sync"
    BY <2>1, <2>2
  <2>4. today \in odd \/ n.due = DueJobs(today)
    BY <1>1, <2>1 DEF NightAsks
  <2>5. ASSUME NEW j \in n.due, j \in Jobs PROVE reviews'[j] # None
    <3>1. night.day \in Days
      BY <1>1, <2>1 DEF FilesOK
    <3>2. PICK signal \in Signals :
            reviews'[j] = ReviewOf(advice[j[1]].verb, nav, signal, j[1], j[2], night.day)
      BY <1>2, <2>5 DEF ReviewDue
    <3> QED
      BY <1>1, <3>1, <3>2, ReviewType, NoneAssumption DEF FilesOK
  <2>6. DueJobs(today)' = DueJobs(today) /\ DueJobs(today) \subseteq Jobs
    BY <2>2 DEF DueJobs
  <2> QED
    BY <2>2, <2>3, <2>4, <2>5, <2>6 DEF NightAsks
<1>3. ASSUME NEW resume \in BOOLEAN, StartNight(resume) PROVE NightAsks'
  BY <1>3 DEF StartNight, NightAsks, given, DueJobs
<1>4. CASE night'.phase \notin {"review", "sync"}
  BY <1>4 DEF NightAsks
<1>5. ASSUME NEW a \in Advices, Advise(a) PROVE NightAsks'
  <2>1. CASE night = Idle
    BY <1>5, <2>1 DEF Advise, NightAsks, Idle
  <2>2. CASE night # Idle
    BY <1>5, <2>2 DEF Advise, NightAsks
  <2> QED
    BY <2>1, <2>2
<1>6. CASE UNCHANGED <<night, today, odd, reviews, advice>>
  BY <1>1, <1>6 DEF NightAsks, DueJobs
<1>7. CASE Sync \/ DumpLedger \/ DumpView
  <2>1. CASE Sync
    BY <1>4, <2>1 DEF Sync
  <2>2. CASE DumpLedger \/ DumpView
    <3>1. n.phase \in {"ledger", "view"}
      BY <2>2 DEF DumpLedger, DumpView, InNight
    <3>2. n = [phase |-> n.phase, day |-> today, read |-> n.read, ledger |-> n.ledger, view |-> n.view]
      BY <1>1, <3>1 DEF NightShape, Idle
    <3>3. night'.phase \in {"view", "report"}
      BY <2>2, <3>2 DEF DumpLedger, DumpView
    <3> QED
      BY <1>4, <3>3
  <2> QED
    BY <1>7, <2>1, <2>2
<1>8. Idle.phase = "idle"
  BY DEF Idle
<1>9. ASSUME NEW value \in Navs, NewDay(value) PROVE NightAsks'
  BY <1>8, <1>9 DEF NewDay, NightAsks
<1> QED
  BY <1>2, <1>3, <1>4, <1>5, <1>6, <1>7, <1>8, <1>9 DEF LearningNext, Certify, WriteReport, NightDies, StartReplay,
     Compute, Incomplete, DumpReplayLedger, DumpReplayView, ReplayDies, UpsertRecord, given

\* The phases of a night that has written the ledger.
LEMMA NightGoesOn ==
  ASSUME NightShape
  PROVE  /\ DumpLedger => night.phase = "ledger" /\ night'.phase = "view"
                          /\ night'.ledger = night.ledger /\ night'.view = night.view
         /\ DumpView => night.phase = "view" /\ night'.phase = "report"
         /\ night # Idle => night.day = today /\ night.phase # "idle"
<1> PICK n : n = night
  OBVIOUS
<1>1. ASSUME n.phase \in {"ledger", "view"}
      PROVE  n = [phase |-> n.phase, day |-> today, read |-> n.read, ledger |-> n.ledger, view |-> n.view]
  BY <1>1 DEF NightShape, Idle
<1>2. CASE DumpLedger
  <2>1. n.phase = "ledger" /\ night' = [n EXCEPT !.phase = "view"]
    BY <1>2 DEF DumpLedger, InNight
  <2>2. night' = [phase |-> "view", day |-> today, read |-> n.read, ledger |-> n.ledger, view |-> n.view]
    BY <1>1, <2>1
  <2> QED
    BY <1>2, <2>1, <2>2 DEF DumpView, InNight, NightShape, Idle
<1>3. CASE DumpView
  <2>1. n.phase = "view" /\ night' = [n EXCEPT !.phase = "report"]
    BY <1>3 DEF DumpView, InNight
  <2>2. night' = [phase |-> "report", day |-> today, read |-> n.read, ledger |-> n.ledger, view |-> n.view]
    BY <1>1, <2>1
  <2> QED
    BY <1>3, <2>1, <2>2 DEF DumpLedger, InNight, NightShape, Idle
<1>4. night # Idle => night.day = today /\ night.phase # "idle"
  BY DEF NightShape
<1> QED
  BY <1>2, <1>3, <1>4

\* What a night that counts its reviews has read and made.
LEMMA SyncMakes ==
  ASSUME LearningInv, Sync
  PROVE  \E out, jobs :
           /\ night'.phase = "ledger" /\ night'.ledger = out /\ night'.read[1] = ledger
           /\ night'.view = ListedIn(view, out.rules)
           /\ LedgerOK(out)
           /\ out.counted = [j \in Jobs |-> IF j \in jobs THEN ledger.counted[j] + 1 ELSE ledger.counted[j]]
           /\ jobs = {j \in DueJobs(today) : reviews[j] # None}
           /\ \A j \in jobs : j \in Jobs /\ Due(j[1], j[2]) = today /\ advice[j[1]] # None
           /\ today \in odd \/ jobs = DueJobs(today)
<1>1. NightShape /\ LedgerHolds /\ NightAsks
  BY DEF LearningInv
<1>2. night.phase = "sync" /\ night.day = today
  BY <1>1 DEF Sync, InNight, NightShape, Idle
<1>3. PICK jobs : jobs = {j \in DueJobs(today) : reviews[j] # None}
  OBVIOUS
<1>4. PICK out : out = Synced(jobs)
  OBVIOUS
<1>5. night' = [phase |-> "ledger", day |-> night.day, read |-> <<ledger, view>>, ledger |-> out,
                view |-> ListedIn(view, out.rules)]
  BY <1>2, <1>3, <1>4 DEF Sync
<1>6. night'.phase = "ledger" /\ night'.ledger = out /\ night'.read[1] = ledger
      /\ night'.view = ListedIn(view, out.rules)
  BY <1>5
<1>7. /\ LedgerOK(out)
      /\ out.counted = [j \in Jobs |-> IF j \in jobs THEN ledger.counted[j] + 1 ELSE ledger.counted[j]]
  BY <1>1, <1>4, SyncedLedger DEF LedgerHolds
<1>8. \A j \in jobs : j \in Jobs /\ Due(j[1], j[2]) = today /\ advice[j[1]] # None
  BY <1>3 DEF DueJobs
<1>9. today \in odd \/ jobs = DueJobs(today)
  BY <1>1, <1>2, <1>3 DEF NightAsks
<1> QED
  BY <1>3, <1>6, <1>7, <1>8, <1>9

LEMMA NightCountsStep ==
  ASSUME LearningInv, LearningNext
  PROVE  NightCounts'
<1>1. NightCounts /\ NightShape /\ FilesOK
  BY DEF LearningInv
<1>2. CASE Sync
  <2>1. PICK out, jobs :
          /\ night'.ledger = out /\ night'.read[1] = ledger
          /\ out.counted = [j \in Jobs |-> IF j \in jobs THEN ledger.counted[j] + 1 ELSE ledger.counted[j]]
          /\ \A j \in jobs : j \in Jobs /\ Due(j[1], j[2]) = today /\ advice[j[1]] # None
          /\ today \in odd \/ jobs = DueJobs(today)
    BY <1>2, SyncMakes
  <2>2. UNCHANGED <<today, advice, odd>>
    BY <1>2 DEF Sync, given
  <2>3. ASSUME NEW j \in Jobs, Due(j[1], j[2]) # today PROVE out.counted[j] = ledger.counted[j]
    BY <2>1, <2>3
  <2>4. ASSUME NEW j \in Jobs, Due(j[1], j[2]) = today, advice[j[1]] # None, today \notin odd
        PROVE  out.counted[j] = ledger.counted[j] + 1
    <3>1. j \in jobs
      BY <2>1, <2>4 DEF DueJobs
    <3> QED
      BY <2>1, <3>1
  <2> QED
    BY <2>1, <2>2, <2>3, <2>4 DEF NightCounts
<1>3. CASE night'.phase # "ledger"
  BY <1>3 DEF NightCounts
<1>4. ASSUME NEW a \in Advices, Advise(a), night'.phase = "ledger" PROVE NightCounts'
  <2>1. night # Idle
    BY <1>4 DEF Advise, Idle
  <2> QED
    BY <1>1, <1>4, <2>1 DEF Advise, NightCounts
<1>5. CASE UNCHANGED <<night, today, odd, advice>>
  BY <1>1, <1>5 DEF NightCounts
<1>6. Idle.phase = "idle"
  BY DEF Idle
<1>7. ASSUME NEW value \in Navs, NewDay(value) PROVE NightCounts'
  BY <1>6, <1>7 DEF NewDay, NightCounts
<1>8. CASE DumpLedger \/ DumpView
  BY <1>1, <1>3, <1>8, NightGoesOn
<1>9. CASE ReviewDue
  <2>1. PICK n : n = night /\ n = [phase |-> "review", day |-> today, due |-> n.due]
    BY <1>1, <1>9 DEF ReviewDue, InNight, NightShape, Idle
  <2>2. night' = [n EXCEPT !.phase = "sync"]
    BY <1>9, <2>1 DEF ReviewDue
  <2>3. night'.phase = "sync"
    BY <2>1, <2>2
  <2> QED
    BY <1>3, <2>3
<1>10. ASSUME NEW resume \in BOOLEAN, StartNight(resume) PROVE night'.phase = "review"
  BY <1>10 DEF StartNight
<1> QED
  BY <1>2, <1>3, <1>4, <1>5, <1>6, <1>7, <1>8, <1>9, <1>10 DEF LearningNext, Certify, WriteReport, NightDies,
     StartReplay, Compute, Incomplete, DumpReplayLedger, DumpReplayView, ReplayDies, UpsertRecord, given

LEMMA NightHoldsStep ==
  ASSUME LearningInv, LearningNext
  PROVE  NightHolds'
<1>1. NightHolds /\ NightShape /\ FilesOK /\ LedgerHolds
  BY DEF LearningInv
<1>2. CASE Sync
  <2>1. PICK out, jobs :
          /\ night'.ledger = out /\ night'.view = ListedIn(view, out.rules)
          /\ LedgerOK(out)
          /\ out.counted = [j \in Jobs |-> IF j \in jobs THEN ledger.counted[j] + 1 ELSE ledger.counted[j]]
          /\ \A j \in jobs : j \in Jobs /\ Due(j[1], j[2]) = today /\ advice[j[1]] # None
    BY <1>2, SyncMakes
  <2>2. UNCHANGED <<today, advice>>
    BY <1>2 DEF Sync, given
  <2>3. ASSUME NEW j \in Jobs, advice[j[1]] = None \/ Due(j[1], j[2]) > today PROVE out.counted[j] = 0
    <3>1. Due(j[1], j[2]) \in Nat /\ today \in Nat
      BY <1>1, DueBounds, DaysType DEF FilesOK
    <3>2. j \notin jobs
      BY <2>1, <2>3, <3>1
    <3> QED
      BY <1>1, <2>1, <2>3, <3>2 DEF LedgerHolds, Unseen
  <2>4. Displays(out, ListedIn(view, out.rules))
    BY DEF Displays, ListedIn
  <2>5. PICK v : v = ListedIn(view, out.rules)
    OBVIOUS
  <2>6. Displays(out, v) /\ night'.view = v
    BY <2>1, <2>4, <2>5
  <2> QED
    BY <2>1, <2>2, <2>3, <2>6 DEF NightHolds, Unseen
<1>3. CASE night'.phase \notin {"ledger", "view"}
  BY <1>3 DEF NightHolds
<1>4. ASSUME night.phase \in {"ledger", "view"}, night'.ledger = night.ledger, night'.view = night.view
      PROVE  NightHolds'
  <2>1. PICK led, v : led = night.ledger /\ v = night.view /\ LedgerOK(led) /\ Unseen(led) /\ Displays(led, v)
    BY <1>1, <1>4 DEF NightHolds
  <2>2. \A j \in Jobs : advice'[j[1]] = None \/ Due(j[1], j[2]) > today' => led.counted[j] = 0
    BY <2>1, UnseenStays
  <2> QED
    BY <1>4, <2>1, <2>2 DEF NightHolds, Unseen
<1>5. Idle.phase = "idle"
  BY DEF Idle
<1>6. CASE DumpLedger \/ DumpView
  BY <1>1, <1>3, <1>4, <1>6, NightGoesOn
<1>7. CASE ReviewDue
  <2>1. PICK n : n = night /\ n = [phase |-> "review", day |-> today, due |-> n.due]
    BY <1>1, <1>7 DEF ReviewDue, InNight, NightShape, Idle
  <2>2. night' = [n EXCEPT !.phase = "sync"]
    BY <1>7, <2>1 DEF ReviewDue
  <2>3. night'.phase = "sync"
    BY <2>1, <2>2
  <2> QED
    BY <1>3, <2>3
<1>8. ASSUME NEW resume \in BOOLEAN, StartNight(resume) PROVE night'.phase = "review"
  BY <1>8 DEF StartNight
<1>9. CASE night' = night
  BY <1>3, <1>4, <1>9
<1> QED
  BY <1>2, <1>3, <1>5, <1>6, <1>7, <1>8, <1>9 DEF LearningNext, NewDay, Advise, Certify, WriteReport, NightDies,
     StartReplay, Compute, Incomplete, DumpReplayLedger, DumpReplayView, ReplayDies, UpsertRecord

\* A replay that goes on keeps what it holds.
LEMMA ReplayGoesOn ==
  ASSUME ReplayShape, replay.phase \in {"records", "view"}
  PROVE  /\ DumpReplayLedger => replay.phase = "records" /\ replay'.phase = "view" /\ replay'.ledger = replay.ledger
                                /\ replay'.view = replay.view /\ replay'.read = replay.read
         /\ (\E l \in Diagnoses : UpsertRecord(l)) =>
              replay.phase = "records" /\ replay'.phase = "records" /\ replay'.ledger = replay.ledger
              /\ replay'.view = replay.view /\ replay'.read = replay.read
         /\ ReviewDue => replay'.phase = replay.phase /\ replay'.ledger = replay.ledger
                         /\ replay'.view = replay.view /\ replay'.read = replay.read
<1> PICK r : r = replay
  OBVIOUS
<1>1. r = [phase |-> r.phase, name |-> r.name, dates |-> r.dates, todo |-> r.todo,
           moved |-> r.moved, read |-> r.read, ledger |-> r.ledger, view |-> r.view]
  BY DEF ReplayShape, Idle
<1>2. ASSUME DumpReplayLedger
      PROVE  replay.phase = "records" /\ replay'.phase = "view" /\ replay'.ledger = replay.ledger
             /\ replay'.view = replay.view /\ replay'.read = replay.read
  <2>1. r.phase = "records" /\ replay' = [r EXCEPT !.phase = "view"]
    BY <1>2 DEF DumpReplayLedger, InReplay
  <2>2. replay' = [phase |-> "view", name |-> r.name, dates |-> r.dates, todo |-> r.todo,
                   moved |-> r.moved, read |-> r.read, ledger |-> r.ledger, view |-> r.view]
    BY <1>1, <2>1
  <2>3. replay'.phase = "view" /\ replay'.ledger = r.ledger /\ replay'.view = r.view /\ replay'.read = r.read
    BY <2>2
  <2> QED
    BY <2>1, <2>3
<1>3. ASSUME NEW l \in Diagnoses, UpsertRecord(l)
      PROVE  replay.phase = "records" /\ replay'.phase = "records" /\ replay'.ledger = replay.ledger
             /\ replay'.view = replay.view /\ replay'.read = replay.read
  <2>1. r.phase = "records" /\ replay' = [r EXCEPT !.todo = r.todo \ {l}]
    BY <1>3 DEF UpsertRecord, InReplay
  <2>2. replay' = [phase |-> r.phase, name |-> r.name, dates |-> r.dates, todo |-> r.todo \ {l},
                   moved |-> r.moved, read |-> r.read, ledger |-> r.ledger, view |-> r.view]
    BY <1>1, <2>1
  <2>3. replay'.phase = r.phase /\ replay'.ledger = r.ledger /\ replay'.view = r.view /\ replay'.read = r.read
    BY <2>2
  <2> QED
    BY <2>1, <2>3
<1>4. ASSUME ReviewDue
      PROVE  replay'.phase = replay.phase /\ replay'.ledger = replay.ledger
             /\ replay'.view = replay.view /\ replay'.read = replay.read
  <2>1. CASE replay' = [r EXCEPT !.moved = TRUE]
    <3>1. replay' = [phase |-> r.phase, name |-> r.name, dates |-> r.dates, todo |-> r.todo,
                     moved |-> TRUE, read |-> r.read, ledger |-> r.ledger, view |-> r.view]
      BY <1>1, <2>1
    <3> QED
      BY <3>1
  <2>2. CASE replay' = replay
    BY <2>2
  <2>3. replay' = [r EXCEPT !.moved = TRUE] \/ replay' = replay
    BY <1>4 DEF ReviewDue
  <2> QED
    BY <2>1, <2>2, <2>3
<1> QED
  BY <1>2, <1>3, <1>4

LEMMA ReplayReadsStep ==
  ASSUME LearningInv, LearningNext
  PROVE  ReplayReads'
<1>1. ReplayReads /\ ReplayShape /\ FilesOK
  BY DEF LearningInv
<1> PICK r : r = replay
  OBVIOUS
<1>2. ASSUME NEW n \in Experiments, NEW from \in Days, NEW to \in Days, StartReplay(n, from, to) PROVE ReplayReads'
  <2>1. PICK dates, trust : /\ trust = [d \in dates |-> certified[d]]
                            /\ replay' = [phase |-> "audited", name |-> n, dates |-> dates, moved |-> FALSE,
                                          certified |-> trust]
                            /\ \A d \in dates : Teachable(d)
    BY <1>2 DEF StartReplay
  <2>2. replay'.dates = dates /\ replay'.certified = trust
    BY <2>1
  <2>3. \A d \in dates : trust[d].teaches /\ ReviewsOf(d) = trust[d].reviews
    BY <2>1 DEF Teachable
  <2>4. \A d : ReviewsOf(d)' = ReviewsOf(d)
    BY <1>2 DEF StartReplay, ReviewsOf
  <2> QED
    BY <2>2, <2>3, <2>4 DEF ReplayReads
<1>3. CASE ReviewDue /\ replay.phase = "audited"
  <2>1. r = [phase |-> "audited", name |-> r.name, dates |-> r.dates, moved |-> r.moved, certified |-> r.certified]
        /\ r.dates \subseteq Days
    BY <1>1, <1>3 DEF ReplayShape, Idle
  <2>2. replay # Idle
    BY <1>3 DEF Idle
  <2>3. CASE \E j \in night.due : j[1] \in r.dates
    <3>1. PICK x : x = replay' /\ x = [r EXCEPT !.moved = TRUE]
      BY <1>3, <2>2, <2>3 DEF ReviewDue
    <3>2. x.dates = r.dates /\ x.certified = r.certified /\ x.moved
      BY <2>1, <3>1
    <3> QED
      BY <1>1, <1>3, <3>1, <3>2 DEF ReplayReads
  <2>4. CASE ~\E j \in night.due : j[1] \in r.dates
    <3>1. replay' = replay
      BY <1>3, <2>4 DEF ReviewDue
    <3>2. ASSUME NEW d \in r.dates, NEW h \in Horizons PROVE reviews'[<<d, h>>] = reviews[<<d, h>>]
      <4>1. <<d, h>> \in Jobs /\ <<d, h>> \notin night.due
        BY <2>1, <2>4 DEF Jobs
      <4> QED
        BY <1>3, <4>1 DEF ReviewDue
    <3>3. ASSUME NEW d \in r.dates PROVE ReviewsOf(d)' = ReviewsOf(d)
      <4>1. {x \in Horizons : reviews'[<<d, x>>] # None} = {x \in Horizons : reviews[<<d, x>>] # None}
        BY <3>2
      <4> QED
        BY <3>2, <4>1 DEF ReviewsOf
    <3> QED
      BY <1>1, <1>3, <3>1, <3>3 DEF ReplayReads
  <2> QED
    BY <2>3, <2>4
<1>4. CASE replay'.phase # "audited"
  BY <1>4 DEF ReplayReads
<1>5. CASE UNCHANGED <<replay, reviews>>
  BY <1>1, <1>5 DEF ReplayReads, ReviewsOf
<1>6. Idle.phase = "idle"
  BY DEF Idle
<1>7. CASE ReviewDue /\ replay.phase # "audited"
  <2>1. CASE replay = Idle
    BY <1>4, <1>6, <1>7, <2>1 DEF ReviewDue
  <2>2. CASE replay # Idle
    BY <1>1, <1>4, <1>7, <2>2, ReplayGoesOn DEF ReplayShape
  <2> QED
    BY <2>1, <2>2
<1>8. CASE Compute
  BY <1>4, <1>8 DEF Compute
<1>9. CASE DumpReplayLedger \/ \E l \in Diagnoses : UpsertRecord(l)
  BY <1>1, <1>4, <1>9, ReplayGoesOn DEF DumpReplayLedger, UpsertRecord, InReplay
<1> QED
  BY <1>2, <1>3, <1>4, <1>5, <1>6, <1>7, <1>8, <1>9 DEF LearningNext, NewDay, Advise, Certify, StartNight, Sync,
     DumpLedger, DumpView, WriteReport, NightDies, Incomplete, DumpReplayView, ReplayDies

LEMMA ReplayHoldsStep ==
  ASSUME LearningInv, LearningNext
  PROVE  ReplayHolds'
<1>1. ReplayHolds /\ ReplayShape /\ FilesOK /\ LedgerHolds /\ ReplayReads
  BY DEF LearningInv
<1> PICK r : r = replay
  OBVIOUS
<1>2. CASE Compute
  <2>1. /\ r.phase = "audited" /\ r.name \in Experiments /\ r.dates \subseteq Snapshots
        /\ r.certified = [d \in r.dates |-> r.certified[d]]
    BY <1>1, <1>2 DEF Compute, InReplay, ReplayShape, Idle
  <2>2. PICK used : used = [d \in r.dates |-> ReviewsOf(d)]
    OBVIOUS
  <2>3. PICK basis : basis = [moved |-> r.moved, certified |-> r.certified, used |-> used]
    OBVIOUS
  <2>4. Certain(basis)
    <3>1. basis.used = used /\ basis.certified = r.certified /\ basis.moved = r.moved
      BY <2>3
    <3> QED
      BY <1>1, <2>1, <2>2, <3>1 DEF Certain, ReplayReads
  <2>5. PICK out : out = Applied(r.name, r.dates, basis)
    OBVIOUS
  <2>6. LedgerOK(out) /\ out.counted = ledger.counted
    BY <1>1, <2>1, <2>4, <2>5, AppliedLedger DEF LedgerHolds
  <2>7. PICK todo, shown :
          /\ shown = IF out = ledger THEN view ELSE ListedIn(view, out.rules)
          /\ replay' = [phase |-> "records", name |-> r.name, dates |-> {}, todo |-> todo, moved |-> FALSE,
                        read |-> <<ledger, view>>, ledger |-> out, view |-> shown]
    BY <1>2, <2>2, <2>3, <2>5 DEF Compute
  <2>8. replay'.ledger = out /\ replay'.view = shown /\ replay'.read[1] = ledger /\ replay'.read[2] = view
    BY <2>7
  <2>9. Displays(out, ListedIn(view, out.rules))
    BY DEF Displays, ListedIn
  <2>10. out # ledger => Displays(out, shown)
    BY <2>7, <2>9
  <2>11. UNCHANGED <<today, advice>>
    BY <1>2 DEF Compute, given
  <2>12. \A j \in Jobs : advice'[j[1]] = None \/ Due(j[1], j[2]) > today' => out.counted[j] = 0
    BY <1>1, <2>6, <2>11 DEF LedgerHolds, Unseen
  <2> QED
    BY <2>6, <2>7, <2>8, <2>10, <2>12 DEF ReplayHolds, Unseen
<1>3. CASE replay'.phase \notin {"records", "view"}
  BY <1>3 DEF ReplayHolds
<1>4. ASSUME replay.phase \in {"records", "view"}, replay'.ledger = replay.ledger, replay'.view = replay.view,
             replay'.read = replay.read
      PROVE  ReplayHolds'
  <2>1. PICK led, v, old : led = replay.ledger /\ v = replay.view /\ old = replay.read
    OBVIOUS
  <2>2. /\ LedgerOK(led) /\ Unseen(led) /\ led.counted = old[1].counted
        /\ led = old[1] => v = old[2]
        /\ led # old[1] => Displays(led, v)
    BY <1>1, <1>4, <2>1 DEF ReplayHolds
  <2>3. \A j \in Jobs : advice'[j[1]] = None \/ Due(j[1], j[2]) > today' => led.counted[j] = 0
    BY <2>2, UnseenStays
  <2>4. replay'.ledger = led /\ replay'.view = v /\ replay'.read = old
    BY <1>4, <2>1
  <2> QED
    BY <2>2, <2>3, <2>4 DEF ReplayHolds, Unseen
<1>5. Idle.phase = "idle"
  BY DEF Idle
<1>6. CASE DumpReplayLedger \/ \E l \in Diagnoses : UpsertRecord(l)
  BY <1>1, <1>4, <1>6, ReplayGoesOn DEF DumpReplayLedger, UpsertRecord, InReplay
<1>7. CASE ReviewDue
  <2>1. CASE replay.phase \in {"records", "view"}
    BY <1>1, <1>4, <1>7, <2>1, ReplayGoesOn
  <2>2. CASE replay = Idle
    BY <1>3, <1>5, <1>7, <2>2 DEF ReviewDue
  <2>3. CASE replay.phase = "audited"
    <3>1. r = [phase |-> "audited", name |-> r.name, dates |-> r.dates, moved |-> r.moved, certified |-> r.certified]
      BY <1>1, <2>3 DEF ReplayShape, Idle
    <3>2. replay' = r \/ replay' = [r EXCEPT !.moved = TRUE]
      BY <1>7 DEF ReviewDue
    <3>3. PICK x : x = replay' /\ (x = r \/ x = [r EXCEPT !.moved = TRUE])
      BY <3>2
    <3>4. x.phase = "audited"
      BY <3>1, <3>3
    <3> QED
      BY <1>3, <3>3, <3>4
  <2> QED
    BY <1>1, <2>1, <2>2, <2>3 DEF ReplayShape
<1>8. ASSUME NEW n \in Experiments, NEW from \in Days, NEW to \in Days, StartReplay(n, from, to)
      PROVE replay'.phase = "audited"
  BY <1>8 DEF StartReplay
<1>9. CASE replay' = replay
  BY <1>3, <1>4, <1>9
<1> QED
  BY <1>2, <1>3, <1>5, <1>6, <1>7, <1>8, <1>9 DEF LearningNext, NewDay, Advise, Certify, StartNight, Sync,
     DumpLedger, DumpView, WriteReport, NightDies, Incomplete, DumpReplayView, ReplayDies

LEMMA CountsStep ==
  ASSUME LearningInv, LearningNext
  PROVE  CountsHold'
<1>1. CountsHold /\ NightShape /\ FilesOK /\ LedgerHolds /\ NightIsFirst /\ NightCounts /\ ReplayHolds
  BY DEF LearningInv
<1>2. Idle.phase = "idle" /\ today \in Nat /\ reports \subseteq 1 .. today
  BY <1>1, DaysType DEF FilesOK, Idle
<1>3. ASSUME NEW value \in Navs, NewDay(value) PROVE CountsHold'
  <2>1. /\ today' = today + 1 /\ night = Idle /\ night' = Idle /\ UNCHANGED <<advice, odd, ledger, reports, raced>>
    BY <1>3 DEF NewDay, learned
  <2>2. SUFFICES ASSUME ~raced, NEW j \in Jobs, advice[j[1]] # None, Due(j[1], j[2]) \in 1 .. today + 1,
                        Due(j[1], j[2]) \notin odd
                 PROVE  ledger.counted[j] = IF Due(j[1], j[2]) \in reports THEN 1 ELSE 0
    BY <1>2, <2>1 DEF CountsHold
  <2>3. CASE Due(j[1], j[2]) \in 1 .. today
    BY <1>1, <1>2, <2>1, <2>2, <2>3 DEF CountsHold
  <2>4. CASE Due(j[1], j[2]) = today + 1
    <3>1. ledger.counted[j] = 0
      BY <1>1, <1>2, <2>4 DEF LedgerHolds, Unseen
    <3> QED
      BY <1>2, <2>4, <3>1
  <2> QED
    BY <1>2, <2>2, <2>3, <2>4, DueBounds
<1>4. ASSUME NEW a \in Advices, Advise(a) PROVE CountsHold'
  <2>1. /\ UNCHANGED <<today, night, ledger, reports, raced>> /\ odd \subseteq odd'
        /\ today \in reports \/ night # Idle => today \in odd'
        /\ \A d \in Days : d # today => advice'[d] = advice[d]
    BY <1>1, <1>4 DEF Advise, learned, FilesOK
  <2>2. SUFFICES ASSUME ~raced, NEW j \in Jobs, advice'[j[1]] # None, Due(j[1], j[2]) \in 1 .. today,
                        Due(j[1], j[2]) \notin odd'
                 PROVE  ledger.counted[j] =
                          IF Due(j[1], j[2]) \in reports \/ (Due(j[1], j[2]) = today /\ night.phase \in {"view", "report"})
                          THEN 1 ELSE 0
    BY <2>1 DEF CountsHold
  <2>3. CASE advice[j[1]] # None
    BY <1>1, <2>1, <2>2, <2>3 DEF CountsHold
  <2>4. CASE advice[j[1]] = None
    <3>1. j[1] = today /\ Due(j[1], j[2]) = today
      BY <1>2, <2>1, <2>2, <2>4, DueBounds
    <3>2. today \notin reports /\ night = Idle
      BY <2>1, <2>2, <3>1
    <3>3. ledger.counted[j] = 0
      BY <1>1, <2>4 DEF LedgerHolds, Unseen
    <3> QED
      BY <1>2, <3>1, <3>2, <3>3
  <2> QED
    BY <2>3, <2>4
<1>5. CASE DumpLedger
  <2>1. /\ night.phase = "ledger" /\ night'.phase = "view" /\ ledger' = night.ledger
        /\ raced' = (raced \/ night.read # <<ledger, view>>)
        /\ UNCHANGED <<today, advice, odd, reports>>
    BY <1>1, <1>5, NightGoesOn DEF DumpLedger, given
  <2>2. SUFFICES ASSUME ~raced, night.read = <<ledger, view>>, NEW j \in Jobs, advice[j[1]] # None,
                        Due(j[1], j[2]) \in 1 .. today, Due(j[1], j[2]) \notin odd
                 PROVE  night.ledger.counted[j] = IF Due(j[1], j[2]) \in reports \/ Due(j[1], j[2]) = today THEN 1 ELSE 0
    BY <2>1 DEF CountsHold
  <2>3. night.read[1] = ledger
    BY <2>2
  <2>4. ledger.counted[j] = IF Due(j[1], j[2]) \in reports THEN 1 ELSE 0
    BY <1>1, <2>1, <2>2 DEF CountsHold
  <2>5. CASE Due(j[1], j[2]) = today
    <3>1. today \notin reports
      BY <1>1, <1>2, <2>1, <2>2, <2>5 DEF NightIsFirst
    <3>2. night.ledger.counted[j] = ledger.counted[j] + 1
      BY <1>1, <2>1, <2>2, <2>3, <2>5 DEF NightCounts
    <3> QED
      BY <2>4, <2>5, <3>1, <3>2
  <2>6. CASE Due(j[1], j[2]) # today
    <3>1. night.ledger.counted[j] = ledger.counted[j]
      BY <1>1, <2>1, <2>3, <2>6 DEF NightCounts
    <3> QED
      BY <2>4, <2>6, <3>1
  <2> QED
    BY <2>5, <2>6
<1>6. CASE WriteReport
  <2>1. /\ night.phase = "report" /\ night.day = today /\ night' = Idle /\ reports' = reports \cup {today}
        /\ UNCHANGED <<today, advice, odd, ledger, raced>>
    BY <1>1, <1>6, NightGoesOn DEF WriteReport, InNight, given, learned, Idle
  <2> QED
    BY <1>1, <1>2, <2>1 DEF CountsHold
<1>7. CASE NightDies
  <2>1. /\ night' = Idle /\ odd \subseteq odd' /\ (night.phase \in {"view", "report"} => today \in odd')
        /\ UNCHANGED <<today, advice, ledger, raced, reports>>
    BY <1>1, <1>7, NightGoesOn DEF NightDies, given
  <2> QED
    BY <1>1, <1>2, <2>1 DEF CountsHold
<1>8. CASE DumpReplayLedger
  <2>1. /\ replay.phase = "records" /\ ledger' = replay.ledger
        /\ raced' = (raced \/ replay.read # <<ledger, view>>)
        /\ UNCHANGED <<today, advice, odd, reports, night>>
    BY <1>8 DEF DumpReplayLedger, InReplay, given
  <2>2. CASE raced'
    BY <2>2 DEF CountsHold
  <2>3. CASE ~raced'
    <3>1. ~raced /\ replay.read = <<ledger, view>>
      BY <2>1, <2>3
    <3>2. replay.read[1] = ledger
      BY <3>1
    <3>3. ledger'.counted = ledger.counted
      BY <1>1, <2>1, <3>2 DEF ReplayHolds
    <3> QED
      BY <1>1, <2>1, <3>1, <3>3 DEF CountsHold
  <2> QED
    BY <2>2, <2>3
<1>9. CASE /\ UNCHANGED <<today, advice, ledger, reports>> /\ odd \subseteq odd' /\ (raced => raced')
           /\ (night'.phase \in {"view", "report"} <=> night.phase \in {"view", "report"})
  BY <1>1, <1>9 DEF CountsHold
<1>10. CASE DumpView
  BY <1>1, <1>9, <1>10, NightGoesOn DEF DumpView, given
<1>11. CASE Sync
  <2>1. night.phase = "sync" /\ night'.phase = "ledger"
    BY <1>11, SyncMakes DEF Sync, InNight
  <2> QED
    BY <1>9, <1>11, <2>1 DEF Sync, given, learned
<1>12. CASE ReviewDue
  <2>1. PICK n : n = night /\ n = [phase |-> "review", day |-> today, due |-> n.due]
    BY <1>1, <1>12 DEF ReviewDue, InNight, NightShape, Idle
  <2>2. night' = [n EXCEPT !.phase = "sync"]
    BY <1>12, <2>1 DEF ReviewDue
  <2>3. night'.phase = "sync" /\ night.phase = "review"
    BY <2>1, <2>2
  <2> QED
    BY <1>9, <1>12, <2>3 DEF ReviewDue, given, learned
<1>13. ASSUME NEW resume \in BOOLEAN, StartNight(resume) PROVE CountsHold'
  <2>1. night'.phase = "review" /\ night.phase = "idle" /\ odd \subseteq odd'
    BY <1>2, <1>13 DEF StartNight
  <2> QED
    BY <1>9, <1>13, <2>1 DEF StartNight, given, learned
<1>14. ASSUME UNCHANGED <<today, advice, ledger, reports, odd, night>>, raced => raced' PROVE CountsHold'
  BY <1>9, <1>14
<1>15. CASE DumpReplayView
  BY <1>14, <1>15 DEF DumpReplayView, given
<1>16. ASSUME NEW l \in Diagnoses, UpsertRecord(l) PROVE CountsHold'
  BY <1>14, <1>16 DEF UpsertRecord, given
<1>17. CASE Compute \/ Incomplete \/ ReplayDies
  BY <1>14, <1>17 DEF Compute, Incomplete, ReplayDies, given, learned
<1>18. ASSUME NEW n \in Experiments, NEW from \in Days, NEW to \in Days, StartReplay(n, from, to) PROVE CountsHold'
  BY <1>14, <1>18 DEF StartReplay, given, learned
<1>19. ASSUME NEW d \in Days, NEW teaches \in BOOLEAN, Certify(d, teaches) PROVE CountsHold'
  BY <1>14, <1>19 DEF Certify, learned
<1> QED
  BY <1>3, <1>4, <1>5, <1>6, <1>7, <1>8, <1>10, <1>11, <1>12, <1>13, <1>15, <1>16, <1>17, <1>18, <1>19 DEF LearningNext

LEMMA ViewStep ==
  ASSUME LearningInv, LearningNext
  PROVE  ViewHolds'
<1>1. ViewHolds /\ NightShape /\ ReplayShape /\ NightHolds /\ ReplayHolds
  BY DEF LearningInv
<1>2. Idle.phase = "idle"
  BY DEF Idle
<1>3. CASE DumpLedger
  BY <1>1, <1>3, NightGoesOn DEF ViewHolds
<1>4. CASE DumpView
  <2>1. /\ night.phase = "view" /\ view' = night.view /\ ledger' = ledger
        /\ raced' = (raced \/ night.read[2] # view \/ night.ledger # ledger)
    BY <1>1, <1>4, NightGoesOn DEF DumpView
  <2>2. CASE raced'
    BY <2>2 DEF ViewHolds
  <2>3. CASE ~raced'
    <3>1. Displays(ledger, night.view)
      BY <1>1, <2>1, <2>3 DEF NightHolds
    <3> QED
      BY <2>1, <3>1 DEF ViewHolds, Displays
  <2> QED
    BY <2>2, <2>3
<1>5. CASE DumpReplayLedger
  <2>1. /\ replay.phase = "records" /\ replay'.phase = "view" /\ replay'.ledger = replay.ledger
        /\ replay'.read = replay.read /\ ledger' = replay.ledger
        /\ raced' = (raced \/ replay.read # <<ledger, view>>)
        /\ UNCHANGED <<night, view, torn>>
    BY <1>1, <1>5, ReplayGoesOn DEF DumpReplayLedger, InReplay
  <2>2. CASE replay.ledger = replay.read[1] /\ ~raced'
    <3>1. ledger' = ledger /\ ~raced
      <4>1. replay.read = <<ledger, view>> /\ ~raced
        BY <2>1, <2>2
      <4>2. replay.read[1] = ledger
        BY <4>1
      <4> QED
        BY <2>1, <2>2, <4>1, <4>2
    <3> QED
      BY <1>1, <2>1, <3>1 DEF ViewHolds, Displays
  <2>3. CASE raced' \/ replay.ledger # replay.read[1]
    BY <2>1, <2>3 DEF ViewHolds
  <2> QED
    BY <2>2, <2>3
<1>6. CASE DumpReplayView
  <2>1. /\ replay.phase = "view" /\ view' = replay.view /\ UNCHANGED <<ledger, night>>
        /\ raced' = (raced \/ replay.read[2] # view \/ replay.ledger # ledger)
        /\ torn' = (torn /\ replay.ledger = replay.read[1]) /\ replay' = Idle
    BY <1>6 DEF DumpReplayView, InReplay
  <2>2. CASE raced'
    BY <2>2 DEF ViewHolds
  <2>3. CASE ~raced' /\ replay.ledger # replay.read[1]
    <3>1. Displays(ledger, replay.view)
      BY <1>1, <2>1, <2>3 DEF ReplayHolds
    <3> QED
      BY <2>1, <3>1 DEF ViewHolds, Displays
  <2>4. CASE ~raced' /\ replay.ledger = replay.read[1]
    <3>1. view' = view /\ ~raced /\ (torn' <=> torn)
      BY <1>1, <2>1, <2>4 DEF ReplayHolds
    <3> QED
      BY <1>1, <2>1, <2>4, <3>1 DEF ViewHolds, Displays
  <2> QED
    BY <2>2, <2>3, <2>4
<1>7. CASE NightDies
  BY <1>1, <1>7 DEF ViewHolds, NightDies, Displays
<1>8. CASE ReplayDies
  BY <1>1, <1>8 DEF ViewHolds, ReplayDies, Displays
<1>9. CASE WriteReport
  BY <1>1, <1>9 DEF ViewHolds, WriteReport, InNight, learned, Displays
<1>10. CASE /\ UNCHANGED learned /\ (night.phase = "view" <=> night'.phase = "view")
            /\ (replay.phase = "view" <=> replay'.phase = "view")
            /\ (replay.phase = "view" => replay'.ledger = replay.ledger /\ replay'.read = replay.read)
  BY <1>1, <1>10 DEF ViewHolds, learned, Displays
<1>11. CASE ReviewDue
  <2>1. PICK n : n = night /\ n = [phase |-> "review", day |-> today, due |-> n.due]
    BY <1>1, <1>11 DEF ReviewDue, InNight, NightShape, Idle
  <2>2. night' = [n EXCEPT !.phase = "sync"]
    BY <1>11, <2>1 DEF ReviewDue
  <2>3. night'.phase # "view" /\ night.phase # "view"
    BY <2>1, <2>2
  <2>4. /\ (replay.phase = "view" <=> replay'.phase = "view")
        /\ (replay.phase = "view" => replay'.ledger = replay.ledger /\ replay'.read = replay.read)
    <3>1. CASE replay.phase \in {"records", "view"}
      BY <1>1, <1>11, <3>1, ReplayGoesOn
    <3>2. CASE replay = Idle
      BY <1>2, <1>11, <3>2 DEF ReviewDue
    <3>3. CASE replay.phase = "audited"
      <4>1. PICK r : r = replay /\ r = [phase |-> "audited", name |-> r.name, dates |-> r.dates, moved |-> r.moved,
                                        certified |-> r.certified]
        BY <1>1, <3>3 DEF ReplayShape, Idle
      <4>2. PICK x : x = replay' /\ (x = r \/ x = [r EXCEPT !.moved = TRUE])
        BY <1>11, <4>1 DEF ReviewDue
      <4>3. x.phase = "audited"
        BY <4>1, <4>2
      <4> QED
        BY <3>3, <4>2, <4>3
    <3> QED
      BY <1>1, <3>1, <3>2, <3>3 DEF ReplayShape
  <2> QED
    BY <1>10, <1>11, <2>3, <2>4 DEF ReviewDue
<1>12. CASE Sync
  <2>1. night.phase = "sync" /\ night'.phase = "ledger"
    BY <1>12, SyncMakes DEF Sync, InNight
  <2> QED
    BY <1>10, <1>12, <2>1 DEF Sync
<1>13. ASSUME NEW resume \in BOOLEAN, StartNight(resume) PROVE ViewHolds'
  <2>1. night'.phase = "review" /\ night.phase = "idle"
    BY <1>2, <1>13 DEF StartNight
  <2> QED
    BY <1>10, <1>13, <2>1 DEF StartNight
<1>14. CASE Compute \/ Incomplete
  BY <1>2, <1>10, <1>14 DEF Compute, Incomplete, InReplay
<1>15. ASSUME NEW n \in Experiments, NEW from \in Days, NEW to \in Days, StartReplay(n, from, to) PROVE ViewHolds'
  <2>1. replay'.phase = "audited" /\ replay.phase = "idle"
    BY <1>2, <1>15 DEF StartReplay
  <2> QED
    BY <1>10, <1>15, <2>1 DEF StartReplay
<1>16. ASSUME NEW l \in Diagnoses, UpsertRecord(l) PROVE ViewHolds'
  <2>1. replay.phase = "records" /\ replay'.phase = "records"
    BY <1>1, <1>16, ReplayGoesOn DEF UpsertRecord, InReplay
  <2> QED
    BY <1>1, <1>16, <2>1 DEF UpsertRecord, ViewHolds, Displays
<1>17. CASE UNCHANGED <<learned, night, replay>>
  BY <1>10, <1>17
<1> QED
  BY <1>3, <1>4, <1>5, <1>6, <1>7, <1>8, <1>9, <1>11, <1>12, <1>13, <1>14, <1>15, <1>16, <1>17 DEF LearningNext,
     NewDay, Advise, Certify

LEMMA LearningInvStep == LearningInv /\ [LearningNext]_learningVars => LearningInv'
<1> SUFFICES ASSUME LearningInv, [LearningNext]_learningVars PROVE LearningInv'
  OBVIOUS
<1>1. CASE LearningNext
  BY <1>1, FilesStep, NightShapeStep, ReplayShapeStep, LedgerStep, NightFirstStep, NightAsksStep, NightCountsStep,
     NightHoldsStep, ReplayReadsStep, ReplayHoldsStep, CountsStep, ViewStep DEF LearningInv
<1>2. CASE UNCHANGED learningVars
  <2> USE <1>2 DEF LearningInv, learningVars, given, learned
  <2>1. FilesOK'
    BY DEF FilesOK, Priced
  <2>2. NightShape' /\ ReplayShape'
    BY DEF NightShape, ReplayShape
  <2>3. LedgerHolds'
    BY DEF LedgerHolds, Unseen
  <2>4. NightIsFirst' /\ NightAsks' /\ NightCounts'
    BY DEF NightIsFirst, NightAsks, NightCounts, DueJobs
  <2>5. NightHolds' /\ ReplayHolds'
    BY DEF NightHolds, ReplayHolds, Unseen
  <2>6. ReplayReads'
    BY DEF ReplayReads, ReviewsOf
  <2>7. CountsHold' /\ ViewHolds'
    BY DEF CountsHold, ViewHolds, Displays
  <2> QED
    BY <2>1, <2>2, <2>3, <2>4, <2>5, <2>6, <2>7
<1> QED
  BY <1>1, <1>2

\* What the invariant says of the files when no program is at work.
LEMMA LearnedWell ==
  ASSUME LearningInv
  PROVE  /\ LearningTypeOK /\ NightCountsOnce /\ ReplayCountsOnce
         /\ CertifiedTeaches /\ ViewShowsStages
<1> USE DEF LearningInv
<1>1. LedgerOK(ledger)
  BY DEF LedgerHolds
<1>2. LearningTypeOK
  BY <1>1 DEF LearningTypeOK, LedgerOK, RuleOK, FilesOK
<1>3. NightCountsOnce
  BY DEF NightCountsOnce, CountsHold, Idle
<1>4. ReplayCountsOnce
  BY <1>1 DEF ReplayCountsOnce, LedgerOK, ReplaysOnce
<1>5. CertifiedTeaches
  BY <1>1 DEF CertifiedTeaches, LedgerOK, Taught, Certain
<1>6. ViewShowsStages
  BY DEF ViewShowsStages, ViewHolds, Displays, Idle
<1> QED
  BY <1>2, <1>3, <1>4, <1>5, <1>6

LEMMA LearningInvariant == Spec => [](part = "ledger" => LearningInv)
<1>1. Init => (part = "ledger" => LearningInv)
  BY InitLearning DEF Init
<1>2. (part = "ledger" => LearningInv) /\ [Next]_<<part, learningVars, lineageVars>> => (part = "ledger" => LearningInv)'
  <2> SUFFICES ASSUME part = "ledger" => LearningInv, [Next]_<<part, learningVars, lineageVars>>, part' = "ledger"
               PROVE  LearningInv'
    OBVIOUS
  <2>1. part = "ledger" /\ [LearningNext]_learningVars
    BY DEF Next
  <2> QED
    BY <2>1, LearningInvStep
<1> QED
  BY <1>1, <1>2, PTL DEF Spec

\* Each night counts the reviews that are due, once, and each replay counts
\* once while the ledger remembers it, in rules whose stages are those of their
\* counts (run_learning_sync, apply_replay_summary_to_ledger).
THEOREM CountsOnce == Spec => []LedgerCountsOnce
<1>1. (part = "ledger" => LearningInv) => LedgerCountsOnce
  BY LearnedWell DEF LedgerCountsOnce
<1> QED
  BY <1>1, LearningInvariant, PTL

\* What a replay taught was certified and may be taught, and the view shows
\* what is in force (run_replay_experiment.main, update_memory_from_ledger).
THEOREM TaughtAndShown == Spec => []TaughtIsShown
<1>1. (part = "ledger" => LearningInv) => TaughtIsShown
  BY LearnedWell DEF TaughtIsShown
<1> QED
  BY <1>1, LearningInvariant, PTL

-------------------------------------------------------------------------------
(***************************************************************************)
(* The lineage: which outcomes an event, a policy and a skill rest on.      *)
(***************************************************************************)
OfDate(d) == {t \in Tickets : Ticket[t].date = d}

\* Every artifact is of its date, and has a number of its own.
ArtifactsOK ==
  /\ revs \in Nat /\ revs <= MaxRevs
  /\ tickets = [d \in Dates |-> tickets[d]] /\ artifact = [d \in Dates |-> artifact[d]]
  /\ read = [d \in Dates |-> read[d]]
  /\ \A d \in Dates : tickets[d] \subseteq OfDate(d)
  /\ \A d \in Dates : artifact[d] # Absent =>
       artifact[d].rev \in 1 .. revs /\ DOMAIN artifact[d].outcomes \subseteq OfDate(d)

LogOK ==
  /\ log = [t \in Tickets |-> log[t]]
  /\ \A t \in Tickets : log[t] # Absent => log[t] \in LogEntry /\ log[t].rev \in 1 .. revs

\* An event that names the artifact on file says what its outcome says.
EventsAgree ==
  \A t \in Tickets :
    LET a == artifact[Ticket[t].date] IN
      log[t] # Absent /\ a # Absent /\ log[t].rev = a.rev =>
        t \in DOMAIN a.outcomes /\ log[t].type = EventType(t, a.outcomes[t])

\* What a date's outcomes were, when its tickets were those of the set.
Derived(a, set, t) ==
  LET type == EventType(t, a.outcomes[t])
  IN IF type = Absent THEN Absent
     ELSE [type |-> type, rev |-> a.rev, policy |-> IF t \in set THEN Bucket[t] ELSE OfFund[t]]

\* Of a date whose artifact was learned from, the log has what was derived.
ReadAgrees ==
  \A d \in Dates :
    read[d] # Absent /\ artifact[d] # Absent /\ read[d].rev = artifact[d].rev =>
      \A t \in DOMAIN artifact[d].outcomes : log[t] = Derived(artifact[d], read[d].tickets, t)

\* No date was learned from an artifact that is still to come.
ReadOK == \A d \in Dates : read[d] # Absent => read[d].rev \in 1 .. revs

StoreOK ==
  /\ \A p \in Policies : store[p] # Absent =>
       /\ store[p].status \in DOMAIN Rank
       /\ store[p].support + store[p].against = Cardinality(store[p].sources)
       /\ store[p].status = "active" => <<p, "user_approve">> \in manual \cup forgotten
  /\ \A p \in Policies : registry[p] # Absent =>
       registry[p].status \in {"archived", "candidate", "draft"} /\ registry[p].sources # {}

Trusts == {"trusted", "legacy_untrusted", "blocked"}

AuditOK == audit = Absent \/ \A p \in DOMAIN audit : audit[p].trust \in Trusts

LineageInv ==
  ArtifactsOK /\ LogOK /\ EventsAgree /\ ReadAgrees /\ ReadOK /\ StoreOK /\ AuditOK

LEMMA TicketDate == \A t \in Tickets : Ticket[t].date \in Dates
  BY LineageAssumption

LEMMA RankNames == DOMAIN Rank = {"active", "candidate", "draft", "revised", "weakened", "archived"}
  BY DEF Rank

LEMMA StatusNames == \A p : Status(p) \in DOMAIN Rank /\ OfActives(p) \in DOMAIN Rank /\ Capped(p) \in DOMAIN Rank
<1> SUFFICES ASSUME NEW p PROVE Status(p) \in DOMAIN Rank /\ OfActives(p) \in DOMAIN Rank /\ Capped(p) \in DOMAIN Rank
  OBVIOUS
<1>1. Status(p) \in DOMAIN Rank
  BY RankNames DEF Status
<1>2. OfActives(p) \in DOMAIN Rank
  BY <1>1, RankNames DEF OfActives
<1> QED
  BY <1>1, <1>2, RankNames DEF Capped

\* Of a policy's events as many are for it and against it as there are sources.
LEMMA SourcesCounted ==
  ASSUME LogOK, NEW p
  PROVE  Count(p, "support") + Count(p, "contradict") = Cardinality(Sources(p))
<1> DEFINE S == {t \in Sources(p) : log[t].type = "support"}
           C == {t \in Sources(p) : log[t].type = "contradict"}
<1>1. Sources(p) \subseteq Tickets /\ \A t \in Sources(p) : log[t].type \in {"support", "contradict"}
  BY DEF Sources, LogOK, LogEntry
<1>2. IsFiniteSet(S) /\ IsFiniteSet(C)
  <2>1. S \subseteq Tickets /\ C \subseteq Tickets
    BY <1>1
  <2> QED
    BY <2>1, LineageAssumption, FS_Subset
<1>3. S \cup C = Sources(p) /\ S \cap C = {}
  BY <1>1
<1>4. Cardinality(S \cup C) = Cardinality(S) + Cardinality(C) - Cardinality(S \cap C)
  BY <1>2, FS_Union
<1>5. Cardinality(S) \in Nat /\ Cardinality(C) \in Nat /\ Cardinality({}) = 0
  BY <1>2, FS_CardinalityType, FS_EmptySet
<1>6. Count(p, "support") = Cardinality(S) /\ Count(p, "contradict") = Cardinality(C)
  BY DEF Count
<1>7. Cardinality(Sources(p)) = Cardinality(S) + Cardinality(C) - 0
  BY <1>3, <1>4, <1>5
<1> HIDE DEF S, C
<1> QED
  BY <1>5, <1>6, <1>7

LEMMA OnlyApproved == \A p : Capped(p) = "active" => <<p, "user_approve">> \in manual
  BY DEF Capped, OfActives, Status

LEMMA EventNames == \A t, o : EventType(t, o) \in {"support", "contradict", Absent}
  BY DEF EventType

LEMMA TrustNames ==
  ASSUME NEW p
  PROVE  SkillTrust(p) \in Trusts
<1>1. \A s : Weakest(s) \in Trusts
  BY DEF Weakest, Trusts
<1> QED
  BY <1>1 DEF SkillTrust, Trusts

LEMMA InitLineage == LineageInit => LineageInv
<1> SUFFICES ASSUME LineageInit PROVE LineageInv
  OBVIOUS
<1>1. ArtifactsOK
  <2>1. /\ revs = 0 /\ artifact = [d \in Dates |-> Absent] /\ read = [d \in Dates |-> Absent]
        /\ tickets = [d \in Dates |-> tickets[d]]
    BY DEF LineageInit
  <2>2. \A d \in Dates : tickets[d] \subseteq OfDate(d)
    <3>1. \A d \in Dates : tickets[d] \in TicketSets /\ \A t \in tickets[d] : Ticket[t].date = d
      BY DEF LineageInit
    <3> QED
      BY <3>1, LineageAssumption DEF OfDate
  <2> QED
    BY <2>1, <2>2, LineageAssumption DEF ArtifactsOK
<1>2. LogOK /\ EventsAgree
  BY DEF LogOK, EventsAgree, LineageInit
<1>3. ReadAgrees /\ ReadOK
  BY DEF ReadAgrees, ReadOK, LineageInit
<1>4. StoreOK /\ AuditOK
  BY DEF StoreOK, AuditOK, LineageInit
<1> QED
  BY <1>1, <1>2, <1>3, <1>4 DEF LineageInv

\* What a cut rewriting leaves: of every ticket the event it had, the new one,
\* or none, and then its date has to be learned again.
LEMMA CutMakes ==
  ASSUME ArtifactsOK, NEW d \in Dates, NEW left, NEW hand, CutLog(d, left, hand)
  PROVE  /\ artifact[d] # Absent
         /\ log' = [t \in Tickets |-> log'[t]]
         /\ \A t \in Tickets : log'[t] # Absent =>
              log'[t] = IF t \in DOMAIN artifact[d].outcomes
                        THEN Derived(artifact[d], tickets[d], t) ELSE log[t]
         /\ \A t \in Tickets : Ticket[t].date # d /\ log'[t] # log[t] => read'[Ticket[t].date] = Absent
         /\ read' = [e \in Dates |-> read'[e]]
         /\ read'[d] = Absent /\ \A e \in Dates : read'[e] # Absent => read'[e] = read[e]
         /\ manual \cup forgotten \subseteq manual' \cup forgotten'
         /\ UNCHANGED <<outside, artifact, store, registry, audit, pack, revs>>
<1> DEFINE new  == DOMAIN artifact[d].outcomes
           kept == {t \in Tickets \ new : log[t] # Absent}
<1>1. /\ artifact[d] # Absent /\ hand \subseteq manual
      /\ log' = [t \in Tickets |-> IF t \notin left THEN Absent ELSE IF t \in new THEN Event(d, t) ELSE log[t]]
      /\ manual' = hand /\ forgotten' = forgotten \cup (manual \ hand)
      /\ read' = [e \in Dates |-> IF e = d \/ \E t \in kept \ left : Ticket[t].date = e
                                  THEN Absent ELSE read[e]]
      /\ UNCHANGED <<outside, artifact, store, registry, audit, pack, revs>>
  BY DEF CutLog
<1>2. new \subseteq OfDate(d)
  BY <1>1 DEF ArtifactsOK
<1>3. ASSUME NEW t \in new PROVE Event(d, t) = Derived(artifact[d], tickets[d], t)
  <2>1. Ticket[t].date = d
    BY <1>2 DEF OfDate
  <2>2. PolicyOf(t) = IF t \in tickets[d] THEN Bucket[t] ELSE OfFund[t]
    BY <2>1 DEF PolicyOf
  <2> QED
    BY <2>2 DEF Event, Derived
<1> HIDE DEF new, kept
<1>4. ASSUME NEW t \in Tickets, Ticket[t].date # d, log'[t] # log[t]
      PROVE  read'[Ticket[t].date] = Absent
  <2>1. t \notin new
    BY <1>2, <1>4 DEF OfDate
  <2>2. t \notin left /\ log[t] # Absent
    BY <1>1, <1>4, <2>1
  <2>3. t \in kept \ left
    BY <2>1, <2>2 DEF kept
  <2> QED
    BY <1>1, <2>3, TicketDate
<1>5. \A t \in Tickets : log'[t] # Absent =>
        log'[t] = IF t \in new THEN Derived(artifact[d], tickets[d], t) ELSE log[t]
  BY <1>1, <1>3
<1>6. read'[d] = Absent /\ \A e \in Dates : read'[e] # Absent => read'[e] = read[e]
  BY <1>1
<1> QED
  BY <1>1, <1>4, <1>5, <1>6 DEF new

\* One command of the lineage, or a change from outside.
LEMMA ArtifactsStep ==
  ASSUME LineageInv, LineageNext
  PROVE  ArtifactsOK' /\ revs <= revs' /\ revs' \in Nat
<1>1. ArtifactsOK
  BY DEF LineageInv
<1>2. ASSUME NEW d \in Dates, Evaluate(d) PROVE ArtifactsOK' /\ revs <= revs' /\ revs' \in Nat
  <2>1. PICK new : new = [rev |-> revs + 1, outcomes |-> [t \in tickets[d] |-> Evaluated(quotes, flows, t)]]
    OBVIOUS
  <2>2. /\ revs' = revs + 1 /\ revs < MaxRevs /\ artifact' = [artifact EXCEPT ![d] = new]
        /\ UNCHANGED <<tickets, read>>
    BY <1>2, <2>1 DEF Evaluate, outside
  <2>3. new.rev = revs + 1 /\ DOMAIN new.outcomes = tickets[d]
    BY <2>1
  <2>4. revs \in Nat /\ MaxRevs \in Nat
    BY <1>1, LineageAssumption DEF ArtifactsOK
  <2>5. revs' \in Nat /\ revs' <= MaxRevs /\ revs <= revs' /\ revs + 1 \in 1 .. revs' /\ 1 .. revs \subseteq 1 .. revs'
    BY <2>2, <2>4
  <2>6. ASSUME NEW e \in Dates, artifact'[e] # Absent
        PROVE  artifact'[e].rev \in 1 .. revs' /\ DOMAIN artifact'[e].outcomes \subseteq OfDate(e)
    <3>1. CASE e = d
      BY <1>1, <2>2, <2>3, <2>5, <3>1 DEF ArtifactsOK
    <3>2. CASE e # d
      BY <1>1, <2>2, <2>5, <2>6, <3>2 DEF ArtifactsOK
    <3> QED
      BY <3>1, <3>2
  <2> QED
    BY <1>1, <2>2, <2>5, <2>6 DEF ArtifactsOK
<1>3. ASSUME NEW d \in Dates, NEW s \in TicketSets, TicketsRebuilt(d, s) PROVE ArtifactsOK' /\ revs <= revs' /\ revs' \in Nat
  <2>1. /\ tickets' = [tickets EXCEPT ![d] = s] /\ UNCHANGED <<artifact, read, revs>>
        /\ \A t \in s : Ticket[t].date = d
    BY <1>3 DEF TicketsRebuilt
  <2>2. s \subseteq OfDate(d)
    BY <2>1, LineageAssumption DEF OfDate
  <2> QED
    BY <1>1, <2>1, <2>2 DEF ArtifactsOK
<1>4. ASSUME NEW d \in Dates, RewriteLog(d) PROVE ArtifactsOK' /\ revs <= revs' /\ revs' \in Nat
  <2>1. PICK new : read' = [read EXCEPT ![d] = new] /\ UNCHANGED <<tickets, artifact, revs>>
    BY <1>4 DEF RewriteLog, outside
  <2>2. read' = [e \in Dates |-> read'[e]]
    BY <1>1, <2>1 DEF ArtifactsOK
  <2>3. revs \in Nat /\ revs <= revs' /\ revs' \in Nat
    BY <1>1, <2>1 DEF ArtifactsOK
  <2> QED
    BY <1>1, <2>1, <2>2, <2>3 DEF ArtifactsOK
<1>5. ASSUME UNCHANGED <<tickets, artifact, read, revs>> PROVE ArtifactsOK' /\ revs <= revs' /\ revs' \in Nat
  BY <1>1, <1>5 DEF ArtifactsOK
<1>7. ASSUME NEW d \in Dates, NEW left, NEW hand, CutLog(d, left, hand)
      PROVE  ArtifactsOK' /\ revs <= revs' /\ revs' \in Nat
  <2>1. read' = [e \in Dates |-> read'[e]] /\ UNCHANGED <<tickets, artifact, revs>>
    BY <1>1, <1>7, CutMakes DEF outside
  <2> QED
    BY <1>1, <2>1 DEF ArtifactsOK
<1>6. CASE FromOutside
  <2>1. CASE \E d \in Dates, s \in TicketSets : TicketsRebuilt(d, s)
    BY <1>3, <2>1
  <2>2. CASE ~\E d \in Dates, s \in TicketSets : TicketsRebuilt(d, s)
    BY <1>5, <1>6, <2>2 DEF FromOutside, QuotesArrive, TradeRecorded, CertifyEntry, FileChanges, ByHand, outside
  <2> QED
    BY <2>1, <2>2
<1> QED
  BY <1>2, <1>4, <1>5, <1>6, <1>7 DEF LineageNext, WriteStore, UpdaterDies, MaterializeOnly, Curate, Audit, BuildPack, outside

\* What the log says of an outcome after it was rewritten for a date.
LEMMA RewriteMakes ==
  ASSUME LineageInv, NEW d \in Dates, RewriteLog(d)
  PROVE  \E a, set :
           /\ a = artifact[d] /\ set = tickets[d] /\ artifact[d] # Absent
           /\ \A t \in Tickets : log'[t] = IF t \in DOMAIN a.outcomes THEN Derived(a, set, t) ELSE log[t]
           /\ log' = [t \in Tickets |-> log'[t]]
           /\ read'[d].rev = a.rev /\ read'[d].tickets = set
           /\ \A e \in Dates : e # d => read'[e] = read[e]
           /\ UNCHANGED <<artifact, revs, tickets>>
<1>1. ArtifactsOK
  BY DEF LineageInv
<1>2. PICK a : a = artifact[d] /\ artifact[d] # Absent
  BY DEF RewriteLog
<1>3. PICK set : set = tickets[d]
  OBVIOUS
<1>4. DOMAIN a.outcomes \subseteq OfDate(d)
  BY <1>1, <1>2 DEF ArtifactsOK
<1>5. log' = [t \in Tickets |-> IF t \in DOMAIN artifact[d].outcomes THEN Event(d, t) ELSE log[t]]
  BY DEF RewriteLog
<1>6. ASSUME NEW t \in DOMAIN a.outcomes PROVE Event(d, t) = Derived(a, set, t)
  <2>1. Ticket[t].date = d
    BY <1>4 DEF OfDate
  <2>2. PolicyOf(t) = IF t \in set THEN Bucket[t] ELSE OfFund[t]
    BY <1>3, <2>1 DEF PolicyOf
  <2> QED
    BY <1>2, <2>2 DEF Event, Derived
<1>7. PICK new : new = [rev |-> a.rev, tickets |-> set]
  OBVIOUS
<1>8. read' = [read EXCEPT ![d] = new] /\ UNCHANGED <<artifact, revs, tickets>>
  BY <1>2, <1>3, <1>7 DEF RewriteLog, outside
<1>9. read'[d] = new /\ \A e \in Dates : e # d => read'[e] = read[e]
  BY <1>1, <1>8 DEF ArtifactsOK
<1>10. new.rev = a.rev /\ new.tickets = set
  BY <1>7
<1> QED
  BY <1>2, <1>3, <1>5, <1>6, <1>8, <1>9, <1>10

LEMMA DerivedEvent ==
  ASSUME NEW a, a.rev \in Nat, NEW set, NEW t \in Tickets, Derived(a, set, t) # Absent
  PROVE  /\ Derived(a, set, t) \in LogEntry
         /\ Derived(a, set, t).rev = a.rev /\ Derived(a, set, t).type = EventType(t, a.outcomes[t])
         /\ Derived(a, set, t).policy = IF t \in set THEN Bucket[t] ELSE OfFund[t]
<1>1. PICK type : type = EventType(t, a.outcomes[t])
  OBVIOUS
<1>2. PICK policy : policy = IF t \in set THEN Bucket[t] ELSE OfFund[t]
  OBVIOUS
<1>3. type # Absent /\ Derived(a, set, t) = [type |-> type, rev |-> a.rev, policy |-> policy]
  BY <1>1, <1>2 DEF Derived
<1>4. type \in {"support", "contradict"} /\ policy \in Policies
  BY <1>1, <1>2, <1>3, EventNames, LineageAssumption
<1> QED
  BY <1>1, <1>2, <1>3, <1>4 DEF LogEntry

LEMMA LogStep ==
  ASSUME LineageInv, LineageNext
  PROVE  LogOK' /\ EventsAgree'
<1>1. LogOK /\ EventsAgree /\ ArtifactsOK
  BY DEF LineageInv
<1>2. revs \in Nat /\ revs' \in Nat /\ revs <= revs' /\ 1 .. revs \subseteq 1 .. revs'
  BY <1>1, ArtifactsStep DEF ArtifactsOK
<1>3. ASSUME NEW d \in Dates, Evaluate(d) PROVE LogOK' /\ EventsAgree'
  <2>1. PICK new : new = [rev |-> revs + 1, outcomes |-> [t \in tickets[d] |-> Evaluated(quotes, flows, t)]]
    OBVIOUS
  <2>2. artifact' = [artifact EXCEPT ![d] = new] /\ UNCHANGED log
    BY <1>3, <2>1 DEF Evaluate
  <2>3. artifact'[d] = new /\ new.rev = revs + 1 /\ \A e \in Dates : e # d => artifact'[e] = artifact[e]
    BY <1>1, <2>1, <2>2 DEF ArtifactsOK
  <2>4. LogOK'
    BY <1>1, <1>2, <2>2 DEF LogOK
  <2>5. EventsAgree'
    <3>1. SUFFICES ASSUME NEW t \in Tickets, log[t] # Absent, artifact'[Ticket[t].date] # Absent,
                          log[t].rev = artifact'[Ticket[t].date].rev
                   PROVE  /\ t \in DOMAIN artifact'[Ticket[t].date].outcomes
                          /\ log[t].type = EventType(t, artifact'[Ticket[t].date].outcomes[t])
      BY <2>2 DEF EventsAgree
    <3>2. log[t].rev \in 1 .. revs
      BY <1>1, <3>1 DEF LogOK
    <3>3. Ticket[t].date # d
      BY <1>2, <2>3, <3>1, <3>2
    <3>4. artifact'[Ticket[t].date] = artifact[Ticket[t].date]
      BY <2>3, <3>3, TicketDate
    <3> QED
      BY <1>1, <3>1, <3>4 DEF EventsAgree
  <2> QED
    BY <2>4, <2>5
<1>4. ASSUME NEW d \in Dates, RewriteLog(d) PROVE LogOK' /\ EventsAgree'
  <2>1. PICK a, set :
          /\ a = artifact[d] /\ artifact[d] # Absent
          /\ \A t \in Tickets : log'[t] = IF t \in DOMAIN a.outcomes THEN Derived(a, set, t) ELSE log[t]
          /\ log' = [t \in Tickets |-> log'[t]]
          /\ UNCHANGED <<artifact, revs>>
    BY <1>4, RewriteMakes
  <2>2. a.rev \in 1 .. revs /\ a.rev \in Nat /\ DOMAIN a.outcomes \subseteq OfDate(d)
    BY <1>1, <2>1 DEF ArtifactsOK
  <2>3. ASSUME NEW t \in Tickets, log'[t] # Absent
        PROVE  /\ log'[t] \in LogEntry /\ log'[t].rev \in 1 .. revs
               /\ artifact[Ticket[t].date] # Absent /\ log'[t].rev = artifact[Ticket[t].date].rev =>
                    /\ t \in DOMAIN artifact[Ticket[t].date].outcomes
                    /\ log'[t].type = EventType(t, artifact[Ticket[t].date].outcomes[t])
    <3>1. CASE t \in DOMAIN a.outcomes
      <4>1. Ticket[t].date = d
        BY <2>2, <3>1 DEF OfDate
      <4>2. log'[t] = Derived(a, set, t)
        BY <2>1, <3>1
      <4> QED
        BY <2>1, <2>2, <2>3, <3>1, <4>1, <4>2, DerivedEvent
    <3>2. CASE t \notin DOMAIN a.outcomes
      BY <1>1, <2>1, <2>3, <3>2 DEF LogOK, EventsAgree
    <3> QED
      BY <3>1, <3>2
  <2> QED
    BY <2>1, <2>3 DEF LogOK, EventsAgree
<1>7. ASSUME NEW d \in Dates, NEW left, NEW hand, CutLog(d, left, hand) PROVE LogOK' /\ EventsAgree'
  <2>1. PICK a, set : a = artifact[d] /\ set = tickets[d]
    OBVIOUS
  <2>2. /\ a # Absent
        /\ \A t \in Tickets : log'[t] # Absent =>
             log'[t] = IF t \in DOMAIN a.outcomes THEN Derived(a, set, t) ELSE log[t]
        /\ log' = [t \in Tickets |-> log'[t]]
        /\ UNCHANGED <<artifact, revs>>
    BY <1>1, <1>7, <2>1, CutMakes
  <2>3. a.rev \in 1 .. revs /\ a.rev \in Nat /\ DOMAIN a.outcomes \subseteq OfDate(d)
    BY <1>1, <2>1, <2>2 DEF ArtifactsOK
  <2>4. ASSUME NEW t \in Tickets, log'[t] # Absent
        PROVE  /\ log'[t] \in LogEntry /\ log'[t].rev \in 1 .. revs
               /\ artifact[Ticket[t].date] # Absent /\ log'[t].rev = artifact[Ticket[t].date].rev =>
                    /\ t \in DOMAIN artifact[Ticket[t].date].outcomes
                    /\ log'[t].type = EventType(t, artifact[Ticket[t].date].outcomes[t])
    <3>1. CASE t \in DOMAIN a.outcomes
      <4>1. Ticket[t].date = d
        BY <2>3, <3>1 DEF OfDate
      <4>2. log'[t] = Derived(a, set, t)
        BY <2>2, <2>4, <3>1
      <4> QED
        BY <2>1, <2>3, <2>4, <3>1, <4>1, <4>2, DerivedEvent
    <3>2. CASE t \notin DOMAIN a.outcomes
      <4>1. log'[t] = log[t]
        BY <2>2, <2>4, <3>2
      <4> QED
        BY <1>1, <2>4, <4>1 DEF LogOK, EventsAgree
    <3> QED
      BY <3>1, <3>2
  <2> QED
    BY <2>2, <2>4 DEF LogOK, EventsAgree
<1>5. ASSUME UNCHANGED <<log, artifact, revs>> PROVE LogOK' /\ EventsAgree'
  BY <1>1, <1>5 DEF LogOK, EventsAgree
<1>6. CASE FromOutside
  BY <1>5, <1>6 DEF FromOutside, QuotesArrive, TradeRecorded, TicketsRebuilt, CertifyEntry, FileChanges, ByHand
<1> QED
  BY <1>3, <1>4, <1>5, <1>6, <1>7 DEF LineageNext, WriteStore, UpdaterDies, MaterializeOnly, Curate, Audit, BuildPack

LEMMA ReadStep ==
  ASSUME LineageInv, LineageNext
  PROVE  ReadOK' /\ ReadAgrees'
<1>1. ReadOK /\ ReadAgrees /\ ArtifactsOK /\ LogOK
  BY DEF LineageInv
<1>2. revs \in Nat /\ revs' \in Nat /\ revs <= revs' /\ 1 .. revs \subseteq 1 .. revs'
  BY <1>1, ArtifactsStep DEF ArtifactsOK
<1>3. ASSUME NEW d \in Dates, Evaluate(d) PROVE ReadOK' /\ ReadAgrees'
  <2>1. PICK new : new = [rev |-> revs + 1, outcomes |-> [t \in tickets[d] |-> Evaluated(quotes, flows, t)]]
    OBVIOUS
  <2>2. artifact' = [artifact EXCEPT ![d] = new] /\ UNCHANGED <<log, read>>
    BY <1>3, <2>1 DEF Evaluate
  <2>3. artifact'[d] = new /\ new.rev = revs + 1 /\ \A e \in Dates : e # d => artifact'[e] = artifact[e]
    BY <1>1, <2>1, <2>2 DEF ArtifactsOK
  <2>4. ReadOK'
    BY <1>1, <1>2, <2>2 DEF ReadOK
  <2>5. ReadAgrees'
    <3>1. SUFFICES ASSUME NEW e \in Dates, read[e] # Absent, artifact'[e] # Absent, read[e].rev = artifact'[e].rev
                   PROVE  \A t \in DOMAIN artifact'[e].outcomes : log[t] = Derived(artifact'[e], read[e].tickets, t)
      BY <2>2 DEF ReadAgrees, Derived
    <3>2. e # d
      BY <1>1, <1>2, <2>3, <3>1 DEF ReadOK
    <3>3. PICK b : b = artifact'[e] /\ b = artifact[e]
      BY <2>3, <3>2
    <3> QED
      BY <1>1, <3>1, <3>3 DEF ReadAgrees
  <2> QED
    BY <2>4, <2>5
<1>4. ASSUME NEW d \in Dates, RewriteLog(d) PROVE ReadOK' /\ ReadAgrees'
  <2>1. PICK a, set :
          /\ a = artifact[d] /\ artifact[d] # Absent
          /\ \A t \in Tickets : log'[t] = IF t \in DOMAIN a.outcomes THEN Derived(a, set, t) ELSE log[t]
          /\ read'[d].rev = a.rev /\ read'[d].tickets = set
          /\ \A e \in Dates : e # d => read'[e] = read[e]
          /\ UNCHANGED <<artifact, revs>>
    BY <1>4, RewriteMakes
  <2>2. a.rev \in 1 .. revs /\ DOMAIN a.outcomes \subseteq OfDate(d)
    BY <1>1, <2>1 DEF ArtifactsOK
  <2>3. ReadOK'
    BY <1>1, <2>1, <2>2 DEF ReadOK
  <2>4. ASSUME NEW e \in Dates, NEW b, b = artifact[e], NEW r, r = read'[e], r # Absent, b # Absent, r.rev = b.rev,
               NEW t \in DOMAIN b.outcomes
        PROVE  log'[t] = Derived(b, r.tickets, t)
    <3>1. t \in OfDate(e) /\ t \in Tickets /\ Ticket[t].date = e
      BY <1>1, <2>4 DEF ArtifactsOK, OfDate
    <3>2. CASE e = d
      BY <2>1, <2>4, <3>1, <3>2
    <3>3. CASE e # d
      <4>1. t \notin DOMAIN a.outcomes
        BY <2>2, <3>1, <3>3 DEF OfDate
      <4>2. log'[t] = log[t] /\ r = read[e]
        BY <2>1, <2>4, <3>1, <3>3, <4>1
      <4> QED
        BY <1>1, <2>4, <4>2 DEF ReadAgrees
    <3> QED
      BY <3>2, <3>3
  <2>5. ReadAgrees'
    BY <2>1, <2>4 DEF ReadAgrees, Derived
  <2> QED
    BY <2>3, <2>5
<1>7. ASSUME NEW d \in Dates, NEW left, NEW hand, CutLog(d, left, hand) PROVE ReadOK' /\ ReadAgrees'
  <2>1. /\ \A t \in Tickets : Ticket[t].date # d /\ log'[t] # log[t] => read'[Ticket[t].date] = Absent
        /\ read'[d] = Absent /\ \A e \in Dates : read'[e] # Absent => read'[e] = read[e]
        /\ UNCHANGED <<artifact, revs>>
    BY <1>1, <1>7, CutMakes
  <2>2. ReadOK'
    BY <1>1, <2>1 DEF ReadOK
  <2>3. ASSUME NEW e \in Dates, NEW b, b = artifact[e], NEW r, r = read'[e], r # Absent, b # Absent, r.rev = b.rev,
               NEW t \in DOMAIN b.outcomes
        PROVE  log'[t] = Derived(b, r.tickets, t)
    <3>1. t \in Tickets /\ Ticket[t].date = e
      BY <1>1, <2>3 DEF ArtifactsOK, OfDate
    <3>2. e # d /\ r = read[e]
      BY <2>1, <2>3
    <3>3. log'[t] = log[t]
      BY <2>1, <2>3, <3>1, <3>2
    <3> QED
      BY <1>1, <2>3, <3>2, <3>3 DEF ReadAgrees
  <2>4. ReadAgrees'
    BY <2>1, <2>3 DEF ReadAgrees, Derived
  <2> QED
    BY <2>2, <2>4
<1>5. ASSUME UNCHANGED <<log, artifact, read, revs>> PROVE ReadOK' /\ ReadAgrees'
  BY <1>1, <1>5 DEF ReadOK, ReadAgrees, Derived
<1>6. CASE FromOutside
  BY <1>5, <1>6 DEF FromOutside, QuotesArrive, TradeRecorded, TicketsRebuilt, CertifyEntry, FileChanges, ByHand
<1> QED
  BY <1>3, <1>4, <1>5, <1>6, <1>7 DEF LineageNext, WriteStore, UpdaterDies, MaterializeOnly, Curate, Audit, BuildPack

LEMMA StoreStep ==
  ASSUME LineageInv, LineageNext
  PROVE  StoreOK'
<1>1. StoreOK /\ LogOK
  BY DEF LineageInv
<1>2. CASE WriteStore \/ MaterializeOnly
  <2>1. PICK m : m = Materialized /\ store' = m /\ UNCHANGED <<registry, manual, forgotten>>
    BY <1>2 DEF WriteStore, MaterializeOnly
  <2>2. ASSUME NEW p \in Policies, m[p] # Absent
        PROVE  /\ m[p].status \in DOMAIN Rank
               /\ m[p].support + m[p].against = Cardinality(m[p].sources)
               /\ m[p].status = "active" => <<p, "user_approve">> \in manual \cup forgotten
    <3>1. m[p] = [status |-> Capped(p), support |-> Count(p, "support"), against |-> Count(p, "contradict"),
                  sources |-> Sources(p)]
      BY <2>1, <2>2 DEF Materialized
    <3>2. /\ m[p].status = Capped(p) /\ m[p].sources = Sources(p)
          /\ m[p].support = Count(p, "support") /\ m[p].against = Count(p, "contradict")
      BY <3>1
    <3> QED
      BY <1>1, <3>2, StatusNames, SourcesCounted, OnlyApproved
  <2> QED
    BY <1>1, <2>1, <2>2 DEF StoreOK
<1>3. CASE Curate
  <2>1. PICK g : g = registry' /\ UNCHANGED <<store, manual, forgotten>>
    BY <1>3 DEF Curate, outside
  <2>2. ASSUME NEW p \in Policies, g[p] # Absent
        PROVE  g[p].status \in {"archived", "candidate", "draft"} /\ g[p].sources # {}
    <3>1. store[p] # Absent /\ store[p].sources # {}
          /\ g[p] = [status |-> SkillStatus(store[p]), sources |-> store[p].sources]
      BY <1>3, <2>1, <2>2 DEF Curate
    <3>2. g[p].status = SkillStatus(store[p]) /\ g[p].sources = store[p].sources
      BY <3>1
    <3>3. \A x : SkillStatus(x) \in {"archived", "candidate", "draft"}
      BY DEF SkillStatus
    <3> QED
      BY <3>1, <3>2, <3>3
  <2> QED
    BY <1>1, <2>1, <2>2 DEF StoreOK
<1>4. CASE UNCHANGED <<store, registry>> /\ manual \cup forgotten \subseteq manual' \cup forgotten'
  BY <1>1, <1>4 DEF StoreOK
<1>6. ASSUME NEW d \in Dates, NEW left, NEW hand, CutLog(d, left, hand) PROVE StoreOK'
  BY <1>4, <1>6, CutMakes DEF LineageInv
<1>5. CASE FromOutside
  BY <1>4, <1>5 DEF FromOutside, QuotesArrive, TradeRecorded, TicketsRebuilt, CertifyEntry, FileChanges, ByHand
<1> QED
  BY <1>2, <1>3, <1>4, <1>5, <1>6 DEF LineageNext, Evaluate, RewriteLog, UpdaterDies, Audit, BuildPack

LEMMA AuditStep ==
  ASSUME LineageInv, LineageNext
  PROVE  AuditOK'
<1>1. AuditOK
  BY DEF LineageInv
<1>2. CASE Audit
  <2>1. PICK a : a = audit' /\ a = [p \in {q \in Policies : registry[q] # Absent} |->
                                     [trust |-> SkillTrust(p)]]
    BY <1>2 DEF Audit
  <2>2. ASSUME NEW p \in DOMAIN a PROVE a[p].trust \in Trusts
    BY <2>1, TrustNames
  <2> QED
    BY <2>1, <2>2 DEF AuditOK
<1>3. CASE audit' = audit
  BY <1>1, <1>3 DEF AuditOK
<1>4. CASE FromOutside
  BY <1>3, <1>4 DEF FromOutside, QuotesArrive, TradeRecorded, TicketsRebuilt, CertifyEntry, FileChanges, ByHand
<1> QED
  BY <1>2, <1>3, <1>4 DEF LineageNext, Evaluate, RewriteLog, CutLog, WriteStore, MaterializeOnly, Curate, UpdaterDies, BuildPack

LEMMA LineageInvStep == LineageInv /\ [LineageNext]_lineageVars => LineageInv'
<1> SUFFICES ASSUME LineageInv, [LineageNext]_lineageVars PROVE LineageInv'
  OBVIOUS
<1>1. CASE LineageNext
  BY <1>1, ArtifactsStep, LogStep, ReadStep, StoreStep, AuditStep DEF LineageInv
<1>2. CASE UNCHANGED lineageVars
  BY <1>2 DEF LineageInv, lineageVars, outside, ArtifactsOK, LogOK, EventsAgree, ReadAgrees, ReadOK, StoreOK,
     AuditOK, Derived
<1> QED
  BY <1>1, <1>2

LEMMA LineageInvariant == Spec => [](part = "lineage" => LineageInv)
<1>1. Init => (part = "lineage" => LineageInv)
  BY InitLineage DEF Init
<1>2. (part = "lineage" => LineageInv) /\ [Next]_<<part, learningVars, lineageVars>> => (part = "lineage" => LineageInv)'
  <2> SUFFICES ASSUME part = "lineage" => LineageInv, [Next]_<<part, learningVars, lineageVars>>, part' = "lineage"
               PROVE  LineageInv'
    OBVIOUS
  <2>1. part = "lineage" /\ [LineageNext]_lineageVars
    BY DEF Next
  <2> QED
    BY <2>1, LineageInvStep
<1> QED
  BY <1>1, <1>2, PTL DEF Spec

\* A settled store counts of every policy the outcomes on file, as they are.
LEMMA CountedAsSaid ==
  ASSUME LineageInv
  PROVE  StoreCountsOnce
<1>1. ArtifactsOK /\ LogOK /\ ReadAgrees
  BY DEF LineageInv
<1> SUFFICES ASSUME Settled, store = Materialized, \A t \in Tickets : log[t] # Absent => Outcome(t) # Absent,
                    NEW p \in Policies, store[p] # Absent
             PROVE  /\ store[p].support = Cardinality(Said("support", p))
                    /\ store[p].against = Cardinality(Said("contradict", p))
  BY DEF StoreCountsOnce
<1>2. ASSUME NEW t \in Tickets, NEW d, d = Ticket[t].date, Outcome(t) # Absent
      PROVE  /\ log[t] = Derived(artifact[d], read[d].tickets, t)
             /\ Outcome(t) = artifact[d].outcomes[t] /\ artifact[d].rev \in Nat
  <2>1. artifact[d] # Absent /\ t \in DOMAIN artifact[d].outcomes /\ Outcome(t) = artifact[d].outcomes[t]
    BY <1>2 DEF Outcome
  <2>2. d \in Dates
    BY <1>2, TicketDate
  <2>3. read[d] # Absent /\ read[d].rev = artifact[d].rev
    BY <2>1, <2>2 DEF Settled
  <2>4. artifact[d].rev \in Nat
    BY <1>1, <2>1, <2>2 DEF ArtifactsOK
  <2> QED
    BY <1>1, <2>1, <2>2, <2>3, <2>4 DEF ReadAgrees
<1>3. ASSUME NEW type \in {"support", "contradict"}
      PROVE  {t \in Sources(p) : log[t].type = type} = Said(type, p)
  <2>1. ASSUME NEW t \in Tickets
        PROVE  log[t] # Absent /\ log[t].policy = p /\ log[t].type = type <=>
                 /\ Outcome(t) # Absent /\ EventType(t, Outcome(t)) = type
                 /\ p = IF t \in read[Ticket[t].date].tickets THEN Bucket[t] ELSE OfFund[t]
    <3>1. PICK d : d = Ticket[t].date
      OBVIOUS
    <3>2. CASE Outcome(t) = Absent
      BY <3>2
    <3>3. CASE Outcome(t) # Absent
      <4>1. PICK a, set : a = artifact[d] /\ set = read[d].tickets
        OBVIOUS
      <4>2. log[t] = Derived(a, set, t) /\ Outcome(t) = a.outcomes[t] /\ a.rev \in Nat
        BY <1>2, <3>1, <3>3, <4>1
      <4>3. CASE EventType(t, a.outcomes[t]) = Absent
        BY <4>2, <4>3, AbsentAssumption DEF Derived
      <4>4. CASE EventType(t, a.outcomes[t]) # Absent
        <5>1. Derived(a, set, t) # Absent
          <6>1. PICK kind, policy : /\ kind = EventType(t, a.outcomes[t])
                                    /\ policy = IF t \in set THEN Bucket[t] ELSE OfFund[t]
            OBVIOUS
          <6>2. Derived(a, set, t) = [type |-> kind, rev |-> a.rev, policy |-> policy]
            BY <4>4, <6>1 DEF Derived
          <6>3. kind \in {"support", "contradict"} /\ policy \in Policies
            BY <4>4, <6>1, EventNames, LineageAssumption
          <6> QED
            BY <4>2, <6>2, <6>3, AbsentAssumption DEF LogEntry
        <5> QED
          BY <3>1, <3>3, <4>1, <4>2, <5>1, DerivedEvent
      <4> QED
        BY <4>3, <4>4
    <3> QED
      BY <3>2, <3>3
  <2> QED
    BY <2>1 DEF Sources, Said
<1>4. store[p] = [status |-> Capped(p), support |-> Count(p, "support"), against |-> Count(p, "contradict"),
                  sources |-> Sources(p)]
  BY DEF Materialized
<1>5. store[p].support = Count(p, "support") /\ store[p].against = Count(p, "contradict")
  BY <1>4
<1> QED
  BY <1>3, <1>5 DEF Count

\* What a policy counts is what its sources are, an event says what its
\* outcome says once the updater has run, for each date of which a rewriting
\* that was cut short has lost events, and nothing is in force that the user
\* has not approved (rewrite_policy_events, apply_event, enforce_scope_caps).
THEOREM PoliciesRestOnOutcomes == Spec => []LineageIsSound
<1>1. LineageInv => LineageTypeOK
  <2>1. ASSUME LineageInv, NEW t \in Tickets
        PROVE  log[t] = Absent \/ (log[t] \in LogEntry /\ log[t].rev \in 1 .. MaxRevs)
    <3>1. revs \in Nat /\ MaxRevs \in Nat /\ revs <= MaxRevs
      BY <2>1, LineageAssumption DEF LineageInv, ArtifactsOK
    <3> QED
      BY <2>1, <3>1 DEF LineageInv, LogOK
  <2> QED
    BY <2>1 DEF LineageTypeOK, LineageInv, StoreOK, AuditOK, Trusts
<1>2. LineageInv => OnlyUsersActivate
  BY DEF LineageInv, StoreOK, OnlyUsersActivate
<1>3. (part = "lineage" => LineageInv) => LineageIsSound
  BY <1>1, <1>2, CountedAsSaid DEF LineageIsSound
<1> QED
  BY <1>3, LineageInvariant, PTL

LEMMA TrustedOutcome ==
  ASSUME NEW t, OutcomeTrust(t) = "trusted"
  PROVE  /\ Learnable(Ticket[t].date)
         /\ Outcome(t) # Absent /\ Outcome(t).status = "scored" /\ Outcome(t).excess \notin {Absent, 0}
  BY DEF OutcomeTrust

LEMMA OutcomeTrustNames == \A t : OutcomeTrust(t) \in Trusts
  BY DEF OutcomeTrust, Trusts

LEMMA EventTrustNames == \A t : EventTrust(t) \in Trusts
  BY OutcomeTrustNames DEF EventTrust, Trusts

\* A set of things is trusted when all of them are.
LEMMA WeakestTrusted ==
  ASSUME NEW set \in SUBSET Trusts, Weakest(set) = "trusted"
  PROVE  \A x \in set : x = "trusted"
  BY DEF Weakest, Trusts

\* What a policy that is trusted rests on.
LEMMA TrustedPolicy ==
  ASSUME NEW p, PolicyTrust(p) = "trusted"
  PROVE  /\ \A t \in Sources(p) : EventTrust(t) = "trusted"
         /\ \A t \in store[p].sources : OutcomeTrust(t) = "trusted"
         /\ \A k \in Kinds : <<p, k>> \notin manual
<1> DEFINE E == {EventTrust(t) : t \in Sources(p)}
           H == IF \E k \in Kinds : <<p, k>> \in manual THEN {"blocked"} ELSE {}
           G == IF \E t \in store[p].sources : Outcome(t) = Absent THEN {"blocked"} ELSE {}
           O == {OutcomeTrust(t) : t \in store[p].sources}
<1>1. Weakest(E \cup H \cup G \cup O) = "trusted"
  <2>1. PolicyTrust(p) =
          IF E \cup H \cup G = {} \/ (Sources(p) = {} /\ \A k \in Kinds : <<p, k>> \notin manual) THEN "blocked"
          ELSE IF E \cup H \cup G = {"legacy_untrusted"} THEN "legacy_untrusted"
          ELSE Weakest(E \cup H \cup G \cup O)
    BY DEF PolicyTrust
  <2> HIDE DEF E, H, G, O
  <2> QED
    BY <2>1
<1>2. E \in SUBSET Trusts /\ O \in SUBSET Trusts /\ H \in SUBSET Trusts /\ G \in SUBSET Trusts
  <2>1. E \in SUBSET Trusts
    BY EventTrustNames
  <2>2. O \in SUBSET Trusts
    BY OutcomeTrustNames
  <2>3. H \in SUBSET Trusts /\ G \in SUBSET Trusts
    BY DEF Trusts
  <2> QED
    BY <2>1, <2>2, <2>3
<1>3. \A x \in E \cup H \cup G \cup O : x = "trusted"
  <2> HIDE DEF E, H, G, O
  <2>1. E \cup H \cup G \cup O \in SUBSET Trusts
    BY <1>2
  <2> QED
    BY <1>1, <2>1, WeakestTrusted
<1>4. ASSUME NEW t \in Sources(p) PROVE EventTrust(t) = "trusted"
  <2>1. EventTrust(t) \in E
    OBVIOUS
  <2> HIDE DEF E, H, G, O
  <2> QED
    BY <1>3, <2>1
<1>5. ASSUME NEW t \in store[p].sources PROVE OutcomeTrust(t) = "trusted"
  <2>1. OutcomeTrust(t) \in O
    OBVIOUS
  <2> HIDE DEF E, H, G, O
  <2> QED
    BY <1>3, <2>1
<1>6. ASSUME NEW k \in Kinds, <<p, k>> \in manual PROVE FALSE
  <2>1. "blocked" \in H
    BY <1>6
  <2> HIDE DEF E, H, G, O
  <2> QED
    BY <1>3, <2>1
<1> QED
  BY <1>4, <1>5, <1>6

LEMMA TrustedSkill ==
  ASSUME LineageInv, NEW p \in Policies, registry[p] # Absent, SkillTrust(p) = "trusted"
  PROVE  /\ registry[p].sources # {}
         /\ \A t \in registry[p].sources \cup store[p].sources \cup Sources(p) :
              /\ Learnable(Ticket[t].date)
              /\ Outcome(t) # Absent /\ Outcome(t).status = "scored" /\ Outcome(t).excess \notin {Absent, 0}
         /\ \A t \in Sources(p) : EventType(t, Outcome(t)) = log[t].type
         /\ \A k \in Kinds : <<p, k>> \notin manual
<1> DEFINE O == {OutcomeTrust(t) : t \in registry[p].sources}
<1>1. Weakest({PolicyTrust(p)} \cup O) = "trusted"
  BY DEF SkillTrust
<1>2. PolicyTrust(p) \in Trusts /\ O \in SUBSET Trusts
  <2>1. PolicyTrust(p) \in Trusts
    BY DEF PolicyTrust, Weakest, Trusts
  <2> QED
    BY <2>1, OutcomeTrustNames
<1>3. \A x \in {PolicyTrust(p)} \cup O : x = "trusted"
  <2> HIDE DEF O
  <2>1. {PolicyTrust(p)} \cup O \in SUBSET Trusts
    BY <1>2
  <2> QED
    BY <1>1, <2>1, WeakestTrusted
<1>4. PolicyTrust(p) = "trusted"
  BY <1>3
<1>5. \A t \in registry[p].sources : OutcomeTrust(t) = "trusted"
  BY <1>3
<1>6. /\ \A t \in Sources(p) : EventTrust(t) = "trusted"
      /\ \A t \in store[p].sources : OutcomeTrust(t) = "trusted"
      /\ \A k \in Kinds : <<p, k>> \notin manual
  BY <1>4, TrustedPolicy
<1>7. \A t \in Sources(p) : OutcomeTrust(t) = "trusted" /\ artifact[Ticket[t].date].rev = log[t].rev /\ Outcome(t) # Absent
  BY <1>6 DEF EventTrust
<1>8. \A t \in registry[p].sources \cup store[p].sources \cup Sources(p) : OutcomeTrust(t) = "trusted"
  BY <1>5, <1>6, <1>7
<1>9. ASSUME NEW t \in Sources(p) PROVE EventType(t, Outcome(t)) = log[t].type
  <2>1. t \in Tickets /\ log[t] # Absent
    BY DEF Sources
  <2>2. artifact[Ticket[t].date] # Absent /\ Outcome(t) = artifact[Ticket[t].date].outcomes[t]
    BY <1>7 DEF Outcome
  <2> QED
    BY <1>7, <2>1, <2>2 DEF LineageInv, EventsAgree
<1>10. registry[p].sources # {}
  BY DEF LineageInv, StoreOK
<1> QED
  BY <1>6, <1>8, <1>9, <1>10, TrustedOutcome

\* A skill the audit trusts rests on scored outcomes of days that may be
\* learned from, and on events that say what they say (audit_learning_trust).
THEOREM AuditTrustsTheSound == Spec => TrustedIsSound
<1>1. (part = "lineage" => LineageInv) /\ [Next]_<<part, learningVars, lineageVars>> =>
        [Audit => \A p \in DOMAIN audit' : audit'[p].trust = "trusted" =>
           /\ registry[p].sources # {}
           /\ \A t \in registry[p].sources \cup store[p].sources \cup Sources(p) :
                /\ Learnable(Ticket[t].date)
                /\ Outcome(t) # Absent /\ Outcome(t).status = "scored" /\ Outcome(t).excess \notin {Absent, 0}
           /\ \A t \in Sources(p) : EventType(t, Outcome(t)) = log[t].type
           /\ \A k \in Kinds : <<p, k>> \notin manual]_lineageVars
  <2> SUFFICES ASSUME part = "lineage" => LineageInv, [Next]_<<part, learningVars, lineageVars>>,
                      ~(UNCHANGED lineageVars), Audit, NEW p \in DOMAIN audit', audit'[p].trust = "trusted"
               PROVE  /\ registry[p].sources # {}
                      /\ \A t \in registry[p].sources \cup store[p].sources \cup Sources(p) :
                           /\ Learnable(Ticket[t].date)
                           /\ Outcome(t) # Absent /\ Outcome(t).status = "scored" /\ Outcome(t).excess \notin {Absent, 0}
                      /\ \A t \in Sources(p) : EventType(t, Outcome(t)) = log[t].type
                      /\ \A k \in Kinds : <<p, k>> \notin manual
    OBVIOUS
  <2>1. LineageInv
    BY DEF Next
  <2>2. PICK a : a = audit' /\ a = [q \in {x \in Policies : registry[x] # Absent} |->
                                     [trust |-> SkillTrust(q)]]
    BY DEF Audit
  <2>3. p \in Policies /\ registry[p] # Absent /\ a[p] = [trust |-> SkillTrust(p)]
    BY <2>2
  <2>4. SkillTrust(p) = "trusted"
    BY <2>2, <2>3
  <2> QED
    BY <2>1, <2>3, <2>4, TrustedSkill
<1> QED
  BY <1>1, LineageInvariant, PTL DEF Spec, TrustedIsSound
===============================================================================
