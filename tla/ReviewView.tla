------------------------------ MODULE ReviewView -------------------------------
(***************************************************************************)
(* What is shown of an advice beside its files: the page that compares the *)
(* validated advice of a date with its tickets (shadow_review_service.py)  *)
(* and the replay of a validated advice through tickets and preview        *)
(* (build_official_advice_compat_preview.py).  Both only read; what they   *)
(* show of packs, debates and outcomes beside an item is left out.         *)
(***************************************************************************)
EXTENDS AdviceChain, Sequences

\* What entries are told apart by, and what a page may show.  The keys that
\* matched entries get begin with a word that is no fund code.
Marks == Funds \cup Verbs \cup {"action", "fund", "native"} \cup Nat
Entries == [fund : Funds, label : Verbs, id : Seq(Marks), key : Seq(Marks)]

ASSUME KeysAssumption == "action" \notin Funds /\ "fund" \notin Funds /\ None \notin Entries

\* An action or a ticket: its fund, the label it is compared by, and the key
\* (its suggestion, or its place in the file) it is looked up by.
Entry(f, label, key) == [fund |-> f, label |-> label, id |-> key, key |-> key]

\* Entries are alike by their fund, or by their fund and what is done with it.
Alike(by, x, y) == x.fund = y.fund /\ (by = "action" => x.label = y.label)

\* The entry of the other side that an entry is matched with although their
\* keys differ: each is the only one of its side that is like it.
Counterparts(a, mine, theirs, by) ==
  {t \in theirs : /\ Alike(by, t, a) /\ t.key # a.key
                  /\ \A u \in theirs : Alike(by, u, a) => u = t
                  /\ \A b \in mine : Alike(by, b, a) => b = a}

Matched(mine, theirs, by) ==
  {IF Counterparts(a, mine, theirs, by) = {} THEN a
   ELSE [a EXCEPT !.key = IF by = "action" THEN <<by, a.fund, a.label>> ELSE <<by, a.fund>>] : a \in mine}

\* align_single_action_fallbacks, one side of it: entries of the same action
\* first, then entries of the same fund, which are matched whatever the action.
AlignedSide(mine, theirs) ==
  Matched(Matched(mine, theirs, "action"), Matched(theirs, mine, "action"), "fund")

\* build_review_items: a row for every key of either side.
Rows(officials, theTickets) ==
  LET os == AlignedSide(officials, theTickets)
      ts == AlignedSide(theTickets, officials)
      Of(side, key) == IF \E x \in side : x.key = key THEN CHOOSE x \in side : x.key = key ELSE None
  IN {[legacy |-> Of(os, key), shadow |-> Of(ts, key)] : key \in {x.key : x \in os \cup ts}}

\* action_label of an action: what was validated.
LegacyLabel(act) == act.verb

Officials(d) == {Entry(f, LegacyLabel(validated[d].acts[f]), <<f, validated[d].acts[f].verb>>) : f \in Funds}

\* A native seed has a suggestion of its own.
TicketEntries(d) ==
  {LET verb == tickets[d].tickets[f].verb IN
   Entry(f, verb, IF tickets[d].source = "native" THEN <<f, verb, "native">> ELSE <<f, verb>>) : f \in Funds}

ReviewItems(d) == Rows(Officials(d), TicketEntries(d))

Changed(item) == item.legacy # None /\ item.shadow # None /\ item.legacy.label # item.shadow.label

\* item_severity
IsHigh(d, item) == Changed(item) /\ tickets[d].tickets[item.shadow.fund].block

-------------------------------------------------------------------------------
\* build_validated_action_preview
ReplayedAct(decision) ==
  [verb |-> FinalVerb(decision), amount |-> IF FinalVerb(decision) = "hold" THEN 0 ELSE decision.amount]

\* The preview of tickets made of an advice; validated_advice_is_comparable
\* looks at the action and the amount of every fund.
Replay(acts, mock) == [f \in Funds |-> ReplayedAct(Preview(ValidatedTickets(acts, mock), TRUE, FALSE)[f])]
Comparable(some, acts, funds) == \A f \in funds : some[f].verb = acts[f].verb /\ some[f].amount = acts[f].amount

-------------------------------------------------------------------------------
(***************************************************************************)
(* Properties.                                                             *)
(***************************************************************************)
Kinds == {Entry(f, label, <<f, n>>) : f \in Funds, label \in {"add", "hold"}, n \in 1 .. 3}
Sides == {s \in SUBSET Kinds : Cardinality(s) <= 2 /\ \A x, y \in s : x.key = y.key => x = y}
Is(shown, entry) == shown # None /\ shown.id = entry.id

\* However many actions a fund has on either side: a page shows each action and
\* each ticket once, compares none with another fund's, and compares the only
\* action of a fund with its only ticket (align_single_action_fallbacks).
AlignmentIsMatching ==
  \A os \in Sides, ts \in Sides :
    LET rows == Rows(os, ts) IN
    /\ \A o \in os : Cardinality({r \in rows : Is(r.legacy, o)}) = 1
    /\ \A t \in ts : Cardinality({r \in rows : Is(r.shadow, t)}) = 1
    /\ \A r \in rows : r.legacy # None /\ r.shadow # None => r.legacy.fund = r.shadow.fund
    /\ \A o \in os, t \in ts :
         {x \in os : x.fund = o.fund} = {o} /\ {x \in ts : x.fund = o.fund} = {t}
           => \E r \in rows : Is(r.legacy, o) /\ Is(r.shadow, t)

\* When the tickets of a date and its validated advice are of one run, a page
\* that shows a difference shows a trade that was held, never another trade and
\* never a high risk: anything else it shows is that one of them is older.
ChangesAreExplained ==
  \A d \in Have(validated) : tickets[d] # None /\ tickets[d].at = validated[d].at =>
    \A item \in ReviewItems(d) :
      /\ item.legacy # None /\ item.shadow # None
      /\ Changed(item) => item.legacy.label = "hold" /\ ~ IsHigh(d, item)

\* A validated advice that is turned into tickets and previewed again comes out
\* as it was (historical_compat_replay_is_comparable): no guardrail that a
\* ticket inherits holds what had been let through.  A fund that is bought on
\* schedule in spite of a veto is the exception.
ReplayReproduces ==
  \A d \in Have(validated) :
    LET acts == validated[d].acts IN
    Comparable(Replay(acts, validated[d].mock), acts, {f \in Funds : ~ acts[f].veto})

\* What is shown of it: matched, explained and reproduced.
ViewExplains == AlignmentIsMatching /\ ChangesAreExplained /\ ReplayReproduces
================================================================================
