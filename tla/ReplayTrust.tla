----------------------------- MODULE ReplayTrust -----------------------------
(***************************************************************************)
(* Whether a date may be replayed, and learned from: the trust manifest     *)
(* names the files the decision of that date was made from and those it is  *)
(* judged with, each with its hash, and the time of the decision.  The      *)
(* files of the decision are read for what could only be known later.       *)
(***************************************************************************)
EXTENDS Integers

CONSTANTS Paths,  \* the files an entry can name
          Absent

\* A file: its hash, the latest time said in it, and whether it shows
\* what was executed.  An entry: its mode, whether it may teach, the time of
\* the decision, and the hash and role of each file it names.
File  == [hash: Nat, latest: Nat, execution: BOOLEAN]
IsEntry(e) ==
  /\ e.mode \in {"trusted", "structural_only", "blocked"}
  /\ e.teaches \in BOOLEAN /\ e.cutoff \in Nat
  /\ \A p \in DOMAIN e.sources : e.sources[p] \in [hash: Nat, role: {"decision", "evaluation"}]

Listed(entry, required) ==
  \A p \in DOMAIN required : p \in DOMAIN entry.sources /\ entry.sources[p].role = required[p]

\* Every file named is the one that was named, and every file used is named.
Intact(entry, files, required) ==
  /\ entry # Absent
  /\ DOMAIN entry.sources # {}
  /\ \A p \in DOMAIN entry.sources : files[p] # Absent /\ files[p].hash = entry.sources[p].hash
  /\ Listed(entry, required)

\* Something that was not known, or not to be known, when the decision was made.
Contaminated(entry, files) ==
  \E p \in DOMAIN entry.sources :
    entry.sources[p].role = "decision" /\ (files[p].execution \/ files[p].latest > entry.cutoff)

AllowedForLearning(entry, files, required) ==
  /\ Intact(entry, files, required)
  /\ entry.mode = "trusted" /\ entry.teaches
  /\ ~Contaminated(entry, files)
==============================================================================
