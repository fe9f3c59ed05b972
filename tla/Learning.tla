------------------------------- MODULE Learning -------------------------------
(***************************************************************************)
(* The two things the program learns: the rules of the learning ledger and  *)
(* the policies of the lineage.  They share no file, so a behaviour is of   *)
(* one or the other.                                                        *)
(***************************************************************************)
EXTENDS LearningLedger, Lineage

VARIABLE part  \* the part a behaviour shows

Init == part \in {"ledger", "lineage"} /\ LearningInit /\ LineageInit
Next == /\ \/ part = "ledger" /\ LearningNext /\ UNCHANGED lineageVars
           \/ part = "lineage" /\ LineageNext /\ UNCHANGED learningVars
        /\ UNCHANGED part
Spec == Init /\ [][Next]_<<part, learningVars, lineageVars>>

\* Each day and each replay teaches once, in a ledger whose stages are those
\* of its counts.
LedgerCountsOnce == part = "ledger" => LearningTypeOK /\ NightCountsOnce /\ ReplayCountsOnce

\* What was taught may be taught, and what is in force is shown.
TaughtIsShown == part = "ledger" => CertifiedTeaches /\ ViewShowsStages

\* What a policy counts is what is on file, and what is in force is what the
\* user approved.
LineageIsSound == part = "lineage" => LineageTypeOK /\ StoreCountsOnce /\ OnlyUsersActivate
===============================================================================
