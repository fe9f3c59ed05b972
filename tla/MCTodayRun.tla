------------------------------- MODULE MCTodayRun -------------------------------
(* TodayRun for TLC: the processes of a date are interchangeable. *)
EXTENDS TodayRun, TLC

RunSymmetry == Permutations(Runs) \cup Permutations(Clients)
=================================================================================
