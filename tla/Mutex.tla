--------------------------------- MODULE Mutex ---------------------------------
(***************************************************************************)
(* What common.file_lock promises to the operations that use it, and what  *)
(* Settlement assumes of its two locks: one live holder at a time; a lock  *)
(* that nobody holds but whose file is still there blocks everybody until  *)
(* it is broken.                                                           *)
(***************************************************************************)
CONSTANTS Procs, Free, Orphan
VARIABLE owner

Init == owner = Free

\* The file is created; its creator may fail before its body starts.
Acquire(p) == owner = Free /\ owner' \in {p, Orphan}

\* The body ends, or the process dies, and the file may outlive it.
Leave(p) == owner = p /\ owner' \in {Free, Orphan}

Break == owner = Orphan /\ owner' = Free

Next == Break \/ \E p \in Procs : Acquire(p) \/ Leave(p)

Spec == Init /\ [][Next]_owner
================================================================================
