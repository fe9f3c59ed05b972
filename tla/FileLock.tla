------------------------------- MODULE FileLock --------------------------------
(***************************************************************************)
(* common.file_lock: an advisory lock that is a file created with O_EXCL   *)
(* and unlinked on exit.  A waiter that finds the file older than          *)
(* stale_seconds unlinks whatever file has that name by then: the look at  *)
(* its age, the unlink and the creation are three system calls.            *)
(***************************************************************************)
EXTENDS Naturals, FiniteSets

CONSTANTS
  Users,         \* processes and threads that use the lock
  CanUnlinkOpen, \* POSIX: TRUE; Windows: FALSE, PermissionError instead
  Overstay,      \* a body, or its release, may last longer than stale_seconds
  Breakers,      \* how many waiters may be about to unlink a stale file at once
  MaxLockFaults,     \* bound: crashes and failed writes in a behaviour
  NoFile, Free, Orphan

ASSUME FileLockAssumption ==
  /\ CanUnlinkOpen \in BOOLEAN /\ Overstay \in BOOLEAN
  /\ Breakers \in Nat /\ MaxLockFaults \in Nat
  /\ IsFiniteSet(Users)
  /\ Free \notin Users /\ Orphan \notin Users /\ Free # Orphan

VARIABLES
  file,   \* the lock file: who created it, and whether its descriptor is open
  pc,     \* the next system call of a process
  lockFaults

lockVars == <<file, pc, lockFaults>>

LockFile == [by: Users, open: BOOLEAN, old: BOOLEAN]

ASSUME NoFileAssumption == NoFile \notin LockFile

LockTypeOK ==
  /\ file \in LockFile \cup {NoFile}
  /\ pc \in [Users -> {"idle", "open", "stat", "unlink", "wait", "held", "release"}]
  /\ lockFaults \in 0 .. MaxLockFaults

FileLockInit ==
  /\ file = NoFile
  /\ pc = [p \in Users |-> "idle"]
  /\ lockFaults = 0

-------------------------------------------------------------------------------
Goto(p, from, to) == pc[p] = from /\ pc' = [pc EXCEPT ![p] = to]

\* Mutant of Create: the descriptor is closed before the body runs.
CreateClosed(p) ==
  /\ file = NoFile
  /\ Goto(p, "open", "held")
  /\ file' = [by |-> p, open |-> FALSE, old |-> FALSE]
  /\ UNCHANGED lockFaults
Enter(p) == Goto(p, "idle", "open") /\ UNCHANGED <<file, lockFaults>>

\* os.open(O_CREAT | O_EXCL) succeeds and the pid is written.
Create(p) ==
  /\ file = NoFile
  /\ Goto(p, "open", "held")
  /\ file' = [by |-> p, open |-> TRUE, old |-> FALSE]
  /\ UNCHANGED lockFaults

\* os.write raises: the body is not entered, and neither the descriptor nor the
\* file is given back, since the try statement starts after the loop.
CreateFails(p) ==
  /\ file = NoFile
  /\ lockFaults < MaxLockFaults
  /\ Goto(p, "open", "idle")
  /\ file' = [by |-> p, open |-> TRUE, old |-> FALSE]
  /\ lockFaults' = lockFaults + 1

Exists(p) == file # NoFile /\ Goto(p, "open", "stat") /\ UNCHANGED <<file, lockFaults>>

\* Mutant of Stale: the age is never looked at.
NeverStale(f) == FALSE

\* age > stale_seconds
Stale(f) == f.old

\* path.stat(): gone, too old, or still to be waited for.
Stat(p) ==
  /\ \/ file = NoFile /\ Goto(p, "stat", "open")
     \/ /\ file # NoFile /\ Stale(file)
        /\ Cardinality({q \in Users : pc[q] = "unlink"}) < Breakers
        /\ Goto(p, "stat", "unlink")
     \/ file # NoFile /\ ~Stale(file) /\ Goto(p, "stat", "wait")
  /\ UNCHANGED <<file, lockFaults>>

\* An open file cannot be unlinked on Windows.
Removable == file # NoFile /\ (CanUnlinkOpen \/ ~file.open)

\* path.unlink() of the stale file; FileNotFoundError starts over and
\* PermissionError is raised to the caller.
Unlink(p) ==
  /\ \/ Removable /\ file' = NoFile /\ Goto(p, "unlink", "open")
     \/ file = NoFile /\ UNCHANGED file /\ Goto(p, "unlink", "open")
     \/ file # NoFile /\ ~Removable /\ UNCHANGED file /\ Goto(p, "unlink", "idle")
  /\ UNCHANGED lockFaults

\* time.sleep(poll_seconds), or TimeoutError after timeout_seconds.
Poll(p) == Goto(p, "wait", "open") /\ UNCHANGED <<file, lockFaults>>
TimeOut(p) == Goto(p, "wait", "idle") /\ UNCHANGED <<file, lockFaults>>

\* The body is over: os.close(descriptor) ...
Close(p) ==
  /\ Goto(p, "held", "release")
  /\ file' = IF file # NoFile /\ file.by = p THEN [file EXCEPT !.open = FALSE] ELSE file
  /\ UNCHANGED lockFaults

\* ... and path.unlink(), whosever file it is by now.
Release(p) ==
  /\ Goto(p, "release", "idle")
  /\ file' = IF Removable THEN NoFile ELSE file
  /\ UNCHANGED lockFaults

\* The system closes the descriptors of a dead process; its files stay.
UserDies(p) ==
  /\ pc[p] # "idle"
  /\ lockFaults < MaxLockFaults
  /\ pc' = [pc EXCEPT ![p] = "idle"]
  /\ file' = IF file # NoFile /\ file.by = p THEN [file EXCEPT !.open = FALSE] ELSE file
  /\ lockFaults' = lockFaults + 1

\* stale_seconds pass.
Age ==
  /\ file # NoFile /\ ~file.old
  /\ Overstay \/ pc[file.by] \notin {"held", "release"}
  /\ file' = [file EXCEPT !.old = TRUE]
  /\ UNCHANGED <<pc, lockFaults>>

Step(p) ==
  \/ Create(p) \/ Exists(p) \/ Stat(p) \/ Unlink(p) \/ Poll(p) \/ Close(p) \/ Release(p)

FileLockNext ==
  \/ \E p \in Users : Enter(p) \/ Step(p) \/ CreateFails(p) \/ TimeOut(p) \/ UserDies(p)
  \/ Age

FileLockSpec == FileLockInit /\ [][FileLockNext]_lockVars

\* Operations keep coming, run to their end, and time passes.
LockFairness ==
  /\ \A p \in Users : WF_lockVars(Enter(p)) /\ WF_lockVars(Step(p))
  /\ WF_lockVars(Age)
FairLockSpec == FileLockSpec /\ LockFairness

-------------------------------------------------------------------------------
\* Properties.

\* What exclusion rests on: an open file cannot be unlinked, or bodies are short
\* and no waiter acts on an age it read before another one broke the lock.
Guarded == ~CanUnlinkOpen \/ (Breakers = 1 /\ ~Overstay)

\* The bodies of two operations never overlap.
MutualExclusion == \A p, q \in Users : pc[p] = "held" /\ pc[q] = "held" => p = q

\* A file that its creator will not unlink does not block the lock for good
\* (on Windows: once the process that leaked a descriptor has gone).
Abandoned == Removable /\ pc[file.by] \notin {"held", "release"}
AbandonedIsBroken == Abandoned ~> ~Abandoned

\* The lock is what Mutex promises and Settlement builds on: a process in its
\* body owns it, and a file without one is an orphan.
Holders == {p \in Users : pc[p] = "held"}
Owner == IF Holders # {} THEN CHOOSE p \in Holders : TRUE
         ELSE IF file = NoFile THEN Free ELSE Orphan
Lock == INSTANCE Mutex WITH Procs <- Users, owner <- Owner
ImplementsMutex == Lock!Spec
================================================================================
