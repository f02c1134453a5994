-------------------------------- MODULE Faults --------------------------------
(***************************************************************************)
(* What the modules share: the absent value, a bounded supply of failures, *)
(* and a directory of JSON files as scripts/student_lab_attempts.py writes *)
(* it.  A failure is a system call that raises (an fsync, a rename, an     *)
(* unlink), an answer that is lost, a process or a machine that stops.     *)
(***************************************************************************)
EXTENDS Naturals

CONSTANT None       \* no value

VARIABLE faults     \* failures so far

\* One more of at most max failures.
Fault(max) == faults < max /\ faults' = faults + 1

\* The step meets no failure.
NoFault == faults' = faults

-----------------------------------------------------------------------------
(***************************************************************************)
(* A directory.  now is what every process sees.  after holds what a power *)
(* loss may leave: one of the contents the directory went through since it *)
(* was last synced (metadata reach the disk in order, and a file's bytes   *)
(* before its name, for the writers sync the file before they publish it). *)
(***************************************************************************)

\* A directory whose content c is on disk.
OnDisk(c) == [now |-> c, after |-> {c}]

\* os.link, os.replace and unlink: seen at once, on disk at some later time.
Changed(d, c) == [now |-> c, after |-> d.after \cup {c}]

\* sync_directory that succeeds.
Synced(d) == OnDisk(d.now)

=============================================================================
