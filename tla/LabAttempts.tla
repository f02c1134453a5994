---- MODULE LabAttempts ----
(***************************************************************************)
(* The attempt history of the student laboratory: the terminal program     *)
(* runs an assignment, stores the report as an immutable attempt, and keeps *)
(* two projections of it, the assignment's own latest.json and the         *)
(* activity's older latest.json that every assignment of the activity      *)
(* shares.  A writer holds the activity's file lock, and undoes what it    *)
(* wrote when a step fails; readers take no lock.  One attempt may be      *)
(* selected as final.                                                      *)
(***************************************************************************)
EXTENDS Faults, FiniteSets

CONSTANTS
    Terminals,      \* processes working on one student repository
    Assigned,       \* assignments of one activity in that repository
    MaxAttempt,     \* bound on the attempts published
    MaxLabClock,    \* bound on the clock that stamps reports
    LabFaults       \* bound on failed writes and killed processes

VARIABLES
    attempts,       \* attempts[a]: the files of a's attempts directory
    latest,         \* latest[a]: a's latest.json, or None
    legacy,         \* the activity's latest.json, or None
    final,          \* final[a]: the attempt final.json names, or None
    labLock,        \* the terminal that holds .attempt-history.lock, or None
    term,           \* what each terminal is doing
    nextAttempt,    \* source of attempt ids, which sort by creation
    labClock,       \* seconds, as the reports carry them
    toldSaved       \* toldSaved[a]: attempts a terminal was told are stored

labState == << attempts, latest, legacy, final, labLock, term, nextAttempt, labClock,
               toldSaved >>
labVars == << labState, faults >>

Nothing == [pc |-> "menu", a |-> None, report |-> None, mark |-> FALSE, pick |-> None,
            oldLatest |-> None, oldLegacy |-> None]

\* A terminal starts with the payload of an empty repository on its screen.
LabInit ==
    /\ attempts = [a \in Assigned |-> {}]
    /\ latest = [a \in Assigned |-> None]
    /\ legacy = None
    /\ final = [a \in Assigned |-> None]
    /\ labLock = None
    /\ term = [t \in Terminals |-> [job |-> Nothing, items |-> [a \in Assigned |-> {}]]]
    /\ nextAttempt = 1
    /\ labClock = 1
    /\ toldSaved = [a \in Assigned |-> {}]
    /\ faults = 0

Job(t) == term[t].job

Do(t, job) == term' = [term EXCEPT ![t].job = job]

LabAt(t, pc) == Job(t).pc = pc

Go(t, pc) == Do(t, [Job(t) EXCEPT !.pc = pc])

AttemptIds(a) == {r.id : r \in attempts[a]}

\* The order of attempts: the second of the report, then the attempt's id.
attempt_sort_key_le(r, s) == r.at < s.at \/ (r.at = s.at /\ r.id <= s.id)

\* The attempt of assignment a with this id, if its file is there.
load_attempt_by_id(a, id) == id \in AttemptIds(a)

\* What the payload says of an assignment: here, the attempts it lists.
build_lab_assignment(a) == AttemptIds(a)

list_student_lab_assignments == [a \in Assigned |-> build_lab_assignment(a)]

\* The attempts a reload of the payload puts on the screen: the directory as
\* it is now, read without the lock.  A stored report and a stored selection
\* end with it; when it fails the old payload stays.
load_current_payload(t) ==
    /\ Job(t).pc \in {"menu", "reload"}
    /\ \/ term' = [term EXCEPT ![t] = [job |-> Nothing, items |-> list_student_lab_assignments]] /\ NoFault
       \/ LabAt(t, "reload") /\ Do(t, Nothing) /\ Fault(LabFaults)
    /\ UNCHANGED << attempts, latest, legacy, final, labLock, nextAttempt, labClock, toldSaved >>

\* Command "e", or the runner's command line with --final: the assignment is
\* run and its report stamped.  The lock is taken later.
run_assignment(t, a, mark) ==
    /\ LabAt(t, "menu")
    /\ Do(t, [Nothing EXCEPT !.pc = "ran", !.a = a, !.mark = mark, !.report = [id |-> 0, at |-> labClock]])
    /\ NoFault
    /\ UNCHANGED << attempts, latest, legacy, final, labLock, nextAttempt, labClock, toldSaved >>

\* Mutant of lock_history: no lock is taken.
MutLockHistory(t) ==
    /\ LabAt(t, "ran")
    /\ Do(t, [Job(t) EXCEPT !.pc = "publish", !.oldLatest = latest[Job(t).a], !.oldLegacy = legacy])
    /\ NoFault
    /\ UNCHANGED << attempts, latest, legacy, final, labLock, nextAttempt, labClock, toldSaved >>

\* The writer enters the lock and keeps the two projections as they were.
lock_history(t) ==
    /\ LabAt(t, "ran")
    /\ labLock = None
    /\ labLock' = t
    /\ Do(t, [Job(t) EXCEPT !.pc = "publish", !.oldLatest = latest[Job(t).a], !.oldLegacy = legacy])
    /\ NoFault
    /\ UNCHANGED << attempts, latest, legacy, final, nextAttempt, labClock, toldSaved >>

\* The attempt's file appears under a fresh id, or the write fails before that.
write_json_exclusive(t) ==
    /\ LabAt(t, "publish")
    /\ LET a == Job(t).a
           r == [Job(t).report EXCEPT !.id = nextAttempt]
       IN \/ /\ nextAttempt <= MaxAttempt
             /\ nextAttempt' = nextAttempt + 1
             /\ attempts' = [attempts EXCEPT ![a] = @ \cup {r}]
             /\ Do(t, [Job(t) EXCEPT !.pc = "published", !.report = r])
             /\ NoFault
          \/ /\ Fault(LabFaults)
             /\ Go(t, "undo_latest")
             /\ UNCHANGED << attempts, nextAttempt >>
    /\ UNCHANGED << latest, legacy, final, labLock, labClock, toldSaved >>

\* The attempt of this job is removed again.
Unlinked(t) == [attempts EXCEPT ![Job(t).a] = @ \ {Job(t).report}]

\* The directory is synced; when that fails the file is removed.
sync_attempt(t) ==
    /\ LabAt(t, "published")
    /\ \/ Go(t, "latest") /\ NoFault /\ UNCHANGED attempts
       \/ Fault(LabFaults) /\ Go(t, "undo_latest") /\ attempts' = Unlinked(t)
    /\ UNCHANGED << latest, legacy, final, labLock, nextAttempt, labClock, toldSaved >>

\* latest.json is replaced by this attempt unless it holds a later one.  A
\* failure, before the replacement or after it, removes the attempt.
write_latest(t) ==
    LET a == Job(t).a
        newer == latest[a] # None => attempt_sort_key_le(latest[a], Job(t).report)
        new == IF newer THEN [latest EXCEPT ![a] = Job(t).report] ELSE latest
    IN /\ LabAt(t, "latest")
       /\ \/ latest' = new /\ Go(t, "legacy") /\ NoFault /\ UNCHANGED attempts
          \/ /\ newer
             /\ Fault(LabFaults)
             /\ latest' \in {latest, new}
             /\ attempts' = Unlinked(t)
             /\ Go(t, "undo_latest")
       /\ UNCHANGED << legacy, final, labLock, nextAttempt, labClock, toldSaved >>

\* The assignment's latest.json is read again and copied to the activity's.
write_legacy(t) ==
    LET a == Job(t).a
        new == [assignment |-> a, report |-> latest[a]]
    IN /\ LabAt(t, "legacy")
       /\ \/ legacy' = new /\ Go(t, "saved") /\ NoFault /\ UNCHANGED attempts
          \/ /\ Fault(LabFaults)
             /\ legacy' \in {legacy, new}
             /\ attempts' = Unlinked(t)
             /\ Go(t, "undo_latest")
       /\ UNCHANGED << latest, final, labLock, nextAttempt, labClock, toldSaved >>

\* A failed writer puts the assignment's latest.json back; when even that
\* fails the exception leaves the lock.
undo_latest(t) ==
    /\ LabAt(t, "undo_latest")
    /\ \/ /\ latest' = [latest EXCEPT ![Job(t).a] = Job(t).oldLatest]
          /\ Go(t, "undo_legacy")
          /\ NoFault
          /\ UNCHANGED labLock
       \/ Fault(LabFaults) /\ Do(t, Nothing) /\ labLock' = None /\ UNCHANGED latest
    /\ UNCHANGED << attempts, legacy, final, nextAttempt, labClock, toldSaved >>

\* Then the activity's, and the exception leaves the lock either way.
undo_legacy(t) ==
    /\ LabAt(t, "undo_legacy")
    /\ \/ legacy' = Job(t).oldLegacy /\ NoFault
       \/ Fault(LabFaults) /\ UNCHANGED legacy
    /\ labLock' = None
    /\ Do(t, Nothing)
    /\ UNCHANGED << attempts, latest, final, nextAttempt, labClock, toldSaved >>

\* The lock is left, the terminal says where the report is, and a run with
\* --final goes on to select the attempt it stored.
report_saved(t) ==
    LET a == Job(t).a IN
    /\ LabAt(t, "saved")
    /\ labLock' = None
    /\ toldSaved' = [toldSaved EXCEPT ![a] = @ \cup {Job(t).report.id}]
    /\ Do(t, IF Job(t).mark THEN [Nothing EXCEPT !.pc = "check", !.a = a, !.pick = Job(t).report.id]
             ELSE [Nothing EXCEPT !.pc = "reload"])
    /\ NoFault
    /\ UNCHANGED << attempts, latest, legacy, final, nextAttempt, labClock >>

\* What command "t" offers: the attempts on the screen, however old it is.
selectable_attempts(t, a) == term[t].items[a]

\* Command "t", or the server's route for it: an attempt on the screen is
\* picked.
select_student_final_attempt(t, a) ==
    /\ LabAt(t, "menu")
    /\ \E id \in selectable_attempts(t, a) : Do(t, [Nothing EXCEPT !.pc = "check", !.a = a, !.pick = id])
    /\ NoFault
    /\ UNCHANGED << attempts, latest, legacy, final, labLock, nextAttempt, labClock, toldSaved >>

\* The attempt is looked up before the lock is taken.
check_attempt(t) ==
    /\ LabAt(t, "check")
    /\ IF load_attempt_by_id(Job(t).a, Job(t).pick) THEN Go(t, "selectable") ELSE Do(t, Nothing)
    /\ NoFault
    /\ UNCHANGED << attempts, latest, legacy, final, labLock, nextAttempt, labClock, toldSaved >>

\* final.json is replaced under the lock; a failure may come after that.
set_final_attempt(t) ==
    LET a == Job(t).a
        new == [final EXCEPT ![a] = Job(t).pick]
    IN /\ LabAt(t, "selectable")
       /\ labLock = None
       /\ \/ /\ final' = new
             /\ Do(t, [Nothing EXCEPT !.pc = "reload"])
             /\ NoFault
          \/ Fault(LabFaults) /\ final' \in {final, new} /\ Do(t, Nothing)
       /\ UNCHANGED << attempts, latest, legacy, labLock, nextAttempt, labClock, toldSaved >>

\* The process is killed: its lock goes with it, its files stay.
kill(t) ==
    /\ Job(t) # Nothing
    /\ Fault(LabFaults)
    /\ Do(t, Nothing)
    /\ labLock' = IF labLock = t THEN None ELSE labLock
    /\ UNCHANGED << attempts, latest, legacy, final, nextAttempt, labClock, toldSaved >>

lab_tick ==
    /\ labClock < MaxLabClock
    /\ labClock' = labClock + 1
    /\ NoFault
    /\ UNCHANGED << attempts, latest, legacy, final, labLock, term, nextAttempt, toldSaved >>

LabNext ==
    \/ \E t \in Terminals :
        \/ load_current_payload(t)
        \/ \E a \in Assigned : \/ \E mark \in BOOLEAN : run_assignment(t, a, mark)
                               \/ select_student_final_attempt(t, a)
        \/ lock_history(t) \/ write_json_exclusive(t) \/ sync_attempt(t)
        \/ write_latest(t) \/ write_legacy(t) \/ undo_latest(t) \/ undo_legacy(t)
        \/ report_saved(t) \/ check_attempt(t) \/ set_final_attempt(t) \/ kill(t)
    \/ lab_tick

LabSpec == LabInit /\ [][LabNext]_labVars

----
\* A run the student was told is stored stays stored, whatever other terminals
\* do, with one failed write or killed process: its attempt is in the history,
\* the assignment's latest.json is that attempt or a later one, and whenever no
\* writer is at work both latest.json files hold attempts of the history
\* (persist_standard_report and its rollback).
SavedRunIsKept ==
    \A a \in Assigned :
        /\ \A i \in toldSaved[a] :
             \E r \in attempts[a] : r.id = i /\ latest[a] # None /\ attempt_sort_key_le(r, latest[a])
        /\ labLock = None /\ latest[a] # None => latest[a] \in attempts[a]
        /\ labLock = None /\ legacy # None => legacy.report \in attempts[legacy.assignment]

====
