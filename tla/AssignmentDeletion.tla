-------------------------- MODULE AssignmentDeletion --------------------------
(***************************************************************************)
(* One assignment record of the teacher's server and what hangs on it: the *)
(* students' help logs and the deliveries received.  Deleting the record   *)
(* quarantines the logs under a journal (stage_help_logs_for_deletion and  *)
(* _delete_assignment_record_locked of scripts/course_board_server.py),    *)
(* and a server that starts recovers what an earlier one left behind.      *)
(*                                                                         *)
(* The id of the assignment is used again after a deletion: a generation   *)
(* tells one record under it from the next.  A help log is the set of the  *)
(* generations its events were recorded for.  The logs, the journals and   *)
(* the record live on one file system and each change is synced before the *)
(* next, so what a power loss leaves is what a stop of the process leaves. *)
(***************************************************************************)
EXTENDS Faults, FiniteSets

CONSTANTS
    Targets,            \* students the assignment is given to
    Trash,              \* names of quarantine directories (uuid4)
    MaxGeneration,      \* bound on the records created
    DeletionFaults,     \* bound on the failing calls
    StageSyncFails      \* whether the sync after quarantining a log may fail

VARIABLES
    record,             \* generation of the assignment record, or None
    generation,         \* records created so far
    helpLog,            \* each student's log directory, or None
    received,           \* students with a delivery in the archive
    helping,            \* generation each student's help request runs for, or None
    trash,              \* quarantines with their journal, or None
    deletion,           \* the deletion in progress: it holds every lock
    serverUp,
    \* History variables, read by no action:
    recorded,           \* <<generation, student>> of the help events recorded
    confirmed           \* generations whose deletion was answered

assignmentState == << record, generation, helpLog, received, helping, trash, deletion,
                      serverUp, recorded, confirmed >>
assignmentVars == << assignmentState, faults >>

NoDeletion == [pc |-> "idle"]
NoLogs == [s \in Targets |-> None]

AssignmentInit ==
    /\ record = None /\ generation = 0
    /\ helpLog = NoLogs
    /\ received = {}
    /\ helping = [s \in Targets |-> None]
    /\ trash = [t \in Trash |-> None]
    /\ deletion = NoDeletion
    /\ serverUp = TRUE
    /\ recorded = {} /\ confirmed = {}
    /\ faults = 0

\* The locks of the assignment are free (course storage, target bindings,
\* the record's operation).
Unlocked == serverUp /\ deletion.pc = "idle"

\* save_assignment_record of a new record.
save_assignment_record ==
    /\ Unlocked /\ record = None /\ generation < MaxGeneration
    /\ record' = generation + 1 /\ generation' = generation + 1
    /\ NoFault
    /\ UNCHANGED <<helpLog, received, helping, trash, deletion, serverUp, recorded, confirmed>>

\* record_authorized_student_help takes the student's help lock, which a
\* deletion also takes, and reads the record again: without one it is denied.
record_authorized_student_help(s) ==
    /\ Unlocked /\ helping[s] = None
    /\ record # None
    /\ helping' = [helping EXCEPT ![s] = record]
    /\ NoFault
    /\ UNCHANGED <<record, generation, helpLog, received, trash, deletion, serverUp,
                   recorded, confirmed>>

\* The provider has answered and the event is appended to the log.
help_recorded(s) ==
    LET old == IF helpLog[s] = None THEN {} ELSE helpLog[s] IN
    /\ serverUp /\ helping[s] # None
    /\ helpLog' = [helpLog EXCEPT ![s] = old \cup {helping[s]}]
    /\ helping' = [helping EXCEPT ![s] = None]
    /\ recorded' = recorded \cup {<<helping[s], s>>}
    /\ NoFault
    /\ UNCHANGED <<record, generation, received, trash, deletion, serverUp, confirmed>>

\* dispatch_student_delivery stores a package under the assignment's locks.
receive(s) ==
    /\ Unlocked /\ record # None
    /\ received' = received \cup {s}
    /\ NoFault
    /\ UNCHANGED <<record, generation, helpLog, helping, trash, deletion, serverUp,
                   recorded, confirmed>>

-----------------------------------------------------------------------------
(* The deletion.  A write of the journal that fails leaves it as it was or *)
(* replaced, for the sync comes after the replacement.                     *)

\* What is left alone by a step of the deletion.
Elsewhere == UNCHANGED <<generation, received, helping, serverUp, recorded>>

Goto(pc) == deletion' = [deletion EXCEPT !.pc = pc]
Raise == deletion' = NoDeletion

\* The state in the journal of the running deletion.
Journal(state) == trash' = [trash EXCEPT ![deletion.trash].state = state]

\* update_help_deletion_manifest to state, then next; on an error, onError.
WriteJournal(state, next, onError) ==
    \/ NoFault /\ Journal(state) /\ next
    \/ Fault(DeletionFaults) /\ (Journal(state) \/ UNCHANGED trash) /\ onError

\* _delete_assignment_record_locked up to the "staging" journal: refused when
\* sources were received; waits for the help requests that run.
delete_assignment_record(t) ==
    LET staging == [state |-> "staging", generation |-> record,
                    staged |-> NoLogs, rollback |-> NoLogs] IN
    /\ Unlocked /\ record # None /\ received = {}
    /\ \A s \in Targets : helping[s] = None
    /\ trash[t] = None
    /\ \/ /\ NoFault
          /\ trash' = [trash EXCEPT ![t] = staging]
          /\ deletion' = [pc |-> "stage", trash |-> t, todo |-> Targets, moved |-> {}]
       \/ /\ Fault(DeletionFaults)
          /\ trash' \in {trash, [trash EXCEPT ![t] = staging]}
          /\ UNCHANGED deletion
    /\ UNCHANGED <<record, helpLog, confirmed>> /\ Elsewhere

\* stage_help_logs_for_deletion moves one log, then syncs both directories.  A
\* log is known as moved only after the sync.
stage_help_log(s) ==
    LET t == deletion.trash
        move == /\ helpLog' = [helpLog EXCEPT ![s] = None]
                /\ trash' = [trash EXCEPT ![t].staged[s] = helpLog[s]] IN
    /\ deletion.pc = "stage" /\ s \in deletion.todo
    /\ \/ /\ NoFault
          /\ IF helpLog[s] = None
             THEN /\ UNCHANGED <<helpLog, trash>>
                  /\ deletion' = [deletion EXCEPT !.todo = @ \ {s}]
             ELSE move /\ deletion' = [deletion EXCEPT !.todo = @ \ {s}, !.moved = @ \cup {s}]
       \/ /\ helpLog[s] # None
          /\ Fault(DeletionFaults)
          /\ \/ UNCHANGED <<helpLog, trash>>
             \/ StageSyncFails /\ move
          /\ Goto("restore")
    /\ UNCHANGED <<record, confirmed>> /\ Elsewhere

\* snapshot_staged_help_logs and persist_help_log_rollback: a copy of every
\* log moved, then the "prepared" journal that names the copies.
persist_help_log_rollback ==
    LET t == deletion.trash
        prepared == [trash EXCEPT ![t].state = "prepared",
                                  ![t].rollback = trash[t].staged] IN
    /\ deletion.pc = "stage" /\ deletion.todo = {}
    /\ \/ NoFault /\ trash' = prepared /\ Goto("delete")
       \/ Fault(DeletionFaults) /\ trash' \in {trash, prepared} /\ Goto("restore")
    /\ UNCHANGED <<record, helpLog, confirmed>> /\ Elsewhere

\* Mutant of restore_staged_help_log: a failed staging goes straight to the purge.
MutRestoreStagedHelpLog ==
    /\ deletion.pc = "restore"
    /\ NoFault /\ Goto("purge")
    /\ UNCHANGED <<record, helpLog, trash, confirmed>> /\ Elsewhere

\* restore_staged_help_logs after a failure, one log of staged_logs at a time.
restore_staged_help_log ==
    LET t == deletion.trash IN
    /\ deletion.pc = "restore"
    /\ IF deletion.moved = {}
       THEN NoFault /\ Goto("purge") /\ UNCHANGED <<helpLog, trash>>
       ELSE \E s \in deletion.moved :
            \/ /\ NoFault
               /\ helpLog' = [helpLog EXCEPT ![s] = trash[t].staged[s]]
               /\ trash' = [trash EXCEPT ![t].staged[s] = None]
               /\ deletion' = [deletion EXCEPT !.moved = @ \ {s}]
            \/ Fault(DeletionFaults) /\ Raise /\ UNCHANGED <<helpLog, trash>>
    /\ UNCHANGED <<record, confirmed>> /\ Elsewhere

\* JsonAssignmentRecordStorage.delete_assignment: unlink, then sync.
delete_assignment ==
    /\ deletion.pc = "delete"
    /\ \/ NoFault /\ record' = None /\ Goto("clear")
       \/ Fault(DeletionFaults) /\ record' \in {record, None} /\ Goto("rollback")
    /\ UNCHANGED <<helpLog, trash, confirmed>> /\ Elsewhere

\* shutil.rmtree of the logs in quarantine; one that fails leaves any of them.
remove_staged_logs ==
    LET t == deletion.trash IN
    /\ deletion.pc = "clear"
    /\ \/ NoFault /\ trash' = [trash EXCEPT ![t].staged = NoLogs] /\ Goto("commit")
       \/ /\ Fault(DeletionFaults)
          /\ \E gone \in SUBSET Targets :
               trash' = [trash EXCEPT ![t].staged =
                           [s \in Targets |-> IF s \in gone THEN None ELSE @[s]]]
          /\ Goto("rollback")
    /\ UNCHANGED <<record, helpLog, confirmed>> /\ Elsewhere

\* The "committed" journal: from here on the deletion is answered, whether the
\* quarantine can be emptied or not.
commit_deletion ==
    /\ deletion.pc = "commit"
    /\ WriteJournal("committed",
                    /\ Goto("purge")
                    /\ confirmed' = confirmed \cup {trash[deletion.trash].generation},
                    Goto("rollback") /\ UNCHANGED confirmed)
    /\ UNCHANGED <<record, helpLog>> /\ Elsewhere

\* rollback_help_deletion: the journal says so first, then the logs come back
\* from memory (equal to the copies), the record, and the journal again.
rollback_help_deletion ==
    LET q == trash[deletion.trash] IN
    \/ /\ deletion.pc = "rollback"
       /\ WriteJournal("rolling_back", Goto("rollbackLogs"), Raise)
       /\ UNCHANGED <<record, helpLog, confirmed>> /\ Elsewhere
    \/ /\ deletion.pc = "rollbackLogs"
       /\ \/ /\ NoFault
             /\ helpLog' = [s \in Targets |-> IF s \in deletion.moved THEN q.rollback[s]
                                              ELSE helpLog[s]]
             /\ Goto("rollbackRecord")
          \/ Fault(DeletionFaults) /\ Raise /\ UNCHANGED helpLog
       /\ UNCHANGED <<record, trash, confirmed>> /\ Elsewhere
    \/ /\ deletion.pc = "rollbackRecord"
       /\ \/ NoFault /\ record' = q.generation /\ Goto("rollbackEnd")
          \/ Fault(DeletionFaults) /\ record' \in {record, q.generation} /\ Raise
       /\ UNCHANGED <<helpLog, trash, confirmed>> /\ Elsewhere
    \/ /\ deletion.pc = "rollbackEnd"
       /\ WriteJournal("restored", Goto("purge"), Raise)
       /\ UNCHANGED <<record, helpLog, confirmed>> /\ Elsewhere

\* purge_help_deletion_trash: everything in the quarantine, the journal last.
\* It is the last step of every deletion; its errors are not the caller's.
purge_help_deletion_trash ==
    LET t == deletion.trash IN
    /\ \/ /\ deletion.pc = "purge"
          /\ \/ /\ NoFault /\ Goto("purgeJournal")
                /\ trash' = [trash EXCEPT ![t].staged = NoLogs, ![t].rollback = NoLogs]
             \/ Fault(DeletionFaults) /\ Raise /\ UNCHANGED trash
       \/ /\ deletion.pc = "purgeJournal"
          /\ \/ NoFault /\ trash' = [trash EXCEPT ![t] = None]
             \/ Fault(DeletionFaults) /\ UNCHANGED trash
          /\ Raise
    /\ UNCHANGED <<record, helpLog, confirmed>> /\ Elsewhere

-----------------------------------------------------------------------------
(* A stop of the server, and the start of the next one.                    *)

AssignmentServerStops ==
    /\ serverUp
    /\ serverUp' = FALSE
    /\ deletion' = NoDeletion
    /\ helping' = [s \in Targets |-> None]
    /\ NoFault
    /\ UNCHANGED <<record, generation, helpLog, received, trash, recorded, confirmed>>

\* restore_persistent_help_deletion.  An attempt that stops halfway may have
\* removed or restored any log; the journal still says "rolling_back".
restore_persistent_help_deletion(t) ==
    LET q == trash[t]
        copied == {s \in Targets : q.rollback[s] # None} IN
    \/ /\ helpLog' = [s \in Targets |-> IF s \in copied THEN q.rollback[s] ELSE helpLog[s]]
       /\ record' = q.generation
       /\ trash' = [trash EXCEPT ![t].state = "restored"]
    \/ /\ \E s \in copied : \E log \in {None, q.rollback[s]} :
             helpLog' = [helpLog EXCEPT ![s] = log]
       /\ UNCHANGED <<record, trash>>

\* recover_interrupted_assignment_deletions, before the server serves: one step
\* for one quarantine.
recover_interrupted_assignment_deletion(t) ==
    LET q == trash[t]
        staged == {s \in Targets : q.staged[s] # None}
        purge == /\ trash' \in {[trash EXCEPT ![t].staged = NoLogs, ![t].rollback = NoLogs],
                                [trash EXCEPT ![t] = None]}
                 /\ UNCHANGED <<record, helpLog>> IN
    /\ ~serverUp /\ trash[t] # None
    /\ CASE q.state = "rolling_back" -> restore_persistent_help_deletion(t)
         [] q.state \in {"restored", "committed"} -> purge
         [] OTHER ->        \* "staging" and "prepared"
              IF record # None /\ staged # {}
              THEN /\ \E s \in staged :
                        /\ helpLog' = [helpLog EXCEPT ![s] = q.staged[s]]
                        /\ trash' = [trash EXCEPT ![t].staged[s] = None]
                   /\ UNCHANGED record
              ELSE purge
    /\ NoFault
    /\ UNCHANGED <<generation, received, helping, deletion, serverUp, recorded, confirmed>>

\* configure_data_root is through: the server serves.
AssignmentServerStarts ==
    /\ ~serverUp /\ \A t \in Trash : trash[t] = None
    /\ serverUp' = TRUE
    /\ NoFault
    /\ UNCHANGED <<record, generation, helpLog, received, helping, trash, deletion,
                   recorded, confirmed>>

AssignmentNext ==
    \/ save_assignment_record
    \/ \E s \in Targets :
        \/ record_authorized_student_help(s)
        \/ help_recorded(s)
        \/ receive(s)
        \/ stage_help_log(s)
    \/ \E t \in Trash : delete_assignment_record(t)
    \/ persist_help_log_rollback
    \/ restore_staged_help_log
    \/ delete_assignment
    \/ remove_staged_logs
    \/ commit_deletion
    \/ rollback_help_deletion
    \/ purge_help_deletion_trash
    \/ AssignmentServerStops
    \/ \E t \in Trash : recover_interrupted_assignment_deletion(t)
    \/ AssignmentServerStarts

AssignmentSpec == AssignmentInit /\ [][AssignmentNext]_assignmentVars

-----------------------------------------------------------------------------

\* While no deletion runs, a record that exists has every help event recorded
\* for it, whichever deletion of it failed or was interrupted, and no event of
\* an earlier record under the same id; without a record neither a log nor a
\* received source is left, for a deletion would orphan the archive
\* (delete_assignment_record, recover_interrupted_assignment_deletions).
HelpFollowsTheRecord ==
    Unlocked =>
        \A s \in Targets :
            /\ record = None => helpLog[s] = None /\ s \notin received
            /\ helpLog[s] # None => helpLog[s] \subseteq {record}
            /\ <<record, s>> \in recorded => helpLog[s] # None

\* An answered deletion is final: no rollback and no recovery brings the record
\* back, not even one of another deletion (the "committed" journal).
ConfirmedDeletionIsFinal ==
    /\ record \notin confirmed
    /\ \A t \in Trash : trash[t] # None /\ trash[t].generation \in confirmed =>
            trash[t].state # "rolling_back"

\* Both together: an assignment and its help logs are deleted together or not at
\* all, and stay deleted.
DeletionTakesHelpAlong == HelpFollowsTheRecord /\ ConfirmedDeletionIsFinal

=============================================================================
