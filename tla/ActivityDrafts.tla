---------------------------- MODULE ActivityDrafts ----------------------------
(***************************************************************************)
(* One activity draft of the teacher (scripts/course_board_server.py): its *)
(* file and the immutable bundle of assets it names, the objects that      *)
(* refer to it, and its deletion, which renames the file to a tombstone    *)
(* under a journal that goes prepared, committed, cleanup.                 *)
(*                                                                         *)
(* A JSON file is written as CourseDocuments details: a write that fails   *)
(* leaves the file as it was, or replaced with the earlier version in a    *)
(* .rollback copy that the next start of the server puts back; one that is *)
(* interrupted may also leave that copy beside either version.  Deletions, *)
(* saves and new references all run under the course lock.                 *)
(***************************************************************************)
EXTENDS Faults

CONSTANTS
    Bundles,            \* contents of proposed files: a bundle id is their digest
    Referrers,          \* assignments, registers and course designs
    Deletions,          \* transaction ids (uuid4)
    MaxDraft,           \* bound on the versions saved
    DraftFaults         \* bound on the failing calls

VARIABLES
    draft,              \* JSON file of the draft
    bundles,            \* directory of the asset bundles
    referrers,               \* objects that refer to the activity
    tombstone,          \* content of each tombstone, or None
    journal,            \* JSON file of each deletion journal: its state
    eraser,             \* the request that holds the course lock
    board,              \* the server: "up", "starting" or "refused"
    drafts,             \* versions saved so far
    \* History variable, read by no action:
    kept                \* contents one of which must be there; {} once the
                        \* intent to clean up is on disk

draftState == << draft, bundles, referrers, tombstone, journal, eraser, board, drafts, kept >>
draftVars == << draftState, faults >>

\* A JSON file: its content, and the .rollback copy, or None.
File(c) == [main |-> c, backup |-> None]
NoFile == File(None)

\* What recover_json_rollbacks makes of it.
RecoveredFile(f) == IF f.backup = None THEN f ELSE File(f.backup)

\* What write_json(f, c) may leave when it raises, and when it is interrupted.
\* It begins with the recovery of the file's own copy.
WriteRaises(f, c) ==
    LET old == RecoveredFile(f) IN
    {old} \cup (IF old.main = None THEN {} ELSE {[main |-> c, backup |-> old.main]})
WriteStops(f, c) ==
    LET old == RecoveredFile(f) IN
    WriteRaises(f, c) \cup {File(c), [old EXCEPT !.backup = old.main]}

NoEraser == [pc |-> "idle"]

DraftInit ==
    /\ draft = NoFile
    /\ bundles = OnDisk({})
    /\ referrers = {}
    /\ tombstone = [x \in Deletions |-> None]
    /\ journal = [x \in Deletions |-> NoFile]
    /\ eraser = NoEraser
    /\ board = "up"
    /\ drafts = 0
    /\ kept = {}
    /\ faults = 0

DraftUnlocked == board = "up" /\ eraser.pc = "idle"

-----------------------------------------------------------------------------

\* persist_activity_draft_files: the bundle is renamed into place unless it is
\* there, and the sync follows in both cases ("an earlier post-rename fsync may
\* have failed").  A failure saves nothing.
PersistBundle(b) ==
    \/ NoFault /\ bundles' = OnDisk(bundles.now \cup {b})
    \/ Fault(DraftFaults) /\ bundles' = Changed(bundles, bundles.now \cup {b})

\* _save_activity_locked with new files (b) or with the assets of the version it
\* replaces, which must verify (validate_preserved_activity_assets).
save_activity(b) ==
    LET new == [version |-> drafts + 1, bundle |-> b] IN
    /\ DraftUnlocked /\ drafts < MaxDraft
    /\ drafts' = drafts + 1
    /\ \/ /\ PersistBundle(b)
          /\ faults' = faults
          /\ draft' = File(new)
          /\ kept' = {new}
       \/ /\ PersistBundle(b)
          /\ faults' # faults
          /\ UNCHANGED <<draft, kept>>
       \/ /\ Fault(DraftFaults)     \* the bundle is there, the JSON is not committed
          /\ bundles' = OnDisk(bundles.now \cup {b})
          /\ draft' \in WriteRaises(draft, new)
          /\ kept' = IF kept = {} THEN {} ELSE kept \cup {new}
    /\ UNCHANGED <<referrers, tombstone, journal, eraser, board>>

save_activity_metadata ==
    LET new == [draft.main EXCEPT !.version = drafts + 1] IN
    /\ DraftUnlocked /\ drafts < MaxDraft /\ draft.main # None
    /\ draft.main.bundle \in bundles.now
    /\ drafts' = drafts + 1
    /\ \/ NoFault /\ draft' = File(new) /\ kept' = {new}
       \/ /\ Fault(DraftFaults)
          /\ draft' \in WriteRaises(draft, new)
          /\ kept' = IF kept = {} THEN {} ELSE kept \cup {new}
    /\ UNCHANGED <<bundles, referrers, tombstone, journal, eraser, board>>

\* validate_course_activity_targets: the file and every asset it names are there.
Resolves == draft.main # None /\ draft.main.bundle \in bundles.now

\* activity_delete_dependencies: the assignments, registers and course designs,
\* the archived ones included, that name the activity.
Dependencies == referrers

\* Mutant of refer: the activity is read without the course lock.
MutRefer(r) ==
    /\ board = "up" /\ Resolves /\ r \notin referrers
    /\ referrers' = referrers \cup {r}
    /\ NoFault
    /\ UNCHANGED <<draft, bundles, tombstone, journal, eraser, board, drafts, kept>>

\* save_assignment_record, the register of an assignment, write_design_cas: each
\* reads the activity under the lock before it refers to it.
refer(r) ==
    /\ DraftUnlocked /\ Resolves /\ r \notin referrers
    /\ referrers' = referrers \cup {r}
    /\ NoFault
    /\ UNCHANGED <<draft, bundles, tombstone, journal, eraser, board, drafts, kept>>

unlink_reference(r) ==
    /\ DraftUnlocked /\ r \in referrers
    /\ referrers' = referrers \ {r}
    /\ NoFault
    /\ UNCHANGED <<draft, bundles, tombstone, journal, eraser, board, drafts, kept>>

-----------------------------------------------------------------------------
(* delete_activity_record.                                                 *)

\* The last of the eraser's steps is an error, or the answer.
Leave == eraser' = NoEraser
To(pc) == eraser' = [eraser EXCEPT !.pc = pc]

\* write_json of the journal: state, or one of the contents a failure leaves.
SetJournal(x, state) == journal' = [journal EXCEPT ![x] = File(state)]
JournalRaises(x, state) ==
    \E f \in WriteRaises(journal[x], state) : journal' = [journal EXCEPT ![x] = f]

\* Refused while anything refers to the activity (activity_delete_dependencies);
\* then the "prepared" journal.
delete_activity_record(x) ==
    /\ DraftUnlocked /\ draft.main # None /\ Dependencies = {}
    /\ journal[x] = NoFile /\ tombstone[x] = None
    /\ \/ NoFault /\ SetJournal(x, "prepared") /\ eraser' = [pc |-> "rename", x |-> x]
       \/ Fault(DraftFaults) /\ JournalRaises(x, "prepared") /\ UNCHANGED eraser
    /\ UNCHANGED <<draft, bundles, referrers, tombstone, board, drafts, kept>>

\* os.replace of the draft by its tombstone, outside any try; then the sync,
\* whose failure recovers.
rename_draft ==
    LET x == eraser.x
        renamed == /\ tombstone' = [tombstone EXCEPT ![x] = draft.main]
                   /\ draft' = [draft EXCEPT !.main = None] IN
    /\ eraser.pc = "rename"
    /\ \/ NoFault /\ renamed /\ To("commit")
       \/ Fault(DraftFaults) /\ UNCHANGED <<tombstone, draft>> /\ Leave
       \/ Fault(DraftFaults) /\ renamed /\ To("recover")
    /\ UNCHANGED <<bundles, referrers, journal, board, drafts, kept>>

\* The "committed" journal; on a failure the intent to roll back is written,
\* and the draft restored, from a copy when even that intent cannot be written.
commit_journal ==
    LET x == eraser.x IN
    \/ /\ eraser.pc = "commit"
       /\ \/ NoFault /\ SetJournal(x, "committed") /\ To("cleanup")
          \/ Fault(DraftFaults) /\ JournalRaises(x, "committed") /\ To("rollback")
       /\ UNCHANGED <<draft, tombstone, bundles, referrers, board, drafts, kept>>
    \/ /\ eraser.pc = "rollback"
       /\ \/ /\ NoFault /\ SetJournal(x, "rolling_back") /\ To("recover")
             /\ tombstone' = [tombstone EXCEPT ![x] = None]
          \/ /\ Fault(DraftFaults) /\ JournalRaises(x, "rolling_back") /\ Leave
             /\ UNCHANGED tombstone
       /\ draft' = [draft EXCEPT !.main = tombstone[x]]
       /\ UNCHANGED <<bundles, referrers, board, drafts, kept>>

\* The "cleanup" journal.  A failed write that is visible is synced again and
\* counts; one that is not recovers the draft.
cleanup_journal ==
    LET x == eraser.x IN
    /\ eraser.pc = "cleanup"
    /\ \/ NoFault /\ SetJournal(x, "cleanup") /\ To("purge") /\ kept' = {}
       \/ /\ Fault(DraftFaults) /\ JournalRaises(x, "cleanup")
          /\ To(IF journal'[x].main = "cleanup" THEN "purge" ELSE "recover")
          /\ UNCHANGED kept
    /\ UNCHANGED <<draft, tombstone, bundles, referrers, board, drafts>>

\* The tombstone and the journal are removed; the deletion is answered whether
\* this succeeds or not (cleanup_pending).
purge_tombstone ==
    LET x == eraser.x
        unlinked == [journal EXCEPT ![x].main = None] IN
    /\ eraser.pc = "purge"
    /\ kept' = {}
    /\ \/ /\ NoFault
          /\ tombstone' = [tombstone EXCEPT ![x] = None]
          /\ journal' = unlinked
       \/ /\ Fault(DraftFaults)
          /\ \/ UNCHANGED <<tombstone, journal>>
             \/ /\ tombstone' = [tombstone EXCEPT ![x] = None]
                /\ journal' \in {journal, unlinked}
    /\ Leave
    /\ UNCHANGED <<draft, bundles, referrers, board, drafts>>

-----------------------------------------------------------------------------

\* recover_interrupted_activity_deletions for one journal, at the start of the
\* server or on a failed deletion.
RecoverJournal(x) ==
    LET state == journal[x].main
        present == draft.main # None
        buried == tombstone[x] # None
        restore == /\ draft' = [draft EXCEPT !.main = tombstone[x]]
                   /\ tombstone' = [tombstone EXCEPT ![x] = None]
        discard == /\ UNCHANGED draft
                   /\ tombstone' = [tombstone EXCEPT ![x] = None] IN
    /\ IF state # "cleanup" /\ buried /\ ~present THEN restore ELSE discard
    /\ journal' = [journal EXCEPT ![x].main = None]

\* The states it refuses: "Activity e tombstone mancanti", "Activity cleanup
\* riapparsa".
RecoveryRaises(x) ==
    \/ journal[x].main \in {"prepared", "rolling_back"} /\ draft.main = None /\ tombstone[x] = None
    \/ journal[x].main = "cleanup" /\ draft.main # None

Recovering == board = "starting" \/ eraser.pc = "recover"

recover_interrupted_activity_deletions ==
    LET open == {x \in Deletions : journal[x].main # None} IN
    /\ Recovering
    /\ board = "starting" => \A x \in Deletions : journal[x].backup = None
    /\ \/ /\ open = {}
          /\ board' = "up" /\ Leave
          /\ UNCHANGED <<draft, tombstone, journal>>
       \/ \E x \in open :
            \/ /\ RecoveryRaises(x)
               /\ board' = IF board = "starting" THEN "refused" ELSE board
               /\ Leave
               /\ UNCHANGED <<draft, tombstone, journal>>
            \/ /\ ~RecoveryRaises(x)
               /\ RecoverJournal(x)
               /\ UNCHANGED <<board, eraser>>
    /\ NoFault
    /\ UNCHANGED <<bundles, referrers, drafts, kept>>

\* The server stops, in the middle of a write of the journal as well, and starts
\* again: configure_data_root first puts the .rollback copies back.
BoardRestarts ==
    LET next == [commit |-> "committed", cleanup |-> "cleanup", rollback |-> "rolling_back"] IN
    /\ board = "up"
    /\ board' = "starting" /\ Leave
    /\ \E j \in IF eraser.pc \in DOMAIN next
                THEN {[journal EXCEPT ![eraser.x] = f] :
                        f \in WriteStops(journal[eraser.x], next[eraser.pc])}
                ELSE {journal} :
          journal' = [x \in Deletions |-> RecoveredFile(j[x])]
    /\ draft' = RecoveredFile(draft)
    /\ \E c \in bundles.after : bundles' = OnDisk(c)
    /\ kept' = IF eraser.pc = "cleanup" /\ journal'[eraser.x].main = "cleanup" THEN {} ELSE kept
    /\ NoFault
    /\ UNCHANGED <<referrers, tombstone, drafts>>

DraftNext ==
    \/ \E b \in Bundles : save_activity(b)
    \/ save_activity_metadata
    \/ \E r \in Referrers : refer(r) \/ unlink_reference(r)
    \/ \E x \in Deletions : delete_activity_record(x)
    \/ rename_draft
    \/ commit_journal
    \/ cleanup_journal
    \/ purge_tombstone
    \/ recover_interrupted_activity_deletions
    \/ BoardRestarts

DraftSpec == DraftInit /\ [][DraftNext]_draftVars

-----------------------------------------------------------------------------

\* What an assignment, a register or a course design refers to is there: a
\* deletion never takes an activity somebody refers to, however it ends
\* (activity_delete_dependencies and the references run under one lock).
ReferencesResolve == DraftUnlocked /\ referrers # {} => draft.main # None

\* Until the intent to clean up is on disk a deletion loses nothing: the draft is
\* there again, in the version last answered as saved or in one whose save
\* failed since, whichever step of the deletion failed or was interrupted.
UncommittedDeletionKeepsDraft == DraftUnlocked /\ kept # {} => draft.main \in kept

\* The assets a draft names survive a power loss: the bundle is on disk before
\* the JSON that names it is replaced, also when an earlier save of the same
\* files failed to sync it (persist_activity_draft_files).
AssetsAreDurable ==
    draft.main # None => \A c \in bundles.after : draft.main.bundle \in c

\* The three together: no deletion, failed save or power loss takes a draft, or
\* an asset of it, that something still needs.
DraftsAreKept == ReferencesResolve /\ UncommittedDeletionKeepsDraft /\ AssetsAreDurable

=============================================================================
