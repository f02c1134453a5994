---------------------------- MODULE CourseDocuments ----------------------------
(***************************************************************************)
(* A course design as scripts/thebitlab_storage.py keeps it: the atomic    *)
(* replacement of a JSON file that puts the earlier version back when it   *)
(* cannot be made durable (_write_json_locked), the recovery of the copies *)
(* an interrupted replacement leaves (recover_json_rollbacks, which every  *)
(* request runs), and the writers that compare revisions.                  *)
(*                                                                         *)
(* A design has an editable part and the progress recorded in class (the   *)
(* UDAs' actual), which the calendar page owns.  Each part is the set of   *)
(* the changes made to it: a save by someone who had not seen a change     *)
(* would write a set without it.  Two sets are equal when the revisions    *)
(* computed from them are.                                                 *)
(***************************************************************************)
EXTENDS Faults

CONSTANTS
    Editors,        \* browser pages: each holds what it last read
    MaxDocumentChange,      \* bound on the changes
    DocumentFaults  \* bound on the failing calls and power losses

VARIABLES
    document,       \* directory of the design: main file and .rollback copy
    editorPage,           \* what each page shows, or None
    writer,         \* the request that holds the course lock, or None
    documentChanges,        \* changes made so far
    \* History variable, read by no action:
    savedChanges    \* changes answered with success

documentState == << document, editorPage, writer, documentChanges, savedChanges >>
documentVars == << documentState, faults >>

NoWriter == [pc |-> "idle"]

DocumentInit ==
    /\ document = OnDisk([main |-> [edit |-> {}, actual |-> {}], backup |-> None])
    /\ editorPage = [e \in Editors |-> None]
    /\ writer = NoWriter
    /\ documentChanges = 0
    /\ savedChanges = {}
    /\ faults = 0

\* What recover_json_rollbacks makes of the directory: the copy wins.
Recovered(c) == IF c.backup = None THEN c ELSE [main |-> c.backup, backup |-> None]

\* JsonCourseStorage(): every request runs it, under the lock.  The copy is put
\* in place and synced, then removed and that synced: a call that fails leaves
\* one of these contents.
JsonCourseStorage ==
    /\ writer.pc = "idle" /\ document.now.backup # None
    /\ \/ NoFault /\ document' = OnDisk(Recovered(document.now))
       \/ /\ Fault(DocumentFaults)
          /\ document' \in {document, Changed(document, [document.now EXCEPT !.main = document.now.backup]),
                            Changed(document, Recovered(document.now))}
    /\ UNCHANGED <<editorPage, writer, documentChanges, savedChanges>>

\* read_design / read_saved_design for a page, after that recovery.
read_design(e) ==
    /\ writer.pc = "idle" /\ document.now.backup = None
    /\ editorPage' = [editorPage EXCEPT ![e] = document.now.main]
    /\ NoFault
    /\ UNCHANGED <<document, writer, documentChanges, savedChanges>>

\* A write of new begins: it owns the lock until it returns.
BeginWrite(new) ==
    /\ documentChanges < MaxDocumentChange
    /\ documentChanges' = documentChanges + 1
    /\ writer' = [pc |-> "recover", new |-> new, change |-> documentChanges + 1, backup |-> None]
    /\ NoFault
    /\ UNCHANGED <<document, editorPage, savedChanges>>

\* Mutant of write_design_cas: the progress of the editorPage is saved with the edit.
MutWriteDesignCas(e, preserve_actual) ==
    LET latest == document.now.main IN
    /\ writer.pc = "idle" /\ document.now.backup = None
    /\ editorPage[e] # None
    /\ IF preserve_actual THEN latest.edit = editorPage[e].edit ELSE latest = editorPage[e]
    /\ BeginWrite([editorPage[e] EXCEPT !.edit = @ \cup {documentChanges + 1}])

\* write_design_cas and write_saved_design_cas, constructor and operation under
\* one lock.  With preserve_actual the revision leaves the progress out and the
\* progress of the file is kept (_preserve_latest_uda_actual); without, the
\* whole design must be the one the page shows.
write_design_cas(e, preserve_actual) ==
    LET latest == document.now.main
        new == [edit |-> editorPage[e].edit \cup {documentChanges + 1},
                actual |-> IF preserve_actual THEN latest.actual ELSE editorPage[e].actual] IN
    /\ writer.pc = "idle" /\ document.now.backup = None
    /\ editorPage[e] # None
    /\ IF preserve_actual THEN latest.edit = editorPage[e].edit ELSE latest = editorPage[e]
    /\ BeginWrite(new)

\* update_uda_actual: the constructor's lock was released, so a copy left by
\* another request may be there; the progress must be the one the page shows.
update_uda_actual(e) ==
    LET latest == document.now.main IN
    /\ writer.pc = "idle"
    /\ editorPage[e] # None /\ latest.actual = editorPage[e].actual
    /\ BeginWrite([latest EXCEPT !.actual = @ \cup {documentChanges + 1}])

-----------------------------------------------------------------------------
(* _write_json_locked, call by call.                                       *)

Directory(content) == document' = Changed(document, content)
Step(pc) == writer' = [writer EXCEPT !.pc = pc]
Return == writer' = NoWriter

\* recover_json_rollbacks of this file, then a copy of it under .rollback.  A
\* copy that cannot be synced is removed again and the write fails.
write_backup ==
    LET c == Recovered(document.now) IN
    \/ /\ writer.pc = "recover"
       /\ \/ /\ NoFault /\ Step("backup")
             /\ document' = IF c = document.now THEN document ELSE OnDisk(c)
          \/ /\ Fault(DocumentFaults) /\ Return
             /\ c # document.now
             /\ Directory(c) \/ Directory([document.now EXCEPT !.main = c.main])
       /\ UNCHANGED <<editorPage, documentChanges, savedChanges>>
    \/ /\ writer.pc = "backup"
       /\ \/ NoFault /\ Directory([c EXCEPT !.backup = c.main]) /\ Step("syncBackup")
          \/ Fault(DocumentFaults) /\ UNCHANGED document /\ Return
       /\ UNCHANGED <<editorPage, documentChanges, savedChanges>>
    \/ /\ writer.pc = "syncBackup"
       /\ \/ NoFault /\ document' = Synced(document) /\ Step("replace")
          \/ /\ Fault(DocumentFaults) /\ Return
             /\ Directory([document.now EXCEPT !.backup = None])
       /\ UNCHANGED <<editorPage, documentChanges, savedChanges>>

\* os.replace of the file, then the sync of its directory.  When the sync
\* fails the copy is put back; when that cannot be synced either the copy
\* stays, for the next recovery.
write_main ==
    LET c == document.now IN
    \/ /\ writer.pc = "replace"
       /\ \/ NoFault /\ Directory([c EXCEPT !.main = writer.new]) /\ Step("syncMain")
          \/ Fault(DocumentFaults) /\ UNCHANGED document /\ Step("failedCleanup")
       /\ UNCHANGED <<editorPage, documentChanges, savedChanges>>
    \/ /\ writer.pc = "syncMain"
       /\ \/ NoFault /\ document' = Synced(document) /\ Step("cleanup")
          \/ Fault(DocumentFaults) /\ Directory([c EXCEPT !.main = c.backup]) /\ Step("syncRestored")
       /\ UNCHANGED <<editorPage, documentChanges, savedChanges>>
    \/ /\ writer.pc = "syncRestored"
       /\ \/ NoFault /\ document' = Synced(document) /\ Step("failedCleanup")
          \/ Fault(DocumentFaults) /\ UNCHANGED document /\ Return
       /\ UNCHANGED <<editorPage, documentChanges, savedChanges>>

\* The rename of .rollback to a name no recovery looks at, then its sync: the
\* commit of a write that succeeded.  When the sync fails the name is given
\* back, and the write fails with its content in place.
write_cleanup ==
    LET c == document.now IN
    \/ /\ writer.pc \in {"cleanup", "failedCleanup"}
       /\ \/ /\ NoFault
             /\ document' = OnDisk([c EXCEPT !.backup = None])
             /\ savedChanges' = IF writer.pc = "cleanup" THEN savedChanges \cup {writer.change}
                                ELSE savedChanges
             /\ Return
          \/ /\ Fault(DocumentFaults)
             /\ Directory([c EXCEPT !.backup = None])
             /\ writer' = [writer EXCEPT !.pc = "giveBack", !.backup = c.backup]
             /\ UNCHANGED savedChanges
       /\ UNCHANGED <<editorPage, documentChanges>>
    \/ /\ writer.pc = "giveBack"
       /\ \/ NoFault /\ document' = OnDisk([c EXCEPT !.backup = writer.backup])
          \/ Fault(DocumentFaults) /\ Directory([c EXCEPT !.backup = writer.backup])
          \/ Fault(DocumentFaults) /\ UNCHANGED document
       /\ Return
       /\ UNCHANGED <<editorPage, documentChanges, savedChanges>>

\* The server stops, or the machine loses power.
DocumentRestart ==
    /\ Fault(DocumentFaults)
    /\ \E c \in document.after : document' \in {document, OnDisk(c)}
    /\ Return
    /\ UNCHANGED <<editorPage, documentChanges, savedChanges>>

DocumentNext ==
    \/ JsonCourseStorage
    \/ \E e \in Editors :
        \/ read_design(e)
        \/ \E preserve_actual \in BOOLEAN : write_design_cas(e, preserve_actual)
        \/ update_uda_actual(e)
    \/ write_backup
    \/ write_main
    \/ write_cleanup
    \/ DocumentRestart

DocumentSpec == DocumentInit /\ [][DocumentNext]_documentVars

-----------------------------------------------------------------------------

\* No change that was answered with success is ever lost: not to a save of a
\* page that had not seen it (the revisions), not to an edit that carries old
\* progress (preserve_actual), not to a failed write that is rolled back, and
\* not to a power loss followed by the recovery of the copies.
SavedChangesSurvive ==
    \A c \in document.after :
        savedChanges \subseteq Recovered(c).main.edit \cup Recovered(c).main.actual
=============================================================================
