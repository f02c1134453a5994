---------------------------- MODULE CourseDeletion ----------------------------
(***************************************************************************)
(* Deleting an archived course design together with the school calendars   *)
(* linked to it (delete_saved_design of scripts/thebitlab_storage.py): the *)
(* files move one by one into a transaction directory, whose rename to     *)
(* <id>.committed is the commit, and every request first undoes or         *)
(* finishes the transactions it finds (_recover_delete_transactions).      *)
(*                                                                         *)
(* Each rename is synced before the next, on one file system: a stop of    *)
(* the process covers a power loss.  A file's content is a version, and    *)
(* the version the design it belongs to was created with.                  *)
(***************************************************************************)
EXTENDS Faults, FiniteSets

CONSTANTS
    Calendars,          \* calendars linked to the design
    Transactions,       \* transaction ids (uuid4)
    MaxVersion,         \* bound on the versions written
    CourseFaults        \* bound on the failing calls

\* The file of the design itself.
Design == "design"
CourseFiles == {Design} \cup Calendars

FileVersions == [version : Nat, born : Nat]
StagingRecords == [state : {"pending", "rolling-back", "committed"},
                   files : [CourseFiles -> FileVersions \cup {None}]]

ASSUME DeletionAssumption == None \notin FileVersions /\ None \notin StagingRecords

VARIABLES
    course,             \* version of each file in place, or None
    staging,            \* transaction directories: state and moved files
    remover,            \* the deletion that holds the course lock, or NoRemoval
    ready,              \* some request has run the constructor in this process
    version,            \* versions written so far
    \* History variables, read by no action:
    toldDeleted,        \* versions whose deletion was answered
    lastSaved           \* the last content of each file answered as saved, or None

courseState == << course, staging, remover, ready, version, toldDeleted, lastSaved >>
courseVars == << courseState, faults >>

NoRemoval == [pc |-> "idle"]
NoFiles == [f \in CourseFiles |-> None]

CourseInit ==
    /\ course = NoFiles
    /\ staging = [x \in Transactions |-> None]
    /\ remover = NoRemoval
    /\ ready = FALSE
    /\ version = 0
    /\ toldDeleted = {}
    /\ lastSaved = NoFiles
    /\ faults = 0

CourseUnlocked == remover.pc = "idle"

\* The transactions _recover_delete_transactions has to undo.
Interrupted == {x \in Transactions : staging[x] # None /\ staging[x].state # "committed"}

\* The next file _rollback_delete_entries puts back: the design is the last.
Undone(staged) == {f \in staged : f = Design => staged = {Design}}

\* write_json of a file, answered.
Save(f, content) ==
    /\ course' = [course EXCEPT ![f] = content]
    /\ lastSaved' = [lastSaved EXCEPT ![f] = content]

\* write_saved_design(_cas): the constructor ran under the same lock, so
\* every transaction left is a committed one.
write_saved_design ==
    /\ CourseUnlocked /\ Interrupted = {}
    /\ version < MaxVersion
    /\ version' = version + 1
    /\ Save(Design, [version |-> version + 1,
                     born |-> IF course[Design] = None THEN version + 1
                              ELSE course[Design].born])
    /\ NoFault
    /\ UNCHANGED <<staging, remover, ready, toldDeleted>>

\* write_school_calendar_cas: only a design that is there can be linked.  The
\* constructor ran under a lock released since.
write_school_calendar(f) ==
    /\ CourseUnlocked /\ ready /\ course[Design] # None
    /\ version < MaxVersion
    /\ version' = version + 1
    /\ Save(f, [version |-> version + 1, born |-> course[Design].born])
    /\ NoFault
    /\ UNCHANGED <<staging, remover, ready, toldDeleted>>

-----------------------------------------------------------------------------

\* delete_saved_design with its linked calendars, up to the manifest of the
\* pending transaction.  A directory without a manifest holds no file.
delete_saved_design(x) ==
    LET targets == {f \in CourseFiles : course[f] # None} IN
    /\ CourseUnlocked /\ ready /\ course[Design] # None /\ staging[x] = None
    /\ \/ /\ NoFault
          /\ staging' = [staging EXCEPT ![x] = [state |-> "pending", files |-> NoFiles]]
          /\ remover' = [pc |-> "move", transaction |-> x, todo |-> targets]
       \/ /\ Fault(CourseFaults)
          /\ staging' = [staging EXCEPT ![x] = [state |-> "pending", files |-> NoFiles]]
          /\ UNCHANGED remover
    /\ UNCHANGED <<course, ready, version, toldDeleted, lastSaved>>

Move(from, to) ==
    /\ course' = from
    /\ staging' = [staging EXCEPT ![remover.transaction].files = to]

\* One target after the other moves into the transaction, the design first.
move_target(f) ==
    LET x == remover.transaction
        move == Move([course EXCEPT ![f] = None], [staging[x].files EXCEPT ![f] = course[f]]) IN
    /\ remover.pc = "move" /\ f \in remover.todo
    /\ Design \in remover.todo => f = Design
    /\ \/ NoFault /\ move /\ remover' = [remover EXCEPT !.todo = @ \ {f}]
       \/ /\ Fault(CourseFaults)
          /\ move \/ UNCHANGED <<course, staging>>
          /\ remover' = [remover EXCEPT !.pc = "rollback"]
    /\ UNCHANGED <<ready, version, toldDeleted, lastSaved>>

\* The rename of the transaction directory, and its sync.
commit_removal ==
    LET x == remover.transaction
        committed == [staging EXCEPT ![x].state = "committed"] IN
    /\ remover.pc = "move" /\ remover.todo = {}
    /\ \/ /\ NoFault
          /\ staging' = committed
          /\ remover' = [remover EXCEPT !.pc = "purge"]
          /\ toldDeleted' = toldDeleted \cup {staging[x].files[f] : f \in CourseFiles}
       \/ /\ Fault(CourseFaults)
          /\ staging' \in {staging, committed}
          /\ remover' = [remover EXCEPT !.pc = "rollback"]
          /\ UNCHANGED toldDeleted
    /\ UNCHANGED <<course, ready, version, lastSaved>>

\* Mutant of rollback_removal: a committed directory is emptied under its name.
MutRollbackRemoval ==
    LET x == remover.transaction
        staged == {f \in CourseFiles : staging[x].files[f] # None} IN
    /\ remover.pc = "rollback" /\ NoFault
    /\ \/ /\ \E f \in Undone(staged) :
                Move([course EXCEPT ![f] = staging[x].files[f]],
                     [staging[x].files EXCEPT ![f] = None])
          /\ UNCHANGED remover
       \/ /\ staged = {}
          /\ staging' = [staging EXCEPT ![x] = None]
          /\ remover' = NoRemoval
          /\ UNCHANGED course
    /\ UNCHANGED <<ready, version, toldDeleted, lastSaved>>

\* The failure path: a committed directory is renamed to <id>.rolling-back
\* first, then _rollback_delete_entries, one file at a time.
rollback_removal ==
    LET x == remover.transaction
        staged == {f \in CourseFiles : staging[x].files[f] # None} IN
    /\ remover.pc = "rollback"
    /\ \/ /\ staging[x].state = "committed"
          /\ \/ NoFault /\ UNCHANGED remover
             \/ Fault(CourseFaults) /\ remover' = NoRemoval
          /\ staging' = [staging EXCEPT ![x].state = "rolling-back"]
          /\ UNCHANGED course
       \/ /\ staging[x].state # "committed" /\ staged # {}
          /\ \E f \in Undone(staged) :
                \/ /\ NoFault
                   /\ Move([course EXCEPT ![f] = staging[x].files[f]],
                           [staging[x].files EXCEPT ![f] = None])
                   /\ UNCHANGED remover
                \/ Fault(CourseFaults) /\ remover' = NoRemoval /\ UNCHANGED <<course, staging>>
       \/ /\ staging[x].state # "committed" /\ staged = {}
          /\ \/ NoFault /\ staging' = [staging EXCEPT ![x] = None]
             \/ Fault(CourseFaults) /\ UNCHANGED staging
          /\ remover' = NoRemoval
          /\ UNCHANGED course
    /\ UNCHANGED <<ready, version, toldDeleted, lastSaved>>

\* shutil.rmtree of the committed directory; a failure leaves any of its files.
purge_removal ==
    LET x == remover.transaction IN
    /\ remover.pc = "purge"
    /\ \/ NoFault /\ staging' = [staging EXCEPT ![x] = None]
       \/ /\ Fault(CourseFaults)
          /\ \E left \in SUBSET CourseFiles :
               staging' = [staging EXCEPT ![x].files =
                             [f \in CourseFiles |-> IF f \in left THEN @[f] ELSE None]]
    /\ remover' = NoRemoval
    /\ UNCHANGED <<course, ready, version, toldDeleted, lastSaved>>

CourseServerStops ==
    /\ remover.pc # "idle"
    /\ remover' = NoRemoval /\ ready' = FALSE
    /\ NoFault
    /\ UNCHANGED <<course, staging, version, toldDeleted, lastSaved>>

\* JsonCourseStorage(), the constructor every request runs first, takes the lock
\* for _recover_delete_transactions; a committed one it cannot purge is left.
open_course_storage ==
    /\ CourseUnlocked
    /\ \/ /\ \E x \in Transactions : staging[x] # None
          /\ remover' = [pc |-> "recover"]
          /\ UNCHANGED ready
       \/ /\ Interrupted = {}
          /\ ready' = TRUE
          /\ UNCHANGED remover
    /\ NoFault
    /\ UNCHANGED <<course, staging, version, toldDeleted, lastSaved>>

\* One transaction after the other: a committed one is purged, and left if that
\* fails, another undone file by file; a file back in place stops the request
\* ("Rollback in conflitto").
recover_delete_transaction(x) ==
    LET staged == {f \in CourseFiles : staging[x].files[f] # None}
        gone == [staging EXCEPT ![x] = None]
        Finish == remover' = IF \A y \in Transactions : gone[y] = None THEN NoRemoval
                             ELSE remover IN
    /\ remover.pc = "recover" /\ staging[x] # None
    /\ \/ /\ staging[x].state = "committed" \/ staged = {}
          /\ staging' = gone /\ Finish
          /\ NoFault
          /\ UNCHANGED course
       \/ /\ staging[x].state # "committed"
          /\ \E f \in Undone(staged) :
               IF course[f] # None
               THEN NoFault /\ remover' = NoRemoval /\ UNCHANGED <<course, staging>>
               ELSE \/ /\ NoFault
                       /\ course' = [course EXCEPT ![f] = staging[x].files[f]]
                       /\ staging' = [staging EXCEPT ![x].files[f] = None]
                       /\ UNCHANGED remover
                    \/ /\ Fault(CourseFaults)
                       /\ remover' = NoRemoval
                       /\ UNCHANGED <<course, staging>>
    /\ UNCHANGED <<ready, version, toldDeleted, lastSaved>>

CourseNext ==
    \/ write_saved_design
    \/ \E f \in Calendars : write_school_calendar(f)
    \/ \E x \in Transactions : delete_saved_design(x) \/ recover_delete_transaction(x)
    \/ \E f \in CourseFiles : move_target(f)
    \/ commit_removal
    \/ rollback_removal
    \/ purge_removal
    \/ open_course_storage
    \/ CourseServerStops

CourseSpec == CourseInit /\ [][CourseNext]_courseVars

-----------------------------------------------------------------------------

\* A deletion is whole or not at all once the transactions are recovered: no
\* calendar is left without its design, a design that is there has every
\* calendar saved for it, in its last version; and a version whose deletion was
\* answered never comes back (delete_saved_design, _recover_delete_transactions).
DeletionIsAllOrNothing ==
    /\ \A f \in CourseFiles : course[f] # None => course[f] \notin toldDeleted
    /\ CourseUnlocked /\ Interrupted = {} =>
        IF course[Design] = None
        THEN \A f \in Calendars : course[f] = None
        ELSE \A f \in CourseFiles :
                lastSaved[f] # None /\ lastSaved[f].born = course[Design].born =>
                    course[f] = lastSaved[f]
=============================================================================
