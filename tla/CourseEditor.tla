---------------------------- MODULE CourseEditor ----------------------------
(***************************************************************************)
(* The course board of one teacher's browser (tools/course_board.js): the  *)
(* opened design, the loads, saves, deletions and dialogs that are waiting *)
(* for an answer, and the documents of the server they talk to.            *)
(*                                                                         *)
(* A design's content is the set of changes it holds and a revision is the *)
(* content it was computed from (revisions are content digests).  The      *)
(* object identity and the request counter that the code compares are kept *)
(* as flags of the waiting request: "same" until state.design is replaced, *)
(* "latest" until courseContextRequestId moves.                            *)
(***************************************************************************)
EXTENDS Faults

CONSTANTS Archives,    \* names of archived designs
          Loads,       \* load requests that may wait at the same time
          MaxChange,   \* bound: changes ever made, here and by other editors
          EditorFaults \* bound: answers lost on the way

VARIABLES documents,   \* [name or Course -> content, None for a deleted archive]
          view,        \* what the page shows and remembers of it
          waiting,     \* [load slot -> None or the request]
          job,         \* the save or deletion in progress, None when there is none
          dialog,      \* the open modal dialog: sources or AI proposal
          requested,   \* courseContextRequestName
          remembered,  \* ACTIVE_COURSE_DESIGN_KEY of the browser
          changes,     \* number of changes made so far
          typed        \* ghost: changes typed since the teacher last agreed to drop some

courseEditorState == << documents, view, waiting, job, dialog, requested, remembered,
                        changes, typed >>
courseEditorVars == << courseEditorState, faults >>

Course == "doc/course_design.json"
ASSUME CourseIsNoArchive == Course \notin Archives
NoName == "no name"
Documents == {Course} \cup Archives
Exists(n) == documents[n] # None

CourseEditorInit ==
    /\ documents = [n \in Documents |-> {}]
    /\ view = [content |-> {}, name |-> Course, rev |-> {}, cur |-> {}, clean |-> {}]
    /\ waiting = [l \in Loads |-> None]
    /\ job = None
    /\ dialog = None
    /\ requested = NoName
    /\ remembered = None
    /\ changes = 0
    /\ typed = {}
    /\ faults = 0

-----------------------------------------------------------------------------
(* What a request remembers of the board, and when that still holds. *)

captureBoardContext == [name |-> view.name, content |-> view.content, same |-> TRUE]

isBoardContextCurrent(c) == c.same /\ c.name = view.name

\* Mutant of isBoardContextUnchanged: the snapshot is not compared.
MutIsBoardContextUnchanged(c) == isBoardContextCurrent(c)

isBoardContextUnchanged(c) == isBoardContextCurrent(c) /\ c.content = view.content

hasUnsavedChanges == view.content # view.clean

\* state.design is assigned: no waiting request holds that object any more, so
\* what it captured will not be compared.
Replaced == [name |-> NoName, content |-> {}, same |-> FALSE]
Moved(r) == IF r = None THEN None ELSE [r EXCEPT !.ctx = Replaced]
\* courseContextRequestId moves: no waiting request is the latest any more.
Older(r) == IF r = None THEN None ELSE [r EXCEPT !.ctx = Replaced, !.latest = FALSE]

\* A load to which either happens is ignored, whatever it answers.
Ignored == [kind |-> "ignored", name |-> NoName, ctx |-> Replaced, latest |-> FALSE,
            state |-> "answered", got |-> None, listed |-> {}]
Outdated(loads) == [l \in Loads |-> IF loads[l] = None THEN None ELSE Ignored]

Request(kind, n) == [kind |-> kind, name |-> n, ctx |-> captureBoardContext, latest |-> TRUE,
                     state |-> "sent", got |-> None, listed |-> {}]

\* The page shows content c of document n, at that revision, and is clean.
Shows(n, c) ==
    view' = [view EXCEPT !.content = c, !.name = n, !.rev = c, !.clean = c,
                         !.cur = IF n = Course THEN c ELSE @]

Modal == dialog # None \/ (job # None /\ job.state = "asking")

-----------------------------------------------------------------------------
(* The teacher edits; another editor saves; the server reads and writes. *)

edit ==
    /\ ~Modal
    /\ changes < MaxChange
    /\ changes' = changes + 1
    /\ view' = [view EXCEPT !.content = @ \cup {changes'}]
    /\ typed' = typed \cup {changes'}
    /\ UNCHANGED <<documents, waiting, job, dialog, requested, remembered, faults>>

other_editor(n) ==
    /\ Exists(n)
    /\ changes < MaxChange
    /\ changes' = changes + 1
    /\ documents' = [documents EXCEPT ![n] = @ \cup {changes'}]
    /\ UNCHANGED <<view, waiting, job, dialog, requested, remembered, typed, faults>>

-----------------------------------------------------------------------------
(* Loading. *)

\* A load is sent; the teacher has agreed to drop what is not saved.
Send(l, kind, n) ==
    /\ waiting' = [k \in Loads |-> IF k = l THEN Request(kind, n) ELSE Outdated(waiting)[k]]
    /\ job' = Older(job)
    /\ requested' = n
    /\ typed' = {}

loadAll(l) ==
    /\ ~Modal
    /\ waiting[l] = None
    /\ Send(l, "all", Course)
    /\ UNCHANGED <<documents, view, dialog, remembered, changes, faults>>

loadDesignFromMenu(l, n) ==
    /\ ~Modal
    /\ waiting[l] = None
    /\ Exists(n)
    /\ Send(l, "load", n)
    /\ UNCHANGED <<documents, view, dialog, remembered, changes, faults>>

fetchCourseContext(l) ==
    /\ waiting[l] # None
    /\ waiting[l].state = "sent"
    /\ waiting' = [waiting EXCEPT ![l].state = "answered", ![l].got = documents[waiting[l].name],
                               ![l].listed = IF waiting[l].kind = "all" THEN {n \in Archives : Exists(n)}
                                             ELSE {}]
    /\ UNCHANGED <<documents, view, job, dialog, requested, remembered, changes, typed, faults>>

\* A load that fails, before or after it was served, changes nothing.
loadFails(l) ==
    /\ Fault(EditorFaults)
    /\ waiting[l] # None
    /\ waiting' = [waiting EXCEPT ![l] = None]
    /\ UNCHANGED <<documents, view, job, dialog, requested, remembered, changes, typed>>

\* The answer is dropped: a later request was sent, the board has changed, or the
\* design is gone.
loadIgnored(l) ==
    LET r == waiting[l] IN
    /\ r # None
    /\ r.state = "answered"
    /\ ~r.latest \/ ~isBoardContextUnchanged(r.ctx) \/ r.got = None
    /\ waiting' = [waiting EXCEPT ![l] = None]
    /\ UNCHANGED <<documents, view, job, dialog, requested, remembered, changes, typed, faults>>

loadShown(l) ==
    LET r == waiting[l]
        again == r.kind = "all" /\ remembered \in r.listed IN
    /\ r # None
    /\ r.state = "answered"
    /\ r.got # None
    /\ r.latest /\ isBoardContextUnchanged(r.ctx)
    /\ Shows(r.name, r.got)
    /\ remembered' = IF r.kind = "all" THEN remembered ELSE IF r.name = Course THEN None ELSE r.name
    /\ IF again
       THEN /\ waiting' = [k \in Loads |->
                  IF k = l THEN [Request("load", remembered) EXCEPT
                                   !.ctx = [name |-> r.name, content |-> r.got, same |-> TRUE]]
                  ELSE Outdated(waiting)[k]]
            /\ job' = Older(Moved(job))
            /\ requested' = remembered
       ELSE /\ waiting' = [Outdated(waiting) EXCEPT ![l] = None]
            /\ job' = Moved(job)
            /\ requested' = requested
    /\ dialog' = Moved(dialog)
    /\ UNCHANGED <<documents, changes, typed, faults>>

-----------------------------------------------------------------------------
(* Saving: one save or deletion at a time (startSaveOperation).            *)
(* job.expected is the revision sent, None when the file must not exist;   *)
(* job.opens: the saved design replaces the view; job.dirty: a deletion    *)
(* that began with unsaved changes.                                        *)

Job(kind, n, content, expected, opens) ==
    [kind |-> kind, name |-> n, ctx |-> captureBoardContext, latest |-> TRUE, state |-> "sent",
     got |-> None, content |-> content, expected |-> expected, opens |-> opens,
     dirty |-> kind = "delete" /\ hasUnsavedChanges]

startSaveOperation == ~Modal /\ job = None

saveArchiveDesign ==
    /\ startSaveOperation
    /\ view.name \in Archives /\ hasUnsavedChanges
    /\ job' = Job("archive", view.name, view.content, view.rev, FALSE)
    /\ UNCHANGED <<documents, view, waiting, dialog, requested, remembered, changes, typed, faults>>

saveArchiveDesignAs(n) ==
    /\ startSaveOperation
    /\ job' = Job("archive", n, view.content, None, FALSE)
    /\ UNCHANGED <<documents, view, waiting, dialog, requested, remembered, changes, typed, faults>>

\* The teacher agrees to leave the opened design for an empty one.
newCourseDesign(n) ==
    /\ startSaveOperation
    /\ job' = Job("archive", n, {}, None, TRUE)
    /\ typed' = {}
    /\ UNCHANGED <<documents, view, waiting, dialog, requested, remembered, changes, faults>>

saveCurrentProject ==
    /\ startSaveOperation
    /\ view.name = Course /\ hasUnsavedChanges
    /\ job' = Job("current", Course, view.content, view.cur, FALSE)
    /\ UNCHANGED <<documents, view, waiting, dialog, requested, remembered, changes, typed, faults>>

persistDesignAsCurrent ==
    /\ startSaveOperation
    /\ view.name # Course
    /\ job' = Job("current", Course, view.content, view.cur, FALSE)
    /\ UNCHANGED <<documents, view, waiting, dialog, requested, remembered, changes, typed, faults>>

\* The server compares the revision and writes, or answers 409.
write_design ==
    /\ job # None /\ job.kind \in {"archive", "current"} /\ job.state = "sent"
    /\ LET fits == IF job.expected = None THEN ~Exists(job.name)
                   ELSE documents[job.name] = job.expected IN
       /\ documents' = IF fits THEN [documents EXCEPT ![job.name] = job.content] ELSE documents
       /\ job' = IF fits THEN [job EXCEPT !.state = "answered", !.expected = None]
                         ELSE [job EXCEPT !.state = "refused"]
    /\ UNCHANGED <<view, waiting, dialog, requested, remembered, changes, typed, faults>>

\* A refused copy asks for a replacement; any other refusal ends the save.
refused ==
    /\ job # None /\ job.state = "refused"
    /\ \/ /\ job.expected = None
          /\ job' = [job EXCEPT !.state = "asking"]
       \/ job' = None
    /\ UNCHANGED <<documents, view, waiting, dialog, requested, remembered, changes, typed, faults>>

\* The answer of the write is lost: the page keeps the revision it had.
answerLost ==
    /\ Fault(EditorFaults)
    /\ job # None /\ job.state \in {"answered", "deleted"}
    /\ job' = None
    /\ UNCHANGED <<documents, view, waiting, dialog, requested, remembered, changes, typed>>

\* "Sostituisci": the revision of the document to replace is read and sent.
replaceExisting ==
    /\ job # None /\ job.state = "asking"
    /\ job' = IF ~Exists(job.name) THEN None
              ELSE [job EXCEPT !.state = "sent",
                               !.expected = IF view.name = job.name THEN view.rev
                                            ELSE documents[job.name]]
    /\ UNCHANGED <<documents, view, waiting, dialog, requested, remembered, changes, typed, faults>>

\* The saved design is the open one from now on.  A new course is then loaded
\* again, as any design is.
persistArchiveDesignWithName ==
    LET valid == /\ IF job.opens THEN isBoardContextUnchanged(job.ctx)
                                 ELSE isBoardContextCurrent(job.ctx)
                 /\ job.latest IN
    /\ job # None /\ job.kind = "archive" /\ job.state = "answered"
    /\ IF valid
       THEN /\ view' = [view EXCEPT !.rev = job.content, !.clean = job.content, !.name = job.name,
                                    !.content = IF job.opens THEN job.content ELSE @]
            /\ remembered' = job.name
            /\ IF job.opens
               THEN /\ waiting' = Outdated(waiting)
                    /\ dialog' = Moved(dialog)
               ELSE UNCHANGED <<waiting, dialog>>
       ELSE /\ view' = IF view.name = job.name THEN [view EXCEPT !.rev = job.content] ELSE view
            /\ UNCHANGED <<remembered, waiting, dialog>>
    /\ job' = None
    /\ UNCHANGED <<documents, requested, changes, typed, faults>>

persistCurrentProject ==
    LET valid == isBoardContextUnchanged(job.ctx) /\ job.latest IN
    /\ job # None /\ job.kind = "current" /\ job.state = "answered"
    /\ IF valid
       THEN /\ Shows(Course, job.content)
            /\ remembered' = None
            /\ waiting' = Outdated(waiting)
            /\ dialog' = Moved(dialog)
       ELSE /\ view' = [view EXCEPT !.cur = job.content]
            /\ UNCHANGED <<remembered, waiting, dialog>>
    /\ job' = None
    /\ UNCHANGED <<documents, requested, changes, typed, faults>>

-----------------------------------------------------------------------------
(* Deleting an archived design. *)

deleteArchiveDesign ==
    /\ startSaveOperation
    /\ view.name \in Archives
    /\ job' = Job("delete", view.name, {}, None, FALSE)
    /\ waiting' = Outdated(waiting)
    /\ requested' = NoName
    /\ typed' = typed \ view.clean
    /\ UNCHANGED <<documents, view, dialog, remembered, changes, faults>>

delete_design ==
    /\ job # None /\ job.kind = "delete" /\ job.state = "sent"
    /\ documents' = [documents EXCEPT ![job.name] = None]
    /\ job' = [job EXCEPT !.state = "deleted"]
    /\ UNCHANGED <<view, waiting, dialog, requested, remembered, changes, typed, faults>>

\* The open draft loses its archive name.
Detached ==
    IF view.name = job.name
    THEN view' = [view EXCEPT !.name = NoName] /\ remembered' = None
    ELSE UNCHANGED <<view, remembered>>

reconcileStaleArchiveDelete ==
    /\ job # None /\ job.state \in {"deleted", "reloaded"}
    /\ ~job.latest
    /\ IF requested = job.name
       THEN /\ Detached
            /\ waiting' = Outdated(waiting)
            /\ requested' = NoName
       ELSE UNCHANGED <<view, remembered, waiting, requested>>
    /\ job' = None
    /\ UNCHANGED <<documents, dialog, changes, typed, faults>>

reconcileDeletedArchive ==
    /\ job # None /\ job.state \in {"deleted", "reloaded"}
    /\ job.latest
    /\ ~isBoardContextUnchanged(job.ctx) \/ (job.state = "deleted" /\ job.dirty)
    /\ Detached
    /\ job' = None
    /\ UNCHANGED <<documents, waiting, dialog, requested, changes, typed, faults>>

deleteFetchesCourse ==
    /\ job # None /\ job.state = "deleted"
    /\ job.latest /\ isBoardContextUnchanged(job.ctx) /\ ~job.dirty
    /\ job' = [job EXCEPT !.state = "reloaded", !.got = documents[Course]]
    /\ UNCHANGED <<documents, view, waiting, dialog, requested, remembered, changes, typed, faults>>

deleteArchiveDesignOnce ==
    /\ job # None /\ job.state = "reloaded"
    /\ job.latest /\ isBoardContextUnchanged(job.ctx)
    /\ Shows(Course, job.got)
    /\ remembered' = None
    /\ waiting' = Outdated(waiting)
    /\ dialog' = Moved(dialog)
    /\ job' = None
    /\ UNCHANGED <<documents, requested, changes, typed, faults>>

-----------------------------------------------------------------------------
(* The two dialogs that prepare a change of the design and apply it only   *)
(* to the board they were prepared for.                                    *)

openSourceDialog ==
    /\ ~Modal
    /\ dialog' = [kind |-> "sources", ctx |-> captureBoardContext, state |-> "open"]
    /\ UNCHANGED <<documents, view, waiting, job, requested, remembered, changes, typed, faults>>

openCourseAiDialog ==
    /\ ~Modal
    /\ dialog' = [kind |-> "ai", ctx |-> captureBoardContext, state |-> "open"]
    /\ UNCHANGED <<documents, view, waiting, job, requested, remembered, changes, typed, faults>>

\* The preview, or the proposal, arrives for the board the dialog was opened on.
\* Generating also stores the brief in the design: a change of its own when the
\* brief is new.
previewSourceEditor ==
    /\ dialog # None /\ dialog.kind = "sources" /\ dialog.state = "open"
    /\ isBoardContextUnchanged(dialog.ctx)
    /\ dialog' = [dialog EXCEPT !.state = "ready"]
    /\ UNCHANGED <<documents, view, waiting, job, requested, remembered, changes, typed, faults>>

generateCourseAiProposal ==
    /\ dialog # None /\ dialog.kind = "ai" /\ dialog.state = "open"
    /\ isBoardContextUnchanged(dialog.ctx)
    /\ \/ /\ changes < MaxChange
          /\ changes' = changes + 1
          /\ view' = [view EXCEPT !.content = @ \cup {changes'}]
       \/ UNCHANGED <<changes, view>>
    /\ dialog' = [dialog EXCEPT !.state = "ready", !.ctx.content = view'.content]
    /\ UNCHANGED <<documents, waiting, job, requested, remembered, typed, faults>>

applySourceEditor ==
    /\ dialog # None /\ dialog.kind = "sources" /\ dialog.state = "ready"
    /\ isBoardContextUnchanged(dialog.ctx)
    /\ changes < MaxChange
    /\ changes' = changes + 1
    /\ view' = [view EXCEPT !.content = @ \cup {changes'}]
    /\ waiting' = Outdated(waiting)
    /\ job' = Moved(job)
    /\ dialog' = None
    /\ UNCHANGED <<documents, requested, remembered, typed, faults>>

\* The proposal's units replace those of the year in place.
applyCourseAiProposal ==
    /\ dialog # None /\ dialog.kind = "ai" /\ dialog.state = "ready"
    /\ isBoardContextUnchanged(dialog.ctx)
    /\ changes < MaxChange
    /\ changes' = changes + 1
    /\ view' = [view EXCEPT !.content = @ \cup {changes'}]
    /\ dialog' = None
    /\ UNCHANGED <<documents, waiting, job, requested, remembered, typed, faults>>

closeDialog ==
    /\ dialog # None
    /\ dialog' = None
    /\ UNCHANGED <<documents, view, waiting, job, requested, remembered, changes, typed, faults>>

-----------------------------------------------------------------------------
CourseEditorNext ==
    \/ edit
    \/ \E n \in Documents : other_editor(n)
    \/ \E l \in Loads : loadAll(l) \/ fetchCourseContext(l) \/ loadIgnored(l) \/ loadShown(l)
    \/ \E l \in Loads : loadFails(l)
    \/ \E l \in Loads, n \in Documents : loadDesignFromMenu(l, n)
    \/ saveArchiveDesign \/ saveCurrentProject \/ persistDesignAsCurrent
    \/ \E n \in Archives : saveArchiveDesignAs(n) \/ newCourseDesign(n)
    \/ write_design \/ refused \/ answerLost \/ replaceExisting
    \/ persistArchiveDesignWithName \/ persistCurrentProject
    \/ deleteArchiveDesign \/ delete_design \/ deleteFetchesCourse
    \/ reconcileStaleArchiveDelete \/ reconcileDeletedArchive \/ deleteArchiveDesignOnce
    \/ openSourceDialog \/ previewSourceEditor \/ applySourceEditor
    \/ openCourseAiDialog \/ generateCourseAiProposal \/ applyCourseAiProposal
    \/ closeDialog

CourseEditorSpec == CourseEditorInit /\ [][CourseEditorNext]_courseEditorVars

-----------------------------------------------------------------------------
\* What the teacher types after agreeing to leave a design is never dropped by an
\* answer that was already on its way: the changes typed since stay on the board,
\* whichever load, save, deletion or dialog ends next.
TypedIsKept == typed \subseteq view.content

=============================================================================
