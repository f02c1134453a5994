------------------------------- MODULE MCCourses -------------------------------
(*****************************************************************************)
(* The components of the teacher's data root, of the course editor and of    *)
(* grading, in one run of TLC. They share no variable but the count of       *)
(* failures: a behaviour is that of one of them, chosen in the initial state, *)
(* the others at rest.                                                       *)
(*****************************************************************************)
EXTENDS ActivityImport, ActivityDrafts, AssignmentDeletion, CourseDocuments,
        CourseDeletion, CourseEditor, FrameQueue, CalendarPage, SourceSnapshots,
        PilotRoot, Grading, TLC

VARIABLE part       \* the component of this behaviour

MCRepositoryOf == [c \in Sources |-> "r"]
MCItems == << "i1", "i2" >>
MCFields == << "f1", "f2" >>
MCCallSlots == [token |-> 1, network |-> 1]
MCRemoteFiles == << "a", "b" >>
Symmetry == Permutations(Operations)

-----------------------------------------------------------------------------
\* Every component but the named one keeps its state.
Others(name) ==
    /\ name # "activity import" => UNCHANGED importState
    /\ name # "activity drafts" => UNCHANGED draftState
    /\ name # "assignment deletion" => UNCHANGED assignmentState
    /\ name # "course documents" => UNCHANGED documentState
    /\ name # "course deletion" => UNCHANGED courseState
    /\ name # "course editor" => UNCHANGED courseEditorState
    /\ name # "frame queue" => UNCHANGED frameQueueState
    /\ name # "calendar page" => UNCHANGED calendarState
    /\ name # "source snapshots" => UNCHANGED sourceState
    /\ name # "pilot root" => UNCHANGED pilotState
    /\ name # "grading" => UNCHANGED gradingState

Component(name) == part = name /\ UNCHANGED part

Init ==
    /\ part \in {"activity import", "activity drafts", "assignment deletion",
                 "course documents", "course deletion", "course editor",
                 "frame queue", "calendar page", "source snapshots", "pilot root",
                 "grading"}
    /\ ImportInit /\ DraftInit /\ AssignmentInit /\ DocumentInit /\ CourseInit
    /\ CourseEditorInit /\ FrameQueueInit /\ CalendarInit /\ SourceInit
    /\ PilotInit /\ GradingInit
    /\ part # "calendar page" => \A c \in CalendarIds : files[c] = None

ActivityImportStep == Component("activity import") /\ ImportNext /\ Others("activity import")
ActivityDraftsStep == Component("activity drafts") /\ DraftNext /\ Others("activity drafts")
AssignmentDeletionStep == Component("assignment deletion") /\ AssignmentNext /\ Others("assignment deletion")
CourseDocumentsStep == Component("course documents") /\ DocumentNext /\ Others("course documents")
CourseDeletionStep == Component("course deletion") /\ CourseNext /\ Others("course deletion")
CourseEditorStep == Component("course editor") /\ CourseEditorNext /\ Others("course editor")
FrameQueueStep == Component("frame queue") /\ FrameQueueNext /\ Others("frame queue")
CalendarPageStep == Component("calendar page") /\ CalendarNext /\ Others("calendar page")
SourceSnapshotsStep == Component("source snapshots") /\ SourceNext /\ Others("source snapshots")
PilotRootStep == Component("pilot root") /\ PilotNext /\ Others("pilot root")
GradingStep == Component("grading") /\ GradingNext /\ Others("grading")

Next ==
    \/ ActivityImportStep \/ ActivityDraftsStep \/ AssignmentDeletionStep
    \/ CourseDocumentsStep \/ CourseDeletionStep \/ CourseEditorStep
    \/ FrameQueueStep \/ CalendarPageStep \/ SourceSnapshotsStep
    \/ PilotRootStep \/ GradingStep

Spec == Init /\ [][Next]_<< part, faults,
            importState, draftState, assignmentState, documentState, courseState,
            courseEditorState, frameQueueState, calendarState, sourceState,
            pilotState, gradingState >>
=============================================================================
