---------------------------- MODULE CalendarPage ----------------------------
(***************************************************************************)
(* The school calendar page (tools/school_calendar.js): loading a calendar *)
(* with the design it belongs to, changing the design, saving, recording   *)
(* the progress of a unit, and the lock of the page's controls around      *)
(* them.  The page starts by loading a calendar on its own, while its      *)
(* controls already work.                                                  *)
(*                                                                         *)
(* Calendars and progress are the sets of changes they hold; a revision is *)
(* the content it was computed from.  The counters calendarRequestId and   *)
(* courseDesignRequestId are kept as the flags "cal" and "course" of the   *)
(* waiting requests: TRUE while no later request has moved the counter.    *)
(***************************************************************************)
EXTENDS Faults, FiniteSets

CONSTANTS CalendarIds,      \* file names of calendars
          Designs,        \* course designs a calendar may belong to
          MaxEdit,        \* bound: changes of calendars and progress
          CalendarFaults  \* bound: requests that fail

Contents == SUBSET (1 .. MaxEdit)
SaveRequests ==
    [kind : {"save"}, name : CalendarIds, content : Contents, cal : BOOLEAN, course : BOOLEAN,
     expected : Contents \cup {None}, state : {"sent", "answered", "refused"}]
LoadRequests ==
    [kind : {"calendar", "design"}, name : CalendarIds \cup {None}, design : Designs \cup {None},
     cal : BOOLEAN, course : BOOLEAN, state : {"sent", "context", "answered"},
     got : Contents \cup {None}, seen : Contents \cup {None}]

\* The page shows some design, and what is absent is neither a content nor a request.
ASSUME CalendarAssumption ==
    /\ MaxEdit \in Nat /\ Designs # {}
    /\ \A content \in Contents : content # None
    /\ None \notin SaveRequests /\ None \notin LoadRequests

VARIABLES files,          \* server: [calendar -> content, None when absent]
          progress,       \* server: [design -> progress recorded in it]
          page,           \* what the page shows
          loads,          \* ["boot", "user" -> None or the load that waits]
          save,           \* the calendar's save that waits
          actual,         \* the progress' save that waits
          locked,         \* the controls are disabled
          loading,        \* courseDesignLoading
          edits,          \* changes so far
          keptFiles       \* ghost: [calendar -> changes saved in it]

calendarState == << files, progress, page, loads, save, actual, locked, loading, edits,
                    keptFiles >>
calendarVars == << calendarState, faults >>

LoadKinds == {"boot", "user"}
AnyDesign == CHOOSE d \in Designs : TRUE

CalendarInit ==
    /\ files \in [CalendarIds -> {None, {}}]
    /\ progress = [d \in Designs |-> {}]
    /\ page = [content |-> {}, rev |-> None, name |-> None, design |-> AnyDesign, seen |-> None]
    /\ loads = [s \in LoadKinds |-> IF s = "boot" THEN [kind |-> "start"] ELSE None]
    /\ save = None /\ actual = None
    /\ locked = FALSE /\ loading = FALSE
    /\ edits = 0
    /\ keptFiles = [c \in CalendarIds |-> {}]
    /\ faults = 0

-----------------------------------------------------------------------------
(* Requests and their counters. *)

Waits(r) == r # None /\ r.kind # "start"
CalMoved(r) == IF Waits(r) THEN [r EXCEPT !.cal = FALSE] ELSE r
CourseMoved(r) == IF Waits(r) THEN [r EXCEPT !.course = FALSE] ELSE r

Load(kind, name, design) ==
    [kind |-> kind, name |-> name, design |-> design, cal |-> TRUE, course |-> TRUE,
     state |-> "sent", got |-> None, seen |-> None]

setCalendarInteractionLocked(b) == locked' = b

\* loadCalendarByName starts in slot s: both counters move.
StartsCalendar(s, c) ==
    /\ loads' = [k \in LoadKinds |-> IF k = s THEN Load("calendar", c, None)
                                 ELSE CalMoved(CourseMoved(loads[k]))]
    /\ save' = CalMoved(save)
    /\ actual' = CalMoved(CourseMoved(actual))

\* loadCourseDesign starts in slot s for design d: the design's counter moves, and the
\* calendar's too when the teacher changed the design.
StartsDesign(s, d, changed) ==
    LET moved(r) == IF changed THEN CalMoved(CourseMoved(r)) ELSE CourseMoved(r) IN
    /\ loads' = [k \in LoadKinds |-> IF k = s THEN Load("design", None, d) ELSE moved(loads[k])]
    /\ save' = IF changed THEN CalMoved(save) ELSE save
    /\ actual' = moved(actual)

-----------------------------------------------------------------------------
(* The teacher and other sessions. *)

edit_calendar ==
    /\ ~locked
    /\ edits < MaxEdit
    /\ edits' = edits + 1
    /\ page' = [page EXCEPT !.content = @ \cup {edits'}]
    /\ UNCHANGED <<files, progress, loads, save, actual, locked, loading, keptFiles, faults>>

other_session(c) ==
    /\ files[c] # None
    /\ edits < MaxEdit
    /\ edits' = edits + 1
    /\ files' = [files EXCEPT ![c] = @ \cup {edits'}]
    /\ keptFiles' = [keptFiles EXCEPT ![c] = @ \cup {edits'}]
    /\ UNCHANGED <<progress, page, loads, save, actual, locked, loading, faults>>

-----------------------------------------------------------------------------
(* Loading. *)

\* The lists have arrived: the active calendar is loaded, or an empty one is shown.
loadCalendarForActiveCourseDesign ==
    /\ loads["boot"] # None /\ loads["boot"].kind = "start"
    /\ setCalendarInteractionLocked(TRUE) /\ loading' = TRUE
    /\ \/ /\ \E c \in CalendarIds : files[c] # None /\ StartsCalendar("boot", c)
          /\ page' = page
       \/ /\ StartsDesign("boot", page.design, FALSE)
          /\ page' = [page EXCEPT !.content = {}, !.rev = None, !.name = None]
    /\ UNCHANGED <<files, progress, edits, keptFiles, faults>>

loadSelectedCalendar(c) ==
    /\ ~locked /\ loads["user"] = None
    /\ files[c] # None
    /\ setCalendarInteractionLocked(TRUE) /\ loading' = TRUE
    /\ StartsCalendar("user", c)
    /\ UNCHANGED <<files, progress, page, edits, keptFiles, faults>>

courseDesignSelect(d) ==
    /\ ~locked /\ loads["user"] = None
    /\ d # page.design
    /\ page' = [page EXCEPT !.design = d]
    /\ setCalendarInteractionLocked(TRUE) /\ loading' = TRUE
    /\ StartsDesign("user", d, TRUE)
    /\ UNCHANGED <<files, progress, edits, keptFiles, faults>>

\* The calendar is read, then the context of its design (one request each); a
\* calendar is shown without its design when only the second one fails.
read_school_calendar(s) ==
    /\ Waits(loads[s]) /\ loads[s].kind = "calendar" /\ loads[s].state = "sent"
    /\ \E d \in Designs :
         loads' = [loads EXCEPT ![s].state = "context", ![s].got = files[loads[s].name],
                                ![s].design = d]
    /\ UNCHANGED <<files, progress, page, save, actual, locked, loading, edits, keptFiles, faults>>

course_calendar_context(s) ==
    /\ Waits(loads[s])
    /\ loads[s].state = IF loads[s].kind = "design" THEN "sent" ELSE "context"
    /\ loads[s].kind = "calendar" => loads[s].got # None
    /\ \/ NoFault /\ loads' = [loads EXCEPT ![s].state = "answered",
                                            ![s].seen = progress[loads[s].design]]
       \/ /\ Fault(CalendarFaults) /\ loads[s].kind = "calendar"
          /\ loads' = [loads EXCEPT ![s].state = "answered"]
    /\ UNCHANGED <<files, progress, page, save, actual, locked, loading, edits, keptFiles>>

Unlocks ==
    /\ setCalendarInteractionLocked(FALSE)
    /\ loading' = FALSE

\* A later request owns the page: the answer, or the failure, is ignored.
loadIsStale(s) ==
    LET r == loads[s] IN
    /\ Waits(r)
    /\ r.state = "answered" \/ (r.state = "context" /\ r.kind = "calendar")
    /\ ~r.course \/ (r.kind = "calendar" /\ ~r.cal)
    /\ loads' = [loads EXCEPT ![s] = None]
    /\ UNCHANGED <<files, progress, page, save, actual, locked, loading, edits, keptFiles, faults>>

loadCalendarByName(s) ==
    LET r == loads[s] IN
    /\ Waits(r) /\ r.kind = "calendar" /\ r.state = "answered"
    /\ r.cal /\ r.course
    /\ page' = [content |-> r.got, rev |-> r.got, name |-> r.name, design |-> r.design,
                seen |-> r.seen]
    /\ Unlocks
    /\ loads' = [loads EXCEPT ![s] = None]
    /\ UNCHANGED <<files, progress, save, actual, edits, keptFiles, faults>>

\* The design's answer; it is dropped when the calendar names another design by now.
loadCourseDesign(s) ==
    LET r == loads[s] IN
    /\ Waits(r) /\ r.kind = "design" /\ r.state = "answered"
    /\ r.course
    /\ page' = IF page.design = r.design THEN [page EXCEPT !.seen = r.seen] ELSE page
    /\ Unlocks
    /\ loads' = [loads EXCEPT ![s] = None]
    /\ UNCHANGED <<files, progress, save, actual, edits, keptFiles, faults>>

\* The request that moved the counters last owns the page.
Owns(r) == Waits(r) /\ r.course /\ (r.kind = "calendar" => r.cal)

\* The page is given back by the request that owns it.
FailureUnlocks(r) == Owns(r)

\* A request fails, or the calendar is gone.
loadFailed(s) ==
    LET r == loads[s] IN
    /\ Waits(r)
    /\ \/ r.state = "sent" /\ Fault(CalendarFaults)
       \/ r.state = "context" /\ r.got = None /\ NoFault
    /\ IF FailureUnlocks(r) THEN Unlocks ELSE UNCHANGED <<locked, loading>>
    /\ page' = IF r.kind = "design" /\ r.course /\ page.design = r.design
               THEN [page EXCEPT !.seen = None] ELSE page
    /\ loads' = [loads EXCEPT ![s] = None]
    /\ UNCHANGED <<files, progress, save, actual, edits, keptFiles>>

-----------------------------------------------------------------------------
(* Saving the calendar under the name in the file field. *)

saveCalendar(c) ==
    /\ ~locked /\ ~loading /\ save = None
    /\ save' = [kind |-> "save", name |-> c, content |-> page.content, cal |-> TRUE, course |-> TRUE,
                expected |-> IF c = page.name THEN page.rev ELSE None, state |-> "sent"]
    /\ loads' = [s \in LoadKinds |-> CalMoved(loads[s])]
    /\ actual' = CalMoved(actual)
    /\ setCalendarInteractionLocked(TRUE)
    /\ UNCHANGED <<files, progress, page, loading, edits, keptFiles, faults>>

write_school_calendar_cas ==
    /\ save # None /\ save.state = "sent"
    /\ IF files[save.name] = save.expected
       THEN /\ files' = [files EXCEPT ![save.name] = save.content]
            /\ keptFiles' = [keptFiles EXCEPT ![save.name] = @ \cup save.content]
            /\ save' = [save EXCEPT !.state = "answered"]
       ELSE /\ save' = [save EXCEPT !.state = "refused"]
            /\ UNCHANGED <<files, keptFiles>>
    /\ UNCHANGED <<progress, page, loads, actual, locked, loading, edits, faults>>

\* Mutant of Taken: the revision is taken before the request is known to be the last.
MutTaken(p) ==
    IF save.cal THEN [p EXCEPT !.content = save.content, !.rev = save.content, !.name = save.name]
    ELSE [p EXCEPT !.rev = save.content]

\* What the page takes from the answer of a save.
Taken(p) ==
    IF save.cal THEN [p EXCEPT !.content = save.content, !.rev = save.content, !.name = save.name]
    ELSE p

saveAnswered ==
    /\ save # None /\ save.state \in {"answered", "refused"}
    /\ page' = IF save.state = "answered" THEN Taken(page) ELSE page
    /\ save' = None
    /\ setCalendarInteractionLocked(FALSE)
    /\ UNCHANGED <<files, progress, loads, actual, loading, edits, keptFiles, faults>>

saveLost ==
    /\ Fault(CalendarFaults)
    /\ save # None /\ save.state = "answered"
    /\ save' = None
    /\ setCalendarInteractionLocked(FALSE)
    /\ UNCHANGED <<files, progress, page, loads, actual, loading, edits, keptFiles>>

-----------------------------------------------------------------------------
(* Recording the progress of a unit: the controls stay enabled. *)

saveActualProgress ==
    /\ ~locked /\ actual = None
    /\ page.seen # None
    /\ edits < MaxEdit
    /\ edits' = edits + 1
    /\ actual' = [kind |-> "actual", design |-> page.design, expected |-> page.seen,
                  content |-> page.seen \cup {edits'}, cal |-> TRUE, course |-> TRUE,
                  state |-> "sent"]
    /\ UNCHANGED <<files, progress, page, loads, save, locked, loading, keptFiles, faults>>

update_course_uda_actual ==
    /\ actual # None /\ actual.state = "sent"
    /\ IF progress[actual.design] = actual.expected
       THEN /\ progress' = [progress EXCEPT ![actual.design] = actual.content]
            /\ actual' = [actual EXCEPT !.state = "answered"]
       ELSE /\ actual' = [actual EXCEPT !.state = "refused"]
            /\ progress' = progress
    /\ UNCHANGED <<files, page, loads, save, locked, loading, edits, keptFiles, faults>>

actualAnswered ==
    /\ actual # None /\ actual.state \in {"answered", "refused"}
    /\ page' = IF /\ actual.state = "answered" /\ actual.cal /\ actual.course
                  /\ actual.design = page.design
               THEN [page EXCEPT !.seen = actual.content] ELSE page
    /\ actual' = None
    /\ UNCHANGED <<files, progress, loads, save, locked, loading, edits, keptFiles, faults>>

-----------------------------------------------------------------------------
CalendarNext ==
    \/ edit_calendar
    \/ \E c \in CalendarIds : other_session(c) \/ loadSelectedCalendar(c) \/ saveCalendar(c)
    \/ loadCalendarForActiveCourseDesign
    \/ \E d \in Designs : courseDesignSelect(d)
    \/ \E s \in LoadKinds : \/ read_school_calendar(s) \/ course_calendar_context(s)
                        \/ loadIsStale(s) \/ loadCalendarByName(s) \/ loadCourseDesign(s)
                        \/ loadFailed(s)
    \/ write_school_calendar_cas \/ saveAnswered \/ saveLost
    \/ saveActualProgress \/ update_course_uda_actual \/ actualAnswered

CalendarSpec == CalendarInit /\ [][CalendarNext]_calendarVars

-----------------------------------------------------------------------------
\* A calendar saved by any session keeps its changes: this page never writes over a
\* calendar that it has not loaded, whichever load or save was answered in between.
SavedCalendarSurvives == \A c \in CalendarIds : files[c] # None => keptFiles[c] \subseteq files[c]

\* The controls come back: whenever they are disabled, or the page believes that a
\* design is loading, a request is waiting whose end enables them again.
PageComesBack ==
    /\ loading => \E s \in LoadKinds : Owns(loads[s])
    /\ locked => save # None \/ \E s \in LoadKinds : Owns(loads[s])

\* Both together: late answers neither overwrite a calendar nor leave the page
\* locked.
CalendarSurvivesLateAnswers == SavedCalendarSurvives /\ PageComesBack

=============================================================================
