------------------------------ MODULE Assigning ------------------------------
(***************************************************************************)
(* Assigning an activity: the confirmation step of the dashboard's wizard  *)
(* and the routes behind it.  The teacher fills a form, saves it as an      *)
(* assignment record and distributes it to the repositories.  Every change  *)
(* of the form takes the confirmation back; answers of the server arrive    *)
(* while the form is being changed, by the teacher or by a class roster     *)
(* that was asked for earlier.  The routes run under the course storage     *)
(* lock and are single steps here; the files a distribution writes are the  *)
(* subject of Scaffold, the removal of a record of AssignmentDeletion.      *)
(***************************************************************************)
EXTENDS Faults

CONSTANTS
    Activities,     \* activity files
    Labels,         \* class and dates of a form
    Targets,        \* paths of student repositories
    StudentOf,      \* StudentOf[r]: student id, the last part of the path
    Roster,         \* Roster[l]: the targets of class l
    Pages,          \* open dashboards
    AssigningFaults \* bound on lost answers and broken distributions

ASSUME RosterAssumption == Roster \in [Labels -> SUBSET Targets]

VARIABLES
    active,         \* activities that exist and are the active revision
    recordOf,        \* records[i]: the form stored under id i, or None
    present,        \* present[r]: activities whose consegna is in repository r
    page            \* the wizard of each open dashboard

assigningState == << active, recordOf, present, page >>
assigningVars == << assigningState, faults >>

Forms == [activity : Activities, label : Labels, targets : SUBSET Targets]

Ids == Activities \X Labels

build_assignment_id(form) == << form.activity, form.label >>

NoRequest == [kind |-> "none", form |-> None, id |-> None, pc |-> "none", fresh |-> FALSE]

\* confirm: the request of the save and distribute buttons; delete: the one
\* of the delete button; rosters: class rosters asked for; stored and sent: the
\* forms whose answers confirmed the page.
AssigningInit ==
    /\ active = Activities
    /\ recordOf = [i \in Ids |-> None]
    /\ present = [r \in Targets |-> {}]
    /\ \E a \in Activities, l \in Labels :
          page = [p \in Pages |-> [form |-> [activity |-> a, label |-> l, targets |-> {}],
                                   recordSaved |-> FALSE, distributed |-> FALSE,
                                   listed |-> {}, chosen |-> None,
                                   confirm |-> NoRequest, delete |-> NoRequest, rosters |-> {},
                                   stored |-> None, sent |-> None]]
    /\ faults = 0

---------------------------------------------------------------------------
\* The form.

\* The confirmation is taken back, and an answer that is still out will not
\* restore it (its confirmation revision is no longer the page's).
resetAssignmentConfirmStatus(w) ==
    [w EXCEPT !.recordSaved = FALSE, !.distributed = FALSE, !.confirm.fresh = FALSE,
              !.confirm.form = IF w.confirm.pc = "ok" THEN None ELSE @,
              !.stored = None, !.sent = None]

Becomes(p, w) ==
    /\ page' = [page EXCEPT ![p] = w]
    /\ NoFault
    /\ UNCHANGED << active, recordOf, present >>

\* The teacher changes activity, class, dates or targets.
change(p, form) ==
    /\ form # page[p].form
    /\ Becomes(p, resetAssignmentConfirmStatus([page[p] EXCEPT !.form = form, !.chosen = None]))

\* An activity picked from the coverage table leaves the chosen assignment.
selectCoverageActivity(p, a) ==
    Becomes(p, resetAssignmentConfirmStatus([page[p] EXCEPT !.form.activity = a]))

\* A stored assignment fills the form from the page's own list of records.
applyAssignmentToGenerateForm(p, form) ==
    /\ form \in page[p].listed
    /\ Becomes(p, resetAssignmentConfirmStatus(
                     [page[p] EXCEPT !.form = form, !.chosen = build_assignment_id(form)]))

loadSelectedClassRoster(p, l) ==
    /\ l \notin page[p].rosters
    /\ Becomes(p, [page[p] EXCEPT !.rosters = @ \cup {l}])

\* The roster arrives, whichever was asked for last, and fills the form.
applyRosterToGenerateForm(p, l) ==
    /\ l \in page[p].rosters
    /\ Becomes(p, resetAssignmentConfirmStatus(
                     [page[p] EXCEPT !.rosters = @ \ {l}, !.chosen = None,
                                     !.form.label = l, !.form.targets = Roster[l]]))

---------------------------------------------------------------------------
\* The buttons.

Busy(p) == page[p].confirm # NoRequest

validateAssignmentBeforeConfirm(p) == page[p].form.targets # {}

Asking(kind, form, id) == [kind |-> kind, form |-> form, id |-> id, pc |-> "sent", fresh |-> TRUE]

\* A save takes a former confirmation back; the button stays disabled once the
\* form is distributed.
saveAssignmentRecord(p) ==
    /\ ~Busy(p)
    /\ ~page[p].distributed
    /\ validateAssignmentBeforeConfirm(p)
    /\ Becomes(p, [page[p] EXCEPT !.recordSaved = FALSE, !.distributed = FALSE,
                                  !.stored = None, !.sent = None,
                                  !.confirm = Asking("save", page[p].form, None)])

distributeAssignment(p) ==
    /\ ~Busy(p)
    /\ page[p].recordSaved /\ ~page[p].distributed
    /\ validateAssignmentBeforeConfirm(p)
    /\ Becomes(p, [page[p] EXCEPT !.confirm = Asking("distribute", page[p].form, None)])

deleteSelectedAssignment(p) ==
    /\ page[p].chosen # None
    /\ page[p].delete = NoRequest
    /\ Becomes(p, [page[p] EXCEPT !.delete = Asking("delete", None, page[p].chosen)])

---------------------------------------------------------------------------
\* The server.

\* Every student of a record has one repository.
assignment_target_bindings(form) ==
    {<< StudentOf[r], r >> : r \in form.targets}

Ambiguous(bindings) == \E b, c \in bindings : b[1] = c[1] /\ b[2] # c[2]

\* A student id is bound to the same repository by all records but the one the
\* form would replace.
validate_global_assignment_target_bindings(form) ==
    \A i \in Ids \ {build_assignment_id(form)} :
        recordOf[i] # None =>
            ~Ambiguous(assignment_target_bindings(form) \cup assignment_target_bindings(recordOf[i]))

CanSave(form, overwrite) ==
    LET old == recordOf[build_assignment_id(form)]
    IN /\ old = None => form.activity \in active
       /\ ~overwrite => form.activity \in active /\ old = None
       /\ form.targets # {}
       /\ ~Ambiguous(assignment_target_bindings(form))
       /\ validate_global_assignment_target_bindings(form)
       /\ old # None => assignment_target_bindings(old) = assignment_target_bindings(form)

\* The page keeps the form it asked for only as long as the answer may confirm it.
Finish(p, pc) ==
    page' = [page EXCEPT ![p].confirm.pc = pc,
                         ![p].confirm.form = IF pc = "ok" /\ page[p].confirm.fresh THEN @ ELSE None]

save_assignment_record(p) ==
    LET form == page[p].confirm.form
    IN /\ page[p].confirm.kind = "save" /\ page[p].confirm.pc = "sent"
       /\ \/ /\ CanSave(form, FALSE)
             /\ recordOf' = [recordOf EXCEPT ![build_assignment_id(form)] = form]
             /\ Finish(p, "ok")
          \/ ~CanSave(form, FALSE) /\ Finish(p, "error") /\ UNCHANGED << recordOf >>
       /\ NoFault
       /\ UNCHANGED << active, present >>

\* Another client of the route, which may ask to overwrite.
save_elsewhere(form) ==
    /\ CanSave(form, TRUE)
    /\ recordOf' = [recordOf EXCEPT ![build_assignment_id(form)] = form]
    /\ NoFault
    /\ UNCHANGED << active, present, page >>

\* A distribution without --force: refused when one of the targets holds the
\* consegna already; when it breaks off the targets done so far keep it.
distribute_activity_assignment(p) ==
    LET form == page[p].confirm.form
        ready == form.activity \in active /\ \A r \in form.targets : form.activity \notin present[r]
        With(targets) == [r \in Targets |-> IF r \in targets THEN present[r] \cup {form.activity} ELSE present[r]]
    IN /\ page[p].confirm.kind = "distribute" /\ page[p].confirm.pc = "sent"
       /\ \/ ready /\ present' = With(form.targets) /\ Finish(p, "ok") /\ NoFault
          \/ /\ ready
             /\ \E done \in SUBSET form.targets : present' = With(done)
             /\ Finish(p, "error")
             /\ Fault(AssigningFaults)
          \/ ~ready /\ Finish(p, "error") /\ NoFault /\ UNCHANGED << present >>
       /\ UNCHANGED << active, recordOf >>

delete_assignment(p) ==
    /\ page[p].delete.pc = "sent"
    /\ recordOf' = [recordOf EXCEPT ![page[p].delete.id] = None]
    /\ page' = [page EXCEPT ![p].delete.pc = "ok"]
    /\ NoFault
    /\ UNCHANGED << active, present >>

\* An activity that no record names is deleted, or replaced by a revision.
retire(a) ==
    /\ \A i \in Ids : recordOf[i] # None => i[1] # a
    /\ active' = active \ {a}
    /\ a \in active
    /\ NoFault
    /\ UNCHANGED << recordOf, present, page >>

---------------------------------------------------------------------------
\* The answers.

Listed == {recordOf[i] : i \in {j \in Ids : recordOf[j] # None}}

\* Mutant of confirmedForm: the revision is not compared.
MutConfirmed(p) ==
    LET w == page[p]
        done == [w EXCEPT !.confirm = NoRequest]
    IN /\ w.confirm.pc = "ok"
       /\ \/ w.confirm.kind = "save" /\ Becomes(p, [done EXCEPT !.stored = w.confirm.form, !.listed = Listed, !.chosen = None, !.recordSaved = TRUE, !.distributed = FALSE])
          \/ w.confirm.kind = "distribute" /\ Becomes(p, [done EXCEPT !.sent = w.confirm.form, !.distributed = TRUE])

\* An answered save or distribution confirms the form it was sent for, and
\* only while the page still shows it.
confirmedForm(p) ==
    LET w == page[p]
        done == [w EXCEPT !.confirm = NoRequest]
    IN /\ w.confirm.pc = "ok"
       /\ \/ /\ w.confirm.kind = "save"
             /\ Becomes(p, [done EXCEPT !.listed = Listed, !.chosen = None,
                                        !.stored = IF w.confirm.fresh THEN w.confirm.form ELSE @,
                                        !.recordSaved = @ \/ w.confirm.fresh,
                                        !.distributed = @ /\ ~w.confirm.fresh])
          \/ /\ w.confirm.kind = "distribute"
             /\ Becomes(p, [done EXCEPT !.sent = IF w.confirm.fresh THEN w.confirm.form ELSE @,
                                        !.distributed = @ \/ w.confirm.fresh])

\* A refused request, or an answer that is lost after the work was done.
notConfirmed(p) ==
    /\ \/ page[p].confirm.pc = "error" /\ NoFault
       \/ page[p].confirm.pc = "ok" /\ Fault(AssigningFaults)
    /\ page' = [page EXCEPT ![p].confirm = NoRequest]
    /\ UNCHANGED << active, recordOf, present >>

deleted(p) ==
    /\ page[p].delete.pc = "ok"
    /\ Becomes(p, resetAssignmentConfirmStatus(
                     [page[p] EXCEPT !.delete = NoRequest, !.chosen = None, !.listed = Listed]))

AssigningNext ==
    \/ \E p \in Pages, form \in Forms : change(p, form)
    \/ \E p \in Pages, a \in Activities : selectCoverageActivity(p, a)
    \/ \E p \in Pages : \E form \in page[p].listed : applyAssignmentToGenerateForm(p, form)
    \/ \E p \in Pages, l \in Labels : loadSelectedClassRoster(p, l) \/ applyRosterToGenerateForm(p, l)
    \/ \E p \in Pages : saveAssignmentRecord(p) \/ distributeAssignment(p) \/ deleteSelectedAssignment(p)
    \/ \E p \in Pages : save_assignment_record(p) \/ distribute_activity_assignment(p) \/ delete_assignment(p)
    \/ \E form \in Forms : save_elsewhere(form)
    \/ \E a \in Activities : retire(a)
    \/ \E p \in Pages : confirmedForm(p) \/ notConfirmed(p) \/ deleted(p)

AssigningSpec == AssigningInit /\ [][AssigningNext]_assigningVars

---------------------------------------------------------------------------
\* What the page calls saved or distributed is the form it shows: neither a
\* late answer nor a roster that arrives late leaves a confirmation standing
\* beside another form, so that what is distributed is what was stored.
ConfirmedIsCurrent ==
    \A p \in Pages :
        /\ page[p].recordSaved => page[p].form = page[p].stored
        /\ page[p].distributed => page[p].form = page[p].sent

\* Two stored assignments never bind one student to two repositories, also
\* when a record is overwritten or deleted and created again.
OneRepositoryPerStudent ==
    ~Ambiguous(UNION {assignment_target_bindings(form) : form \in Listed})

\* Both together: what was confirmed, stored and bound is one assignment.
AssignmentsAreConsistent == ConfirmedIsCurrent /\ OneRepositoryPerStudent

=============================================================================
