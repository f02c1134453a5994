------------------------------ MODULE Registers ------------------------------
(***************************************************************************)
(* The delivery registers of the teacher and the page that shows them.  A  *)
(* register is a JSON file with one row per student (one is enough here):   *)
(* the report or delivery it is about and the AI feedback the teacher       *)
(* approves or rejects.  It is written by the server's generate and review  *)
(* routes, which hold a lock per register, and by the command line of       *)
(* manual_ai_feedback.py, which holds none.  Every open page keeps the      *)
(* register it shows, a load revision, and requests whose answers come back *)
(* in any order or not at all.                                              *)
(***************************************************************************)
EXTENDS Faults

CONSTANTS
    Names,          \* register files
    Tabs,           \* open dashboard pages
    Calls,          \* requests of the pages in flight
    Decisions,      \* the teacher's decisions: approve, reject, reopen
    MaxPackage,     \* bound on the packages the student delivers
    MaxWrite,       \* bound on writes of registers and failures together
    RegisterFaults  \* bound on lost answers and broken writes

VARIABLES
    delivering,     \* the server archives deliveries (else it reads repositories)
    received,       \* number of the last package the student delivered, 0: none
    selected,       \* the package history["final"] or the last item names
    register,       \* register[n]: the file, or None
    courseLock,     \* the generate that holds the course storage lock, or None
    reportLock,     \* reportLock[n]: the call that holds n's lock, or None
    call,           \* call[c]: a request and how far the server is with it
    tab,            \* what each page shows
    cli,            \* the register a command has read and will write, or None
    writes          \* writes so far: every stored row has its own number

registerState == << delivering, received, selected, register, courseLock, reportLock, call,
                    tab, cli, writes >>
registerVars == << registerState, faults >>

\* A row of a register, as it is stored, computed or shown.
ReportRows ==
    [package : Nat, status : {"missing", "submitted", "unbound", "unknown"},
     feedback : [status : {"not_generated", "draft", "approved", "rejected"}, on : Nat],
     whole : BOOLEAN, write : Nat]

ASSUME NoneIsNoRow == None \notin ReportRows

Placeholder == [status |-> "not_generated", on |-> 0]

NoCall == [kind |-> "none", tab |-> None, name |-> None, pc |-> "free", fresh |-> FALSE,
           requested |-> FALSE, decision |-> "none", row |-> None, before |-> None]

Blank == [select |-> None, name |-> None, shown |-> None, pending |-> FALSE, generating |-> FALSE]

\* A register of an earlier session: nothing was delivered, and an answer of
\* the AI has been pasted.
Unsent == [package |-> 0, status |-> "missing", feedback |-> [status |-> "draft", on |-> 0],
           whole |-> TRUE, write |-> 0]

RegisterInit ==
    /\ delivering \in BOOLEAN
    /\ received = 0
    /\ selected = 0
    /\ \/ register = [n \in Names |-> None]
       \/ register = [n \in Names |-> Unsent]
    /\ courseLock = None
    /\ reportLock = [n \in Names |-> None]
    /\ call = [c \in Calls |-> NoCall]
    /\ tab = [t \in Tabs |-> Blank]
    /\ cli = None
    /\ writes = 0
    /\ faults = 0

Readable(row) == row # None /\ row.whole

---------------------------------------------------------------------------
\* What a row is about.

\* The delivery mode: the archived receipt, or nothing received yet.  The
\* feedback starts over with every projection.
apply_delivery_to_student ==
    [package |-> selected, status |-> IF selected = 0 THEN "missing" ELSE "submitted"]

\* A remote result as tracking takes it: a binding that cannot be verified is
\* an error, never an absent binding.
canonical_tracking_report_result(remote) ==
    CASE remote = "unbound" -> "unbound"
      [] remote = "verified" -> "submitted"
      [] OTHER -> "unknown"

\* The student's selection in the repository: a usable final attempt, or a
\* marker that resolves to nothing and hides the other reports.
selected_final_report(final) == IF final = "attempt" THEN "submitted" ELSE "missing"

\* The status of the repository mode: the bound run, else the final attempt,
\* else the assignment's latest, else the activity's shared report when it
\* can belong to one assignment only.
Tracked(remote, final, latest, legacy) ==
    CASE remote # "unbound" -> canonical_tracking_report_result(remote)
      [] final # "absent" -> selected_final_report(final)
      [] latest \/ legacy = "this assignment" -> "submitted"
      [] OTHER -> "missing"

\* The rows tracking may compute now.
track_assignments ==
    IF delivering
    THEN {apply_delivery_to_student}
    ELSE {[package |-> 0, status |-> Tracked(remote, final, latest, legacy)] :
             remote \in {"unbound", "verified", "unverified"},
             final \in {"absent", "attempt", "broken"},
             latest \in BOOLEAN,
             legacy \in {"absent", "this assignment", "ambiguous"}}

\* Mutant of preserve_assignment_ai_feedback: the digests are not compared.
MutPreserve(previous, row) ==
    IF previous.feedback.status # "not_generated"
    THEN previous.feedback
    ELSE Placeholder

\* The feedback a regenerated row keeps: with deliveries, only beside the same
\* package, which an empty history does not have.
preserve_assignment_ai_feedback(previous, row) ==
    IF /\ delivering => row.package # 0 /\ previous.package = row.package
       /\ previous.feedback.status # "not_generated"
    THEN previous.feedback
    ELSE Placeholder

\* The decisions a feedback accepts, and the feedback after one.  on is the
\* package the row held when the decision was made.
Accepts(feedback, decision) ==
    \/ decision \in {"approve", "reject"} /\ feedback.status = "draft"
    \/ decision = "reopen" /\ feedback.status \in {"approved", "rejected"}

review_feedback_in_register(row, decision) ==
    [row EXCEPT !.feedback =
        CASE decision = "approve" -> [status |-> "approved", on |-> row.package]
          [] decision = "reject" -> [status |-> "rejected", on |-> row.package]
          [] OTHER -> [status |-> "draft", on |-> 0]]

\* A pasted answer replaces whatever feedback the row had by a draft.
apply_feedback_to_register(row) == [row EXCEPT !.feedback = [status |-> "draft", on |-> 0]]

Stamped(row) == [row EXCEPT !.write = writes + 1]

---------------------------------------------------------------------------
\* The student.

deliver ==
    /\ delivering
    /\ received < MaxPackage
    /\ received' = received + 1
    /\ selected' = received + 1
    /\ NoFault
    /\ UNCHANGED << delivering, register, courseLock, reportLock, call, tab, cli, writes >>

select_final(k) ==
    /\ k \in 1 .. received
    /\ selected' = k
    /\ NoFault
    /\ UNCHANGED << delivering, received, register, courseLock, reportLock, call, tab, cli, writes >>

---------------------------------------------------------------------------
\* The page: requests.

Send(c, request) == call[c] = NoCall /\ call' = [call EXCEPT ![c] = request]

\* The page counts its load revision up: what it asked before is out of date.
\* (A request keeps whether the revision is still its own.)
invalidateReportLoads(calls, t) ==
    [c \in Calls |-> IF calls[c].tab = t THEN [calls[c] EXCEPT !.fresh = FALSE] ELSE calls[c]]

SendLast(c, t, request) ==
    /\ call[c] = NoCall
    /\ call' = [invalidateReportLoads(call, t) EXCEPT ![c] = [request EXCEPT !.fresh = TRUE]]

\* A change of the selection, the load button, or a row of the class overview:
\* the page asks for a register under a new load revision.
load(t, c, n, requested) ==
    /\ tab' = [tab EXCEPT ![t].select = n]
    /\ SendLast(c, t, [NoCall EXCEPT !.kind = "load", !.tab = t, !.name = n, !.pc = "sent",
                                     !.requested = requested])
    /\ NoFault
    /\ UNCHANGED << delivering, received, selected, register, courseLock, reportLock, cli, writes >>

\* An empty selection only clears the page.
deselect(t) ==
    /\ tab[t].select # None
    /\ tab' = [tab EXCEPT ![t] = [@ EXCEPT !.select = None, !.name = None, !.shown = None]]
    /\ call' = invalidateReportLoads(call, t)
    /\ NoFault
    /\ UNCHANGED << delivering, received, selected, register, courseLock, reportLock, cli, writes >>

generate(t, c, n) ==
    /\ ~tab[t].generating
    /\ tab' = [tab EXCEPT ![t].generating = TRUE]
    /\ Send(c, [NoCall EXCEPT !.kind = "generate", !.tab = t, !.name = n, !.pc = "sent"])
    /\ NoFault
    /\ UNCHANGED << delivering, received, selected, register, courseLock, reportLock, cli, writes >>

\* A decision is sent only for the register that is both shown and selected,
\* one at a time; loads that are still out are given up.
review_delivery(t, c, d) ==
    /\ tab[t].name # None
    /\ tab[t].select = tab[t].name
    /\ ~tab[t].pending
    /\ Readable(tab[t].shown) /\ Accepts(tab[t].shown.feedback, d)
    /\ tab' = [tab EXCEPT ![t].pending = TRUE]
    /\ SendLast(c, t, [NoCall EXCEPT !.kind = "review", !.tab = t, !.name = tab[t].name, !.pc = "sent",
                                     !.decision = d])
    /\ NoFault
    /\ UNCHANGED << delivering, received, selected, register, courseLock, reportLock, cli, writes >>

---------------------------------------------------------------------------
\* The server.

Serve(c, kind, pc) == call[c].kind = kind /\ call[c].pc = pc

Reply(c, row) == call' = [call EXCEPT ![c].pc = IF Readable(row) THEN "ok" ELSE "error",
                                      ![c].row = IF Readable(row) THEN row ELSE None,
                                      ![c].before = None]

read_assignment_report(c) ==
    /\ Serve(c, "load", "sent")
    /\ Reply(c, register[call[c].name])
    /\ NoFault
    /\ UNCHANGED << delivering, received, selected, register, courseLock, reportLock, tab, cli, writes >>

\* generate: the course lock, then the rows, computed before the register's own
\* lock is taken.
track(c) ==
    /\ Serve(c, "generate", "sent")
    /\ courseLock = None
    /\ courseLock' = c
    /\ \E row \in track_assignments :
          call' = [call EXCEPT ![c].pc = "tracked",
                               ![c].row = [package |-> row.package, status |-> row.status,
                                           feedback |-> Placeholder, whole |-> TRUE, write |-> 0]]
    /\ NoFault
    /\ UNCHANGED << delivering, received, selected, register, reportLock, tab, cli, writes >>

\* Under the register's lock: the previous register is read.  One that cannot
\* be read fails the request.
read_previous(c) ==
    LET n == call[c].name
    IN /\ Serve(c, "generate", "tracked")
       /\ reportLock[n] = None
       /\ \/ /\ register[n] # None => register[n].whole
             /\ reportLock' = [reportLock EXCEPT ![n] = c]
             /\ call' = [call EXCEPT ![c].pc = "writing", ![c].before = register[n]]
             /\ UNCHANGED courseLock
          \/ /\ register[n] # None /\ ~register[n].whole
             /\ Reply(c, None)
             /\ courseLock' = None
             /\ UNCHANGED reportLock
       /\ NoFault
       /\ UNCHANGED << delivering, received, selected, register, tab, cli, writes >>

\* The file is rewritten in place; a write that breaks off leaves a file that
\* is not JSON.
write_tracking_index(c) ==
    LET n == call[c].name
        fresh == call[c].row
        before == call[c].before
        row == Stamped([fresh EXCEPT !.feedback =
                   IF before = None THEN @ ELSE preserve_assignment_ai_feedback(before, fresh)])
    IN /\ Serve(c, "generate", "writing")
       /\ writes + faults < MaxWrite
       /\ writes' = writes + 1
       /\ \/ register' = [register EXCEPT ![n] = row] /\ Reply(c, row) /\ NoFault
          \/ register' = [register EXCEPT ![n] = [row EXCEPT !.whole = FALSE]] /\ Reply(c, None) /\ Fault(RegisterFaults)
       /\ reportLock' = [reportLock EXCEPT ![n] = None]
       /\ courseLock' = None
       /\ UNCHANGED << delivering, received, selected, tab, cli >>

\* The review route: read under the register's lock, then written under it.
read_for_review(c) ==
    LET n == call[c].name
    IN /\ Serve(c, "review", "sent")
       /\ reportLock[n] = None
       /\ \/ /\ Readable(register[n]) /\ Accepts(register[n].feedback, call[c].decision)
             /\ reportLock' = [reportLock EXCEPT ![n] = c]
             /\ call' = [call EXCEPT ![c].pc = "writing", ![c].before = register[n]]
          \/ /\ ~(Readable(register[n]) /\ Accepts(register[n].feedback, call[c].decision))
             /\ Reply(c, None)
             /\ UNCHANGED reportLock
       /\ NoFault
       /\ UNCHANGED << delivering, received, selected, register, courseLock, tab, cli, writes >>

review_assignment_ai_feedback(c) ==
    LET n == call[c].name
        row == Stamped(review_feedback_in_register(call[c].before, call[c].decision))
    IN /\ Serve(c, "review", "writing")
       /\ writes + faults < MaxWrite
       /\ writes' = writes + 1
       /\ register' = [register EXCEPT ![n] = row]
       /\ Reply(c, row)
       /\ reportLock' = [reportLock EXCEPT ![n] = None]
       /\ NoFault
       /\ UNCHANGED << delivering, received, selected, courseLock, tab, cli >>

---------------------------------------------------------------------------
\* The command line, on the register's own path with --force: one process
\* reads the file and later replaces its text.

cli_read(n, d) ==
    /\ cli = None
    /\ Readable(register[n])
    /\ d # "apply" => Accepts(register[n].feedback, d)
    /\ cli' = [name |-> n, row |-> IF d = "apply"
                                   THEN apply_feedback_to_register(register[n])
                                   ELSE review_feedback_in_register(register[n], d)]
    /\ NoFault
    /\ UNCHANGED << delivering, received, selected, register, courseLock, reportLock, call, tab, writes >>

cli_write ==
    /\ cli # None
    /\ writes + faults < MaxWrite
    /\ writes' = writes + 1
    /\ register' = [register EXCEPT ![cli.name] = Stamped(cli.row)]
    /\ cli' = None
    /\ NoFault
    /\ UNCHANGED << delivering, received, selected, courseLock, reportLock, call, tab >>

---------------------------------------------------------------------------
\* The page: answers.

\* The answer is to the last request, and for the register that is selected.
Current(c) ==
    LET p == tab[call[c].tab]
    IN call[c].fresh /\ (call[c].requested \/ p.select = call[c].name)

\* An answer comes back; one that is lost reads as a failure.
Back(c, kind) == call[c].kind = kind /\ call[c].pc \in {"ok", "error"}

Outcome(c, ok, failed, calls) ==
    /\ \/ call[c].pc = "ok" /\ ok /\ NoFault
       \/ call[c].pc = "error" /\ failed /\ NoFault
       \/ call[c].pc = "ok" /\ failed /\ writes + faults < MaxWrite /\ Fault(RegisterFaults)
    /\ call' = [calls EXCEPT ![c] = NoCall]
    /\ UNCHANGED << delivering, received, selected, register, courseLock, reportLock, cli, writes >>

\* A load that is still the last word shows its register, or clears the page.
loaded(c) ==
    LET t == call[c].tab
    IN /\ Back(c, "load")
       /\ Outcome(c,
            tab' = IF Current(c) THEN [tab EXCEPT ![t].shown = call[c].row, ![t].name = call[c].name] ELSE tab,
            tab' = IF Current(c) THEN [tab EXCEPT ![t].shown = None, ![t].name = None, ![t].select = None] ELSE tab,
            call)

\* A generated register is shown whatever happened meanwhile.
generated(c) ==
    LET t == call[c].tab
        n == call[c].name
    IN /\ Back(c, "generate")
       /\ Outcome(c,
            tab' = [tab EXCEPT ![t] = [@ EXCEPT !.shown = call[c].row, !.name = n,
                                                !.select = n, !.generating = FALSE]],
            tab' = [tab EXCEPT ![t].generating = FALSE],
            IF call[c].pc = "ok" /\ faults' = faults THEN invalidateReportLoads(call, t) ELSE call)

reviewed(c) ==
    LET t == call[c].tab
    IN /\ Back(c, "review")
       /\ Outcome(c,
            tab' = IF Current(c) /\ tab[t].name = call[c].name
                   THEN [tab EXCEPT ![t].shown = call[c].row, ![t].pending = FALSE]
                   ELSE [tab EXCEPT ![t].pending = FALSE],
            tab' = [tab EXCEPT ![t].pending = FALSE],
            call)

RegisterNext ==
    \/ deliver
    \/ \E k \in 1 .. MaxPackage : select_final(k)
    \/ \E t \in Tabs, c \in Calls, n \in Names :
          (\E requested \in BOOLEAN : load(t, c, n, requested)) \/ generate(t, c, n)
    \/ \E t \in Tabs : deselect(t)
    \/ \E t \in Tabs, c \in Calls, d \in Decisions : review_delivery(t, c, d)
    \/ \E c \in Calls : read_assignment_report(c) \/ track(c) \/ read_previous(c) \/ write_tracking_index(c)
    \/ \E c \in Calls : read_for_review(c) \/ review_assignment_ai_feedback(c)
    \/ \E n \in Names, d \in Decisions \cup {"apply"} : cli_read(n, d)
    \/ cli_write
    \/ \E c \in Calls : loaded(c) \/ generated(c) \/ reviewed(c)

RegisterSpec == RegisterInit /\ [][RegisterNext]_registerVars

---------------------------------------------------------------------------
\* A decision in a register was taken beside the delivery the register now
\* shows: a new delivery, or an older one selected as final, never inherits
\* the approval of another, whichever of the routes and commands wrote last.
DecisionIsForThisDelivery ==
    delivering =>
        \A n \in Names :
            Readable(register[n]) /\ register[n].feedback.status \in {"approved", "rejected"}
                => register[n].feedback.on = register[n].package

\* And a page never goes back to an older content of the register it shows,
\* except when the teacher's own generate request answers late: neither a file
\* nor a page ever shows what belongs to an earlier delivery or register.
RegistersAreCurrent ==
    [][/\ DecisionIsForThisDelivery'
       /\ \A t \in Tabs :
             /\ tab[t].shown # None /\ tab'[t].shown # None
             /\ tab'[t].name = tab[t].name
             /\ tab'[t].shown.write < tab[t].shown.write
             => tab[t].generating /\ ~tab'[t].generating]_registerVars

=============================================================================
