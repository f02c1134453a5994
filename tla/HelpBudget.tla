------------------------------ MODULE HelpBudget ------------------------------
(***************************************************************************)
(* The help requests of one student for one assignment, as                 *)
(* scripts/student_help_service.py records them: a log file under a        *)
(* process-local lock, a budget of AI requests reserved before the slow    *)
(* call of the provider and settled after it, and the release of           *)
(* reservations whose call cannot still be running.                        *)
(*                                                                         *)
(* The service is modelled for any number of concurrent callers; the       *)
(* server admits one recording call per student and assignment, which      *)
(* leaves a subset of these behaviours.  Prompts and answers need no       *)
(* value: a request id used again with another kind stands for every       *)
(* reuse that does not match.                                              *)
(***************************************************************************)
EXTENDS Naturals, FiniteSets, Faults

CONSTANTS
    Requests,       \* request ids
    Permitted,      \* kinds of help the policy of the assignment allows
    Limit,          \* ai_request_limit; 0 is no limit
    MaxEvents,      \* MAX_HELP_EVENTS_PER_ASSIGNMENT
    MaxAge,         \* PENDING_PROVIDER_MAX_AGE
    Workers,        \* threads of the server
    PowerLoss,      \* whether the machine may lose power
    MaxTime,        \* bound on the clock
    MaxFaults       \* bound on the faults of a behaviour

Kinds == {"ai", "teoria"}

Statuses == {"none", "pending", "completed", "interrupted"}

\* budget_charged counts as TRUE where it is missing, as the code reads it.
Event == [kind : Kinds, allowed : BOOLEAN, status : Statuses,
          charged : BOOLEAN, at : Nat]

Log == [Requests -> Event \cup {None}]

ASSUME HelpAssumption ==
    /\ IsFiniteSet(Requests)
    /\ Permitted \subseteq Kinds
    /\ Limit \in Nat /\ MaxEvents \in Nat /\ MaxAge \in Nat
    /\ MaxTime \in Nat /\ MaxFaults \in Nat
    /\ PowerLoss \in BOOLEAN
    /\ None \notin Workers /\ None \notin Event /\ None \notin Statuses

VARIABLES
    log,        \* the directory that holds the log
    active,     \* _ACTIVE_PROVIDER_CALLS
    holder,     \* worker inside help_log_lock, or None
    job,        \* what each worker is doing
    now,        \* the wall clock
    \* History variables, read by no action:
    called,     \* number of calls of the provider for each request
    answered    \* events returned for a request: pairs of id and status

vars == <<log, active, holder, job, now, faults, called, answered>>

Idle == [pc |-> "idle", id |-> None, kind |-> None, only |-> FALSE, at |-> 0,
         content |-> None, then |-> "idle", out |-> None]

Init ==
    /\ log = OnDisk([id \in Requests |-> None])
    /\ active = {}
    /\ holder = None
    /\ job = [w \in Workers |-> Idle]
    /\ now = 0
    /\ faults = 0
    /\ called = [id \in Requests |-> 0]
    /\ answered = {}

Job ==
    [pc : {"idle", "lock", "read", "write", "sync", "call", "settle", "clear"},
     id : Requests \cup {None}, kind : Kinds \cup {None}, only : BOOLEAN, at : Nat,
     content : Log \cup {None}, then : {"idle", "call", "clear"},
     out : Statuses \cup {None}]

TypeOK ==
    /\ log.now \in Log /\ log.now \in log.after /\ log.after \subseteq Log
    /\ DOMAIN log = {"now", "after"}
    /\ active \subseteq Requests
    /\ holder \in Workers \cup {None}
    /\ job \in [Workers -> Job]
    /\ now \in Nat
    /\ called \in [Requests -> Nat]

At(w, label) == job[w].pc = label

-----------------------------------------------------------------------------
(***************************************************************************)
(* What the events say                                                     *)
(***************************************************************************)

Recorded(content) == {id \in Requests : content[id] # None}

\* ai_events_used counts these.
Charged(content) ==
    {id \in Recorded(content) :
        content[id].kind = "ai" /\ content[id].allowed /\ content[id].charged}

\* Mutant of Exhausted: only settled requests count.
MutExhausted(content) ==
    /\ Limit # 0
    /\ Cardinality({id \in Charged(content) : content[id].status = "completed"}) >= Limit

\* ai_budget_status
Exhausted(content) == Limit # 0 /\ Cardinality(Charged(content)) >= Limit

\* A pending request older than MaxAge at time t.
Overdue(content, id, t) ==
    /\ content[id] # None
    /\ content[id].status = "pending" /\ content[id].charged
    /\ t > content[id].at + MaxAge

\* Mutant of Release: also calls that are still running.
MutRelease(content, t) ==
    [id \in Requests |->
        IF Overdue(content, id, t)
        THEN [content[id] EXCEPT !.status = "interrupted", !.charged = FALSE]
        ELSE content[id]]

\* release_stale_provider_reservations
Release(content, t) ==
    [id \in Requests |->
        IF Overdue(content, id, t) /\ id \notin active
        THEN [content[id] EXCEPT !.status = "interrupted", !.charged = FALSE]
        ELSE content[id]]

\* What a call under the lock comes to: the log to write, the event to return
\* (its status, or None for an error), and what is left to do.
Outcome(content, out, then) == [content |-> content, out |-> out, then |-> then]

\* evaluate_help_request and apply_budget_limit
Allows(content, kind) == kind \in Permitted /\ ~(kind = "ai" /\ Exhausted(content))

NewEvent(kind, allowed, t) ==
    [kind |-> kind, allowed |-> allowed, charged |-> TRUE, at |-> t,
     status |-> IF allowed THEN "pending" ELSE "none"]

\* record_help_request, up to the end of its first block under the lock.  An id
\* used for another request, and a full log, are errors that save nothing.
RecordOutcome(j) ==
    LET reconciled == Release(log.now, j.at)
        old == reconciled[j.id]
        allowed == Allows(reconciled, j.kind)
    IN
    IF old # None THEN
        IF old.kind # j.kind THEN Outcome(log.now, None, "idle")
        ELSE Outcome(reconciled, IF old.status = "pending" THEN None ELSE old.status, "idle")
    ELSE IF j.only THEN Outcome(reconciled, None, "idle")
    ELSE IF Cardinality(Recorded(reconciled)) >= MaxEvents
    THEN Outcome(log.now, None, "idle")
    ELSE Outcome([reconciled EXCEPT ![j.id] = NewEvent(j.kind, allowed, j.at)],
                 IF allowed THEN None ELSE "none",
                 IF allowed THEN "call" ELSE "idle")

\* The second block: the provider has answered or failed, which is an answer too.
SettleOutcome(j) ==
    Outcome([log.now EXCEPT ![j.id] = [@ EXCEPT !.status = "completed", !.charged = TRUE]],
            "completed", "clear")

-----------------------------------------------------------------------------
(***************************************************************************)
(* Steps                                                                   *)
(***************************************************************************)

\* A call of record_help_request reads the clock before it waits for the lock.
Request(w, id, kind, only) ==
    /\ At(w, "idle")
    /\ now + MaxAge < MaxTime
    /\ job' = [job EXCEPT ![w] = [Idle EXCEPT
                !.pc = "lock", !.id = id, !.kind = kind, !.only = only, !.at = now]]
    /\ UNCHANGED <<log, active, holder, now, called, answered>>
    /\ NoFault

\* A page or a terminal asks for the summary of the help requests.
ReadSummary(w) ==
    /\ At(w, "idle")
    /\ job' = [job EXCEPT ![w].pc = "read"]
    /\ UNCHANGED <<log, active, holder, now, called, answered>>
    /\ NoFault

Answers(id, out) == IF out = None THEN {} ELSE {<<id, out>>}

\* Under the lock: a log that changed is written, else the call is over.
Enter(w, j, o) ==
    /\ holder = None
    /\ IF o.content = log.now
       THEN /\ job' = [job EXCEPT ![w] = Idle]
            /\ answered' = answered \cup Answers(j.id, o.out)
            /\ UNCHANGED holder
       ELSE /\ job' = [job EXCEPT ![w] = [j EXCEPT
                        !.pc = "write", !.content = o.content,
                        !.out = o.out, !.then = o.then]]
            /\ holder' = w
            /\ UNCHANGED answered
    /\ UNCHANGED <<log, active, now, called>>
    /\ NoFault

Record(w) == At(w, "lock") /\ Enter(w, job[w], RecordOutcome(job[w]))

\* load_reconciled_help_events and teacher_help_summary
Reconcile(w) ==
    /\ At(w, "read")
    /\ Enter(w, job[w], Outcome(Release(log.now, now), None, "idle"))

Settle(w) == At(w, "settle") /\ Enter(w, job[w], SettleOutcome(job[w]))

\* write_help_events: the new file replaces the log, then the directory is synced.
Replace(w) ==
    /\ At(w, "write")
    /\ log' = Changed(log, job[w].content)
    /\ job' = [job EXCEPT ![w].pc = "sync", ![w].content = None]
    /\ UNCHANGED <<active, holder, now, called, answered>>
    /\ NoFault

\* The call that was reserved becomes active before the lock is left.
Sync(w) ==
    LET j == job[w] IN
    /\ At(w, "sync")
    /\ log' = Synced(log)
    /\ holder' = None
    /\ active' = IF j.then = "call" THEN active \cup {j.id} ELSE active
    /\ job' = [job EXCEPT ![w] = IF j.then = "idle" THEN Idle ELSE [j EXCEPT !.pc = j.then]]
    /\ answered' = answered \cup Answers(j.id, j.out)
    /\ UNCHANGED <<now, called>>
    /\ NoFault

\* The write fails before the replacement (no space, a log over its size), or
\* the sync fails after it.  Also then the finally clause ends an active call.
SaveFails(w) ==
    LET j == job[w] IN
    /\ At(w, "write") \/ At(w, "sync")
    /\ holder' = None
    /\ job' = [job EXCEPT ![w] = IF j.then = "clear" THEN [j EXCEPT
                                     !.pc = "clear", !.content = None] ELSE Idle]
    /\ UNCHANGED <<log, active, now, called, answered>>
    /\ Fault(MaxFaults)

\* The provider is called, outside the lock, and answers, fails or times out.
Call(w) ==
    /\ At(w, "call")
    /\ called' = [called EXCEPT ![job[w].id] = @ + 1]
    /\ job' = [job EXCEPT ![w].pc = "settle"]
    /\ UNCHANGED <<log, active, holder, now, answered>>
    /\ NoFault

\* Mutant of Clear: the call stays active when its answer could not be saved.
MutClear(w) ==
    /\ At(w, "clear")
    /\ active' = IF log.now[job[w].id].status = "pending" THEN active
                 ELSE active \ {job[w].id}
    /\ job' = [job EXCEPT ![w] = Idle]
    /\ UNCHANGED <<log, holder, now, called, answered>>
    /\ NoFault

Clear(w) ==
    /\ At(w, "clear")
    /\ active' = active \ {job[w].id}
    /\ job' = [job EXCEPT ![w] = Idle]
    /\ UNCHANGED <<log, holder, now, called, answered>>
    /\ NoFault

\* The process ends, with its lock and its set of active calls.
Stop(l) ==
    /\ log' = l
    /\ active' = {}
    /\ holder' = None
    /\ job' = [w \in Workers |-> Idle]
    /\ UNCHANGED <<now, called, answered>>
    /\ Fault(MaxFaults)

Crash == Stop(log)

LosePower == PowerLoss /\ \E c \in log.after : Stop(OnDisk(c))

Tick ==
    /\ now < MaxTime
    /\ now' = now + 1
    /\ UNCHANGED <<log, active, holder, job, called, answered>>
    /\ NoFault

WorkerStep(w) ==
    \/ Record(w) \/ Reconcile(w) \/ Settle(w) \/ Replace(w) \/ Sync(w)
    \/ Call(w) \/ Clear(w)

Next ==
    \/ \E w \in Workers, id \in Requests, kind \in Kinds, only \in BOOLEAN :
        Request(w, id, kind, only)
    \/ \E w \in Workers : ReadSummary(w) \/ WorkerStep(w) \/ SaveFails(w)
    \/ Crash \/ LosePower \/ Tick

Spec == Init /\ [][Next]_vars

\* Threads run, the lock is granted to one that waits again and again, the
\* provider is called with a timeout, time passes and pages go on asking.
Fairness ==
    /\ \A w \in Workers : WF_vars(WorkerStep(w))
    /\ \A w \in Workers : SF_vars(Record(w) \/ Reconcile(w) \/ Settle(w))
    /\ SF_vars(\E w \in Workers : ReadSummary(w))
    /\ WF_vars(Tick)

FairSpec == Spec /\ Fairness

-----------------------------------------------------------------------------
(***************************************************************************)
(* Properties                                                              *)
(***************************************************************************)

\* The AI requests charged to the student never exceed the limit, in the log as
\* it is and as any power loss may leave it: a reservation is released only when
\* its call cannot end, and settling a call charges nothing new (ai_events_used).
BudgetHolds ==
    Limit # 0 => \A c \in log.after : Cardinality(Charged(c)) <= Limit

\* The provider is called at most once for a request id, whatever retries,
\* crashes and power losses there are: the reservation is on disk before the
\* call, and record_help_request never calls for an id it finds in the log.
OneCallPerRequest == \A id \in Requests : called[id] <= 1

Calling(w) == At(w, "call") \/ At(w, "settle")

\* The request id is in content c with its charge, and nothing has settled it.
Reserved(c, id) ==
    /\ c[id] # None
    /\ c[id].allowed /\ c[id].charged /\ c[id].status = "pending"

\* While the provider works on a request, its event is pending and charged in
\* the log and the call is known to be active: no reader of the log, however
\* late, releases it, and no retry ends it (_ACTIVE_PROVIDER_CALLS).
RunningCallsAreReserved ==
    \A w \in Workers : Calling(w) =>
        job[w].id \in active /\ Reserved(log.now, job[w].id)

\* Every retry of a request is answered alike: an event that was returned never
\* becomes another one, whatever saves fail and processes end.  A log that was
\* replaced and not synced is read like any other, so a failed sync and then a
\* power loss may take back an answer: with power losses, for one fault.
AnswersAgree ==
    (PowerLoss => MaxFaults <= 1) =>
        \A a, b \in answered : a[1] = b[1] => a[2] = b[2]

\* A student's charges stay within the policy, each of them pays for one call,
\* and the call has one answer: the four together.
BudgetIsSound ==
    BudgetHolds /\ OneCallPerRequest /\ RunningCallsAreReserved /\ AnswersAgree

\* A pending request does not stay pending: its call settles it, or after a
\* crash or a failed write it is released and its charge with it.
PendingIsSettled ==
    \A id \in Requests :
        LET Pending == log.now[id] # None /\ log.now[id].status = "pending"
        IN Pending ~> ~Pending

-----------------------------------------------------------------------------
(***************************************************************************)
(* The inductive invariant behind BudgetHolds and OneCallPerRequest        *)
(***************************************************************************)

Saving(w) == At(w, "write") \/ At(w, "sync")

\* From the reservation to the end of the finally clause.
Engaged(w) == Calling(w) \/ At(w, "clear") \/ (Saving(w) /\ job[w].then # "idle")

\* A save holds the lock, and no two workers are engaged in one request.
JobsAreOrderly ==
    \A w \in Workers :
        /\ Saving(w) => holder = w
        /\ At(w, "write") => job[w].content \in Log
        /\ At(w, "lock") => job[w].id \in Requests /\ job[w].kind \in Kinds
        /\ Engaged(w) => job[w].id \in Requests
        /\ \A v \in Workers \ {w} :
            Engaged(v) /\ Engaged(w) => job[v].id # job[w].id

\* What is about to be written loses no request, keeps the budget and the
\* reservations of the calls under way, and reserves a new call.
SavesAreSound ==
    \A w \in Workers : At(w, "write") =>
        LET c == job[w].content IN
        /\ \A id \in Requests : log.now[id] # None => c[id] # None
        /\ Limit # 0 => Cardinality(Charged(c)) <= Limit
        /\ job[w].then = "call" => Reserved(c, job[w].id)
        /\ \A v \in Workers : Calling(v) => Reserved(c, job[v].id)

\* A call about to start was not made before, and one that ends was.
CallsAreCounted ==
    \A w \in Workers :
        /\ Saving(w) /\ job[w].then = "call" => called[job[w].id] = 0
        /\ At(w, "sync") /\ job[w].then = "call" => Reserved(log.now, job[w].id)
        /\ At(w, "call") => called[job[w].id] = 0
        /\ At(w, "settle") \/ At(w, "clear") => called[job[w].id] # 0
        /\ Saving(w) /\ job[w].then = "clear" => called[job[w].id] # 0

\* The requests the provider is or was called for are in the log, on disk too.
CallsAreRecorded ==
    \A c \in log.after, id \in Requests :
        (called[id] # 0 \/ \E w \in Workers : At(w, "call") /\ job[w].id = id)
            => c[id] # None

Inv ==
    /\ TypeOK /\ JobsAreOrderly /\ RunningCallsAreReserved /\ SavesAreSound
    /\ CallsAreCounted /\ CallsAreRecorded /\ BudgetHolds /\ OneCallPerRequest

-----------------------------------------------------------------------------
(***************************************************************************)
(* The inductive invariant behind AnswersAgree                             *)
(***************************************************************************)

\* Content c has the event of a request with a status that is not changed again.
Final(c, id, status) ==
    id \in Requests /\ c[id] # None /\ c[id].status = status /\ status # "pending"

\* What was answered is in the log; before the first fault, on disk too, since
\* nothing is read that is not synced but by the worker that saves it.
AnswersAreFinal ==
    \A a \in answered :
        /\ Final(log.now, a[1], a[2])
        /\ faults = 0 => \A c \in log.after : Final(c, a[1], a[2])

ReadsAreSynced ==
    faults = 0 /\ (\A w \in Workers : ~At(w, "sync")) => log.after = {log.now}

\* What is about to be written keeps the final events, and has the answer that
\* its call is about to return.
SavesKeepAnswers ==
    \A w \in Workers :
        LET j == job[w] IN
        /\ At(w, "write") =>
            \A id \in Requests, s \in Statuses :
                Final(log.now, id, s) => Final(j.content, id, s)
        /\ At(w, "write") /\ j.out # None => Final(j.content, j.id, j.out)
        /\ At(w, "sync") /\ j.out # None => Final(log.now, j.id, j.out)

AnswerInv ==
    faults \in Nat /\ AnswersAreFinal /\ ReadsAreSynced /\ SavesKeepAnswers

=============================================================================
