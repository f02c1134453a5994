----------------------------- MODULE AuthServices -----------------------------
(***************************************************************************)
(* SessionService of scripts/thebitlab_auth_services.py: issuing, checking *)
(* and revoking sessions above IdentityStore.                              *)
(*                                                                         *)
(* A call is run by a worker (a thread of the HTTP server) as a sequence   *)
(* of steps, one per storage transaction or clock reading; between two of  *)
(* them any other worker, an administrator or the clock may move.  What    *)
(* the worker has read is kept in its job, and may be stale when used.     *)
(* Exceptions are outcomes: "invalid" stands for InvalidCredentialError    *)
(* and AccountDisabledError, "conflict" for ConcurrentStateChangeError and *)
(* PairingStateError, "expired" for PairingExpiredError, "unavailable" for *)
(* CredentialGenerationError.                                              *)
(***************************************************************************)
EXTENDS IdentityStore

CONSTANTS
    Workers,            \* threads that serve requests
    MaxAttempts,        \* _MAX_ATTEMPTS, the bound of every retry loop
    Operations,         \* the calls the workers make
    Audiences,          \* the session services: "web", "tui" or both
    LoggedIn,           \* web sessions open at the start
    PairingAtStart,     \* status of the pairings at the start, or None
    AdminRoles,         \* the roles an administrator gives with save_user
    ClockMayStepBack    \* whether the system clock may be set back

\* How a call of a service ends.
Outcomes == {"ok", "false", "invalid", "denied", "conflict", "expired", "unavailable"}

ASSUME ServiceAssumption ==
    /\ MaxAttempts \in Nat \ {0}
    /\ ClockMayStepBack \in BOOLEAN
    /\ AdminRoles \subseteq Roles
    /\ Audiences \subseteq {"web", "tui"}
    /\ LoggedIn \subseteq SessionIds
    /\ PairingAtStart \in {None, "pending", "authorized"}
    \* A session or a consent at the start is somebody's.
    /\ LoggedIn # {} \/ PairingAtStart = "authorized" => Users # {}
    /\ None \notin Outcomes

VARIABLES
    now,                \* the system clock, read by services and storage
    spent,              \* session ids generated so far
    job                 \* the call each worker is in

vars == <<users, sessions, pairings, fence, issuedUnder, now, spent, job>>

\* at: next step.  out: outcome of the last call that ended.  ret: where to go
\* when the current session call ends ("done", or a caller's step).
\* The rest are the locals: subject of the call and what it has read.
NoJob == [op |-> "none", at |-> "idle", ret |-> "done", out |-> None,
          s |-> None, u |-> None, p |-> None, aud |-> "web",
          gen |-> None, row |-> None, acct |-> None, prow |-> None,
          t |-> 0, tries |-> 0]

\* A deployment with its student accounts provisioned, one of which may have
\* logged in, and begun or authorized pairings, at instant 0.
SomeUser == CHOOSE u \in Users : TRUE

StartedPairing ==
    CASE PairingAtStart = "pending" -> NewPairing(0)
      [] PairingAtStart = "authorized" ->
            [NewPairing(0) EXCEPT !.status = "authorized", !.user = SomeUser,
                                  !.authorized_at = 0]
      [] OTHER -> None

ServiceInit ==
    /\ users = [u \in Users |-> [role |-> "student", active |-> TRUE, updated_at |-> 0]]
    /\ sessions = [s \in SessionIds |->
                        IF s \in LoggedIn THEN NewSession(SomeUser, 0, None) ELSE None]
    /\ pairings = [p \in PairingIds |-> StartedPairing]
    /\ fence = [u \in Users |-> 0]
    /\ issuedUnder = [s \in SessionIds |-> 0]
    /\ now = 0
    /\ spent = LoggedIn
    /\ job = [w \in Workers |-> NoJob]

-----------------------------------------------------------------------------
(***************************************************************************)
(* Steps of a job                                                          *)
(***************************************************************************)

At(w, label) == job[w].at = label

Become(w, j) == job' = [job EXCEPT ![w] = j]

Goto(w, label) == Become(w, [job[w] EXCEPT !.at = label])

\* The job after its current call of a service ends with an outcome: the locals
\* are gone, unless a caller within the job goes on with the result.
Ended(j, out) ==
    IF j.ret = "done"
    THEN [j EXCEPT !.at = "done", !.out = out, !.row = None, !.acct = None,
                   !.t = 0, !.tries = 0]
    ELSE [j EXCEPT !.at = j.ret, !.out = out, !.t = 0, !.tries = 0]

Return(w, out) == Become(w, Ended(job[w], out))

\* Mutant of Retry: neither the new row nor the attempt is kept.
MutRetry(w, j, label, out) == Goto(w, label)

\* `continue` in a retry loop: the next attempt, or the error after the last.
Retry(w, j, label, out) ==
    IF j.tries + 1 = MaxAttempts
    THEN Become(w, Ended(j, out))
    ELSE Become(w, [j EXCEPT !.at = label, !.tries = j.tries + 1])

\* A worker takes a call of some operation.
Begin(w, op, label, j) ==
    /\ At(w, "idle")
    /\ op \in Operations
    /\ Become(w, [j EXCEPT !.op = op, !.at = label])
    /\ UNCHANGED <<storeVars, now, spent>>

\* The caller has its answer, and the worker is free.
Finish(w) ==
    /\ At(w, "done")
    /\ Become(w, NoJob)
    /\ UNCHANGED <<storeVars, now, spent>>

ReadOnly == UNCHANGED <<storeVars, now, spent>>

ReadClock(w, label, next) ==
    /\ At(w, label)
    /\ Become(w, [job[w] EXCEPT !.at = next, !.t = now])
    /\ ReadOnly

-----------------------------------------------------------------------------
(***************************************************************************)
(* issue                                                                   *)
(***************************************************************************)

CallIssue(w) ==
    \E u \in Users : Begin(w, "issue", "issue:account", [NoJob EXCEPT !.u = u])

IssueAccount(w) ==
    /\ At(w, "issue:account")
    /\ IF IsActive(job[w].u)
       THEN Become(w, [job[w] EXCEPT !.at = "issue:clock", !.acct = users[job[w].u]])
       ELSE Return(w, "invalid")
    /\ ReadOnly

IssueClock(w) == ReadClock(w, "issue:clock", "issue:insert")

\* secrets.token_urlsafe and uuid4: an id may collide with one in the table, but
\* the id of a deleted session does not come back.
Generates(s) == s \in spent => sessions[s] # None

\* The generated id or token may be in use: the INSERT raises, as it does when
\* the account changed.
IssueInsert(w, s) ==
    LET j == job[w] IN
    /\ At(w, "issue:insert")
    /\ Generates(s)
    /\ spent' = spent \cup {s}
    /\ \/ /\ CreateSession(s, j.u, j.acct.updated_at, j.t)
          /\ Return(w, "ok")
       \/ /\ ~CanInsertSession(s, j.u, j.acct.updated_at)
          /\ Goto(w, "issue:recheck")
          /\ UNCHANGED storeVars
    /\ UNCHANGED now

\* After a conflict: a changed account ends the call, a collision repeats it.
IssueRecheck(w) ==
    LET j == job[w] IN
    /\ At(w, "issue:recheck")
    /\ IF ~IsActive(j.u) THEN Return(w, "invalid")
       ELSE IF users[j.u].updated_at # j.acct.updated_at THEN Return(w, "conflict")
       ELSE Retry(w, j, "issue:insert", "unavailable")
    /\ ReadOnly

Issue(w) ==
    \/ CallIssue(w) \/ IssueAccount(w) \/ IssueClock(w)
    \/ \E s \in SessionIds : IssueInsert(w, s)
    \/ IssueRecheck(w)

-----------------------------------------------------------------------------
(***************************************************************************)
(* authenticate                                                            *)
(***************************************************************************)

CallAuthenticate(w) ==
    \E s \in SessionIds, aud \in Audiences :
        Begin(w, "authenticate", "auth:read", [NoJob EXCEPT !.s = s, !.aud = aud])

\* _generation: the columns of a session that never change.
Generation(row) ==
    IF row = None THEN None
    ELSE [row EXCEPT !.last_seen_at = row.created_at, !.revoked_at = None]

\* read_session_by_token_digest, and the generation the call will stay with.
AuthRead(w) ==
    LET row == sessions[job[w].s] IN
    /\ At(w, "auth:read")
    /\ Become(w, [job[w] EXCEPT !.at = "auth:clock", !.row = row, !.gen = Generation(row)])
    /\ ReadOnly

AuthClock(w) == ReadClock(w, "auth:clock", "auth:account")

\* _require_valid up to its read_user: outcome of the session as read.
SessionVerdict(row, aud, t) ==
    IF row = None THEN "invalid"
    ELSE IF Audience(row) # aud THEN "invalid"
    ELSE IF t < row.last_seen_at THEN "conflict"
    ELSE IF t < row.created_at \/ t >= row.expires_at \/ row.revoked_at # None
    THEN "invalid"
    ELSE "ok"

\* _require_valid and the comparison of generations
AuthAccount(w) ==
    LET j == job[w]
        verdict == SessionVerdict(j.row, j.aud, j.t)
    IN
    /\ At(w, "auth:account")
    /\ IF verdict # "ok" THEN Return(w, verdict)
       ELSE IF ~IsActive(j.row.user) THEN Return(w, "invalid")
       ELSE IF Generation(j.row) # j.gen THEN Return(w, "conflict")
       ELSE Become(w, [j EXCEPT !.at = "auth:touch", !.acct = users[j.row.user]])
    /\ ReadOnly

\* save_session_for_active_user: the transaction's instant is not before the
\* caller's, nor before the storage clock.
AuthTouch(w) ==
    LET j == job[w]
        clk == Later(j.t, now)
    IN
    /\ At(w, "auth:touch")
    /\ \/ /\ TouchSession(j.s, j.row, j.acct.updated_at, clk)
          /\ Return(w, "ok")
       \/ /\ ~CanTouch(j.s, j.row, j.acct.updated_at, clk)
          /\ IF /\ SameGeneration(sessions[j.s], j.row)
                /\ sessions[j.s].revoked_at = None
                /\ sessions[j.s].expires_at <= clk
             THEN Return(w, "invalid")
             ELSE Goto(w, "auth:reread")
          /\ UNCHANGED storeVars
    /\ UNCHANGED <<now, spent>>

AuthReread(w) ==
    /\ At(w, "auth:reread")
    /\ Retry(w, [job[w] EXCEPT !.row = sessions[job[w].s]], "auth:account", "conflict")
    /\ ReadOnly

Authenticate(w) ==
    \/ CallAuthenticate(w) \/ AuthRead(w) \/ AuthClock(w) \/ AuthAccount(w)
    \/ AuthTouch(w) \/ AuthReread(w)

-----------------------------------------------------------------------------
(***************************************************************************)
(* revoke and revoke_all                                                   *)
(***************************************************************************)

CallRevoke(w) ==
    \E s \in SessionIds, aud \in Audiences :
        Begin(w, "revoke", "rev:read", [NoJob EXCEPT !.s = s, !.aud = aud])

RevRead(w) ==
    LET row == sessions[job[w].s] IN
    /\ At(w, "rev:read")
    /\ Become(w, [job[w] EXCEPT !.at = "rev:clock", !.row = row, !.gen = Generation(row)])
    /\ ReadOnly

\* What revoke has nothing to do for, and answers False.
NothingToRevoke(row, aud, t) ==
    \/ row = None
    \/ Audience(row) # aud
    \/ row.revoked_at # None
    \/ t < row.created_at
    \/ t >= row.expires_at

\* Every attempt reads the clock again.
RevClock(w) ==
    LET j == job[w] IN
    /\ At(w, "rev:clock")
    /\ IF NothingToRevoke(j.row, j.aud, now)
       THEN Return(w, "false")
       ELSE Become(w, [j EXCEPT !.at = "rev:save",
                                !.t = Later(now, j.row.last_seen_at)])
    /\ ReadOnly

\* Mutant of RevSave: a conflict is taken for a session already revoked.
MutRevSave(w) ==
    LET j == job[w] IN
    /\ At(w, "rev:save")
    /\ \/ /\ RevokeSession(j.s, j.row, j.t)
          /\ Return(w, "ok")
       \/ /\ ~CanRevoke(j.s, j.row, j.t)
          /\ Return(w, "false")
          /\ UNCHANGED storeVars
    /\ UNCHANGED <<now, spent>>

RevSave(w) ==
    LET j == job[w] IN
    /\ At(w, "rev:save")
    /\ \/ /\ RevokeSession(j.s, j.row, j.t)
          /\ Return(w, "ok")
       \/ /\ ~CanRevoke(j.s, j.row, j.t)
          /\ Goto(w, "rev:reread")
          /\ UNCHANGED storeVars
    /\ UNCHANGED <<now, spent>>

RevReread(w) ==
    /\ At(w, "rev:reread")
    /\ Retry(w, [job[w] EXCEPT !.row = sessions[job[w].s]], "rev:clock", "conflict")
    /\ ReadOnly

Revoke(w) ==
    CallRevoke(w) \/ RevRead(w) \/ RevClock(w) \/ RevSave(w) \/ RevReread(w)

CallRevokeAll(w) ==
    \E u \in Users, aud \in Audiences :
        Begin(w, "revoke_all", "all:clock", [NoJob EXCEPT !.u = u, !.aud = aud])

RevAllClock(w) == ReadClock(w, "all:clock", "all:update")

RevAllUpdate(w) ==
    LET j == job[w] IN
    /\ At(w, "all:update")
    /\ \/ /\ RevokeUserSessions(j.u, j.t, j.aud)
          /\ Return(w, "ok")
       \/ /\ ~CanRevokeAll(j.u, j.t, j.aud)
          /\ Return(w, "conflict")
          /\ UNCHANGED storeVars
    /\ UNCHANGED <<now, spent>>

RevokeAll(w) == CallRevokeAll(w) \/ RevAllClock(w) \/ RevAllUpdate(w)

-----------------------------------------------------------------------------
(***************************************************************************)
(* The environment: clock, administrators, cleanup                         *)
(***************************************************************************)

Tick == now < MaxTime /\ now' = now + 1 /\ UNCHANGED <<storeVars, spent, job>>

StepBack ==
    /\ ClockMayStepBack
    /\ now > 0
    /\ now' = now - 1
    /\ UNCHANGED <<storeVars, spent, job>>

\* An administrator saves an account, from one row read to one transaction.
AdminSaves ==
    /\ \E u \in Users, role \in AdminRoles :
            SaveActiveUser(u, role, now) \/ SaveInactiveUser(u, role, now)
    /\ UNCHANGED <<now, spent, job>>

CleanSessions == DeleteExpiredSessions(now) /\ UNCHANGED <<now, spent, job>>

Environment == Tick \/ StepBack \/ AdminSaves \/ CleanSessions

SessionCalls(w) == Issue(w) \/ Authenticate(w) \/ Revoke(w) \/ RevokeAll(w)

SessionServiceNext ==
    Environment \/ \E w \in Workers : SessionCalls(w) \/ Finish(w)

\* A thread that is in a call goes on; nobody has to make another call.
SessionServiceSpec ==
    /\ ServiceInit
    /\ [][SessionServiceNext]_vars
    /\ \A w \in Workers : WF_vars(~At(w, "idle") /\ (SessionCalls(w) \/ Finish(w)))

-----------------------------------------------------------------------------
(***************************************************************************)
(* Properties                                                              *)
(***************************************************************************)

\* A session that a request may still present with success.
Usable(row, t) == row # None /\ row.revoked_at = None /\ t < row.expires_at

\* The services use the store only through its transactions: although they
\* work on rows and revisions read earlier, each write is one of the
\* transitions IdentityStore allows from the current rows.
StepsAreTransactions == [][Next]_storeVars

\* A successful authenticate returns the account as it is when the session is
\* touched, role included, although it was read a transaction before: the
\* compared revision identifies the whole row.
AuthenticatedAccountIsCurrent ==
    [][\A w \in Workers :
        At(w, "auth:touch") /\ job'[w].out = "ok" /\ job'[w].at # "auth:touch" =>
            /\ job[w].acct = users[job[w].row.user]
            /\ job[w].acct.active
            /\ Usable(sessions'[job[w].s], Later(job[w].t, now))
            /\ Generation(sessions'[job[w].s]) = job[w].gen
      ]_vars

\* No authenticate succeeds in a session issued before its account was last
\* disabled: enabling the account again does not bring its sessions back.
NoRevivedSession ==
    [][\A w \in Workers :
        At(w, "auth:touch") /\ job'[w].out = "ok" /\ job'[w].at # "auth:touch" =>
            issuedUnder[job[w].s] >= fence[job[w].row.user]
      ]_vars

\* Both: who is authenticated is the account as it is now, in a session that it
\* opened since it was last disabled.
AuthenticatedIsCurrent == AuthenticatedAccountIsCurrent /\ NoRevivedSession

\* revoke that answers, True or False, leaves no usable session behind: the
\* one whose token was presented is revoked, expired or gone, whichever calls
\* and account changes went on meanwhile.
LogoutIsFinal ==
    \A w \in Workers :
        /\ At(w, "done")
        /\ job[w].op = "revoke"
        /\ job[w].out \in {"ok", "false"}
        /\ job[w].gen # None
        /\ Audience(job[w].gen) = job[w].aud
        => \/ Generation(sessions[job[w].s]) # job[w].gen
           \/ ~Usable(sessions[job[w].s], now)

\* revoke_all that succeeds has revoked every session of the account and
\* audience that was in its life when the clock was read; a session issued
\* later is not touched by it.
RevokeAllIsComplete ==
    [][\A w \in Workers, s \in SessionIds :
        /\ At(w, "all:update")
        /\ job'[w].out = "ok"
        /\ sessions'[s] # None
        /\ sessions'[s].user = job[w].u
        /\ Audience(sessions'[s]) = job[w].aud
        => ~Usable(sessions'[s], job[w].t)
      ]_vars

\* Every call ends: no retry loop runs for ever.
EveryCallReturns ==
    \A w \in Workers : ~At(w, "idle") ~> At(w, "idle")
====
