------------------------------ MODULE TuiPairing ------------------------------
(***************************************************************************)
(* Pairing a terminal (the student TUI) with a browser: PairingService and *)
(* TuiPairingSessionService of scripts/thebitlab_auth_services.py, and the *)
(* boundary of scripts/thebitlab_tui_pairing.py that answers the HTTP      *)
(* routes.  Composed with SessionService (AuthServices) over one store,    *)
(* which _require_shared_registry demands.                                 *)
(*                                                                         *)
(* The presented code is the right one: _require_secret with another code  *)
(* ends the call before anything is written.  When a write conflicts the   *)
(* service reads again only to choose the error; those reads are one step. *)
(***************************************************************************)
EXTENDS AuthServices

CONSTANT CanFailToDeliver   \* whether writing the HTTP response may fail

ASSUME DeliveryAssumption == CanFailToDeliver \in BOOLEAN

\* Call a session service within a job, and come back at ret.
CallWithin(w, j, label, ret, aud) ==
    Become(w, [j EXCEPT !.at = label, !.ret = ret, !.aud = aud, !.tries = 0])

\* A boundary call ends: its answer is all that is left, and, of a consumption,
\* which session it had put in the store.
Answer(w, out) ==
    LET j == job[w] IN
    Become(w, [NoJob EXCEPT !.op = j.op, !.at = "done", !.out = out,
                            !.s = IF j.op = "consume" THEN j.s ELSE None,
                            !.p = j.p,
                            !.prow = IF j.op = "consume" THEN j.prow ELSE None])

-----------------------------------------------------------------------------
(***************************************************************************)
(* The begin route: _cleanup_expired_pairings, then PairingService.issue.  *)
(***************************************************************************)

CallBegin(w) == Begin(w, "begin", "clean:clock", NoJob)

CleanClock(w) == ReadClock(w, "clean:clock", "clean:sessions")

\* One cutoff, two transactions: sessions first, for they keep their pairing.
CleanSessionRows(w) ==
    /\ At(w, "clean:sessions")
    /\ DeleteExpiredSessions(job[w].t)
    /\ Goto(w, "clean:pairings")
    /\ UNCHANGED <<now, spent>>

CleanPairingRows(w) ==
    /\ At(w, "clean:pairings")
    /\ DeleteExpiredPairings(job[w].t)
    /\ Goto(w, "pair:clock")
    /\ UNCHANGED <<now, spent>>

PairClock(w) == ReadClock(w, "pair:clock", "pair:create")

\* A code or id in use makes create_pairing raise: another attempt.
PairCreate(w, p) ==
    LET j == job[w] IN
    /\ At(w, "pair:create")
    /\ \/ CreatePairing(p, j.t) /\ Return(w, "ok")
       \/ /\ pairings[p] # None
          /\ Retry(w, j, "pair:create", "unavailable")
          /\ UNCHANGED storeVars
    /\ UNCHANGED <<now, spent>>

BeginPairing(w) ==
    \/ CallBegin(w) \/ CleanClock(w) \/ CleanSessionRows(w) \/ CleanPairingRows(w)
    \/ PairClock(w) \/ \E p \in PairingIds : PairCreate(w, p)

-----------------------------------------------------------------------------
(***************************************************************************)
(* What authorize, consume and revoke of a pairing share                   *)
(***************************************************************************)

ReadPairing(w, label, next) ==
    LET j == job[w]
        row == pairings[j.p]
    IN
    /\ At(w, label)
    /\ IF row = None THEN Answer(w, "invalid")
       ELSE Become(w, [j EXCEPT !.at = next, !.prow = row])
    /\ ReadOnly

\* The status the call needs, then _require_current: what the row read allows
\* at instant t.
PairingVerdict(row, wanted, t) ==
    IF row.status = "expired" THEN "expired"
    ELSE IF row.status \notin wanted THEN "conflict"
    ELSE IF t < row.created_at THEN "conflict"
    ELSE IF row.authorized_at # None /\ t < row.authorized_at THEN "conflict"
    ELSE IF t >= row.expires_at THEN "late"
    ELSE "ok"

\* The clock reading and the checks that follow it.
CheckPairing(w, label, wanted, next) ==
    LET j == job[w]
        verdict == PairingVerdict(j.prow, wanted, now)
    IN
    /\ At(w, label)
    /\ CASE verdict = "ok" -> Become(w, [j EXCEPT !.at = next, !.t = now])
         [] verdict = "late" -> Become(w, [j EXCEPT !.at = "pair:expire", !.t = now])
         [] OTHER -> Answer(w, verdict)
    /\ ReadOnly

\* _require_current past the deadline: save_pairing, whose conflict is ignored.
PairExpire(w) ==
    LET j == job[w] IN
    /\ At(w, "pair:expire")
    /\ \/ ExpirePairing(j.p, j.prow, j.t)
       \/ ~CanEnd(j.p, j.prow) /\ UNCHANGED storeVars
    /\ Answer(w, "expired")
    /\ UNCHANGED <<now, spent>>

\* read_user of the account u, which must be an active student.
ReadStudent(w, label, u, next) ==
    /\ At(w, label)
    /\ IF IsActive(u) /\ users[u].role = "student"
       THEN Become(w, [job[w] EXCEPT !.at = next, !.acct = users[u]])
       ELSE Answer(w, "invalid")
    /\ ReadOnly

\* _save_transition after a conflict, reading the pairing and the account.
SaveConflict(w, label, u) ==
    /\ At(w, label)
    /\ IF pairings[job[w].p] # None /\ pairings[job[w].p].status = "expired"
       THEN Answer(w, "expired")
       ELSE IF u # None /\ ~IsActive(u) THEN Answer(w, "invalid")
       ELSE Answer(w, "conflict")
    /\ ReadOnly

-----------------------------------------------------------------------------
(***************************************************************************)
(* authorize_browser: a student, in a web session, confirms the code       *)
(***************************************************************************)

CallAuthorize(w) ==
    \E s \in SessionIds, p \in PairingIds :
        Begin(w, "authorize", "auth:read",
              [NoJob EXCEPT !.s = s, !.p = p, !.ret = "azn:session"])

\* authorize_application has authenticated the cookie: its role is checked.
AznSession(w) ==
    LET j == job[w] IN
    /\ At(w, "azn:session")
    /\ IF j.out = "ok" /\ j.acct.role = "student"
       THEN Become(w, [NoJob EXCEPT !.op = j.op, !.at = "azn:read", !.p = j.p,
                                    !.u = j.row.user])
       ELSE Answer(w, IF j.out = "ok" THEN "denied" ELSE j.out)
    /\ ReadOnly

AznRead(w) == ReadPairing(w, "azn:read", "azn:clock")

AznClock(w) == CheckPairing(w, "azn:clock", {"pending"}, "azn:account")

AznAccount(w) == ReadStudent(w, "azn:account", job[w].u, "azn:save")

\* save_pairing_for_active_user, which may find the pairing out of time.
AznSave(w) ==
    LET j == job[w] IN
    /\ At(w, "azn:save")
    /\ \/ /\ AuthorizePairing(j.p, j.prow, j.u, j.acct.updated_at, j.t, now)
          /\ Answer(w, "ok")
       \/ /\ ~CanAuthorize(j.p, j.prow, j.u, j.acct.updated_at, now)
          /\ ExpireOnAuthorize(j.p, now)
          /\ Answer(w, "expired")
       \/ /\ ~CanAuthorize(j.p, j.prow, j.u, j.acct.updated_at, now)
          /\ ~OutOfTime(j.p, now)
          /\ Goto(w, "azn:conflict")
          /\ UNCHANGED storeVars
    /\ UNCHANGED <<now, spent>>

AznConflict(w) == SaveConflict(w, "azn:conflict", job[w].u)

Authorize(w) ==
    \/ CallAuthorize(w) \/ AznSession(w) \/ AznRead(w) \/ AznClock(w)
    \/ AznAccount(w) \/ AznSave(w) \/ AznConflict(w)

-----------------------------------------------------------------------------
(***************************************************************************)
(* consume: the terminal exchanges the code for its bearer                 *)
(***************************************************************************)

CallConsume(w) ==
    \E p \in PairingIds : Begin(w, "consume", "con:read", [NoJob EXCEPT !.p = p])

ConRead(w) == ReadPairing(w, "con:read", "con:clock")

ConClock(w) == CheckPairing(w, "con:clock", {"authorized"}, "con:account")

ConAccount(w) == ReadStudent(w, "con:account", job[w].prow.user, "con:save")

\* consume_pairing_and_create_session.  When it commits, the boundary goes on
\* with _issued_is_valid, which authenticates the new bearer.
ConSave(w, s) ==
    LET j == job[w]
        clk == Later(j.t, now)
        rev == j.acct.updated_at
    IN
    /\ At(w, "con:save")
    /\ Generates(s)
    /\ spent' = spent \cup {s}
    /\ \/ /\ ConsumePairing(j.p, s, j.prow, rev, j.t, clk)
          /\ CallWithin(w, [j EXCEPT !.s = s, !.acct = None], "auth:read", "con:verify", "tui")
       \/ /\ ExpireOnConsume(j.p, j.prow, clk)
          /\ Answer(w, "expired")
       \/ /\ clk < j.prow.expires_at
          /\ clk >= j.t + SessionTTL
          /\ Answer(w, "conflict")
          /\ UNCHANGED storeVars
       \/ /\ IF clk >= j.prow.expires_at
             THEN ~AuthorizedAsRead(j.p, j.prow)
             ELSE clk < j.t + SessionTTL /\ ~CanConsume(j.p, s, j.prow, rev, clk)
          /\ Goto(w, "con:recheck")
          /\ UNCHANGED storeVars
    /\ UNCHANGED now

\* After a conflict: only a collision of the generated session is retried.
ConRecheck(w) ==
    LET j == job[w]
        u == j.prow.user
    IN
    /\ At(w, "con:recheck")
    /\ IF pairings[j.p] # j.prow
       THEN Answer(w, IF pairings[j.p] # None /\ pairings[j.p].status = "expired"
                      THEN "expired" ELSE "conflict")
       ELSE IF ~IsActive(u) THEN Answer(w, "invalid")
       ELSE IF users[u].role # "student" THEN Answer(w, "invalid")
       ELSE IF users[u].updated_at # j.acct.updated_at THEN Answer(w, "conflict")
       ELSE Retry(w, j, "con:save", "unavailable")
    /\ ReadOnly

\* The pairing has been consumed for the session with these columns.
ConsumedFor(p, row) ==
    /\ row # None
    /\ pairings[p] # None
    /\ pairings[p].status = "consumed"
    /\ pairings[p].user = row.user
    /\ pairings[p].consumed_at = row.created_at

\* The rest of _issued_is_valid: reads the pairing.
ConVerify(w) ==
    LET j == job[w] IN
    /\ At(w, "con:verify")
    /\ IF /\ j.out = "ok"
          /\ j.acct.role = "student"
          /\ ConsumedFor(j.p, j.gen)
       THEN Goto(w, "con:deliver")
       ELSE Goto(w, "con:discard")
    /\ ReadOnly

\* Mutant of ConDiscard: the error is answered, the session forgotten.
MutConDiscard(w) ==
    At(w, "con:discard") /\ Goto(w, "con:failed") /\ ReadOnly

\* _best_effort_revoke_issued: what it reads, then revoke.
ConDiscard(w) ==
    LET j == job[w] IN
    /\ At(w, "con:discard")
    /\ IF ConsumedFor(j.p, sessions[j.s])
       THEN CallWithin(w, j, "rev:read", "con:failed", "tui")
       ELSE Goto(w, "con:failed")
    /\ ReadOnly

\* The response with the bearer is written, or the delivery guard discards it:
\* discard_issued_credential reads the session, then revokes it.
ConDeliver(w) ==
    LET j == job[w] IN
    /\ At(w, "con:deliver")
    /\ \/ Answer(w, "ok")
       \/ /\ CanFailToDeliver
          /\ IF sessions[j.s] # None
             THEN CallWithin(w, j, "rev:read", "con:failed", "tui")
             ELSE Goto(w, "con:failed")
    /\ ReadOnly

ConFailed(w) == At(w, "con:failed") /\ Answer(w, "unavailable") /\ ReadOnly

Consume(w) ==
    \/ CallConsume(w) \/ ConRead(w) \/ ConClock(w) \/ ConAccount(w)
    \/ \E s \in SessionIds : ConSave(w, s)
    \/ ConRecheck(w) \/ ConVerify(w) \/ ConDiscard(w) \/ ConDeliver(w) \/ ConFailed(w)

-----------------------------------------------------------------------------
(***************************************************************************)
(* authenticate_bearer: every request of a paired terminal                 *)
(***************************************************************************)

CallBearer(w) ==
    \E s \in SessionIds :
        Begin(w, "bearer", "auth:read",
              [NoJob EXCEPT !.s = s, !.aud = "tui", !.ret = "bear:snapshot"])

\* read_tui_authentication_snapshot: session, account and pairing at one
\* instant, compared with what authenticate returned.
BearSnapshot(w) ==
    LET j == job[w]
        row == sessions[j.s]
    IN
    /\ At(w, "bear:snapshot")
    /\ IF j.out # "ok"
       THEN Answer(w, IF j.out = "invalid" THEN "invalid" ELSE "unavailable")
       ELSE IF /\ Generation(row) = j.gen
               /\ row.revoked_at = None
               /\ users[row.user] = j.acct
               /\ ConsumedFor(row.source_pairing, row)
       THEN Become(w, [j EXCEPT !.at = "bear:clock", !.row = row])
       ELSE Goto(w, "bear:status")
    /\ ReadOnly

\* The clock is read after the snapshot.
BearClock(w) ==
    LET j == job[w] IN
    /\ At(w, "bear:clock")
    /\ IF j.row.last_seen_at <= now /\ now < j.row.expires_at
       THEN Answer(w, IF j.acct.role = "student" THEN "ok" ELSE "denied")
       ELSE Goto(w, "bear:status")
    /\ ReadOnly

\* _credential_current_status, which chooses the error.
BearStatus(w) ==
    LET j == job[w]
        row == sessions[j.s]
    IN
    /\ At(w, "bear:status")
    /\ Answer(w, IF row = None
                 THEN IF now >= j.gen.expires_at THEN "invalid" ELSE "unavailable"
                 ELSE IF \/ row.revoked_at # None
                         \/ now < row.created_at
                         \/ now >= row.expires_at
                         \/ ~IsActive(row.user)
                 THEN "invalid"
                 ELSE IF users[row.user].role # "student" THEN "denied"
                 ELSE "unavailable")
    /\ ReadOnly

Bearer(w) == CallBearer(w) \/ BearSnapshot(w) \/ BearClock(w) \/ BearStatus(w)

-----------------------------------------------------------------------------
(***************************************************************************)
(* PairingService.revoke                                                   *)
(***************************************************************************)

CallRevokePairing(w) ==
    \E p \in PairingIds :
        Begin(w, "revoke_pairing", "prv:read", [NoJob EXCEPT !.p = p])

PrvRead(w) == ReadPairing(w, "prv:read", "prv:clock")

PrvClock(w) == CheckPairing(w, "prv:clock", {"pending", "authorized"}, "prv:save")

PrvSave(w) ==
    LET j == job[w] IN
    /\ At(w, "prv:save")
    /\ \/ RevokePairing(j.p, j.prow, j.t) /\ Answer(w, "ok")
       \/ /\ ~CanEnd(j.p, j.prow)
          /\ Goto(w, "prv:conflict")
          /\ UNCHANGED storeVars
    /\ UNCHANGED <<now, spent>>

PrvConflict(w) == SaveConflict(w, "prv:conflict", None)

RevokePairingCall(w) ==
    CallRevokePairing(w) \/ PrvRead(w) \/ PrvClock(w) \/ PrvSave(w) \/ PrvConflict(w)

-----------------------------------------------------------------------------

PairingCalls(w) ==
    \/ BeginPairing(w) \/ PairExpire(w) \/ Authorize(w) \/ Consume(w)
    \/ Bearer(w) \/ RevokePairingCall(w)

WorkerStep(w) == SessionCalls(w) \/ PairingCalls(w) \/ Finish(w)

PairingNext == Environment \/ \E w \in Workers : WorkerStep(w)

PairingSpec ==
    /\ ServiceInit
    /\ [][PairingNext]_vars
    /\ \A w \in Workers : WF_vars(~At(w, "idle") /\ WorkerStep(w))

-----------------------------------------------------------------------------
(***************************************************************************)
(* Properties                                                              *)
(***************************************************************************)

\* A consumption that put a session in the store and then answered an error
\* leaves it unusable: no live credential that no terminal holds.
UndeliveredIsDead ==
    \A w \in Workers :
        At(w, "done") /\ job[w].op = "consume" /\ job[w].out # "ok" /\ job[w].s # None =>
            ~Usable(sessions[job[w].s], now)

\* Two consumptions of one pairing are never both answered with a credential,
\* whether they run together or one repeats an exchange it thought lost.
OneCredentialPerPairing ==
    \A w1, w2 \in Workers :
        /\ w1 # w2
        /\ At(w1, "done") /\ job[w1].op = "consume" /\ job[w1].out = "ok"
        /\ At(w2, "done") /\ job[w2].op = "consume" /\ job[w2].out = "ok"
        /\ job[w1].p = job[w2].p
        => ~SamePairing(job[w1].prow, job[w2].prow)

\* A pairing ends in at most one credential that somebody holds.
CredentialsAreSingle == UndeliveredIsDead /\ OneCredentialPerPairing

\* The account that authorizes a pairing is, when it does, the active student
\* of the browser's session: the storage compares only the revision, but the
\* revision read with the role has not been replaced since.
ConsentIsByStudent ==
    [][\A w \in Workers :
        At(w, "azn:save") /\ job'[w].out = "ok" /\ job'[w].at = "done" =>
            /\ users[job[w].u] = job[w].acct
            /\ users[job[w].u].active
            /\ users[job[w].u].role = "student"
            /\ pairings'[job[w].p].user = job[w].u
      ]_vars

====
