---------------------------- MODULE IdentityStore ----------------------------
(***************************************************************************)
(* The identity database of TheBitLab: the accounts, sessions and TUI      *)
(* pairings kept by scripts/thebitlab_identity_sqlite.py.                  *)
(*                                                                         *)
(* Every write method runs in one BEGIN IMMEDIATE transaction, so it is    *)
(* one action here.  A method that raises rolls back: it is the absence of *)
(* a step in this module, and an explicit outcome in the modules of the    *)
(* services that call it.  Timestamps (the caller's, and those the storage *)
(* clock gives inside a transaction) are arbitrary members of Time: what   *)
(* is checked and proved here holds for every clock, also one that jumps.  *)
(*                                                                         *)
(* Display names, e-mails and digests are left out: a session id stands    *)
(* for the (UNIQUE) token digest as well, a pairing id for the (UNIQUE)    *)
(* code digest.  The audience of a session is "tui" exactly when it has a  *)
(* source pairing (UserSession.__post_init__).  Class memberships, which   *)
(* only restrict when an account may be approved or onboarded, are not in  *)
(* this module.                                                            *)
(***************************************************************************)
EXTENDS Naturals

CONSTANTS
    Users,          \* account ids
    SessionIds,     \* session ids, each with its token digest
    PairingIds,     \* pairing ids, each with its code digest
    None,           \* the SQL NULL, and the absence of a row
    SessionTTL,     \* life of a session
    PairingTTL,     \* life of a pairing
    MaxTime         \* bound on the timestamps callers and clocks produce

Time == 0 .. MaxTime

Roles == {"pending", "student", "teacher", "admin"}

PairingStatuses == {"pending", "authorized", "consumed", "expired", "revoked"}

UserRow == [role : Roles, active : BOOLEAN, updated_at : Nat]

SessionRow ==
    [user : Users, created_at : Nat, expires_at : Nat, last_seen_at : Nat,
     revoked_at : Nat \cup {None}, source_pairing : PairingIds \cup {None}]

\* ended_at is expired_at in an expired row and revoked_at in a revoked one.
PairingRow ==
    [status : PairingStatuses, created_at : Nat, expires_at : Nat,
     user : Users \cup {None}, authorized_at : Nat \cup {None},
     consumed_at : Nat \cup {None}, ended_at : Nat \cup {None}]

ASSUME NoneAssumption ==
    /\ None \notin Nat
    /\ None \notin Users
    /\ None \notin PairingIds
    /\ None \notin UserRow
    /\ None \notin SessionRow
    /\ None \notin PairingRow

\* _positive_ttl refuses any other time to live.
ASSUME TTLAssumption ==
    /\ SessionTTL \in Nat \ {0}
    /\ PairingTTL \in Nat \ {0}
    /\ MaxTime \in Nat

VARIABLES
    users,          \* account rows
    sessions,       \* session rows
    pairings,       \* pairing rows
    \* History variables, read by no action:
    fence,          \* revision of the last change that revokes an account's sessions
    issuedUnder     \* account revision under which a session was inserted

dbVars == <<users, sessions, pairings>>

storeVars == <<users, sessions, pairings, fence, issuedUnder>>

TypeOK ==
    /\ users \in [Users -> UserRow \cup {None}]
    /\ sessions \in [SessionIds -> SessionRow \cup {None}]
    /\ pairings \in [PairingIds -> PairingRow \cup {None}]
    /\ fence \in [Users -> Nat]
    /\ issuedUnder \in [SessionIds -> Nat]

Init ==
    /\ users = [u \in Users |-> None]
    /\ sessions = [s \in SessionIds |-> None]
    /\ pairings = [p \in PairingIds |-> None]
    /\ fence = [u \in Users |-> 0]
    /\ issuedUnder = [s \in SessionIds |-> 0]

-----------------------------------------------------------------------------
(***************************************************************************)
(* Rows and what the queries select                                        *)
(***************************************************************************)

\* A new session row, web (p = None) or emitted by the consumed pairing p.
NewSession(u, t, p) ==
    [user |-> u, created_at |-> t, expires_at |-> t + SessionTTL,
     last_seen_at |-> t, revoked_at |-> None, source_pairing |-> p]

NewPairing(t) ==
    [status |-> "pending", created_at |-> t, expires_at |-> t + PairingTTL,
     user |-> None, authorized_at |-> None, consumed_at |-> None,
     ended_at |-> None]

IsActive(u) == users[u] # None /\ users[u].active

\* An unrevoked session of u, revoked or not by the clock.
OpenSession(s, u) ==
    /\ sessions[s] # None
    /\ sessions[s].user = u
    /\ sessions[s].revoked_at = None

\* A session which a change of u dated t cannot revoke because it is younger
\* than the change: the query that makes the transaction raise.
StaleFor(s, u, t) ==
    /\ OpenSession(s, u)
    /\ sessions[s].expires_at > t
    /\ \/ sessions[s].created_at > t
       \/ sessions[s].last_seen_at > t

\* The sessions the UPDATE of approve, bootstrap and revoke_user_sessions hits.
LiveAt(s, u, t) ==
    /\ OpenSession(s, u)
    /\ sessions[s].created_at <= t
    /\ t < sessions[s].expires_at

\* Mutant of SessionsRevokedAt: the bulk revocation is forgotten.
MutSessionsRevokedAt(u, t) == sessions

SessionsRevokedAt(u, t) ==
    [s \in SessionIds |->
        IF LiveAt(s, u, t) THEN [sessions[s] EXCEPT !.revoked_at = t]
        ELSE sessions[s]]

\* DELETE FROM tui_pairings WHERE user_id = ? AND status = 'authorized'
WithoutAuthorized(u) ==
    [p \in PairingIds |->
        IF /\ pairings[p] # None
           /\ pairings[p].status = "authorized"
           /\ pairings[p].user = u
        THEN None ELSE pairings[p]]

-----------------------------------------------------------------------------
(***************************************************************************)
(* Accounts                                                                *)
(***************************************************************************)

\* provision_user_with_identity: a new federated account is pending.
ProvisionUser(u, t) ==
    /\ users[u] = None
    /\ users' = [users EXCEPT ![u] =
                    [role |-> "pending", active |-> TRUE, updated_at |-> t]]
    /\ UNCHANGED <<sessions, pairings, fence, issuedUnder>>

\* The instant at which disabling an account revokes one of its sessions:
\* the disabling itself if it falls in the session's life, else the last use.
DisabledAt(row, t) ==
    IF t >= row.last_seen_at /\ t < row.expires_at THEN t ELSE row.last_seen_at

SessionsDisabled(u, t) ==
    [s \in SessionIds |->
        IF OpenSession(s, u)
        THEN [sessions[s] EXCEPT !.revoked_at = DisabledAt(sessions[s], t)]
        ELSE sessions[s]]

\* save_user with the expected revision current: the new revision is later.
SaveActiveUser(u, role, t) ==
    /\ users[u] # None
    /\ t > users[u].updated_at
    /\ users' = [users EXCEPT ![u] =
                    [role |-> role, active |-> TRUE, updated_at |-> t]]
    /\ UNCHANGED <<sessions, pairings, fence, issuedUnder>>

\* save_user of an inactive account also ends its sessions and authorized
\* pairings.
SaveInactiveUser(u, role, t) ==
    /\ users[u] # None
    /\ t > users[u].updated_at
    /\ users' = [users EXCEPT ![u] =
                    [role |-> role, active |-> FALSE, updated_at |-> t]]
    /\ sessions' = SessionsDisabled(u, t)
    /\ pairings' = WithoutAuthorized(u)
    /\ fence' = [fence EXCEPT ![u] = t]
    /\ UNCHANGED issuedUnder

\* What approving and bootstrapping an account have in common: the pending,
\* active target gets its role at a later revision, and every session and
\* authorized pairing it had as pending ends.
Promote(u, role, t) ==
    /\ IsActive(u)
    /\ users[u].role = "pending"
    /\ t > users[u].updated_at
    /\ \A s \in SessionIds : ~StaleFor(s, u, t)
    /\ users' = [users EXCEPT ![u] =
                    [role |-> role, active |-> TRUE, updated_at |-> t]]
    /\ sessions' = SessionsRevokedAt(u, t)
    /\ pairings' = WithoutAuthorized(u)
    /\ fence' = [fence EXCEPT ![u] = t]
    /\ UNCHANGED issuedUnder

IsAdmin(u) == users[u] # None /\ users[u].role = "admin"

\* bootstrap_first_admin
BootstrapFirstAdmin(u, t) ==
    /\ \A v \in Users : ~IsAdmin(v)
    /\ Promote(u, "admin", t)

\* approve_pending_user_as_admin
ApprovePendingUser(actor, u, role, t) ==
    /\ IsAdmin(actor) /\ IsActive(actor)
    /\ actor # u
    /\ role \in {"teacher", "student"}
    /\ Promote(u, role, t)

\* onboard_pending_user_from_external_group: the new revision comes from
\* _next_generation, later than the old one; sessions are left alone.
OnboardPendingUser(u, t) ==
    /\ IsActive(u)
    /\ users[u].role = "pending"
    /\ t > users[u].updated_at
    /\ users' = [users EXCEPT ![u] =
                    [role |-> "student", active |-> TRUE, updated_at |-> t]]
    /\ UNCHANGED <<sessions, pairings, fence, issuedUnder>>

-----------------------------------------------------------------------------
(***************************************************************************)
(* Sessions                                                                *)
(***************************************************************************)

\* The INSERT ... SELECT of create_session_for_active_user finds its user row
\* at the expected revision and meets no UNIQUE constraint.
CanInsertSession(s, u, rev) ==
    /\ sessions[s] = None
    /\ IsActive(u)
    /\ users[u].updated_at = rev

InsertSession(s, row) ==
    /\ sessions' = [sessions EXCEPT ![s] = row]
    /\ issuedUnder' = [issuedUnder EXCEPT ![s] = users[row.user].updated_at]

\* create_session_for_active_user
CreateSession(s, u, rev, t) ==
    /\ CanInsertSession(s, u, rev)
    /\ InsertSession(s, NewSession(u, t, None))
    /\ UNCHANGED <<users, pairings, fence>>

\* The immutable columns every UPDATE of a session compares.
SameGeneration(row, row2) ==
    /\ row # None
    /\ row2 # None
    /\ row.user = row2.user
    /\ row.created_at = row2.created_at
    /\ row.expires_at = row2.expires_at
    /\ row.source_pairing = row2.source_pairing

\* Mutant of CanTouch: without the account's revision.
MutCanTouchAnyRevision(s, row, rev, t) ==
    /\ SameGeneration(sessions[s], row)
    /\ sessions[s].revoked_at = None
    /\ sessions[s].last_seen_at <= t
    /\ t < sessions[s].expires_at
    /\ IsActive(row.user)

\* The WHERE of save_session_for_active_user, for the row the caller read, the
\* account revision it read and the transaction's own instant t.
CanTouch(s, row, rev, t) ==
    /\ SameGeneration(sessions[s], row)
    /\ sessions[s].revoked_at = None
    /\ sessions[s].last_seen_at <= t
    /\ sessions[s].created_at <= t
    /\ t < sessions[s].expires_at
    /\ IsActive(row.user)
    /\ users[row.user].updated_at = rev

TouchSession(s, row, rev, t) ==
    /\ CanTouch(s, row, rev, t)
    /\ sessions' = [sessions EXCEPT ![s].last_seen_at = t]
    /\ UNCHANGED <<users, pairings, fence, issuedUnder>>

\* save_session with revoked_at = t.  The domain object was built from the row
\* the caller read, so t is in that row's life, at or after its last use.
CanRevoke(s, row, t) ==
    /\ SameGeneration(sessions[s], row)
    /\ row.last_seen_at <= t
    /\ row.created_at <= t
    /\ t < row.expires_at
    /\ sessions[s].revoked_at = None
    /\ sessions[s].last_seen_at <= t

Later(t1, t2) == IF t1 > t2 THEN t1 ELSE t2

RevokeSession(s, row, t) ==
    /\ CanRevoke(s, row, t)
    /\ sessions' = [sessions EXCEPT
            ![s].last_seen_at = Later(sessions[s].last_seen_at, row.last_seen_at),
            ![s].revoked_at = t]
    /\ UNCHANGED <<users, pairings, fence, issuedUnder>>

Audience(row) == IF row.source_pairing = None THEN "web" ELSE "tui"

\* Mutant of CanRevokeAll: younger sessions do not stop it.
MutCanRevokeAll(u, t, aud) == TRUE

\* revoke_user_sessions, which the session services call with their audience.
CanRevokeAll(u, t, aud) ==
    \A s \in SessionIds : StaleFor(s, u, t) => Audience(sessions[s]) # aud

RevokeUserSessions(u, t, aud) ==
    /\ CanRevokeAll(u, t, aud)
    /\ sessions' =
        [s \in SessionIds |->
            IF LiveAt(s, u, t) /\ Audience(sessions[s]) = aud
            THEN [sessions[s] EXCEPT !.revoked_at = t]
            ELSE sessions[s]]
    /\ UNCHANGED <<users, pairings, fence, issuedUnder>>

\* delete_expired_sessions
DeleteExpiredSessions(t) ==
    /\ sessions' =
        [s \in SessionIds |->
            IF sessions[s] # None /\ sessions[s].expires_at <= t
            THEN None ELSE sessions[s]]
    /\ UNCHANGED <<users, pairings, fence, issuedUnder>>

-----------------------------------------------------------------------------
(***************************************************************************)
(* Pairings                                                                *)
(***************************************************************************)

\* Mutant of CreatePairing: a row with this id or code is replaced.
MutCreatePairing(p, t) ==
    /\ pairings' = [pairings EXCEPT ![p] = NewPairing(t)]
    /\ UNCHANGED <<users, sessions, fence, issuedUnder>>

CreatePairing(p, t) ==
    /\ pairings[p] = None
    /\ pairings' = [pairings EXCEPT ![p] = NewPairing(t)]
    /\ UNCHANGED <<users, sessions, fence, issuedUnder>>

\* The row a caller read is still the one with this id, code and life.
SamePairing(row, row2) ==
    /\ row # None
    /\ row2 # None
    /\ row.created_at = row2.created_at
    /\ row.expires_at = row2.expires_at

ExpiredRow(row, t) == [row EXCEPT !.status = "expired", !.ended_at = t]

\* Mutant of CanAuthorize: the account may have changed since it was read.
MutCanAuthorize(p, row, u, rev, clk) ==
    /\ SamePairing(pairings[p], row)
    /\ pairings[p].status = "pending"
    /\ IsActive(u)
    /\ clk < pairings[p].expires_at

\* save_pairing_for_active_user with status authorized, where clk is the clock
\* read inside the transaction.
CanAuthorize(p, row, u, rev, clk) ==
    /\ SamePairing(pairings[p], row)
    /\ pairings[p].status = "pending"
    /\ IsActive(u)
    /\ users[u].updated_at = rev
    /\ clk < pairings[p].expires_at

AuthorizePairing(p, row, u, rev, t, clk) ==
    /\ row # None
    /\ row.created_at <= t
    /\ t < row.expires_at
    /\ CanAuthorize(p, row, u, rev, clk)
    /\ pairings' = [pairings EXCEPT ![p].status = "authorized",
                                    ![p].user = u,
                                    ![p].authorized_at = t]
    /\ UNCHANGED <<users, sessions, fence, issuedUnder>>

OutOfTime(p, clk) ==
    /\ pairings[p] # None
    /\ pairings[p].status = "pending"
    /\ pairings[p].expires_at <= clk

\* The authorization found the pairing pending and out of time: the failed
\* transition is replaced by the expiry, in the same transaction.
ExpireOnAuthorize(p, clk) ==
    /\ OutOfTime(p, clk)
    /\ pairings' = [pairings EXCEPT ![p] = ExpiredRow(pairings[p], clk)]
    /\ UNCHANGED <<users, sessions, fence, issuedUnder>>

\* Mutant of CanEnd: the current state is not compared with the one read.
MutCanEndStale(p, row) ==
    /\ SamePairing(pairings[p], row)
    /\ row.status \in {"pending", "authorized"}

\* save_pairing to a terminal status: the current row must still be in the
\* state the caller read, authorization included.
CanEnd(p, row) ==
    /\ SamePairing(pairings[p], row)
    /\ row.status \in {"pending", "authorized"}
    /\ pairings[p].status = row.status
    /\ pairings[p].user = row.user
    /\ pairings[p].authorized_at = row.authorized_at

\* _require_current, past the deadline
ExpirePairing(p, row, t) ==
    /\ CanEnd(p, row)
    /\ row.expires_at <= t
    /\ pairings' = [pairings EXCEPT ![p] = ExpiredRow(pairings[p], t)]
    /\ UNCHANGED <<users, sessions, fence, issuedUnder>>

\* revoke_pairing, within the life of the pairing and after its authorization
RevokePairing(p, row, t) ==
    /\ CanEnd(p, row)
    /\ row.created_at <= t
    /\ t < row.expires_at
    /\ row.authorized_at # None => row.authorized_at <= t
    /\ pairings' = [pairings EXCEPT ![p].status = "revoked", ![p].ended_at = t]
    /\ UNCHANGED <<users, sessions, fence, issuedUnder>>

\* Mutant of AuthorizedAsRead: a consumed pairing is accepted again.
MutAuthorizedAsRead(p, row) ==
    /\ SamePairing(pairings[p], row)
    /\ row.status \in {"authorized", "consumed"}
    /\ pairings[p].status \in {"authorized", "consumed"}
    /\ pairings[p].user = row.user

\* The row the UPDATEs of consume_pairing_and_create_session look for.
AuthorizedAsRead(p, row) ==
    /\ SamePairing(pairings[p], row)
    /\ row.status = "authorized"
    /\ pairings[p].status = "authorized"
    /\ pairings[p].user = row.user
    /\ pairings[p].authorized_at = row.authorized_at

\* PairingService.consume on its own: no session, and no second look at the
\* clock, which only the authorization and the atomic consumption take.
ConsumeWithoutSession(p, row, rev, t) ==
    /\ AuthorizedAsRead(p, row)
    /\ row.authorized_at <= t
    /\ t < row.expires_at
    /\ IsActive(row.user)
    /\ users[row.user].updated_at = rev
    /\ pairings' = [pairings EXCEPT ![p].status = "consumed",
                                    ![p].consumed_at = t]
    /\ UNCHANGED <<users, sessions, fence, issuedUnder>>

\* The account is still the active student of the revision read, and neither
\* the session id nor the token collides.
CanConsume(p, s, row, rev, clk) ==
    /\ AuthorizedAsRead(p, row)
    /\ row.created_at <= clk
    /\ row.authorized_at <= clk
    /\ IsActive(row.user)
    /\ users[row.user].role = "student"
    /\ users[row.user].updated_at = rev
    /\ sessions[s] = None

\* consume_pairing_and_create_session with consumed_at = t and transaction
\* instant clk = max(t, storage clock): pairing and session in one commit.
ConsumePairing(p, s, row, rev, t, clk) ==
    /\ t <= clk
    /\ AuthorizedAsRead(p, row)
    /\ row.authorized_at <= t
    /\ clk < row.expires_at
    /\ clk < t + SessionTTL
    /\ CanConsume(p, s, row, rev, clk)
    /\ pairings' = [pairings EXCEPT ![p].status = "consumed",
                                    ![p].consumed_at = t]
    /\ InsertSession(s, NewSession(row.user, t, p))
    /\ UNCHANGED <<users, fence>>

\* The same method past the deadline: the pairing is committed as expired.
ExpireOnConsume(p, row, clk) ==
    /\ AuthorizedAsRead(p, row)
    /\ row.expires_at <= clk
    /\ pairings' = [pairings EXCEPT ![p] = ExpiredRow(pairings[p], clk)]
    /\ UNCHANGED <<users, sessions, fence, issuedUnder>>

\* delete_expired_pairings spares a pairing some session still refers to.
DeleteExpiredPairings(t) ==
    /\ pairings' =
        [p \in PairingIds |->
            IF /\ pairings[p] # None
               /\ pairings[p].expires_at <= t
               /\ \A s \in SessionIds :
                    sessions[s] # None => sessions[s].source_pairing # p
            THEN None ELSE pairings[p]]
    /\ UNCHANGED <<users, sessions, fence, issuedUnder>>

-----------------------------------------------------------------------------
(***************************************************************************)
(* Any caller, at any time.  A compare-and-set that succeeds has read the  *)
(* current row up to the columns it does not compare, so at this level the *)
(* row and the revision a caller holds are the current ones.               *)
(***************************************************************************)

AccountStep ==
    \E u \in Users, t \in Time :
        \/ ProvisionUser(u, t)
        \/ \E role \in Roles : SaveActiveUser(u, role, t)
        \/ \E role \in Roles : SaveInactiveUser(u, role, t)
        \/ BootstrapFirstAdmin(u, t)
        \/ \E actor \in Users, role \in Roles : ApprovePendingUser(actor, u, role, t)
        \/ OnboardPendingUser(u, t)

SessionStep ==
    \E t \in Time :
        \/ \E s \in SessionIds, u \in Users :
                IsActive(u) /\ CreateSession(s, u, users[u].updated_at, t)
        \/ \E s \in SessionIds :
                /\ sessions[s] # None
                /\ IsActive(sessions[s].user)
                /\ TouchSession(s, sessions[s], users[sessions[s].user].updated_at, t)
        \/ \E s \in SessionIds : RevokeSession(s, sessions[s], t)
        \/ \E u \in Users, aud \in {"web", "tui"} : RevokeUserSessions(u, t, aud)
        \/ DeleteExpiredSessions(t)

PairingStep ==
    \E t \in Time :
        \/ \E p \in PairingIds : CreatePairing(p, t)
        \/ \E p \in PairingIds, u \in Users, clk \in Time :
                /\ IsActive(u)
                /\ AuthorizePairing(p, pairings[p], u, users[u].updated_at, t, clk)
        \/ \E p \in PairingIds : ExpireOnAuthorize(p, t)
        \/ \E p \in PairingIds : ExpirePairing(p, pairings[p], t)
        \/ \E p \in PairingIds : RevokePairing(p, pairings[p], t)
        \/ \E p \in PairingIds, s \in SessionIds, clk \in Time :
                /\ pairings[p] # None
                /\ pairings[p].user \in Users
                /\ IsActive(pairings[p].user)
                /\ ConsumePairing(p, s, pairings[p],
                                  users[pairings[p].user].updated_at, t, clk)
        \/ \E p \in PairingIds :
                /\ pairings[p] # None
                /\ pairings[p].user \in Users
                /\ IsActive(pairings[p].user)
                /\ ConsumeWithoutSession(p, pairings[p],
                                         users[pairings[p].user].updated_at, t)
        \/ \E p \in PairingIds : ExpireOnConsume(p, pairings[p], t)
        \/ DeleteExpiredPairings(t)

Next == AccountStep \/ SessionStep \/ PairingStep

Spec == Init /\ [][Next]_storeVars

-----------------------------------------------------------------------------
(***************************************************************************)
(* Properties                                                              *)
(***************************************************************************)

\* The CHECK constraints of the sessions table and UserSession.__post_init__.
SessionContract(row) ==
    /\ row.created_at <= row.last_seen_at
    /\ row.last_seen_at < row.expires_at
    /\ row.revoked_at # None =>
            row.last_seen_at <= row.revoked_at /\ row.revoked_at < row.expires_at

\* The CHECK constraints of tui_pairings and TuiPairing.__post_init__.
PairingContract(row) ==
    /\ row.created_at < row.expires_at
    /\ (row.user = None) <=> (row.authorized_at = None)
    /\ row.authorized_at # None =>
            row.created_at <= row.authorized_at /\ row.authorized_at < row.expires_at
    /\ (row.status = "consumed") <=> (row.consumed_at # None)
    /\ (row.status \in {"expired", "revoked"}) <=> (row.ended_at # None)
    /\ row.status = "pending" => row.user = None
    /\ row.status \in {"authorized", "consumed"} => row.user # None
    /\ row.consumed_at # None =>
            row.authorized_at <= row.consumed_at /\ row.consumed_at < row.expires_at
    /\ row.status = "expired" => row.expires_at <= row.ended_at
    /\ row.status = "revoked" => row.ended_at < row.expires_at

\* Whatever the clocks do, no bulk UPDATE writes a row the table's CHECKs or
\* the domain constructors refuse: disabling or promoting an account is never
\* undone by a constraint, and every row can be read back.
RowsValid ==
    /\ TypeOK
    /\ \A s \in SessionIds : sessions[s] # None => SessionContract(sessions[s])
    /\ \A p \in PairingIds : pairings[p] # None => PairingContract(pairings[p])

\* A TUI session refers to a pairing that is in the table, consumed, by the
\* same user, at the instant the session was created: what the triggers of
\* migrations 8 and 10 state, kept by every method, the cleanup included.
TuiSessionCorrelated ==
    \A s \in SessionIds :
        sessions[s] # None /\ sessions[s].source_pairing # None =>
            LET row == pairings[sessions[s].source_pairing] IN
            /\ row # None
            /\ row.status = "consumed"
            /\ row.user = sessions[s].user
            /\ row.consumed_at = sessions[s].created_at

\* One pairing never has two sessions (uq_sessions_source_pairing).
OneSessionPerPairing ==
    \A s1, s2 \in SessionIds :
        /\ sessions[s1] # None /\ sessions[s2] # None
        /\ sessions[s1].source_pairing # None
        /\ sessions[s1].source_pairing = sessions[s2].source_pairing
        => s1 = s2

\* A disabled account has no unrevoked session and no authorized pairing, in
\* whatever order it was disabled, logged in, paired and cleaned up.
DisabledHasNothing ==
    \A u \in Users : users[u] # None /\ ~users[u].active =>
        /\ \A s \in SessionIds : ~OpenSession(s, u)
        /\ \A p \in PairingIds :
                pairings[p] # None /\ pairings[p].user = u =>
                    pairings[p].status # "authorized"

\* A session inserted before its account was last disabled, approved or
\* bootstrapped is revoked, or had expired by then: re-enabling an account
\* brings none of them back.
RevocationFence ==
    \A s \in SessionIds :
        sessions[s] # None /\ issuedUnder[s] < fence[sessions[s].user] =>
            \/ sessions[s].revoked_at # None
            \/ sessions[s].expires_at <= fence[sessions[s].user]

\* A session row keeps its immutable columns, its last use never goes back and
\* its revocation is final, until the row is deleted after its expiry.
SessionHistory ==
    [][\A s \in SessionIds :
        sessions[s] # None /\ sessions'[s] # None =>
            /\ SameGeneration(sessions[s], sessions'[s])
            /\ sessions[s].last_seen_at <= sessions'[s].last_seen_at
            /\ sessions[s].revoked_at # None => sessions'[s] = sessions[s]
      ]_storeVars

\* What the services build on, in whatever order the transactions come: rows
\* that can be read back, terminals tied to their pairings one to one, nothing
\* left to a disabled account, and no session revived by a change of account.
StoreIsSound ==
    /\ RowsValid /\ TuiSessionCorrelated /\ OneSessionPerPairing
    /\ DisabledHasNothing /\ RevocationFence

-----------------------------------------------------------------------------
(***************************************************************************)
(* The store implements one-shot grants                                    *)
(***************************************************************************)

\* The refinement mapping: a pairing row as the phase of a grant.
PhaseOf(row) ==
    IF row = None THEN "none"
    ELSE CASE row.status = "pending" -> "offered"
           [] row.status = "authorized" -> "accepted"
           [] row.status = "consumed" -> "redeemed"
           [] OTHER -> "closed"

SessionOf(p) ==
    IF \E s \in SessionIds : sessions[s] # None /\ sessions[s].source_pairing = p
    THEN CHOOSE s \in SessionIds :
            sessions[s] # None /\ sessions[s].source_pairing = p
    ELSE None

HolderOf(s) ==
    IF sessions[s] # None /\ sessions[s].source_pairing # None
    THEN sessions[s].user ELSE None

Grant == INSTANCE OneShotGrant WITH
    Grants <- PairingIds,
    Owners <- Users,
    Credentials <- SessionIds,
    Nobody <- None,
    phase <- [p \in PairingIds |-> PhaseOf(pairings[p])],
    owner <- [p \in PairingIds |-> IF pairings[p] = None THEN None ELSE pairings[p].user],
    credential <- [p \in PairingIds |-> SessionOf(p)],
    holder <- [s \in SessionIds |-> HolderOf(s)]

\* Every sequence of store transactions is a behaviour of the one-shot grants:
\* consume_pairing_and_create_session gives a pairing its only TUI session.
ImplementsOneShotGrant == Grant!Spec
====
