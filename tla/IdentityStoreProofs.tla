------------------------- MODULE IdentityStoreProofs -------------------------
(***************************************************************************)
(* Proofs about IdentityStore, for every set of accounts, sessions and     *)
(* pairings and every pair of times to live.                               *)
(***************************************************************************)
EXTENDS IdentityStore, TLAPS

\* The row constructors build rows of their types.
LEMMA NewRowTypes ==
    ASSUME NEW u \in Users, NEW t \in Nat, NEW p \in PairingIds \cup {None}
    PROVE  /\ NewSession(u, t, p) \in SessionRow
           /\ NewPairing(t) \in PairingRow
BY TTLAssumption DEF NewSession, NewPairing, SessionRow, PairingRow, PairingStatuses

\* The timestamps of the transactions are natural numbers.
LEMMA TimeIsNat == Time \subseteq Nat
BY TTLAssumption DEF Time

\* The bulk updates of sessions and pairings keep the tables' types.
LEMMA BulkTypes ==
    ASSUME TypeOK, NEW u \in Users, NEW t \in Nat
    PROVE  /\ SessionsRevokedAt(u, t) \in [SessionIds -> SessionRow \cup {None}]
           /\ SessionsDisabled(u, t) \in [SessionIds -> SessionRow \cup {None}]
           /\ WithoutAuthorized(u) \in [PairingIds -> PairingRow \cup {None}]
<1>1. ASSUME NEW s \in SessionIds, sessions[s] # None, NEW r \in Nat \cup {None}
      PROVE  [sessions[s] EXCEPT !.revoked_at = r] \in SessionRow
  BY <1>1 DEF TypeOK, SessionRow
<1>2. ASSUME NEW s \in SessionIds, sessions[s] # None
      PROVE  DisabledAt(sessions[s], t) \in Nat
  BY <1>2 DEF TypeOK, SessionRow, DisabledAt
<1>3. SessionsRevokedAt(u, t) \in [SessionIds -> SessionRow \cup {None}]
  BY <1>1 DEF TypeOK, SessionsRevokedAt, LiveAt, OpenSession
<1>4. SessionsDisabled(u, t) \in [SessionIds -> SessionRow \cup {None}]
  BY <1>1, <1>2 DEF TypeOK, SessionsDisabled, OpenSession
<1>5. WithoutAuthorized(u) \in [PairingIds -> PairingRow \cup {None}]
  BY DEF TypeOK, WithoutAuthorized
<1>. QED  BY <1>3, <1>4, <1>5

\* The account methods (provision_user_with_identity, save_user, bootstrap_first_admin,
\* approve_pending_user_as_admin, onboard_pending_user) keep the column types.
LEMMA AccountTypes == TypeOK /\ AccountStep => TypeOK'
<1>. SUFFICES ASSUME TypeOK, AccountStep PROVE TypeOK'
  OBVIOUS
<1>. PICK u \in Users, t \in Time :
        \/ ProvisionUser(u, t)
        \/ \E role \in Roles : SaveActiveUser(u, role, t)
        \/ \E role \in Roles : SaveInactiveUser(u, role, t)
        \/ BootstrapFirstAdmin(u, t)
        \/ \E actor \in Users, role \in Roles : ApprovePendingUser(actor, u, role, t)
        \/ OnboardPendingUser(u, t)
  BY DEF AccountStep
<1>0. t \in Nat
  BY TimeIsNat
<1>1. CASE ProvisionUser(u, t)
  BY <1>0, <1>1 DEF TypeOK, ProvisionUser, UserRow, Roles
<1>2. ASSUME NEW role \in Roles, SaveActiveUser(u, role, t) PROVE TypeOK'
  BY <1>0, <1>2 DEF TypeOK, SaveActiveUser, UserRow
<1>2a. ASSUME NEW role \in Roles, SaveInactiveUser(u, role, t) PROVE TypeOK'
  BY <1>0, <1>2a, BulkTypes DEF TypeOK, SaveInactiveUser, UserRow
<1>3. ASSUME NEW role \in Roles, Promote(u, role, t) PROVE TypeOK'
  BY <1>0, <1>3, BulkTypes DEF TypeOK, Promote, UserRow
<1>4. CASE BootstrapFirstAdmin(u, t)
  BY <1>3, <1>4 DEF BootstrapFirstAdmin, Roles
<1>5. ASSUME NEW actor \in Users, NEW role \in Roles, ApprovePendingUser(actor, u, role, t)
      PROVE  TypeOK'
  BY <1>3, <1>5 DEF ApprovePendingUser
<1>6. CASE OnboardPendingUser(u, t)
  BY <1>0, <1>6 DEF TypeOK, OnboardPendingUser, UserRow, Roles
<1>. QED  BY <1>1, <1>2, <1>2a, <1>4, <1>5, <1>6

\* The session methods (create, save, revoke_user_sessions, delete_expired) keep
\* the column types.
LEMMA SessionTypes == TypeOK /\ SessionStep => TypeOK'
<1>. SUFFICES ASSUME TypeOK, NEW t \in Time,
        \/ \E s \in SessionIds, u \in Users :
                IsActive(u) /\ CreateSession(s, u, users[u].updated_at, t)
        \/ \E s \in SessionIds :
                /\ sessions[s] # None
                /\ IsActive(sessions[s].user)
                /\ TouchSession(s, sessions[s], users[sessions[s].user].updated_at, t)
        \/ \E s \in SessionIds : RevokeSession(s, sessions[s], t)
        \/ \E u \in Users, aud \in {"web", "tui"} : RevokeUserSessions(u, t, aud)
        \/ DeleteExpiredSessions(t)
     PROVE TypeOK'
  BY DEF SessionStep
<1>0. t \in Nat
  BY TimeIsNat
<1>1. ASSUME NEW s \in SessionIds, NEW u \in Users, IsActive(u),
             CreateSession(s, u, users[u].updated_at, t)
      PROVE  TypeOK'
  <2>1. users[u].updated_at \in Nat
    BY <1>1 DEF TypeOK, UserRow, IsActive
  <2>2. NewSession(u, t, None).user = u
    BY DEF NewSession
  <2>. QED
    BY <1>0, <1>1, <2>1, <2>2, NewRowTypes DEF TypeOK, CreateSession, InsertSession
<1>2. ASSUME NEW s \in SessionIds, sessions[s] # None,
             TouchSession(s, sessions[s], users[sessions[s].user].updated_at, t)
      PROVE  TypeOK'
  BY <1>0, <1>2 DEF TypeOK, TouchSession, SessionRow
<1>3. ASSUME NEW s \in SessionIds, RevokeSession(s, sessions[s], t) PROVE TypeOK'
  <2>1. sessions[s] \in SessionRow
    BY <1>3 DEF TypeOK, RevokeSession, CanRevoke, SameGeneration
  <2>. QED
    BY <1>0, <1>3, <2>1 DEF TypeOK, RevokeSession, SessionRow, Later
<1>4. ASSUME NEW u \in Users, NEW aud \in {"web", "tui"}, RevokeUserSessions(u, t, aud)
      PROVE  TypeOK'
  <2>1. ASSUME NEW s \in SessionIds, sessions[s] # None
        PROVE  [sessions[s] EXCEPT !.revoked_at = t] \in SessionRow
    BY <1>0, <2>1 DEF TypeOK, SessionRow
  <2>. QED
    BY <1>4, <2>1 DEF TypeOK, RevokeUserSessions, LiveAt, OpenSession
<1>5. CASE DeleteExpiredSessions(t)
  BY <1>5 DEF TypeOK, DeleteExpiredSessions
<1>. QED  BY <1>1, <1>2, <1>3, <1>4, <1>5

\* The pairing methods (create, authorize, save, consume, delete_expired) keep the
\* column types.
LEMMA PairingTypes == TypeOK /\ PairingStep => TypeOK'
<1>. SUFFICES ASSUME TypeOK, NEW t \in Time,
        \/ \E p \in PairingIds : CreatePairing(p, t)
        \/ \E p \in PairingIds, u \in Users, clk \in Time :
                /\ IsActive(u)
                /\ AuthorizePairing(p, pairings[p], u, users[u].updated_at, t, clk)
        \/ \E p \in PairingIds : ExpireOnAuthorize(p, t)
        \/ \E p \in PairingIds : ExpirePairing(p, pairings[p], t)
        \/ \E p \in PairingIds : RevokePairing(p, pairings[p], t)
        \/ \E p \in PairingIds, s \in SessionIds, clk \in Time :
                /\ pairings[p] # None
                /\ pairings[p].user \in Users
                /\ IsActive(pairings[p].user)
                /\ ConsumePairing(p, s, pairings[p],
                                  users[pairings[p].user].updated_at, t, clk)
        \/ \E p \in PairingIds :
                /\ pairings[p] # None
                /\ pairings[p].user \in Users
                /\ IsActive(pairings[p].user)
                /\ ConsumeWithoutSession(p, pairings[p],
                                         users[pairings[p].user].updated_at, t)
        \/ \E p \in PairingIds : ExpireOnConsume(p, pairings[p], t)
        \/ DeleteExpiredPairings(t)
     PROVE TypeOK'
  BY DEF PairingStep
<1>0. t \in Nat
  BY TimeIsNat
<1>1. ASSUME NEW p \in PairingIds, CreatePairing(p, t) PROVE TypeOK'
  <2>1. NewPairing(t) \in PairingRow
    BY <1>0, TTLAssumption DEF NewPairing, PairingRow, PairingStatuses
  <2>. QED  BY <1>1, <2>1 DEF TypeOK, CreatePairing
<1>2. ASSUME NEW p \in PairingIds, pairings[p] # None,
             NEW st \in PairingStatuses, NEW f \in Nat,
             UNCHANGED <<users, sessions, fence, issuedUnder>>,
             \/ pairings' = [pairings EXCEPT ![p] = ExpiredRow(pairings[p], f)]
             \/ pairings' = [pairings EXCEPT ![p].status = st, ![p].ended_at = f]
             \/ pairings' = [pairings EXCEPT ![p].status = st, ![p].consumed_at = f]
             \/ \E u \in Users :
                  pairings' = [pairings EXCEPT ![p].status = st, ![p].user = u,
                                               ![p].authorized_at = f]
      PROVE  TypeOK'
  <2>1. pairings[p] \in PairingRow
    BY <1>2 DEF TypeOK
  <2>2. ASSUME NEW row \in PairingRow, pairings' = [pairings EXCEPT ![p] = row]
        PROVE  TypeOK'
    BY <1>2, <2>2 DEF TypeOK
  <2>3. CASE pairings' = [pairings EXCEPT ![p] = ExpiredRow(pairings[p], f)]
    BY <2>1, <2>2, <2>3 DEF PairingRow, PairingStatuses, ExpiredRow
  <2>4. CASE pairings' = [pairings EXCEPT ![p].status = st, ![p].ended_at = f]
    BY <2>1, <2>2, <2>4 DEF PairingRow
  <2>5. CASE pairings' = [pairings EXCEPT ![p].status = st, ![p].consumed_at = f]
    BY <2>1, <2>2, <2>5 DEF PairingRow
  <2>6. ASSUME NEW u \in Users,
               pairings' = [pairings EXCEPT ![p].status = st, ![p].user = u,
                                            ![p].authorized_at = f]
        PROVE  TypeOK'
    BY <2>1, <2>2, <2>6 DEF PairingRow
  <2>. QED  BY <1>2, <2>3, <2>4, <2>5, <2>6
<1>3. ASSUME NEW p \in PairingIds, NEW u \in Users, NEW clk \in Time,
             AuthorizePairing(p, pairings[p], u, users[u].updated_at, t, clk)
      PROVE  TypeOK'
  BY <1>0, <1>2, <1>3 DEF AuthorizePairing, PairingStatuses
<1>4. ASSUME NEW p \in PairingIds, ExpireOnAuthorize(p, t) PROVE TypeOK'
  BY <1>0, <1>2, <1>4 DEF ExpireOnAuthorize, OutOfTime, PairingStatuses
<1>5. ASSUME NEW p \in PairingIds, ExpirePairing(p, pairings[p], t) PROVE TypeOK'
  BY <1>0, <1>2, <1>5 DEF ExpirePairing, CanEnd, SamePairing, PairingStatuses
<1>6. ASSUME NEW p \in PairingIds, RevokePairing(p, pairings[p], t) PROVE TypeOK'
  BY <1>0, <1>2, <1>6 DEF RevokePairing, CanEnd, SamePairing, PairingStatuses
<1>7. ASSUME NEW p \in PairingIds, NEW s \in SessionIds, NEW clk \in Time,
             pairings[p] # None, pairings[p].user \in Users, IsActive(pairings[p].user),
             ConsumePairing(p, s, pairings[p], users[pairings[p].user].updated_at, t, clk)
      PROVE  TypeOK'
  <2>1. /\ NewSession(pairings[p].user, t, p) \in SessionRow
        /\ NewSession(pairings[p].user, t, p).user = pairings[p].user
    BY <1>0, <1>7, NewRowTypes DEF NewSession
  <2>2. users[pairings[p].user].updated_at \in Nat
    BY <1>7 DEF TypeOK, UserRow, IsActive
  <2>3. sessions' \in [SessionIds -> SessionRow \cup {None}]
    BY <1>7, <2>1 DEF TypeOK, ConsumePairing, InsertSession
  <2>4. issuedUnder' \in [SessionIds -> Nat]
    BY <1>7, <2>1, <2>2 DEF TypeOK, ConsumePairing, InsertSession
  <2>5. pairings' \in [PairingIds -> PairingRow \cup {None}]
    BY <1>0, <1>7 DEF TypeOK, ConsumePairing, PairingRow, PairingStatuses
  <2>. QED  BY <1>7, <2>3, <2>4, <2>5 DEF TypeOK, ConsumePairing
<1>8. ASSUME NEW p \in PairingIds, pairings[p] # None,
             ConsumeWithoutSession(p, pairings[p], users[pairings[p].user].updated_at, t)
      PROVE  TypeOK'
  BY <1>0, <1>2, <1>8 DEF ConsumeWithoutSession, PairingStatuses
<1>9. ASSUME NEW p \in PairingIds, ExpireOnConsume(p, pairings[p], t) PROVE TypeOK'
  BY <1>0, <1>2, <1>9 DEF ExpireOnConsume, AuthorizedAsRead, SamePairing, PairingStatuses
<1>10. CASE DeleteExpiredPairings(t)
  BY <1>10 DEF TypeOK, DeleteExpiredPairings
<1>. QED  BY <1>1, <1>3, <1>4, <1>5, <1>6, <1>7, <1>8, <1>9, <1>10

\* Every method of the store writes rows of the declared column types, for any
\* sets of ids, times to live and clocks; the history variables keep theirs.
THEOREM TypeCorrect == Spec => []TypeOK
<1>1. Init => TypeOK
  BY DEF Init, TypeOK
<1>2. TypeOK /\ [Next]_storeVars => TypeOK'
  <2>1. TypeOK /\ UNCHANGED storeVars => TypeOK'
    BY DEF TypeOK, storeVars
  <2>. QED  BY <2>1, AccountTypes, SessionTypes, PairingTypes DEF Next
<1>. QED  BY <1>1, <1>2, PTL DEF Spec

-----------------------------------------------------------------------------
(***************************************************************************)
(* The inductive invariant.  RevocationFence needs to know that a fence is *)
(* never ahead of the account's revision, so that what is inserted now is  *)
(* not behind it; OneSessionPerPairing rests on TuiSessionCorrelated: an   *)
(* authorized pairing has no session yet.                                  *)
(***************************************************************************)

FenceBound ==
    \A u \in Users :
        /\ users[u] = None => fence[u] = 0
        /\ users[u] # None => fence[u] <= users[u].updated_at

\* A session belongs to an account that exists and is not newer than it.
IssueBound ==
    \A s \in SessionIds : sessions[s] # None =>
        /\ users[sessions[s].user] # None
        /\ issuedUnder[s] <= users[sessions[s].user].updated_at

Inv ==
    /\ TypeOK
    /\ TuiSessionCorrelated
    /\ OneSessionPerPairing
    /\ DisabledHasNothing
    /\ FenceBound
    /\ IssueBound
    /\ RevocationFence

\* What a session may become without being inserted: nothing, or the same
\* generation, with its revocation kept.
Aged(row, row2) ==
    row2 # None =>
        /\ SameGeneration(row, row2)
        /\ row.revoked_at # None => row2.revoked_at # None

\* A step that only ages sessions preserves the invariant.
LEMMA AgingInv ==
    ASSUME Inv, TypeOK',
           UNCHANGED <<users, pairings, fence, issuedUnder>>,
           \A s \in SessionIds : Aged(sessions[s], sessions'[s])
    PROVE  Inv'
<1>1. ASSUME NEW s \in SessionIds, sessions'[s] # None
      PROVE  /\ sessions[s] # None
             /\ sessions'[s].user = sessions[s].user
             /\ sessions'[s].source_pairing = sessions[s].source_pairing
             /\ sessions'[s].created_at = sessions[s].created_at
             /\ sessions'[s].expires_at = sessions[s].expires_at
             /\ sessions[s].revoked_at # None => sessions'[s].revoked_at # None
  BY <1>1 DEF Aged, SameGeneration
<1>2. TuiSessionCorrelated'
  BY <1>1 DEF Inv, TuiSessionCorrelated
<1>3. OneSessionPerPairing'
  BY <1>1 DEF Inv, OneSessionPerPairing
<1>4. DisabledHasNothing'
  BY <1>1 DEF Inv, DisabledHasNothing, OpenSession
<1>5. FenceBound' /\ IssueBound'
  BY <1>1 DEF Inv, FenceBound, IssueBound
<1>6. RevocationFence'
  BY <1>1 DEF Inv, RevocationFence
<1>. QED  BY <1>2, <1>3, <1>4, <1>5, <1>6 DEF Inv

\* A step that only changes an account, to an active one at a later revision,
\* preserves the invariant.
LEMMA ActiveAccountInv ==
    ASSUME Inv, TypeOK', NEW u \in Users, NEW row \in UserRow,
           row.active = TRUE,
           users[u] # None => users[u].updated_at <= row.updated_at,
           users' = [users EXCEPT ![u] = row],
           UNCHANGED <<sessions, pairings, fence, issuedUnder>>
    PROVE  Inv'
<1>. USE DEF Inv
<1>1. \A v \in Users : users'[v] = IF v = u THEN row ELSE users[v]
  BY DEF TypeOK
<1>2. row # None /\ row.updated_at \in Nat
  BY NoneAssumption DEF UserRow
<1>3. TuiSessionCorrelated' /\ OneSessionPerPairing' /\ RevocationFence'
  BY DEF TuiSessionCorrelated, OneSessionPerPairing, RevocationFence
<1>4. DisabledHasNothing'
  BY <1>1, <1>2 DEF DisabledHasNothing, OpenSession
<1>5. FenceBound'
  BY <1>1, <1>2 DEF FenceBound, TypeOK, UserRow
<1>6. IssueBound'
  <2>. SUFFICES ASSUME NEW s \in SessionIds, sessions[s] # None
                PROVE  /\ users'[sessions[s].user] # None
                       /\ issuedUnder[s] <= users'[sessions[s].user].updated_at
    BY DEF IssueBound
  <2>1. sessions[s].user \in Users /\ issuedUnder[s] \in Nat
    BY DEF TypeOK, SessionRow
  <2>2. /\ users[sessions[s].user] # None
        /\ users[sessions[s].user].updated_at \in Nat
        /\ issuedUnder[s] <= users[sessions[s].user].updated_at
    BY <2>1 DEF IssueBound, TypeOK, UserRow
  <2>. QED  BY <1>1, <1>2, <2>1, <2>2
<1>. QED  BY <1>3, <1>4, <1>5, <1>6

\* Disabling or promoting u at the later revision t: its sessions age, and are
\* all revoked or expired by t; its authorized pairings go.
LEMMA FencingInv ==
    ASSUME Inv, TypeOK', NEW u \in Users, NEW row \in UserRow, NEW t \in Nat,
           users[u] # None, users[u].updated_at < t, row.updated_at = t,
           users' = [users EXCEPT ![u] = row],
           \A s \in SessionIds : Aged(sessions[s], sessions'[s]),
           \A s \in SessionIds :
                sessions'[s] # None /\ sessions'[s].user = u =>
                    \/ sessions'[s].revoked_at # None
                    \/ row.active = TRUE /\ sessions'[s].expires_at <= t,
           pairings' = WithoutAuthorized(u),
           fence' = [fence EXCEPT ![u] = t],
           UNCHANGED issuedUnder
    PROVE  Inv'
<1>. USE DEF Inv
<1>1. \A v \in Users : users'[v] = IF v = u THEN row ELSE users[v]
  BY DEF TypeOK
<1>2. row # None
  BY NoneAssumption DEF UserRow
<1>3. \A v \in Users : fence'[v] = IF v = u THEN t ELSE fence[v]
  BY DEF TypeOK
<1>4. ASSUME NEW s \in SessionIds, sessions'[s] # None
      PROVE  /\ sessions[s] # None
             /\ sessions'[s].user = sessions[s].user
             /\ sessions'[s].user \in Users
             /\ sessions'[s].source_pairing = sessions[s].source_pairing
             /\ sessions'[s].source_pairing \in PairingIds \cup {None}
             /\ sessions'[s].created_at = sessions[s].created_at
             /\ sessions'[s].expires_at = sessions[s].expires_at
             /\ sessions[s].revoked_at # None => sessions'[s].revoked_at # None
  BY <1>4 DEF Aged, SameGeneration, TypeOK, SessionRow
<1>5. ASSUME NEW p \in PairingIds
      PROVE  /\ pairings'[p] # None => pairings'[p] = pairings[p]
             /\ pairings[p] # None /\ pairings[p].status # "authorized" =>
                    pairings'[p] = pairings[p]
             /\ pairings'[p] # None /\ pairings'[p].user = u =>
                    pairings'[p].status # "authorized"
  BY DEF WithoutAuthorized
<1>6. TuiSessionCorrelated'
  BY <1>4, <1>5 DEF TuiSessionCorrelated
<1>7. OneSessionPerPairing'
  BY <1>4 DEF OneSessionPerPairing
<1>8. DisabledHasNothing'
  <2>. SUFFICES ASSUME NEW v \in Users, users'[v] # None, ~users'[v].active
                PROVE  /\ \A s \in SessionIds : ~OpenSession(s, v)'
                       /\ \A p \in PairingIds :
                            pairings'[p] # None /\ pairings'[p].user = v =>
                                pairings'[p].status # "authorized"
    BY DEF DisabledHasNothing
  <2>1. CASE v = u
    BY <1>1, <1>5, <2>1 DEF OpenSession
  <2>2. CASE v # u
    BY <1>1, <1>4, <1>5, <2>2 DEF DisabledHasNothing, OpenSession
  <2>. QED  BY <2>1, <2>2
<1>9. FenceBound'
  BY <1>1, <1>2, <1>3 DEF FenceBound
<1>10. IssueBound'
  <2>. SUFFICES ASSUME NEW s \in SessionIds, sessions'[s] # None
                PROVE  /\ users'[sessions'[s].user] # None
                       /\ issuedUnder[s] <= users'[sessions'[s].user].updated_at
    BY DEF IssueBound
  <2>1. /\ sessions[s].user \in Users
        /\ issuedUnder[s] \in Nat
        /\ users[sessions[s].user] # None
        /\ users[sessions[s].user].updated_at \in Nat
        /\ issuedUnder[s] <= users[sessions[s].user].updated_at
    BY <1>4 DEF IssueBound, TypeOK, UserRow
  <2>. QED  BY <1>1, <1>2, <1>4, <2>1
<1>11. RevocationFence'
  BY <1>3, <1>4 DEF RevocationFence
<1>. QED  BY <1>6, <1>7, <1>8, <1>9, <1>10, <1>11

\* Inserting a session of an active account, web or of a pairing that is being
\* consumed, preserves the invariant.
LEMMA InsertInv ==
    ASSUME Inv, TypeOK', NEW s \in SessionIds, NEW u \in Users, NEW t \in Nat,
           NEW p \in PairingIds \cup {None},
           sessions[s] = None, IsActive(u),
           InsertSession(s, NewSession(u, t, p)),
           UNCHANGED <<users, fence>>,
           \/ p = None /\ UNCHANGED pairings
           \/ /\ p # None
              /\ pairings[p] # None
              /\ pairings[p].status = "authorized"
              /\ pairings[p].user = u
              /\ pairings' = [pairings EXCEPT ![p].status = "consumed",
                                              ![p].consumed_at = t]
    PROVE  Inv'
<1>. USE DEF Inv
<1>1. /\ NewSession(u, t, p) # None
      /\ NewSession(u, t, p).user = u
      /\ NewSession(u, t, p).created_at = t
      /\ NewSession(u, t, p).source_pairing = p
  BY NewRowTypes, NoneAssumption DEF NewSession
<1>2. \A r \in SessionIds :
        /\ sessions'[r] = IF r = s THEN NewSession(u, t, p) ELSE sessions[r]
        /\ issuedUnder'[r] = IF r = s THEN users[u].updated_at ELSE issuedUnder[r]
  BY <1>1 DEF InsertSession, TypeOK
<1>3. ASSUME p # None
      PROVE  /\ pairings'[p] # None
             /\ pairings'[p].status = "consumed"
             /\ pairings'[p].user = u
             /\ pairings'[p].consumed_at = t
             /\ \A q \in PairingIds : q # p => pairings'[q] = pairings[q]
  <2>1. pairings[p] \in PairingRow
    BY <1>3 DEF TypeOK
  <2>2. pairings'[p] = [pairings[p] EXCEPT !.status = "consumed", !.consumed_at = t]
    BY <1>3 DEF TypeOK
  <2>3. pairings'[p] \in PairingRow
    BY <2>1, <2>2 DEF PairingRow, PairingStatuses
  <2>4. /\ pairings'[p].status = "consumed"
        /\ pairings'[p].user = u
        /\ pairings'[p].consumed_at = t
    BY <1>3, <2>1, <2>2 DEF PairingRow
  <2>5. \A q \in PairingIds : q # p => pairings'[q] = pairings[q]
    BY <1>3 DEF TypeOK
  <2>. QED  BY <2>3, <2>4, <2>5, NoneAssumption
<1>4. ASSUME p # None, NEW r \in SessionIds, sessions[r] # None
      PROVE  sessions[r].source_pairing # p
  BY <1>4 DEF TuiSessionCorrelated
<1>5. \A r \in SessionIds : sessions[r] # None =>
            sessions[r].source_pairing \in PairingIds \cup {None}
  BY DEF TypeOK, SessionRow
<1>6. TuiSessionCorrelated'
  BY <1>1, <1>2, <1>3, <1>4, <1>5 DEF TuiSessionCorrelated
<1>7. OneSessionPerPairing'
  BY <1>1, <1>2, <1>4 DEF OneSessionPerPairing
<1>8. DisabledHasNothing'
  <2>. SUFFICES ASSUME NEW v \in Users, users[v] # None, ~users[v].active
                PROVE  /\ \A r \in SessionIds : ~OpenSession(r, v)'
                       /\ \A q \in PairingIds :
                            pairings'[q] # None /\ pairings'[q].user = v =>
                                pairings'[q].status # "authorized"
    BY DEF DisabledHasNothing
  <2>1. v # u
    BY DEF IsActive
  <2>2. \A r \in SessionIds : ~OpenSession(r, v)'
    BY <1>1, <1>2, <2>1 DEF DisabledHasNothing, OpenSession
  <2>3. \A q \in PairingIds :
            pairings'[q] # None /\ pairings'[q].user = v =>
                pairings'[q].status # "authorized"
    BY <1>3 DEF DisabledHasNothing
  <2>. QED  BY <2>2, <2>3
<1>9. FenceBound'
  BY DEF FenceBound
<1>10. users[u] # None /\ users[u].updated_at \in Nat /\ fence[u] \in Nat
  BY DEF IsActive, TypeOK, UserRow
<1>11. IssueBound'
  BY <1>1, <1>2, <1>10 DEF IssueBound
<1>12. RevocationFence'
  BY <1>1, <1>2, <1>10 DEF RevocationFence, FenceBound
<1>. QED  BY <1>6, <1>7, <1>8, <1>9, <1>11, <1>12

\* A step that changes only pairings preserves the invariant if it touches no
\* pairing a session refers to and authorizes only for active accounts.
LEMMA PairingOnlyInv ==
    ASSUME Inv, TypeOK',
           UNCHANGED <<users, sessions, fence, issuedUnder>>,
           \A p \in PairingIds :
                \/ pairings'[p] = pairings[p]
                \/ pairings[p] = None
                \/ pairings[p].status # "consumed"
                \/ \A s \in SessionIds :
                        sessions[s] # None => sessions[s].source_pairing # p,
           \A p \in PairingIds :
                pairings'[p] # None /\ pairings'[p].status = "authorized" =>
                    pairings'[p] = pairings[p] \/ IsActive(pairings'[p].user)
    PROVE  Inv'
<1>. USE DEF Inv
<1>1. \A s \in SessionIds : sessions[s] # None =>
            sessions[s].source_pairing \in PairingIds \cup {None}
  BY DEF TypeOK, SessionRow
<1>2. TuiSessionCorrelated'
  BY <1>1 DEF TuiSessionCorrelated
<1>3. OneSessionPerPairing' /\ FenceBound' /\ IssueBound' /\ RevocationFence'
  BY DEF OneSessionPerPairing, FenceBound, IssueBound, RevocationFence
<1>4. DisabledHasNothing'
  BY DEF DisabledHasNothing, OpenSession, IsActive
<1>. QED  BY <1>2, <1>3, <1>4

\* Revoking, touching and deleting sessions age them.
LEMMA BulkAging ==
    ASSUME TypeOK, NEW u \in Users, NEW t \in Nat, NEW s \in SessionIds
    PROVE  /\ Aged(sessions[s], SessionsRevokedAt(u, t)[s])
           /\ Aged(sessions[s], SessionsDisabled(u, t)[s])
<1>1. ASSUME sessions[s] # None, NEW r \in Nat
      PROVE  Aged(sessions[s], [sessions[s] EXCEPT !.revoked_at = r])
  BY <1>1, NoneAssumption DEF TypeOK, SessionRow, Aged, SameGeneration
<1>2. Aged(sessions[s], sessions[s])
  BY DEF Aged, SameGeneration
<1>3. sessions[s] # None => DisabledAt(sessions[s], t) \in Nat
  BY DEF TypeOK, SessionRow, DisabledAt
<1>. QED
  BY <1>1, <1>2, <1>3 DEF SessionsRevokedAt, SessionsDisabled, LiveAt, OpenSession

\* The account methods preserve the invariant: only fencing ones raise the fence,
\* and they end the sessions below it.
LEMMA AccountInv == Inv /\ TypeOK' /\ AccountStep => Inv'
<1>. SUFFICES ASSUME Inv, TypeOK', AccountStep PROVE Inv'
  OBVIOUS
<1>. PICK u \in Users, t \in Time :
        \/ ProvisionUser(u, t)
        \/ \E role \in Roles : SaveActiveUser(u, role, t)
        \/ \E role \in Roles : SaveInactiveUser(u, role, t)
        \/ BootstrapFirstAdmin(u, t)
        \/ \E actor \in Users, role \in Roles : ApprovePendingUser(actor, u, role, t)
        \/ OnboardPendingUser(u, t)
  BY DEF AccountStep
<1>0. t \in Nat /\ TypeOK
  BY TimeIsNat DEF Inv
<1>a. ASSUME NEW role \in Roles, NEW a \in BOOLEAN
      PROVE  /\ [role |-> role, active |-> a, updated_at |-> t] \in UserRow
             /\ [role |-> role, active |-> a, updated_at |-> t].active = a
             /\ [role |-> role, active |-> a, updated_at |-> t].updated_at = t
  BY <1>0 DEF UserRow
<1>b. users[u] # None => users[u].updated_at \in Nat
  BY <1>0 DEF TypeOK, UserRow
<1>1. CASE ProvisionUser(u, t)
  BY <1>1, <1>a, ActiveAccountInv DEF ProvisionUser, Roles
<1>2. ASSUME NEW role \in Roles, SaveActiveUser(u, role, t) PROVE Inv'
  <2>1. users[u].updated_at <= t
    BY <1>0, <1>b, <1>2 DEF SaveActiveUser
  <2>. QED  BY <1>2, <1>a, <2>1, ActiveAccountInv DEF SaveActiveUser
<1>3. CASE OnboardPendingUser(u, t)
  <2>1. users[u].updated_at <= t
    BY <1>0, <1>b, <1>3 DEF OnboardPendingUser, IsActive
  <2>. QED  BY <1>3, <1>a, <2>1, ActiveAccountInv DEF OnboardPendingUser, Roles
<1>4. ASSUME NEW role \in Roles, SaveInactiveUser(u, role, t) PROVE Inv'
  <2>. DEFINE row == [role |-> role, active |-> FALSE, updated_at |-> t]
  <2>1. users[u] # None /\ users[u].updated_at < t
    BY <1>0, <1>b, <1>4 DEF SaveInactiveUser
  <2>2. \A s \in SessionIds : Aged(sessions[s], sessions'[s])
    BY <1>0, <1>4, BulkAging DEF SaveInactiveUser
  <2>3. ASSUME NEW s \in SessionIds, sessions'[s] # None, sessions'[s].user = u
        PROVE  sessions'[s].revoked_at # None
    <3>1. sessions[s] # None /\ sessions[s].user = u /\ sessions[s] \in SessionRow
      BY <1>0, <2>2, <2>3 DEF Aged, SameGeneration, TypeOK
    <3>2. CASE sessions[s].revoked_at = None
      <4>1. sessions'[s] = [sessions[s] EXCEPT !.revoked_at = DisabledAt(sessions[s], t)]
        BY <1>4, <3>1, <3>2 DEF SaveInactiveUser, SessionsDisabled, OpenSession
      <4>2. DisabledAt(sessions[s], t) \in Nat
        BY <1>0, <3>1 DEF DisabledAt, SessionRow
      <4>. QED  BY <3>1, <4>1, <4>2, NoneAssumption DEF SessionRow
    <3>3. CASE sessions[s].revoked_at # None
      BY <2>2, <2>3, <3>3 DEF Aged
    <3>. QED  BY <3>2, <3>3
  <2>4. /\ users' = [users EXCEPT ![u] = row]
        /\ pairings' = WithoutAuthorized(u)
        /\ fence' = [fence EXCEPT ![u] = t]
        /\ UNCHANGED issuedUnder
    BY <1>4 DEF SaveInactiveUser
  <2>5. row \in UserRow /\ row.updated_at = t
    BY <1>a
  <2>. HIDE DEF row
  <2>. QED  BY <1>0, <2>1, <2>2, <2>3, <2>4, <2>5, FencingInv, ZenonT(60)
<1>5. ASSUME NEW role \in Roles, Promote(u, role, t) PROVE Inv'
  <2>. DEFINE row == [role |-> role, active |-> TRUE, updated_at |-> t]
  <2>1. users[u] # None /\ users[u].updated_at < t
    BY <1>0, <1>b, <1>5 DEF Promote, IsActive
  <2>2. \A s \in SessionIds : Aged(sessions[s], sessions'[s])
    BY <1>0, <1>5, BulkAging DEF Promote
  <2>3. ASSUME NEW s \in SessionIds, sessions'[s] # None, sessions'[s].user = u
        PROVE  sessions'[s].revoked_at # None \/ sessions'[s].expires_at <= t
    <3>1. sessions[s] # None /\ sessions[s].user = u /\ sessions[s] \in SessionRow
      BY <1>0, <2>2, <2>3 DEF Aged, SameGeneration, TypeOK
    <3>2. CASE LiveAt(s, u, t)
      <4>1. sessions'[s] = [sessions[s] EXCEPT !.revoked_at = t]
        BY <1>5, <3>2 DEF Promote, SessionsRevokedAt
      <4>. QED  BY <1>0, <3>1, <4>1, NoneAssumption DEF SessionRow
    <3>3. CASE ~LiveAt(s, u, t)
      <4>1. sessions'[s] = sessions[s]
        BY <1>5, <3>3 DEF Promote, SessionsRevokedAt
      <4>2. ~StaleFor(s, u, t)
        BY <1>5 DEF Promote
      <4>. QED
        BY <1>0, <3>1, <3>3, <4>1, <4>2 DEF LiveAt, StaleFor, OpenSession, SessionRow
    <3>. QED  BY <3>2, <3>3
  <2>4. /\ users' = [users EXCEPT ![u] = row]
        /\ pairings' = WithoutAuthorized(u)
        /\ fence' = [fence EXCEPT ![u] = t]
        /\ UNCHANGED issuedUnder
    BY <1>5 DEF Promote
  <2>5. row \in UserRow /\ row.updated_at = t /\ row.active = TRUE
    BY <1>a
  <2>. HIDE DEF row
  <2>. QED  BY <1>0, <2>1, <2>2, <2>3, <2>4, <2>5, FencingInv
<1>6. CASE BootstrapFirstAdmin(u, t)
  BY <1>5, <1>6 DEF BootstrapFirstAdmin, Roles
<1>7. ASSUME NEW actor \in Users, NEW role \in Roles, ApprovePendingUser(actor, u, role, t)
      PROVE  Inv'
  BY <1>5, <1>7 DEF ApprovePendingUser
<1>. QED  BY <1>1, <1>2, <1>3, <1>4, <1>6, <1>7

\* The session steps other than an insertion, seen from the rows.
LEMMA SessionsAge ==
    ASSUME TypeOK, NEW t \in Nat,
           \/ \E rev : \E s \in SessionIds : TouchSession(s, sessions[s], rev, t)
           \/ \E s \in SessionIds : RevokeSession(s, sessions[s], t)
           \/ \E u \in Users, aud \in {"web", "tui"} : RevokeUserSessions(u, t, aud)
           \/ DeleteExpiredSessions(t)
    PROVE  /\ \A r \in SessionIds : Aged(sessions[r], sessions'[r])
           /\ UNCHANGED <<users, pairings, fence, issuedUnder>>
<1>1. ASSUME NEW r \in SessionIds PROVE Aged(sessions[r], sessions[r])
  BY DEF Aged, SameGeneration
<1>2. ASSUME NEW r \in SessionIds, sessions[r] # None, NEW f \in Nat, NEW g \in Nat
      PROVE  /\ Aged(sessions[r], [sessions[r] EXCEPT !.revoked_at = f])
             /\ Aged(sessions[r], [sessions[r] EXCEPT !.last_seen_at = g])
             /\ Aged(sessions[r], [sessions[r] EXCEPT !.last_seen_at = g, !.revoked_at = f])
  BY <1>2, NoneAssumption DEF TypeOK, SessionRow, Aged, SameGeneration
<1>3. ASSUME NEW s \in SessionIds, NEW rev, TouchSession(s, sessions[s], rev, t)
      PROVE  \A r \in SessionIds : Aged(sessions[r], sessions'[r])
  <2>1. sessions[s] # None
    BY <1>3 DEF TouchSession, CanTouch, SameGeneration
  <2>2. \A r \in SessionIds :
            sessions'[r] = IF r = s THEN [sessions[s] EXCEPT !.last_seen_at = t]
                           ELSE sessions[r]
    BY <1>3 DEF TouchSession, TypeOK
  <2>. QED  BY <1>1, <1>2, <2>1, <2>2
<1>4. ASSUME NEW s \in SessionIds, RevokeSession(s, sessions[s], t)
      PROVE  \A r \in SessionIds : Aged(sessions[r], sessions'[r])
  <2>1. sessions[s] # None
    BY <1>4 DEF RevokeSession, CanRevoke, SameGeneration
  <2>. DEFINE seen == Later(sessions[s].last_seen_at, sessions[s].last_seen_at)
  <2>2. seen \in Nat
    BY <2>1 DEF Later, TypeOK, SessionRow
  <2>3. \A r \in SessionIds :
            sessions'[r] = IF r = s
                THEN [sessions[s] EXCEPT !.last_seen_at = seen, !.revoked_at = t]
                ELSE sessions[r]
    BY <1>4 DEF RevokeSession, TypeOK
  <2>. HIDE DEF seen
  <2>4. Aged(sessions[s], [sessions[s] EXCEPT !.last_seen_at = seen, !.revoked_at = t])
    BY <1>2, <2>1, <2>2
  <2>. QED  BY <1>1, <2>3, <2>4
<1>5. ASSUME NEW u \in Users, NEW aud \in {"web", "tui"}, RevokeUserSessions(u, t, aud)
      PROVE  \A r \in SessionIds : Aged(sessions[r], sessions'[r])
  BY <1>1, <1>2, <1>5 DEF RevokeUserSessions, LiveAt, OpenSession
<1>6. CASE DeleteExpiredSessions(t)
  BY <1>1, <1>6 DEF DeleteExpiredSessions, Aged
<1>7. UNCHANGED <<users, pairings, fence, issuedUnder>>
  BY DEF TouchSession, RevokeSession, RevokeUserSessions, DeleteExpiredSessions
<1>. QED  BY <1>3, <1>4, <1>5, <1>6, <1>7

\* The session methods preserve the invariant: they insert under the current
\* revision of an active account, or age what is there.
LEMMA SessionInv == Inv /\ TypeOK' /\ SessionStep => Inv'
<1>. SUFFICES ASSUME Inv, TypeOK', NEW t \in Time,
        \/ \E s \in SessionIds, u \in Users :
                IsActive(u) /\ CreateSession(s, u, users[u].updated_at, t)
        \/ \E s \in SessionIds :
                /\ sessions[s] # None
                /\ IsActive(sessions[s].user)
                /\ TouchSession(s, sessions[s], users[sessions[s].user].updated_at, t)
        \/ \E s \in SessionIds : RevokeSession(s, sessions[s], t)
        \/ \E u \in Users, aud \in {"web", "tui"} : RevokeUserSessions(u, t, aud)
        \/ DeleteExpiredSessions(t)
     PROVE Inv'
  BY DEF SessionStep
<1>0. t \in Nat /\ TypeOK
  BY TimeIsNat DEF Inv
<1>1. ASSUME NEW s \in SessionIds, NEW u \in Users, IsActive(u),
             CreateSession(s, u, users[u].updated_at, t)
      PROVE  Inv'
  BY <1>0, <1>1, InsertInv DEF CreateSession, CanInsertSession
<1>2. CASE \/ \E rev : \E s \in SessionIds : TouchSession(s, sessions[s], rev, t)
           \/ \E s \in SessionIds : RevokeSession(s, sessions[s], t)
           \/ \E u \in Users, aud \in {"web", "tui"} : RevokeUserSessions(u, t, aud)
           \/ DeleteExpiredSessions(t)
  BY <1>0, <1>2, SessionsAge, AgingInv
<1>. QED  BY <1>1, <1>2

\* The pairing methods preserve the invariant: consuming inserts one correlated
\* session, the cleanup spares pairings that sessions refer to.
LEMMA PairingInv == Inv /\ TypeOK' /\ PairingStep => Inv'
<1>. SUFFICES ASSUME Inv, TypeOK', NEW t \in Time,
        \/ \E p \in PairingIds : CreatePairing(p, t)
        \/ \E p \in PairingIds, u \in Users, clk \in Time :
                /\ IsActive(u)
                /\ AuthorizePairing(p, pairings[p], u, users[u].updated_at, t, clk)
        \/ \E p \in PairingIds : ExpireOnAuthorize(p, t)
        \/ \E p \in PairingIds : ExpirePairing(p, pairings[p], t)
        \/ \E p \in PairingIds : RevokePairing(p, pairings[p], t)
        \/ \E p \in PairingIds, s \in SessionIds, clk \in Time :
                /\ pairings[p] # None
                /\ pairings[p].user \in Users
                /\ IsActive(pairings[p].user)
                /\ ConsumePairing(p, s, pairings[p],
                                  users[pairings[p].user].updated_at, t, clk)
        \/ \E p \in PairingIds :
                /\ pairings[p] # None
                /\ pairings[p].user \in Users
                /\ IsActive(pairings[p].user)
                /\ ConsumeWithoutSession(p, pairings[p],
                                         users[pairings[p].user].updated_at, t)
        \/ \E p \in PairingIds : ExpireOnConsume(p, pairings[p], t)
        \/ DeleteExpiredPairings(t)
     PROVE Inv'
  BY DEF PairingStep
<1>0. t \in Nat /\ TypeOK
  BY TimeIsNat DEF Inv
\* One row changes, which was absent or not consumed, and is not authorized
\* unless for an active account.
<1>1. ASSUME NEW p \in PairingIds, NEW row,
             pairings[p] = None \/ pairings[p].status # "consumed",
             row.status = "authorized" => IsActive(row.user),
             pairings' = [pairings EXCEPT ![p] = row],
             UNCHANGED <<users, sessions, fence, issuedUnder>>
      PROVE  Inv'
  <2>1. \A q \in PairingIds : pairings'[q] = IF q = p THEN row ELSE pairings[q]
    BY <1>0, <1>1 DEF TypeOK
  <2>. QED  BY <1>1, <2>1, PairingOnlyInv
<1>2. ASSUME NEW p \in PairingIds, CreatePairing(p, t) PROVE Inv'
  <2>1. NewPairing(t).status # "authorized"
    BY DEF NewPairing
  <2>. QED  BY <1>1, <1>2, <2>1 DEF CreatePairing
<1>3. ASSUME NEW p \in PairingIds, NEW u \in Users, NEW clk \in Time, IsActive(u),
             AuthorizePairing(p, pairings[p], u, users[u].updated_at, t, clk)
      PROVE  Inv'
  <2>. DEFINE row == [pairings[p] EXCEPT !.status = "authorized", !.user = u,
                                         !.authorized_at = t]
  <2>1. pairings[p] # None /\ pairings[p] \in PairingRow /\ pairings[p].status = "pending"
    BY <1>0, <1>3 DEF AuthorizePairing, CanAuthorize, TypeOK
  <2>2. row.user = u
    BY <2>1 DEF PairingRow
  <2>3. pairings' = [pairings EXCEPT ![p] = row]
    BY <1>3 DEF AuthorizePairing
  <2>4. UNCHANGED <<users, sessions, fence, issuedUnder>>
    BY <1>3 DEF AuthorizePairing
  <2>. HIDE DEF row
  <2>. QED  BY <1>1, <1>3, <2>1, <2>2, <2>3, <2>4
<1>4. ASSUME NEW p \in PairingIds, pairings[p] # None,
             pairings[p].status \in {"pending", "authorized"},
             NEW st \in {"consumed", "revoked"},
             UNCHANGED <<users, sessions, fence, issuedUnder>>,
             \/ pairings' = [pairings EXCEPT ![p] = ExpiredRow(pairings[p], t)]
             \/ pairings' = [pairings EXCEPT ![p].status = st, ![p].ended_at = t]
             \/ pairings' = [pairings EXCEPT ![p].status = st, ![p].consumed_at = t]
      PROVE  Inv'
  <2>1. pairings[p] \in PairingRow
    BY <1>0, <1>4 DEF TypeOK
  <2>2. /\ ExpiredRow(pairings[p], t).status # "authorized"
        /\ [pairings[p] EXCEPT !.status = st, !.ended_at = t].status # "authorized"
        /\ [pairings[p] EXCEPT !.status = st, !.consumed_at = t].status # "authorized"
    BY <2>1 DEF ExpiredRow, PairingRow
  <2>3. CASE pairings' = [pairings EXCEPT ![p] = ExpiredRow(pairings[p], t)]
    BY <1>1, <1>4, <2>2, <2>3
  <2>4. CASE pairings' = [pairings EXCEPT ![p].status = st, ![p].ended_at = t]
    <3>. DEFINE row == [pairings[p] EXCEPT !.status = st, !.ended_at = t]
    <3>1. pairings' = [pairings EXCEPT ![p] = row]
      BY <2>4
    <3>2. row.status # "authorized"
      BY <2>2
    <3>. HIDE DEF row
    <3>. QED  BY <1>1, <1>4, <3>1, <3>2
  <2>5. CASE pairings' = [pairings EXCEPT ![p].status = st, ![p].consumed_at = t]
    <3>. DEFINE row == [pairings[p] EXCEPT !.status = st, !.consumed_at = t]
    <3>1. pairings' = [pairings EXCEPT ![p] = row]
      BY <2>5
    <3>2. row.status # "authorized"
      BY <2>2
    <3>. HIDE DEF row
    <3>. QED  BY <1>1, <1>4, <3>1, <3>2
  <2>. QED  BY <1>4, <2>3, <2>4, <2>5
<1>5. ASSUME NEW p \in PairingIds, ExpireOnAuthorize(p, t) PROVE Inv'
  BY <1>4, <1>5 DEF ExpireOnAuthorize, OutOfTime
<1>6. ASSUME NEW p \in PairingIds, ExpirePairing(p, pairings[p], t) PROVE Inv'
  BY <1>4, <1>6 DEF ExpirePairing, CanEnd, SamePairing
<1>7. ASSUME NEW p \in PairingIds, RevokePairing(p, pairings[p], t) PROVE Inv'
  BY <1>4, <1>7 DEF RevokePairing, CanEnd, SamePairing
<1>8. ASSUME NEW p \in PairingIds, ConsumeWithoutSession(p, pairings[p],
                                        users[pairings[p].user].updated_at, t)
      PROVE  Inv'
  BY <1>4, <1>8 DEF ConsumeWithoutSession, AuthorizedAsRead, SamePairing
<1>9. ASSUME NEW p \in PairingIds, ExpireOnConsume(p, pairings[p], t) PROVE Inv'
  BY <1>4, <1>9 DEF ExpireOnConsume, AuthorizedAsRead, SamePairing
<1>10. CASE DeleteExpiredPairings(t)
  <2>1. \A p \in PairingIds :
            \/ pairings'[p] = pairings[p]
            \/ /\ pairings'[p] = None
               /\ \A s \in SessionIds :
                    sessions[s] # None => sessions[s].source_pairing # p
    BY <1>10 DEF DeleteExpiredPairings
  <2>. QED  BY <1>10, <2>1, PairingOnlyInv DEF DeleteExpiredPairings
<1>11. ASSUME NEW p \in PairingIds, NEW s \in SessionIds, NEW clk \in Time,
              pairings[p] # None, pairings[p].user \in Users, IsActive(pairings[p].user),
              ConsumePairing(p, s, pairings[p], users[pairings[p].user].updated_at, t, clk)
      PROVE  Inv'
  <2>1. /\ sessions[s] = None
        /\ pairings[p].status = "authorized"
        /\ InsertSession(s, NewSession(pairings[p].user, t, p))
        /\ pairings' = [pairings EXCEPT ![p].status = "consumed", ![p].consumed_at = t]
        /\ UNCHANGED <<users, fence>>
    BY <1>11 DEF ConsumePairing, CanConsume, AuthorizedAsRead
  <2>2. p \in PairingIds \cup {None} /\ p # None
    BY NoneAssumption
  <2>. QED  BY <1>0, <1>11, <2>1, <2>2, InsertInv
<1>. QED  BY <1>2, <1>3, <1>5, <1>6, <1>7, <1>8, <1>9, <1>10, <1>11

\* The inductive invariant (correlated pairings, disabled accounts, the fence and
\* its bounds) holds after every sequence of the store's transactions.
THEOREM InvCorrect == Spec => []Inv
<1>1. Init => Inv
  BY DEF Init, Inv, TypeOK, TuiSessionCorrelated, OneSessionPerPairing,
         DisabledHasNothing, FenceBound, IssueBound, RevocationFence
<1>2. Inv /\ TypeOK' /\ [Next]_storeVars => Inv'
  <2>1. ASSUME Inv, UNCHANGED storeVars PROVE Inv'
    BY <2>1 DEF storeVars, Inv, TypeOK, TuiSessionCorrelated, OneSessionPerPairing,
           DisabledHasNothing, OpenSession, FenceBound, IssueBound, RevocationFence
  <2>. QED  BY <2>1, AccountInv, SessionInv, PairingInv DEF Next
<1>. QED  BY <1>1, <1>2, TypeCorrect, PTL DEF Spec

\* For every store: a TUI session's pairing is consumed by its user at its
\* creation (the triggers' correlation, cleanup included).
THEOREM TuiSessionsCorrelated == Spec => []TuiSessionCorrelated
<1>1. Inv => TuiSessionCorrelated
  BY DEF Inv
<1>. QED  BY <1>1, InvCorrect, PTL

\* For every store: a pairing gives at most one session.
THEOREM PairingsAreOneShot == Spec => []OneSessionPerPairing
<1>1. Inv => OneSessionPerPairing
  BY DEF Inv
<1>. QED  BY <1>1, InvCorrect, PTL

\* For every store and every order of writes: a disabled account has no open
\* session and no authorized pairing.
THEOREM DisabledAccountsHaveNothing == Spec => []DisabledHasNothing
<1>1. Inv => DisabledHasNothing
  BY DEF Inv
<1>. QED  BY <1>1, InvCorrect, PTL

\* For every store: sessions from before a disabling, an approval or a
\* bootstrap of their account stay revoked or expired.
THEOREM FenceHolds == Spec => []RevocationFence
<1>1. Inv => RevocationFence
  BY DEF Inv
<1>. QED  BY <1>1, InvCorrect, PTL

-----------------------------------------------------------------------------
(***************************************************************************)
(* Row contracts and the history of a session.  Valid(s) is what RowsValid *)
(* asks of one session, Continues what SessionHistory asks of one step.    *)
(***************************************************************************)

SessionsValid == \A s \in SessionIds : sessions[s] # None => SessionContract(sessions[s])

PairingsValid == \A p \in PairingIds : pairings[p] # None => PairingContract(pairings[p])

Continues(row, row2) ==
    row # None /\ row2 # None =>
        /\ SameGeneration(row, row2)
        /\ row.last_seen_at <= row2.last_seen_at
        /\ row.revoked_at # None => row2 = row

\* Revoking an open row at an instant of its life after its last use, or
\* moving its last use forward within its life, keeps contract and history.
LEMMA RowChange ==
    ASSUME NEW row \in SessionRow, SessionContract(row), row.revoked_at = None,
           NEW t \in Nat, row.last_seen_at <= t, t < row.expires_at
    PROVE  /\ SessionContract([row EXCEPT !.revoked_at = t])
           /\ Continues(row, [row EXCEPT !.revoked_at = t])
           /\ SessionContract([row EXCEPT !.last_seen_at = t])
           /\ Continues(row, [row EXCEPT !.last_seen_at = t])
<1>1. row # None /\ row.last_seen_at \in Nat /\ row.created_at \in Nat /\ t # None
  BY NoneAssumption DEF SessionRow
<1>2. /\ SessionContract([row EXCEPT !.revoked_at = t])
      /\ SessionContract([row EXCEPT !.last_seen_at = t])
  BY <1>1 DEF SessionContract, SessionRow
<1>3. /\ [row EXCEPT !.revoked_at = t] # None
      /\ [row EXCEPT !.last_seen_at = t] # None
  BY NoneAssumption DEF SessionRow
<1>4. /\ Continues(row, [row EXCEPT !.revoked_at = t])
      /\ Continues(row, [row EXCEPT !.last_seen_at = t])
  BY <1>1, <1>3 DEF Continues, SameGeneration, SessionRow
<1>. QED  BY <1>2, <1>4

\* A row that does not change keeps its contract and its history.
LEMMA SameRow ==
    ASSUME TypeOK, NEW s \in SessionIds
    PROVE  Continues(sessions[s], sessions[s])
BY DEF Continues, SameGeneration, TypeOK, SessionRow

\* A new session satisfies the CHECK constraints of its table.
LEMMA NewSessionContract ==
    ASSUME NEW u \in Users, NEW t \in Nat, NEW p \in PairingIds \cup {None}
    PROVE  SessionContract(NewSession(u, t, p))
BY TTLAssumption DEF NewSession, SessionContract

\* Every step keeps the contract of every session, and its history.
SessionsKept ==
    \A s \in SessionIds :
        /\ sessions'[s] # None => SessionContract(sessions'[s])
        /\ Continues(sessions[s], sessions'[s])

\* Inserting a session where there was none keeps contract and history.
LEMMA InsertKept ==
    ASSUME TypeOK, SessionsValid, NEW s \in SessionIds, sessions[s] = None,
           NEW u \in Users, NEW t \in Nat, NEW p \in PairingIds \cup {None},
           InsertSession(s, NewSession(u, t, p))
    PROVE  SessionsKept
<1>1. \A r \in SessionIds :
        sessions'[r] = IF r = s THEN NewSession(u, t, p) ELSE sessions[r]
  BY DEF InsertSession, TypeOK
<1>2. Continues(sessions[s], sessions'[s])
  BY DEF Continues
<1>. QED  BY <1>1, <1>2, NewSessionContract, SameRow DEF SessionsKept, SessionsValid

\* The account methods keep every session's contract and history.
LEMMA AccountKeeps == TypeOK /\ SessionsValid /\ AccountStep => SessionsKept
<1>. SUFFICES ASSUME TypeOK, SessionsValid, AccountStep PROVE SessionsKept
  OBVIOUS
<1>. PICK u \in Users, t \in Time :
        \/ ProvisionUser(u, t)
        \/ \E role \in Roles : SaveActiveUser(u, role, t)
        \/ \E role \in Roles : SaveInactiveUser(u, role, t)
        \/ BootstrapFirstAdmin(u, t)
        \/ \E actor \in Users, role \in Roles : ApprovePendingUser(actor, u, role, t)
        \/ OnboardPendingUser(u, t)
  BY DEF AccountStep
<1>0. t \in Nat
  BY TimeIsNat
<1>1. CASE UNCHANGED sessions
  BY <1>1, SameRow DEF SessionsKept, SessionsValid
<1>2. CASE sessions' = SessionsDisabled(u, t)
  <2>. SUFFICES ASSUME NEW s \in SessionIds
                PROVE  /\ sessions'[s] # None => SessionContract(sessions'[s])
                       /\ Continues(sessions[s], sessions'[s])
    BY DEF SessionsKept
  <2>1. CASE OpenSession(s, u)
    <3>1. sessions[s] \in SessionRow /\ SessionContract(sessions[s])
      BY <2>1 DEF OpenSession, TypeOK, SessionsValid
    <3>2. sessions'[s] = [sessions[s] EXCEPT !.revoked_at = DisabledAt(sessions[s], t)]
      BY <1>2, <2>1 DEF SessionsDisabled
    <3>3. /\ DisabledAt(sessions[s], t) \in Nat
          /\ sessions[s].last_seen_at <= DisabledAt(sessions[s], t)
          /\ DisabledAt(sessions[s], t) < sessions[s].expires_at
      BY <1>0, <3>1 DEF DisabledAt, SessionRow, SessionContract
    <3>. QED  BY <2>1, <3>1, <3>2, <3>3, RowChange DEF OpenSession
  <2>2. CASE ~OpenSession(s, u)
    BY <1>2, <2>2, SameRow DEF SessionsDisabled, SessionsValid
  <2>. QED  BY <2>1, <2>2
<1>3. ASSUME NEW role, Promote(u, role, t) PROVE SessionsKept
  <2>. SUFFICES ASSUME NEW s \in SessionIds
                PROVE  /\ sessions'[s] # None => SessionContract(sessions'[s])
                       /\ Continues(sessions[s], sessions'[s])
    BY DEF SessionsKept
  <2>1. CASE LiveAt(s, u, t)
    <3>1. sessions[s] \in SessionRow /\ SessionContract(sessions[s])
      BY <2>1 DEF LiveAt, OpenSession, TypeOK, SessionsValid
    <3>2. sessions'[s] = [sessions[s] EXCEPT !.revoked_at = t]
      BY <1>3, <2>1 DEF Promote, SessionsRevokedAt
    <3>3. sessions[s].last_seen_at <= t
      BY <1>0, <1>3, <2>1, <3>1 DEF Promote, StaleFor, LiveAt, SessionRow
    <3>. QED  BY <1>0, <2>1, <3>1, <3>2, <3>3, RowChange DEF LiveAt, OpenSession
  <2>2. CASE ~LiveAt(s, u, t)
    BY <1>3, <2>2, SameRow DEF Promote, SessionsRevokedAt, SessionsValid
  <2>. QED  BY <2>1, <2>2
<1>. QED
  BY <1>1, <1>2, <1>3 DEF ProvisionUser, SaveActiveUser, SaveInactiveUser,
        BootstrapFirstAdmin, ApprovePendingUser, OnboardPendingUser

\* The session methods keep every session's contract and history.
LEMMA SessionStepKeeps == TypeOK /\ SessionsValid /\ SessionStep => SessionsKept
<1>. SUFFICES ASSUME TypeOK, SessionsValid, NEW t \in Time,
        \/ \E s \in SessionIds, u \in Users :
                IsActive(u) /\ CreateSession(s, u, users[u].updated_at, t)
        \/ \E s \in SessionIds :
                /\ sessions[s] # None
                /\ IsActive(sessions[s].user)
                /\ TouchSession(s, sessions[s], users[sessions[s].user].updated_at, t)
        \/ \E s \in SessionIds : RevokeSession(s, sessions[s], t)
        \/ \E u \in Users, aud \in {"web", "tui"} : RevokeUserSessions(u, t, aud)
        \/ DeleteExpiredSessions(t)
     PROVE SessionsKept
  BY DEF SessionStep
<1>0. t \in Nat
  BY TimeIsNat
<1>a. ASSUME NEW s \in SessionIds, sessions[s] # None
      PROVE  sessions[s] \in SessionRow /\ SessionContract(sessions[s])
  BY <1>a DEF TypeOK, SessionsValid
<1>1. ASSUME NEW s \in SessionIds, NEW u \in Users,
             CreateSession(s, u, users[u].updated_at, t)
      PROVE  SessionsKept
  BY <1>0, <1>1, InsertKept DEF CreateSession, CanInsertSession
<1>2. ASSUME NEW s \in SessionIds, NEW rev, TouchSession(s, sessions[s], rev, t)
      PROVE  SessionsKept
  <2>1. /\ sessions[s] # None
        /\ sessions[s].revoked_at = None
        /\ sessions[s].last_seen_at <= t
        /\ t < sessions[s].expires_at
    BY <1>2 DEF TouchSession, CanTouch, SameGeneration
  <2>2. \A r \in SessionIds :
            sessions'[r] = IF r = s THEN [sessions[s] EXCEPT !.last_seen_at = t]
                           ELSE sessions[r]
    BY <1>2 DEF TouchSession, TypeOK
  <2>3. /\ SessionContract([sessions[s] EXCEPT !.last_seen_at = t])
        /\ Continues(sessions[s], [sessions[s] EXCEPT !.last_seen_at = t])
    BY <1>0, <1>a, <2>1, RowChange
  <2>. QED  BY <2>2, <2>3, <1>a, SameRow DEF SessionsKept
<1>3. ASSUME NEW s \in SessionIds, RevokeSession(s, sessions[s], t) PROVE SessionsKept
  <2>1. /\ sessions[s] # None
        /\ sessions[s].revoked_at = None
        /\ sessions[s].last_seen_at <= t
        /\ t < sessions[s].expires_at
    BY <1>3 DEF RevokeSession, CanRevoke, SameGeneration
  <2>2. Later(sessions[s].last_seen_at, sessions[s].last_seen_at) = sessions[s].last_seen_at
    BY DEF Later
  <2>3. [sessions[s] EXCEPT !.last_seen_at = sessions[s].last_seen_at, !.revoked_at = t]
            = [sessions[s] EXCEPT !.revoked_at = t]
    BY <1>a, <2>1 DEF SessionRow
  <2>4. \A r \in SessionIds :
            sessions'[r] = IF r = s THEN [sessions[s] EXCEPT !.revoked_at = t]
                           ELSE sessions[r]
    BY <1>3, <2>2, <2>3 DEF RevokeSession, TypeOK
  <2>5. /\ SessionContract([sessions[s] EXCEPT !.revoked_at = t])
        /\ Continues(sessions[s], [sessions[s] EXCEPT !.revoked_at = t])
    BY <1>0, <1>a, <2>1, RowChange
  <2>. QED  BY <2>4, <2>5, <1>a, SameRow DEF SessionsKept
<1>4. ASSUME NEW u \in Users, NEW aud \in {"web", "tui"}, RevokeUserSessions(u, t, aud)
      PROVE  SessionsKept
  <2>. SUFFICES ASSUME NEW s \in SessionIds
                PROVE  /\ sessions'[s] # None => SessionContract(sessions'[s])
                       /\ Continues(sessions[s], sessions'[s])
    BY DEF SessionsKept
  <2>1. CASE LiveAt(s, u, t) /\ Audience(sessions[s]) = aud
    <3>1. sessions'[s] = [sessions[s] EXCEPT !.revoked_at = t]
      BY <1>4, <2>1 DEF RevokeUserSessions
    <3>2. /\ sessions[s] \in SessionRow
          /\ SessionContract(sessions[s])
          /\ sessions[s].revoked_at = None
          /\ t < sessions[s].expires_at
      BY <1>a, <2>1 DEF LiveAt, OpenSession
    <3>3. sessions[s].last_seen_at <= t
      BY <1>0, <1>4, <2>1, <3>2
         DEF RevokeUserSessions, CanRevokeAll, StaleFor, LiveAt, SessionRow
    <3>. QED  BY <1>0, <3>1, <3>2, <3>3, RowChange
  <2>2. CASE ~(LiveAt(s, u, t) /\ Audience(sessions[s]) = aud)
    BY <1>4, <2>2, SameRow DEF RevokeUserSessions, SessionsValid
  <2>. QED  BY <2>1, <2>2
<1>5. CASE DeleteExpiredSessions(t)
  BY <1>5, <1>a, SameRow DEF DeleteExpiredSessions, SessionsKept, Continues
<1>. QED  BY <1>1, <1>2, <1>3, <1>4, <1>5

\* The pairing methods keep the contract of every pairing, and every session's
\* contract and history.
LEMMA PairingStepKeeps ==
    TypeOK /\ SessionsValid /\ PairingsValid /\ PairingStep => SessionsKept /\ PairingsValid'
<1>. SUFFICES ASSUME TypeOK, SessionsValid, PairingsValid, NEW t \in Time,
        \/ \E p \in PairingIds : CreatePairing(p, t)
        \/ \E p \in PairingIds, u \in Users, clk \in Time :
                /\ IsActive(u)
                /\ AuthorizePairing(p, pairings[p], u, users[u].updated_at, t, clk)
        \/ \E p \in PairingIds : ExpireOnAuthorize(p, t)
        \/ \E p \in PairingIds : ExpirePairing(p, pairings[p], t)
        \/ \E p \in PairingIds : RevokePairing(p, pairings[p], t)
        \/ \E p \in PairingIds, s \in SessionIds, clk \in Time :
                /\ pairings[p] # None
                /\ pairings[p].user \in Users
                /\ IsActive(pairings[p].user)
                /\ ConsumePairing(p, s, pairings[p],
                                  users[pairings[p].user].updated_at, t, clk)
        \/ \E p \in PairingIds :
                /\ pairings[p] # None
                /\ pairings[p].user \in Users
                /\ IsActive(pairings[p].user)
                /\ ConsumeWithoutSession(p, pairings[p],
                                         users[pairings[p].user].updated_at, t)
        \/ \E p \in PairingIds : ExpireOnConsume(p, pairings[p], t)
        \/ DeleteExpiredPairings(t)
     PROVE SessionsKept /\ PairingsValid'
  BY DEF PairingStep
<1>0. t \in Nat /\ t # None
  BY TimeIsNat, NoneAssumption
<1>a. ASSUME UNCHANGED sessions
      PROVE  SessionsKept
  BY <1>a, SameRow DEF SessionsKept, SessionsValid
<1>b. ASSUME NEW p \in PairingIds, NEW row, PairingContract(row),
             pairings' = [pairings EXCEPT ![p] = row]
      PROVE  PairingsValid'
  BY <1>b DEF PairingsValid, TypeOK
<1>c. ASSUME NEW p \in PairingIds, pairings[p] # None
      PROVE  pairings[p] \in PairingRow /\ PairingContract(pairings[p])
  BY <1>c DEF TypeOK, PairingsValid
<1>1. ASSUME NEW p \in PairingIds, CreatePairing(p, t)
      PROVE  SessionsKept /\ PairingsValid'
  <2>1. PairingContract(NewPairing(t))
    BY <1>0, TTLAssumption DEF NewPairing, PairingContract
  <2>. QED  BY <1>1, <1>a, <1>b, <2>1 DEF CreatePairing
<1>2. ASSUME NEW p \in PairingIds, NEW u \in Users, NEW clk \in Time,
             AuthorizePairing(p, pairings[p], u, users[u].updated_at, t, clk)
      PROVE  SessionsKept /\ PairingsValid'
  <2>. DEFINE row == [pairings[p] EXCEPT !.status = "authorized", !.user = u,
                                         !.authorized_at = t]
  <2>1. /\ pairings[p] # None
        /\ pairings[p].status = "pending"
        /\ pairings[p].created_at <= t
        /\ t < pairings[p].expires_at
        /\ pairings' = [pairings EXCEPT ![p] = row]
        /\ UNCHANGED sessions
    BY <1>2 DEF AuthorizePairing, CanAuthorize
  <2>2. u # None
    BY NoneAssumption
  <2>3. PairingContract(row)
    BY <1>0, <1>c, <2>1, <2>2 DEF PairingContract, PairingRow
  <2>. HIDE DEF row
  <2>. QED  BY <1>a, <1>b, <2>1, <2>3
<1>3. ASSUME NEW p \in PairingIds, pairings[p] # None,
             pairings[p].status \in {"pending", "authorized"},
             pairings[p].expires_at <= t,
             pairings' = [pairings EXCEPT ![p] = ExpiredRow(pairings[p], t)]
      PROVE  PairingsValid'
  <2>1. PairingContract(ExpiredRow(pairings[p], t))
    BY <1>0, <1>3, <1>c DEF ExpiredRow, PairingContract, PairingRow
  <2>. QED  BY <1>3, <1>b, <2>1
<1>4. ASSUME NEW p \in PairingIds, ExpireOnAuthorize(p, t)
      PROVE  SessionsKept /\ PairingsValid'
  BY <1>3, <1>4, <1>a DEF ExpireOnAuthorize, OutOfTime
<1>5. ASSUME NEW p \in PairingIds, ExpirePairing(p, pairings[p], t)
      PROVE  SessionsKept /\ PairingsValid'
  BY <1>3, <1>5, <1>a DEF ExpirePairing, CanEnd, SamePairing
<1>6. ASSUME NEW p \in PairingIds, RevokePairing(p, pairings[p], t)
      PROVE  SessionsKept /\ PairingsValid'
  <2>. DEFINE row == [pairings[p] EXCEPT !.status = "revoked", !.ended_at = t]
  <2>1. /\ pairings[p] # None
        /\ pairings[p].status \in {"pending", "authorized"}
        /\ t < pairings[p].expires_at
        /\ pairings' = [pairings EXCEPT ![p] = row]
        /\ UNCHANGED sessions
    BY <1>6 DEF RevokePairing, CanEnd, SamePairing
  <2>2. PairingContract(row)
    BY <1>0, <1>c, <2>1 DEF PairingContract, PairingRow
  <2>. HIDE DEF row
  <2>. QED  BY <1>a, <1>b, <2>1, <2>2
<1>7. ASSUME NEW p \in PairingIds, pairings[p] # None, pairings[p].status = "authorized",
             pairings[p].authorized_at <= t, t < pairings[p].expires_at,
             pairings' = [pairings EXCEPT ![p].status = "consumed", ![p].consumed_at = t]
      PROVE  PairingsValid'
  <2>. DEFINE row == [pairings[p] EXCEPT !.status = "consumed", !.consumed_at = t]
  <2>1. PairingContract(row)
    BY <1>0, <1>7, <1>c DEF PairingContract, PairingRow
  <2>2. pairings' = [pairings EXCEPT ![p] = row]
    BY <1>7
  <2>. HIDE DEF row
  <2>. QED  BY <1>b, <2>1, <2>2
<1>8. ASSUME NEW p \in PairingIds,
             ConsumeWithoutSession(p, pairings[p], users[pairings[p].user].updated_at, t)
      PROVE  SessionsKept /\ PairingsValid'
  BY <1>7, <1>8, <1>a DEF ConsumeWithoutSession, AuthorizedAsRead, SamePairing
<1>9. ASSUME NEW p \in PairingIds, ExpireOnConsume(p, pairings[p], t)
      PROVE  SessionsKept /\ PairingsValid'
  BY <1>3, <1>9, <1>a DEF ExpireOnConsume, AuthorizedAsRead, SamePairing
<1>10. CASE DeleteExpiredPairings(t)
  BY <1>10, <1>a DEF DeleteExpiredPairings, PairingsValid
<1>11. ASSUME NEW p \in PairingIds, NEW s \in SessionIds, NEW clk \in Time,
              pairings[p] # None, pairings[p].user \in Users,
              ConsumePairing(p, s, pairings[p], users[pairings[p].user].updated_at, t, clk)
      PROVE  SessionsKept /\ PairingsValid'
  <2>1. /\ sessions[s] = None
        /\ pairings[p].status = "authorized"
        /\ InsertSession(s, NewSession(pairings[p].user, t, p))
        /\ pairings[p].authorized_at <= t
        /\ t <= clk /\ clk < pairings[p].expires_at
        /\ pairings' = [pairings EXCEPT ![p].status = "consumed", ![p].consumed_at = t]
    BY <1>11 DEF ConsumePairing, CanConsume, AuthorizedAsRead
  <2>2. t < pairings[p].expires_at
    BY <1>0, <1>c, <1>11, <2>1, TimeIsNat DEF PairingRow
  <2>3. SessionsKept
    BY <1>0, <1>11, <2>1, InsertKept
  <2>. QED  BY <1>7, <1>11, <2>1, <2>2, <2>3
<1>. QED  BY <1>1, <1>2, <1>4, <1>5, <1>6, <1>8, <1>9, <1>10, <1>11

\* Every transaction of the store keeps the contracts and the history.
LEMMA StepKeeps ==
    TypeOK /\ SessionsValid /\ PairingsValid /\ [Next]_storeVars
        => SessionsKept /\ PairingsValid'
<1>1. ASSUME TypeOK, SessionsValid, PairingsValid, UNCHANGED storeVars
      PROVE  SessionsKept /\ PairingsValid'
  BY <1>1, SameRow DEF storeVars, SessionsKept, SessionsValid, PairingsValid
<1>2. ASSUME TypeOK, SessionsValid, PairingsValid, AccountStep PROVE PairingsValid'
  BY <1>2 DEF AccountStep, ProvisionUser, SaveActiveUser, SaveInactiveUser, Promote,
        BootstrapFirstAdmin, ApprovePendingUser, OnboardPendingUser, WithoutAuthorized,
        PairingsValid
<1>3. ASSUME TypeOK, SessionsValid, PairingsValid, SessionStep PROVE PairingsValid'
  BY <1>3 DEF SessionStep, CreateSession, TouchSession, RevokeSession,
        RevokeUserSessions, DeleteExpiredSessions, PairingsValid
<1>. QED  BY <1>1, <1>2, <1>3, AccountKeeps, SessionStepKeeps, PairingStepKeeps DEF Next

\* For every store and every clock: no write leaves a row that the CHECK
\* constraints or the domain constructors refuse.
THEOREM RowsAreValid == Spec => []RowsValid
<1>1. Init => SessionsValid /\ PairingsValid
  BY DEF Init, SessionsValid, PairingsValid
<1>2. TypeOK /\ SessionsValid /\ PairingsValid /\ [Next]_storeVars
        => SessionsValid' /\ PairingsValid'
  BY StepKeeps DEF SessionsKept, SessionsValid
<1>3. TypeOK /\ SessionsValid /\ PairingsValid => RowsValid
  BY DEF RowsValid, SessionsValid, PairingsValid
<1>. QED  BY <1>1, <1>2, <1>3, TypeCorrect, PTL DEF Spec

\* For every store: a session keeps its generation, never goes back in its
\* last use, and never loses or changes its revocation.
THEOREM SessionsHaveHistory == Spec => SessionHistory
<1>. DEFINE Step == \A s \in SessionIds :
        sessions[s] # None /\ sessions'[s] # None =>
            /\ SameGeneration(sessions[s], sessions'[s])
            /\ sessions[s].last_seen_at <= sessions'[s].last_seen_at
            /\ sessions[s].revoked_at # None => sessions'[s] = sessions[s]
<1>1. RowsValid /\ [Next]_storeVars => Step
  BY StepKeeps DEF RowsValid, SessionsKept, SessionsValid, PairingsValid, Continues
<1>2. RowsValid /\ [Next]_storeVars => [Step]_storeVars
  BY <1>1
<1>. HIDE DEF Step
<1>3. Spec => [][Step]_storeVars
  BY <1>2, RowsAreValid, PTL DEF Spec
<1>. QED  BY <1>3 DEF Step, SessionHistory

\* For every store and every clock: all of the above together, as the
\* store's run checks it on a small instance.
THEOREM StoreIsSoundAlways == Spec => []StoreIsSound
<1>. QED
  BY RowsAreValid, TuiSessionsCorrelated, PairingsAreOneShot, DisabledAccountsHaveNothing,
     FenceHolds, PTL DEF StoreIsSound

-----------------------------------------------------------------------------
(***************************************************************************)
(* The refinement: every transaction of the store is a step of the         *)
(* one-shot grants, or no step of theirs.                                  *)
(***************************************************************************)

\* Session s is the terminal of pairing p.
Terminal(s, p) == sessions[s] # None /\ sessions[s].source_pairing = p

\* What one transaction may do to a pairing row without consuming it for a session.
RowMoves(p) ==
    \/ pairings'[p] = pairings[p]
    \/ /\ pairings[p] = None /\ pairings'[p] # None
       /\ pairings'[p].status = "pending" /\ pairings'[p].user = None
    \/ /\ pairings[p] # None /\ pairings'[p] # None
       /\ pairings[p].status = "pending" /\ pairings'[p].status = "authorized"
       /\ pairings'[p].user \in Users
    \/ /\ pairings[p] # None /\ pairings'[p] # None
       /\ pairings[p].status \in {"pending", "authorized"}
       /\ pairings'[p].status \in {"expired", "revoked"}
       /\ pairings'[p].user = pairings[p].user
    \/ /\ pairings[p] # None /\ pairings'[p] # None
       /\ pairings[p].status = "authorized" /\ pairings'[p].status = "consumed"
       /\ pairings'[p].user = pairings[p].user
    \/ pairings'[p] = None /\ \A s \in SessionIds : ~Terminal(s, p)

\* A session that appears is no terminal's.
NoNewTerminal ==
    \A s \in SessionIds :
        sessions[s] = None /\ sessions'[s] # None => sessions'[s].source_pairing = None

ConsumeStep(p, s) ==
    /\ pairings[p] # None /\ pairings'[p] # None
    /\ pairings[p].status = "authorized" /\ pairings'[p].status = "consumed"
    /\ pairings'[p].user = pairings[p].user /\ pairings[p].user \in Users
    /\ sessions[s] = None
    /\ sessions'[s] # None /\ sessions'[s].user = pairings[p].user
    /\ sessions'[s].source_pairing = p
    /\ \A q \in PairingIds \ {p} : pairings'[q] = pairings[q]
    /\ \A r \in SessionIds \ {s} : sessions'[r] = sessions[r]

\* An authorized pairing that an account's change deletes has no terminal.
LEMMA WithoutAuthorizedMoves ==
    ASSUME Inv, NEW u \in Users, pairings' = WithoutAuthorized(u), NEW p \in PairingIds
    PROVE  RowMoves(p)
<1>1. CASE pairings[p] # None /\ pairings[p].status = "authorized" /\ pairings[p].user = u
  <2>1. pairings'[p] = None
    BY <1>1 DEF WithoutAuthorized
  <2>2. ASSUME NEW s \in SessionIds, Terminal(s, p) PROVE FALSE
    <3>1. sessions[s] # None /\ sessions[s].source_pairing = p /\ p # None
      BY <2>2, NoneAssumption DEF Terminal
    <3>. QED  BY <1>1, <3>1 DEF Inv, TuiSessionCorrelated
  <2>. QED  BY <2>1, <2>2 DEF RowMoves
<1>2. CASE ~(pairings[p] # None /\ pairings[p].status = "authorized" /\ pairings[p].user = u)
  <2>1. pairings'[p] = pairings[p]
    BY <1>2 DEF WithoutAuthorized
  <2>. QED  BY <2>1 DEF RowMoves
<1>. QED  BY <1>1, <1>2

LEMMA AccountQuiet ==
    ASSUME Inv, AccountStep
    PROVE  NoNewTerminal /\ \A p \in PairingIds : RowMoves(p)
<1>1. PICK u \in Users, t \in Time :
        \/ ProvisionUser(u, t)
        \/ \E role \in Roles : SaveActiveUser(u, role, t)
        \/ \E role \in Roles : SaveInactiveUser(u, role, t)
        \/ BootstrapFirstAdmin(u, t)
        \/ \E actor \in Users, role \in Roles : ApprovePendingUser(actor, u, role, t)
        \/ OnboardPendingUser(u, t)
  BY DEF AccountStep
<1>2. CASE sessions' = sessions /\ pairings' = pairings
  BY <1>2 DEF NoNewTerminal, RowMoves
<1>3. CASE /\ pairings' = WithoutAuthorized(u)
           /\ sessions' = SessionsDisabled(u, t) \/ sessions' = SessionsRevokedAt(u, t)
  <2>1. \A s \in SessionIds : sessions[s] = None => sessions'[s] = None
    BY <1>3 DEF SessionsDisabled, SessionsRevokedAt, OpenSession, LiveAt
  <2>. QED  BY <1>3, <2>1, WithoutAuthorizedMoves DEF NoNewTerminal
<1>. QED
  BY <1>1, <1>2, <1>3 DEF ProvisionUser, SaveActiveUser, SaveInactiveUser, Promote,
     BootstrapFirstAdmin, ApprovePendingUser, OnboardPendingUser

LEMMA SessionQuiet ==
    ASSUME Inv, SessionStep
    PROVE  NoNewTerminal /\ \A p \in PairingIds : RowMoves(p)
<1>1. pairings' = pairings
  BY DEF SessionStep, CreateSession, TouchSession, RevokeSession, RevokeUserSessions,
     DeleteExpiredSessions
<1>2. PICK t \in Time :
        \/ \E s \in SessionIds, u \in Users :
                IsActive(u) /\ CreateSession(s, u, users[u].updated_at, t)
        \/ \E s \in SessionIds :
                /\ sessions[s] # None
                /\ IsActive(sessions[s].user)
                /\ TouchSession(s, sessions[s], users[sessions[s].user].updated_at, t)
        \/ \E s \in SessionIds : RevokeSession(s, sessions[s], t)
        \/ \E u \in Users, aud \in {"web", "tui"} : RevokeUserSessions(u, t, aud)
        \/ DeleteExpiredSessions(t)
  BY DEF SessionStep
<1>3. ASSUME NEW s \in SessionIds, NEW u \in Users, CreateSession(s, u, users[u].updated_at, t)
      PROVE  NoNewTerminal
  <2>1. sessions' = [sessions EXCEPT ![s] = NewSession(u, t, None)]
    BY <1>3 DEF CreateSession, InsertSession
  <2>2. NewSession(u, t, None).source_pairing = None
    BY DEF NewSession
  <2>. QED  BY <2>1, <2>2 DEF NoNewTerminal, Inv, TypeOK
<1>4. ASSUME NEW s \in SessionIds, sessions[s] # None,
             \A r \in SessionIds \ {s} : sessions'[r] = sessions[r]
      PROVE  NoNewTerminal
  BY <1>4 DEF NoNewTerminal
<1>5. ASSUME NEW s \in SessionIds, RevokeSession(s, sessions[s], t) PROVE NoNewTerminal
  BY <1>4, <1>5 DEF RevokeSession, CanRevoke, SameGeneration, Inv, TypeOK
<1>6. ASSUME NEW s \in SessionIds, sessions[s] # None,
             TouchSession(s, sessions[s], users[sessions[s].user].updated_at, t)
      PROVE  NoNewTerminal
  BY <1>4, <1>6 DEF TouchSession, Inv, TypeOK
<1>7. ASSUME NEW u \in Users, NEW aud \in {"web", "tui"}, RevokeUserSessions(u, t, aud)
      PROVE  NoNewTerminal
  BY <1>7 DEF RevokeUserSessions, LiveAt, OpenSession, NoNewTerminal
<1>8. ASSUME DeleteExpiredSessions(t) PROVE NoNewTerminal
  <2>1. \A s \in SessionIds : sessions'[s] = None \/ sessions'[s] = sessions[s]
    BY <1>8 DEF DeleteExpiredSessions
  <2>. QED  BY <2>1 DEF NoNewTerminal
<1>9. \A p \in PairingIds : RowMoves(p)
  BY <1>1 DEF RowMoves
<1>. QED  BY <1>2, <1>3, <1>5, <1>6, <1>7, <1>8, <1>9

\* One row that moves, of the table as it is typed.
LEMMA OneRowMoves ==
    ASSUME Inv, NEW p \in PairingIds, NEW row \in PairingRow,
           pairings' = [pairings EXCEPT ![p] = row], UNCHANGED sessions,
           \/ pairings[p] = None /\ row.status = "pending" /\ row.user = None
           \/ /\ pairings[p] # None
              /\ \/ /\ pairings[p].status = "pending" /\ row.status = "authorized"
                    /\ row.user \in Users
                 \/ /\ pairings[p].status \in {"pending", "authorized"}
                    /\ row.status \in {"expired", "revoked"} /\ row.user = pairings[p].user
                 \/ /\ pairings[p].status = "authorized" /\ row.status = "consumed"
                    /\ row.user = pairings[p].user
    PROVE  NoNewTerminal /\ \A q \in PairingIds : RowMoves(q)
<1>1. pairings'[p] = row /\ row # None /\ \A q \in PairingIds \ {p} : pairings'[q] = pairings[q]
  BY NoneAssumption DEF Inv, TypeOK
<1>2. NoNewTerminal
  BY DEF NoNewTerminal
<1>3. RowMoves(p)
  BY <1>1 DEF RowMoves
<1>4. \A q \in PairingIds \ {p} : RowMoves(q)
  BY <1>1 DEF RowMoves
<1>. QED  BY <1>2, <1>3, <1>4

LEMMA PairingQuiet ==
    ASSUME Inv, TypeOK', PairingStep
    PROVE  \/ NoNewTerminal /\ \A p \in PairingIds : RowMoves(p)
           \/ \E p \in PairingIds, s \in SessionIds : ConsumeStep(p, s)
<1> DEFINE Quiet == NoNewTerminal /\ \A p \in PairingIds : RowMoves(p)
<1>1. PICK t \in Time :
        \/ \E p \in PairingIds : CreatePairing(p, t)
        \/ \E p \in PairingIds, u \in Users, clk \in Time :
                /\ IsActive(u)
                /\ AuthorizePairing(p, pairings[p], u, users[u].updated_at, t, clk)
        \/ \E p \in PairingIds : ExpireOnAuthorize(p, t)
        \/ \E p \in PairingIds : ExpirePairing(p, pairings[p], t)
        \/ \E p \in PairingIds : RevokePairing(p, pairings[p], t)
        \/ \E p \in PairingIds, s \in SessionIds, clk \in Time :
                /\ pairings[p] # None
                /\ pairings[p].user \in Users
                /\ IsActive(pairings[p].user)
                /\ ConsumePairing(p, s, pairings[p],
                                  users[pairings[p].user].updated_at, t, clk)
        \/ \E p \in PairingIds :
                /\ pairings[p] # None
                /\ pairings[p].user \in Users
                /\ IsActive(pairings[p].user)
                /\ ConsumeWithoutSession(p, pairings[p],
                                         users[pairings[p].user].updated_at, t)
        \/ \E p \in PairingIds : ExpireOnConsume(p, pairings[p], t)
        \/ DeleteExpiredPairings(t)
  BY DEF PairingStep
<1>2. t \in Nat
  BY TimeIsNat
<1>3. ASSUME NEW p \in PairingIds, CreatePairing(p, t) PROVE Quiet
  <2>1. NewPairing(t) \in PairingRow
    BY <1>2, TTLAssumption DEF NewPairing, PairingRow, PairingStatuses
  <2>2. NewPairing(t).status = "pending" /\ NewPairing(t).user = None
    BY DEF NewPairing
  <2>. QED  BY <1>3, <2>1, <2>2, OneRowMoves DEF CreatePairing
<1>4. ASSUME NEW p \in PairingIds, NEW u \in Users, NEW clk \in Time,
             AuthorizePairing(p, pairings[p], u, users[u].updated_at, t, clk)
      PROVE  Quiet
  <2>1. /\ pairings[p] # None /\ pairings[p].status = "pending" /\ UNCHANGED sessions
        /\ pairings' = [pairings EXCEPT ![p].status = "authorized", ![p].user = u,
                                        ![p].authorized_at = t]
    BY <1>4 DEF AuthorizePairing, CanAuthorize
  <2> DEFINE row == [pairings[p] EXCEPT !.status = "authorized", !.user = u, !.authorized_at = t]
  <2>2. pairings[p] \in PairingRow
    BY <2>1 DEF Inv, TypeOK
  <2>3. row \in PairingRow /\ row.status = "authorized" /\ row.user = u
    BY <1>2, <2>2 DEF PairingRow, PairingStatuses
  <2>4. pairings' = [pairings EXCEPT ![p] = row]
    BY <2>1 DEF Inv, TypeOK
  <2> HIDE DEF row
  <2>. QED  BY <2>1, <2>3, <2>4, OneRowMoves
<1>5. ASSUME NEW p \in PairingIds, pairings[p] # None,
             pairings[p].status \in {"pending", "authorized"}, UNCHANGED sessions,
             \/ pairings' = [pairings EXCEPT ![p] = ExpiredRow(pairings[p], t)]
             \/ pairings' = [pairings EXCEPT ![p].status = "revoked", ![p].ended_at = t]
      PROVE  Quiet
  <2>1. pairings[p] \in PairingRow
    BY <1>5 DEF Inv, TypeOK
  <2>2. ASSUME NEW st \in {"expired", "revoked"},
               pairings' = [pairings EXCEPT ![p] = [pairings[p] EXCEPT !.status = st, !.ended_at = t]]
        PROVE  Quiet
    <3> DEFINE row == [pairings[p] EXCEPT !.status = st, !.ended_at = t]
    <3>1. row \in PairingRow /\ row.status = st /\ row.user = pairings[p].user
      BY <1>2, <2>1, <2>2 DEF PairingRow, PairingStatuses
    <3>2. pairings' = [pairings EXCEPT ![p] = row]
      BY <2>2
    <3> HIDE DEF row
    <3>. QED  BY <1>5, <3>1, <3>2, OneRowMoves
  <2>3. CASE pairings' = [pairings EXCEPT ![p] = ExpiredRow(pairings[p], t)]
    BY <2>2, <2>3 DEF ExpiredRow
  <2>4. CASE pairings' = [pairings EXCEPT ![p].status = "revoked", ![p].ended_at = t]
    <3>1. pairings' = [pairings EXCEPT ![p] = [pairings[p] EXCEPT !.status = "revoked", !.ended_at = t]]
      BY <2>4 DEF Inv, TypeOK
    <3>. QED  BY <2>2, <3>1
  <2>. QED  BY <1>5, <2>3, <2>4
<1>6. ASSUME NEW p \in PairingIds,
             ExpireOnAuthorize(p, t) \/ ExpirePairing(p, pairings[p], t)
             \/ RevokePairing(p, pairings[p], t) \/ ExpireOnConsume(p, pairings[p], t)
      PROVE  Quiet
  BY <1>5, <1>6 DEF ExpireOnAuthorize, OutOfTime, ExpirePairing, RevokePairing, CanEnd,
     SamePairing, ExpireOnConsume, AuthorizedAsRead
<1>7. ASSUME NEW p \in PairingIds, pairings[p] # None,
             ConsumeWithoutSession(p, pairings[p], users[pairings[p].user].updated_at, t)
      PROVE  Quiet
  <2> DEFINE row == [pairings[p] EXCEPT !.status = "consumed", !.consumed_at = t]
  <2>1. /\ pairings[p].status = "authorized" /\ UNCHANGED sessions /\ pairings[p] \in PairingRow
        /\ pairings' = [pairings EXCEPT ![p] = row]
    BY <1>7 DEF ConsumeWithoutSession, AuthorizedAsRead, Inv, TypeOK
  <2>2. row \in PairingRow /\ row.status = "consumed" /\ row.user = pairings[p].user
    BY <1>2, <2>1 DEF PairingRow, PairingStatuses
  <2> HIDE DEF row
  <2>. QED  BY <1>7, <2>1, <2>2, OneRowMoves
<1>8. ASSUME NEW p \in PairingIds, NEW s \in SessionIds, NEW clk \in Time,
             pairings[p] # None, pairings[p].user \in Users,
             ConsumePairing(p, s, pairings[p], users[pairings[p].user].updated_at, t, clk)
      PROVE  ConsumeStep(p, s)
  <2> DEFINE row == [pairings[p] EXCEPT !.status = "consumed", !.consumed_at = t]
             new == NewSession(pairings[p].user, t, p)
  <2>1. /\ pairings[p].status = "authorized" /\ sessions[s] = None /\ pairings[p] \in PairingRow
        /\ pairings' = [pairings EXCEPT ![p] = row] /\ sessions' = [sessions EXCEPT ![s] = new]
    BY <1>8 DEF ConsumePairing, CanConsume, InsertSession, AuthorizedAsRead, Inv, TypeOK
  <2>2. row \in PairingRow /\ row.status = "consumed" /\ row.user = pairings[p].user /\ row # None
    BY <1>2, <2>1, NoneAssumption DEF PairingRow, PairingStatuses
  <2>3. new \in SessionRow /\ new # None /\ new.user = pairings[p].user /\ new.source_pairing = p
    BY <1>2, <1>8, NewRowTypes, NoneAssumption DEF NewSession
  <2> HIDE DEF row, new
  <2>4. /\ pairings'[p] = row /\ \A q \in PairingIds \ {p} : pairings'[q] = pairings[q]
        /\ sessions'[s] = new /\ \A r \in SessionIds \ {s} : sessions'[r] = sessions[r]
    BY <2>1 DEF Inv, TypeOK
  <2>. QED  BY <1>8, <2>1, <2>2, <2>3, <2>4 DEF ConsumeStep
<1>9. ASSUME DeleteExpiredPairings(t) PROVE Quiet
  <2>1. NoNewTerminal
    BY <1>9 DEF DeleteExpiredPairings, NoNewTerminal
  <2>2. \A p \in PairingIds : RowMoves(p)
    BY <1>9 DEF DeleteExpiredPairings, RowMoves, Terminal
  <2>. QED  BY <2>1, <2>2
<1> HIDE DEF Quiet
<1>10. Quiet \/ \E p \in PairingIds, s \in SessionIds : ConsumeStep(p, s)
  <2>1. ASSUME NEW p \in PairingIds,
               \/ CreatePairing(p, t) \/ ExpireOnAuthorize(p, t)
               \/ ExpirePairing(p, pairings[p], t) \/ RevokePairing(p, pairings[p], t)
               \/ ExpireOnConsume(p, pairings[p], t)
        PROVE  Quiet
    BY <2>1, <1>3, <1>6
  <2>2. ASSUME NEW p \in PairingIds, NEW u \in Users, NEW clk \in Time,
               AuthorizePairing(p, pairings[p], u, users[u].updated_at, t, clk)
        PROVE  Quiet
    BY <2>2, <1>4
  <2>3. ASSUME NEW p \in PairingIds, NEW s \in SessionIds, NEW clk \in Time,
               pairings[p] # None, pairings[p].user \in Users,
               ConsumePairing(p, s, pairings[p], users[pairings[p].user].updated_at, t, clk)
        PROVE  \E q \in PairingIds, r \in SessionIds : ConsumeStep(q, r)
    BY <2>3, <1>8
  <2>. QED  BY <1>1, <1>7, <1>9, <2>1, <2>2, <2>3
<1>. QED  BY <1>10 DEF Quiet

\* The only terminal of a pairing is the one SessionOf chooses.
LEMMA SessionOfIs ==
    ASSUME OneSessionPerPairing, NEW p \in PairingIds, NEW s \in SessionIds, Terminal(s, p)
    PROVE  SessionOf(p) = s
<1>1. p # None
  BY NoneAssumption
<1>2. \A r \in SessionIds : Terminal(r, p) => r = s
  BY <1>1 DEF OneSessionPerPairing, Terminal
<1>. QED  BY <1>2 DEF SessionOf, Terminal

LEMMA SessionOfNobody ==
    ASSUME NEW p \in PairingIds, \A s \in SessionIds : ~Terminal(s, p)
    PROVE  SessionOf(p) = None
  BY DEF SessionOf, Terminal

LEMMA SessionOfIsAfter ==
    ASSUME OneSessionPerPairing', NEW p \in PairingIds, NEW s \in SessionIds, Terminal(s, p)'
    PROVE  SessionOf(p)' = s
<1>1. p # None
  BY NoneAssumption
<1>2. \A r \in SessionIds : Terminal(r, p)' => r = s
  BY <1>1 DEF OneSessionPerPairing, Terminal
<1>. QED  BY <1>2 DEF SessionOf, Terminal

LEMMA SessionOfNobodyAfter ==
    ASSUME NEW p \in PairingIds, \A s \in SessionIds : ~Terminal(s, p)'
    PROVE  SessionOf(p)' = None
  BY DEF SessionOf, Terminal

\* A surviving terminal keeps its pairing and its user, and none appears.
Survives(s) ==
    \/ sessions'[s] = None
    \/ sessions[s] = None /\ sessions'[s] # None /\ sessions'[s].source_pairing = None
    \/ /\ sessions[s] # None /\ sessions'[s] # None
       /\ sessions'[s].source_pairing = sessions[s].source_pairing
       /\ sessions'[s].user = sessions[s].user

LEMMA QuietSurvives ==
    ASSUME SessionsKept, NoNewTerminal, NEW s \in SessionIds
    PROVE  Survives(s)
  BY DEF SessionsKept, Continues, SameGeneration, NoNewTerminal, Survives

\* Without a consumption a pairing keeps its terminal or loses it.
LEMMA QuietTerminals ==
    ASSUME Inv, OneSessionPerPairing', SessionsKept, NoNewTerminal, NEW p \in PairingIds
    PROVE  \/ SessionOf(p)' = SessionOf(p)
           \/ /\ SessionOf(p)' = None /\ SessionOf(p) # None
              /\ \E s \in SessionIds : Terminal(s, p)
<1>0. p # None
  BY NoneAssumption
<1>1. CASE \E s \in SessionIds : Terminal(s, p)'
  <2>1. PICK s \in SessionIds : Terminal(s, p)'
    BY <1>1
  <2>2. Terminal(s, p)
    BY <1>0, <2>1, QuietSurvives DEF Survives, Terminal
  <2>. QED  BY <2>1, <2>2, SessionOfIs, SessionOfIsAfter DEF Inv
<1>2. CASE ~\E s \in SessionIds : Terminal(s, p)'
  <2>1. SessionOf(p)' = None
    BY <1>2, SessionOfNobodyAfter
  <2>2. CASE \E s \in SessionIds : Terminal(s, p)
    BY <2>1, <2>2
  <2>3. CASE ~\E s \in SessionIds : Terminal(s, p)
    BY <2>1, <2>3, SessionOfNobody
  <2>. QED  BY <2>2, <2>3
<1>. QED  BY <1>1, <1>2

\* Of a pairing that is not consumed there is no terminal.
LEMMA NoTerminalYet ==
    ASSUME Inv, NEW p \in PairingIds, pairings[p] = None \/ pairings[p].status # "consumed"
    PROVE  /\ \A s \in SessionIds : ~Terminal(s, p)
           /\ SessionOf(p) = None
<1>1. ASSUME NEW s \in SessionIds, Terminal(s, p) PROVE FALSE
  <2>1. sessions[s] # None /\ sessions[s].source_pairing = p /\ p # None
    BY <1>1, NoneAssumption DEF Terminal
  <2>. QED  BY <2>1 DEF Inv, TuiSessionCorrelated
<1>. QED  BY <1>1, SessionOfNobody

PhaseMap(p) == PhaseOf(pairings[p])
OwnerMap(p) == IF pairings[p] = None THEN None ELSE pairings[p].user

\* The mapped variables at one grant and one credential, before and after a step.
LEMMA MappedPhase ==
    ASSUME NEW p \in PairingIds
    PROVE  /\ Grant!Keep(p) <=> /\ PhaseMap(p)' = PhaseMap(p) /\ OwnerMap(p)' = OwnerMap(p)
                                /\ SessionOf(p)' = SessionOf(p)
           /\ Grant!Offer(p) <=> /\ PhaseMap(p) = "none" /\ PhaseMap(p)' = "offered"
                                 /\ OwnerMap(p)' = None /\ SessionOf(p)' = None
           /\ Grant!Accept(p) <=> /\ PhaseMap(p) = "offered" /\ PhaseMap(p)' = "accepted"
                                  /\ OwnerMap(p)' \in Users /\ SessionOf(p)' = None
           /\ Grant!Close(p) <=> /\ PhaseMap(p) \in {"offered", "accepted"}
                                 /\ PhaseMap(p)' = "closed" /\ OwnerMap(p)' = OwnerMap(p)
                                 /\ SessionOf(p)' = SessionOf(p)
           /\ Grant!Drop(p) <=> /\ PhaseMap(p) = "redeemed" /\ PhaseMap(p)' = "redeemed"
                                /\ OwnerMap(p)' = OwnerMap(p) /\ SessionOf(p)' = None
           /\ Grant!Forget(p) <=> /\ SessionOf(p) = None /\ PhaseMap(p)' = "none"
                                  /\ OwnerMap(p)' = None /\ SessionOf(p)' = None
  BY DEF Grant!Keep, Grant!Offer, Grant!Accept, Grant!Close, Grant!Drop, Grant!Forget,
     PhaseMap, OwnerMap

LEMMA MappedRedeem ==
    ASSUME NEW p \in PairingIds, PhaseMap(p) = "accepted", PhaseMap(p)' = "redeemed",
           OwnerMap(p)' = OwnerMap(p),
           \/ SessionOf(p)' = None
           \/ \E s \in SessionIds :
                 HolderOf(s) = None /\ SessionOf(p)' = s /\ HolderOf(s)' = OwnerMap(p)
    PROVE  Grant!Redeem(p)
  BY DEF Grant!Redeem, PhaseMap, OwnerMap

LEMMA MappedCredential ==
    ASSUME NEW s \in SessionIds,
           \/ HolderOf(s)' = HolderOf(s) \/ HolderOf(s)' = None
           \/ \E p \in PairingIds :
                 /\ PhaseMap(p) = "accepted" /\ PhaseMap(p)' = "redeemed"
                 /\ SessionOf(p)' = s /\ HolderOf(s)' = OwnerMap(p)
    PROVE  Grant!CredentialStep(s)
  BY DEF Grant!CredentialStep, PhaseMap, OwnerMap

\* The phase of a row, before and after.
LEMMA PhaseIs ==
    ASSUME NEW row
    PROVE  /\ row = None => PhaseOf(row) = "none"
           /\ row # None /\ row.status = "pending" => PhaseOf(row) = "offered"
           /\ row # None /\ row.status = "authorized" => PhaseOf(row) = "accepted"
           /\ row # None /\ row.status = "consumed" => PhaseOf(row) = "redeemed"
           /\ row # None /\ row.status \in {"expired", "revoked"} => PhaseOf(row) = "closed"
  BY DEF PhaseOf

LEMMA QuietStep ==
    ASSUME Inv, OneSessionPerPairing', SessionsKept, NoNewTerminal, NEW p \in PairingIds, RowMoves(p)
    PROVE  \/ Grant!Keep(p) \/ Grant!Offer(p) \/ Grant!Accept(p) \/ Grant!Redeem(p)
           \/ Grant!Close(p) \/ Grant!Drop(p) \/ Grant!Forget(p)
<1>1. \/ SessionOf(p)' = SessionOf(p)
      \/ SessionOf(p)' = None /\ \E s \in SessionIds : Terminal(s, p)
  BY QuietTerminals
<1>2. (pairings[p] = None \/ pairings[p].status # "consumed") => SessionOf(p)' = None
  BY <1>1, NoTerminalYet
<1>3. CASE pairings'[p] = pairings[p]
  <2>1. PhaseMap(p)' = PhaseMap(p) /\ OwnerMap(p)' = OwnerMap(p)
    BY <1>3 DEF PhaseMap, OwnerMap
  <2>2. CASE SessionOf(p)' = SessionOf(p)
    BY <2>1, <2>2, MappedPhase
  <2>3. CASE SessionOf(p)' = None /\ \E s \in SessionIds : Terminal(s, p)
    <3>1. pairings[p] # None /\ pairings[p].status = "consumed"
      BY <2>3, NoTerminalYet
    <3>2. PhaseMap(p) = "redeemed"
      BY <3>1, PhaseIs DEF PhaseMap
    <3>. QED  BY <2>1, <2>3, <3>2, MappedPhase
  <2>. QED  BY <1>1, <2>2, <2>3
<1>4. CASE /\ pairings[p] = None /\ pairings'[p] # None
           /\ pairings'[p].status = "pending" /\ pairings'[p].user = None
  <2>1. PhaseMap(p) = "none" /\ PhaseMap(p)' = "offered" /\ OwnerMap(p)' = None
    BY <1>4, PhaseIs DEF PhaseMap, OwnerMap
  <2>. QED  BY <1>2, <1>4, <2>1, MappedPhase
<1>5. CASE /\ pairings[p] # None /\ pairings'[p] # None
           /\ pairings[p].status = "pending" /\ pairings'[p].status = "authorized"
           /\ pairings'[p].user \in Users
  <2>1. PhaseMap(p) = "offered" /\ PhaseMap(p)' = "accepted" /\ OwnerMap(p)' \in Users
    BY <1>5, PhaseIs DEF PhaseMap, OwnerMap
  <2>. QED  BY <1>2, <1>5, <2>1, MappedPhase
<1>6. CASE /\ pairings[p] # None /\ pairings'[p] # None
           /\ pairings[p].status \in {"pending", "authorized"}
           /\ pairings'[p].status \in {"expired", "revoked"}
           /\ pairings'[p].user = pairings[p].user
  <2>1. /\ PhaseMap(p) \in {"offered", "accepted"} /\ PhaseMap(p)' = "closed"
        /\ OwnerMap(p)' = OwnerMap(p)
    BY <1>6, PhaseIs DEF PhaseMap, OwnerMap
  <2>2. SessionOf(p) = None
    BY <1>6, NoTerminalYet
  <2>. QED  BY <1>2, <1>6, <2>1, <2>2, MappedPhase
<1>7. CASE /\ pairings[p] # None /\ pairings'[p] # None
           /\ pairings[p].status = "authorized" /\ pairings'[p].status = "consumed"
           /\ pairings'[p].user = pairings[p].user
  <2>1. PhaseMap(p) = "accepted" /\ PhaseMap(p)' = "redeemed" /\ OwnerMap(p)' = OwnerMap(p)
    BY <1>7, PhaseIs DEF PhaseMap, OwnerMap
  <2>. QED  BY <1>2, <1>7, <2>1, MappedRedeem
<1>8. CASE pairings'[p] = None /\ \A s \in SessionIds : ~Terminal(s, p)
  <2>1. PhaseMap(p)' = "none" /\ OwnerMap(p)' = None
    BY <1>8, PhaseIs DEF PhaseMap, OwnerMap
  <2>2. SessionOf(p) = None
    BY <1>8, SessionOfNobody
  <2>. QED  BY <1>1, <1>8, <2>1, <2>2, MappedPhase
<1>. QED  BY <1>3, <1>4, <1>5, <1>6, <1>7, <1>8 DEF RowMoves

\* A transaction that consumes no pairing for a session.
LEMMA QuietRefines ==
    ASSUME Inv, OneSessionPerPairing', SessionsKept, NoNewTerminal, \A p \in PairingIds : RowMoves(p)
    PROVE  Grant!Next
<1>1. ASSUME NEW s \in SessionIds PROVE Grant!CredentialStep(s)
  <2>1. Survives(s)
    BY QuietSurvives
  <2>2. HolderOf(s)' = HolderOf(s) \/ HolderOf(s)' = None
    BY <2>1 DEF Survives, HolderOf
  <2>. QED  BY <2>2, MappedCredential
<1>. QED  BY <1>1, QuietStep DEF Grant!Next

\* The consumption: one pairing is redeemed for one session of its user.
LEMMA ConsumeRefines ==
    ASSUME Inv, OneSessionPerPairing', NEW p \in PairingIds, NEW s \in SessionIds, ConsumeStep(p, s)
    PROVE  Grant!Next
<1>0. p # None
  BY NoneAssumption
<1>1. /\ PhaseMap(p) = "accepted" /\ PhaseMap(p)' = "redeemed"
      /\ OwnerMap(p) = pairings[p].user /\ OwnerMap(p)' = OwnerMap(p)
  BY PhaseIs DEF ConsumeStep, PhaseMap, OwnerMap
<1>2. SessionOf(p)' = s
  BY SessionOfIsAfter DEF ConsumeStep, Terminal
<1>3. HolderOf(s) = None /\ HolderOf(s)' = OwnerMap(p)
  BY <1>0, <1>1 DEF ConsumeStep, HolderOf
<1>4. Grant!Redeem(p)
  BY <1>1, <1>2, <1>3, MappedRedeem
<1>5. ASSUME NEW q \in PairingIds \ {p} PROVE Grant!Keep(q)
  <2>1. PhaseMap(q)' = PhaseMap(q) /\ OwnerMap(q)' = OwnerMap(q)
    BY DEF ConsumeStep, PhaseMap, OwnerMap
  <2>2. \A r \in SessionIds : Terminal(r, q)' <=> Terminal(r, q)
    BY DEF ConsumeStep, Terminal
  <2>3. SessionOf(q)' = SessionOf(q)
    <3>1. CASE \E r \in SessionIds : Terminal(r, q)
      BY <2>2, <3>1, SessionOfIs, SessionOfIsAfter DEF Inv
    <3>2. CASE ~\E r \in SessionIds : Terminal(r, q)
      BY <2>2, <3>2, SessionOfNobody, SessionOfNobodyAfter
    <3>. QED  BY <3>1, <3>2
  <2>. QED  BY <2>1, <2>3, MappedPhase
<1>6. ASSUME NEW r \in SessionIds PROVE Grant!CredentialStep(r)
  <2>1. CASE r = s
    BY <1>1, <1>2, <1>3, <2>1, MappedCredential
  <2>2. CASE r # s
    <3>1. HolderOf(r)' = HolderOf(r)
      BY <2>2 DEF ConsumeStep, HolderOf
    <3>. QED  BY <3>1, MappedCredential
  <2>. QED  BY <2>1, <2>2
<1>. QED  BY <1>4, <1>5, <1>6 DEF Grant!Next

\* Every sequence of store transactions is a behaviour of the one-shot grants of
\* OneShotGrant (ImplementsOneShotGrant): a pairing is offered, accepted by one user and
\* redeemed at most once, for one session of that user, which nobody else ever holds.
THEOREM StoreImplementsOneShotGrant == Spec => ImplementsOneShotGrant
<1>1. Init => Grant!Init
  BY DEF Init, Grant!Init, PhaseOf, SessionOf, HolderOf
<1>2. Inv /\ Inv' /\ RowsValid /\ [Next]_storeVars => [Grant!Next]_(Grant!grantVars)
  <2> SUFFICES ASSUME Inv, Inv', RowsValid, [Next]_storeVars
               PROVE  [Grant!Next]_(Grant!grantVars)
    OBVIOUS
  <2>1. CASE UNCHANGED storeVars
    BY <2>1 DEF storeVars, Grant!grantVars, PhaseOf, SessionOf, HolderOf
  <2>2. CASE Next
    <3>1. SessionsKept
      BY <2>2, StepKeeps DEF RowsValid, SessionsValid, PairingsValid
    <3>2. TypeOK' /\ OneSessionPerPairing'
      BY DEF Inv
    <3>. QED
      BY <2>2, <3>1, <3>2, AccountQuiet, SessionQuiet, PairingQuiet, QuietRefines, ConsumeRefines
      DEF Next
  <2>. QED  BY <2>1, <2>2
<1>. QED
  BY <1>1, <1>2, InvCorrect, RowsAreValid, PTL DEF Spec, ImplementsOneShotGrant, Grant!Spec
==============================================================================
