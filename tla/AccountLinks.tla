----------------------------- MODULE AccountLinks -----------------------------
(***************************************************************************)
(* The accounts at an identity provider that belong to accounts of         *)
(* TheBitLab: the sign-in with Google, which finds or provisions an        *)
(* account, and the link and unlink of a GitHub account by its signed-in   *)
(* user.  Each begins with a one-time flow kept in memory and bound to the *)
(* browser, asks the provider, and then works on the database, one         *)
(* transaction per read or write (thebitlab_google_oidc.py,                *)
(* thebitlab_github_oauth.py, thebitlab_auth_services.py,                  *)
(* thebitlab_identity_sqlite.py).                                          *)
(***************************************************************************)
EXTENDS Naturals, FiniteSets, FiniteSetsExt, Faults

CONSTANTS
    Owners,         \* accounts, those not provisioned yet included
    Browsers,       \* browsers
    SignedInAs,     \* the account each browser is signed in as at first, or None
    Google,         \* Google subjects
    GitHub,         \* GitHub subjects
    States,         \* state parameters of the flows (secrets.token_urlsafe)
    Requests,       \* threads that serve callbacks and unlinks
    MaxPending,     \* flows kept at a time (max_pending_flows)
    FlowTtl,        \* lifetime of a flow
    MaxLinkClock,   \* bound on the clock
    MaxLogins,      \* bound on the sessions issued
    MaxRevision,    \* bound on the changes of an account
    MaxLinkGeneration   \* bound on the generations of a link

\* Rows of external_identities, session ids, and the flows kept in memory.
LinkRows == [user : Owners, gen : Nat]
LoginIds == Browsers \X Nat
LoginFlows == [kind : {"login"}, browser : Browsers, expires : Nat]
LinkFlows == [kind : {"link"}, browser : Browsers, expires : Nat, user : Owners, rev : Nat,
              session : LoginIds]

ASSUME LinkAssumption ==
    /\ SignedInAs \in [Browsers -> Owners \cup {None}]
    /\ Google \cap GitHub = {} /\ None \notin Google
    /\ None \notin LinkRows /\ None \notin LoginFlows /\ None \notin LinkFlows
    /\ FlowTtl \in Nat

VARIABLES
    person,         \* users: revision and activity of each account, or None
    link,           \* external_identities: owner and generation of each subject
    gens,           \* external_identity_generations of each subject
    logins,         \* the live web sessions
    cookie,         \* the session each browser holds: its id and user, or None
    issued,         \* sessions issued so far
    pending,        \* the states whose flow is in memory
    flowOf,         \* the flow each state was handed out for, or None
    call,           \* the call each thread runs
    linkClock,      \* the server's clock
    \* History variables, read by no action:
    born,           \* links made so far of each subject
    touched,        \* a link was refreshed or removed that was not the one read
    redeemed,       \* callbacks let through, per state
    landed,         \* flows that linked or refreshed a GitHub account
    made            \* subject each account was provisioned for

store == <<person, link, gens, logins, cookie, issued>>
history == <<born, touched, redeemed, landed, made>>
linkState == << store, pending, flowOf, call, linkClock, history >>
linkVars == << linkState, faults >>

ExternalSubjects == Google \cup GitHub
NoLink == [pc |-> "idle", subject |-> None, browser |-> None, state |-> None, user |-> None,
         rev |-> None, session |-> None, row |-> None, seen |-> None, now |-> None]

LinkInit ==
    /\ person = [u \in Owners |-> IF \E b \in Browsers : SignedInAs[b] = u
                                  THEN [rev |-> 0, active |-> TRUE] ELSE None]
    /\ link = [s \in ExternalSubjects |-> None]
    /\ gens = [s \in ExternalSubjects |-> {}]
    /\ cookie = [b \in Browsers |-> IF SignedInAs[b] = None THEN None
                                    ELSE [id |-> <<b, 0>>, user |-> SignedInAs[b]]]
    /\ logins = {<<b, 0>> : b \in {c \in Browsers : SignedInAs[c] # None}}
    /\ issued = 0
    /\ pending = {} /\ flowOf = [st \in States |-> None]
    /\ call = [r \in Requests |-> NoLink]
    /\ linkClock = 0
    /\ born = [s \in ExternalSubjects |-> 0] /\ touched = FALSE
    /\ redeemed = [st \in States |-> 0] /\ landed = {}
    /\ made = [u \in Owners |-> None]
    /\ faults = 0

Active(u) == person[u] # None /\ person[u].active

\* authenticate: the browser's session is live and its account active.
SignedIn(b) == cookie[b] # None /\ cookie[b].id \in logins /\ Active(cookie[b].user)

-----------------------------------------------------------------------------
(* The flows: begin_login and begin_link, create, consume.                 *)

\* create: the expired flows are dropped, and a new one refused at capacity.
Unexpired == {st \in pending : flowOf[st].expires > linkClock}

Begin(st, flow) ==
    /\ flowOf[st] = None
    /\ flowOf' = [flowOf EXCEPT ![st] = flow]
    /\ pending' = IF Cardinality(Unexpired) < MaxPending THEN Unexpired \cup {st} ELSE Unexpired
    /\ NoFault
    /\ UNCHANGED <<store, call, linkClock, history>>

begin_login(st, b) ==
    Begin(st, [kind |-> "login", browser |-> b, expires |-> linkClock + FlowTtl])

begin_link(st, b) ==
    /\ SignedIn(b)
    /\ Begin(st, [kind |-> "link", browser |-> b, expires |-> linkClock + FlowTtl,
                  user |-> cookie[b].user, rev |-> person[cookie[b].user].rev,
                  session |-> cookie[b].id])

\* The account and the session that began a link are as they were.
Consent(flow) ==
    /\ flow.session \in logins
    /\ person[flow.user] = [rev |-> flow.rev, active |-> TRUE]

\* consume, compared and removed under one lock: the flow of this browser, a
\* link's for the account and session that began it.
Consumable(st, b) ==
    /\ st \in pending /\ flowOf[st].browser = b
    /\ flowOf[st].kind = "link" =>
         /\ Consent(flowOf[st])
         /\ cookie[b] = [id |-> flowOf[st].session, user |-> flowOf[st].user]

\* (How long a flow would have lived plays no part once it is taken.)
Taken(st) ==
    /\ pending' = pending \ {st}
    /\ flowOf' = [flowOf EXCEPT ![st].expires = 0]

\* An expired flow is taken and refused; so is one the user cancelled at the
\* provider.  Otherwise the code is sent to the provider.
Received(r, st, b) ==
    /\ call[r] = NoLink /\ Consumable(st, b)
    /\ Taken(st)
    /\ \/ UNCHANGED <<call, redeemed>>
       \/ /\ linkClock < flowOf[st].expires
          /\ redeemed' = [redeemed EXCEPT ![st] = @ + 1]
          /\ call' = [call EXCEPT ![r] = [NoLink EXCEPT !.state = st, !.browser = b,
                          !.pc = IF flowOf[st].kind = "login" THEN "claims" ELSE "profile"]]
    /\ NoFault
    /\ UNCHANGED <<store, linkClock, born, touched, landed, made>>

complete_callback(r, st, b) == Received(r, st, b) /\ flowOf[st].kind = "login"
complete_link(r, st, b) == Received(r, st, b) /\ flowOf[st].kind = "link"

Goto(r, pc) == call' = [call EXCEPT ![r].pc = pc]
LinkEnds(r) == call' = [call EXCEPT ![r] = NoLink]

\* _exchange: the provider gives a token for the code, rejects it or is unavailable;
\* what the token leads to is asked for next, and can be refused as well.
exchange(r, Accepted) == LinkEnds(r) \/ Accepted

\* verify and _assertion_from_claims: a token for another client or another flow,
\* out of date or without a verified address is refused; the rest name a subject.
assertion_from_claims(r) ==
    /\ call[r].pc = "claims"
    /\ exchange(r, \E s \in Google :
            call' = [call EXCEPT ![r].pc = "resolve", ![r].subject = s, ![r].now = linkClock])
    /\ NoFault
    /\ UNCHANGED <<store, pending, flowOf, linkClock, history>>

\* read_user of GitHub: the profile, if it is acceptable, names the subject.
read_profile(r) ==
    LET flow == flowOf[call[r].state] IN
    /\ call[r].pc = "profile"
    /\ exchange(r, \E s \in GitHub :
            call' = [call EXCEPT ![r].pc = "account", ![r].subject = s, ![r].user = flow.user,
                                 ![r].rev = flow.rev, ![r].session = flow.session])
    /\ NoFault
    /\ UNCHANGED <<store, pending, flowOf, linkClock, history>>

-----------------------------------------------------------------------------
(* FederatedIdentityService.resolve, and the session of the browser.       *)

\* _resolve_normalized: a known subject is resolved, an unknown one provisioned.
resolve_read(r) ==
    LET row == link[call[r].subject] IN
    /\ call[r].pc = "resolve"
    /\ IF row = None THEN Goto(r, "provision")
       ELSE call' = [call EXCEPT ![r].pc = "owner", ![r].row = row,
                                 ![r].seen = born[call[r].subject]]
    /\ NoFault
    /\ UNCHANGED <<store, pending, flowOf, linkClock, history>>

\* A transaction that links subject s to user u in generation g, which
\* _reserve_external_identity_generation records for good.
Reserved(s, g) == gens' = [gens EXCEPT ![s] = @ \cup {g}]
Linked(s, u, g) ==
    /\ link' = [link EXCEPT ![s] = [user |-> u, gen |-> g]]
    /\ Reserved(s, g)
    /\ born' = [born EXCEPT ![s] = @ + 1]

\* A user_id nobody has (uuid4).
NewOwner == CHOOSE u \in Owners : person[u] = None
Provisioned(u) == person' = [person EXCEPT ![u] = [rev |-> 0, active |-> TRUE]]

\* What a provisioning that lost leaves: nothing.
Lost(u, s) == UNCHANGED <<person, made>>

\* provision_user_with_identity: the account and its identity, or neither.  A
\* sign-in that lost resolves the winner's account.  (A Google identity is never
\* unlinked, so that a used generation is always the winner's.)
provision_user_with_identity(r) ==
    LET s == call[r].subject
        g == call[r].now
        u == NewOwner IN
    /\ call[r].pc = "provision"
    /\ IF link[s] = None /\ g \notin gens[s]
       THEN /\ \E v \in Owners : person[v] = None
            /\ Provisioned(u)
            /\ Linked(s, u, g)
            /\ made' = [made EXCEPT ![u] = s]
            /\ call' = [call EXCEPT ![r].pc = "session", ![r].user = u]
       ELSE /\ Goto(r, "resolve")
            /\ Lost(u, s)
            /\ UNCHANGED <<link, gens, born>>
    /\ NoFault
    /\ UNCHANGED <<logins, cookie, issued, pending, flowOf, linkClock, touched, redeemed, landed>>

\* _resolve_existing reads the account of the row.
resolve_owner(r) ==
    LET u == call[r].row.user IN
    /\ call[r].pc = "owner"
    /\ IF Active(u)
       THEN call' = [call EXCEPT ![r].pc = "refresh", ![r].user = u, ![r].rev = person[u].rev]
       ELSE LinkEnds(r)
    /\ NoFault
    /\ UNCHANGED <<store, pending, flowOf, linkClock, history>>

\* Mutant of SameSession: the session is checked when the flow is taken only.
MutSameSession(r) == TRUE

\* What every transaction on a link compares: the row and the account that were
\* read, and for a link or unlink the session.
SameRow(r) == link[call[r].subject] = call[r].row
SameAccount(r) == person[call[r].user] = [rev |-> call[r].rev, active |-> TRUE]
SameSession(r) == call[r].session \in logins
Touch(r) == touched' = (touched \/ call[r].seen # born[call[r].subject])

\* refresh_external_identity: e-mail and user name only.
refresh_external_identity(r) ==
    /\ call[r].pc = "refresh"
    /\ IF SameRow(r) /\ SameAccount(r)
       THEN Touch(r) /\ Goto(r, "session")
       ELSE UNCHANGED touched /\ LinkEnds(r)
    /\ NoFault
    /\ UNCHANGED <<store, pending, flowOf, linkClock, born, redeemed, landed, made>>

\* establish_session: the browser's session is revoked and a new one issued, if
\* the account is still active.
establish_session(r) ==
    LET b == call[r].browser
        rest == IF cookie[b] = None THEN logins ELSE logins \ {cookie[b].id} IN
    /\ call[r].pc = "session" /\ issued < MaxLogins
    /\ issued' = issued + 1
    /\ IF Active(call[r].user)
       THEN /\ logins' = rest \cup {<<b, issued + 1>>}
            /\ cookie' = [cookie EXCEPT ![b] = [id |-> <<b, issued + 1>>, user |-> call[r].user]]
       ELSE logins' = rest /\ UNCHANGED cookie
    /\ LinkEnds(r)
    /\ NoFault
    /\ UNCHANGED <<person, link, gens, pending, flowOf, linkClock, history>>

-----------------------------------------------------------------------------
(* ExternalIdentityLinkService.                                            *)

\* link: the account is read and must be in the revision that began the flow.
link_account(r) ==
    /\ call[r].pc = "account"
    /\ IF SameAccount(r)
       THEN call' = [call EXCEPT ![r].pc = "links", ![r].now = linkClock]
       ELSE LinkEnds(r)
    /\ NoFault
    /\ UNCHANGED <<store, pending, flowOf, linkClock, history>>

LinksOf(u) == {s \in GitHub : link[s] # None /\ link[s].user = u}

\* The account's own links: another GitHub account refuses the link.
link_list(r) ==
    /\ call[r].pc = "links"
    /\ IF LinksOf(call[r].user) \subseteq {call[r].subject} THEN Goto(r, "winner") ELSE LinkEnds(r)
    /\ NoFault
    /\ UNCHANGED <<store, pending, flowOf, linkClock, history>>

\* The owner of the subject: this account refreshes, another one refuses.
link_winner(r) ==
    LET row == link[call[r].subject] IN
    /\ call[r].pc = "winner"
    /\ \/ row = None /\ Goto(r, "latest")
       \/ /\ row # None /\ row.user = call[r].user
          /\ call' = [call EXCEPT ![r].pc = "renew", ![r].row = row,
                                  ![r].seen = born[call[r].subject]]
       \/ row # None /\ row.user # call[r].user /\ LinkEnds(r)
    /\ NoFault
    /\ UNCHANGED <<store, pending, flowOf, linkClock, history>>

\* read_latest_external_identity_generation: the new generation is later.
link_latest(r) ==
    LET past == gens[call[r].subject] IN
    /\ call[r].pc = "latest"
    /\ call' = [call EXCEPT ![r].pc = "insert",
                            ![r].now = IF past # {} /\ Max(past) >= @ THEN Max(past) + 1 ELSE @]
    /\ NoFault
    /\ UNCHANGED <<store, pending, flowOf, linkClock, history>>

\* link_external_identity_for_active_session.  A used generation makes the call
\* read the subject again; a changed account or session, a subject
\* linked elsewhere or a second GitHub account ends it.
link_insert(r) ==
    LET s == call[r].subject
        g == call[r].now IN
    /\ call[r].pc = "insert"
    /\ \/ /\ g \notin gens[s] /\ link[s] = None /\ g <= MaxLinkGeneration
          /\ SameAccount(r) /\ SameSession(r) /\ LinksOf(call[r].user) = {}
          /\ Linked(s, call[r].user, g)
          /\ landed' = landed \cup {call[r].state}
          /\ LinkEnds(r)
       \/ /\ g \in gens[s] /\ Goto(r, "retry")
          /\ UNCHANGED <<link, gens, born, landed>>
       \/ /\ g \notin gens[s]
          /\ ~(SameAccount(r) /\ SameSession(r) /\ LinksOf(call[r].user) = {} /\ link[s] = None)
          /\ LinkEnds(r)
          /\ UNCHANGED <<link, gens, born, landed>>
    /\ NoFault
    /\ UNCHANGED <<person, logins, cookie, issued, pending, flowOf, linkClock, touched,
                   redeemed, made>>

\* After a used generation: a later one, the whole of link again when the
\* account itself got the subject in the meantime, or a refusal.
link_retry(r) ==
    LET row == link[call[r].subject] IN
    /\ call[r].pc = "retry"
    /\ \/ row = None /\ Goto(r, "latest")
       \/ row # None /\ row.user = call[r].user /\ Goto(r, "account")
       \/ row # None /\ row.user # call[r].user /\ LinkEnds(r)
    /\ NoFault
    /\ UNCHANGED <<store, pending, flowOf, linkClock, history>>

\* refresh_external_identity_for_active_session.
link_renew(r) ==
    /\ call[r].pc = "renew"
    /\ IF SameRow(r) /\ SameAccount(r) /\ SameSession(r)
       THEN Touch(r) /\ landed' = landed \cup {call[r].state}
       ELSE UNCHANGED <<touched, landed>>
    /\ LinkEnds(r)
    /\ NoFault
    /\ UNCHANGED <<store, pending, flowOf, linkClock, born, redeemed, made>>

\* unlink: the account, then its GitHub link, then the transaction.
unlink(r, b) ==
    /\ call[r] = NoLink /\ SignedIn(b)
    /\ call' = [call EXCEPT ![r] = [NoLink EXCEPT !.pc = "unlinks", !.user = cookie[b].user,
                    !.rev = person[cookie[b].user].rev, !.session = cookie[b].id]]
    /\ NoFault
    /\ UNCHANGED <<store, pending, flowOf, linkClock, history>>

unlink_list(r) ==
    LET mine == LinksOf(call[r].user) IN
    /\ call[r].pc = "unlinks"
    /\ IF mine = {} THEN LinkEnds(r)
       ELSE LET s == CHOOSE x \in mine : TRUE IN
            call' = [call EXCEPT ![r].pc = "delete", ![r].subject = s, ![r].row = link[s],
                                 ![r].seen = born[s]]
    /\ NoFault
    /\ UNCHANGED <<store, pending, flowOf, linkClock, history>>

\* unlink_external_identity_for_active_session.
unlink_delete(r) ==
    /\ call[r].pc = "delete"
    /\ IF SameRow(r) /\ SameAccount(r) /\ SameSession(r)
       THEN Touch(r) /\ link' = [link EXCEPT ![call[r].subject] = None]
       ELSE UNCHANGED <<touched, link>>
    /\ LinkEnds(r)
    /\ NoFault
    /\ UNCHANGED <<person, gens, logins, cookie, issued, pending, flowOf, linkClock, born,
                   redeemed, landed, made>>

-----------------------------------------------------------------------------

\* save_user, in AuthServices: a new revision; an account that is disabled loses
\* its sessions.
save_person(u) ==
    /\ Active(u) /\ person[u].rev < MaxRevision
    /\ \E on \in BOOLEAN :
         /\ person' = [person EXCEPT ![u] = [rev |-> @.rev + 1, active |-> on]]
         /\ logins' = IF on THEN logins
                      ELSE logins \ {cookie[b].id : b \in {c \in Browsers :
                                        cookie[c] # None /\ cookie[c].user = u}}
    /\ NoFault
    /\ UNCHANGED <<link, gens, cookie, issued, pending, flowOf, call, linkClock, history>>

logout_browser(b) ==
    /\ SignedIn(b)
    /\ logins' = logins \ {cookie[b].id}
    /\ cookie' = [cookie EXCEPT ![b] = None]
    /\ NoFault
    /\ UNCHANGED <<person, link, gens, issued, pending, flowOf, call, linkClock, history>>

LinkTick ==
    /\ linkClock < MaxLinkClock
    /\ linkClock' = linkClock + 1
    /\ NoFault
    /\ UNCHANGED <<store, pending, flowOf, call, history>>

LinkNext ==
    \/ \E st \in States, b \in Browsers : begin_login(st, b) \/ begin_link(st, b)
    \/ \E r \in Requests, st \in States, b \in Browsers :
         complete_callback(r, st, b) \/ complete_link(r, st, b)
    \/ \E r \in Requests :
         \/ assertion_from_claims(r) \/ read_profile(r)
         \/ resolve_read(r) \/ provision_user_with_identity(r) \/ resolve_owner(r)
         \/ refresh_external_identity(r) \/ establish_session(r)
         \/ link_account(r) \/ link_list(r) \/ link_winner(r) \/ link_latest(r)
         \/ link_insert(r) \/ link_retry(r) \/ link_renew(r)
         \/ unlink_list(r) \/ unlink_delete(r)
         \/ \E b \in Browsers : unlink(r, b)
    \/ \E u \in Owners : save_person(u)
    \/ \E b \in Browsers : logout_browser(b)
    \/ LinkTick

LinkSpec == LinkInit /\ [][LinkNext]_linkVars

-----------------------------------------------------------------------------

\* A refresh or an unlink touches the very link its request read, never one made
\* since: an account unlinked and linked again, at the same instant too, is in a
\* new generation (external_identity_generations).
StaleLinkIsLeftAlone == ~touched

\* A callback that is sent twice, or raced by another thread, goes through once.
FlowIsUsedOnce == \A st \in States : redeemed[st] <= 1

\* A GitHub account is linked or refreshed only while the account and the session
\* that asked for it are as they were: nothing lands after a logout, a new sign-in
\* in that browser or a change of the account, however late the provider answers.
NothingLandsAfterWithdrawal ==
    [][\A st \in landed' \ landed : Consent(flowOf[st])]_linkVars

\* Sign-ins of one Google account that race end in one account of TheBitLab, and
\* leave no other behind.
OneAccountPerSubject ==
    \A s \in Google : Cardinality({u \in Owners : made[u] = s}) <= 1

\* The four together: links, sign-ins and callbacks that race, repeat or arrive
\* late never touch a link or an account other than the one they were made for.
LinksAreSafe ==
    /\ [](StaleLinkIsLeftAlone /\ FlowIsUsedOnce /\ OneAccountPerSubject)
    /\ NothingLandsAfterWithdrawal

=============================================================================
