------------------------------ MODULE WebRoutes ------------------------------
(***************************************************************************)
(* The HTTPS routes of a browser's web session: the end of a Google login, *)
(* the session status, the administrator's page and its two mutations, and *)
(* logout (scripts/thebitlab_session_http.py, thebitlab_google_oidc_http,  *)
(* thebitlab_http_auth.py and their dispatch in course_board_server.py).   *)
(*                                                                         *)
(* A request carries the cookie its browser had when it was sent; the      *)
(* browser applies the answers in the order they arrive.  A CSRF token is  *)
(* modelled by the bearer it is derived from.                              *)
(***************************************************************************)
EXTENDS Faults

CONSTANTS
    WebUsers, Administrators,   \* accounts, and those that are administrators at first
    WebBrowsers, WebRequests,
    WebSessions,                \* identifiers of the sessions that may be issued
    MaxRev,                     \* bound on the revisions of an account
    WebFaults                   \* bound on the failing calls

\* A browser without a cookie has no session.
ASSUME NoCookieIsNoSession == None \notin WebSessions

VARIABLES
    account,        \* users: role, active, revision
    session,        \* user_sessions: its user (None: not issued yet) and whether it is live
    jar,            \* the session cookie of each browser
    token,          \* the CSRF token its page has fetched
    seen,           \* the revisions of the accounts on its administrator page
    request,
    \* History variables, read by no action:
    delivered,      \* sessions whose cookie reached a browser, or whose revocation failed
    stale           \* administrative mutations that were committed unlike they were asked for

webState == << account, session, jar, token, seen, request, delivered, stale >>
webVars == << webState, faults >>

NoRequest == [pc |-> "idle", browser |-> None, route |-> None, cookie |-> None,
              csrf |-> None, user |-> None, rev |-> 0, target |-> None, expected |-> 0,
              new |-> None]
NothingSeen == [u \in WebUsers |-> 0]

WebInit ==
    /\ account = [u \in WebUsers |->
                    [role |-> IF u \in Administrators THEN "admin" ELSE "pending",
                     active |-> TRUE, rev |-> 1]]
    /\ session = [s \in WebSessions |-> [user |-> None, live |-> FALSE]]
    /\ jar = [b \in WebBrowsers |-> None]
    /\ token = [b \in WebBrowsers |-> None]
    /\ seen = [b \in WebBrowsers |-> NothingSeen]
    /\ request = [r \in WebRequests |-> NoRequest]
    /\ delivered = {} /\ stale = {}
    /\ faults = 0

Unsafe == {"approve", "create_class", "logout"}     \* the POST routes

-----------------------------------------------------------------------------
(* The browser.                                                            *)

\* A page is opened, or its script posts with the token it fetched for this post;
\* an approval names the account and the revision the page shows, a login ends
\* with the account that issue has.
send(r, b) ==
    /\ request[r].pc = "idle"
    /\ \E route \in {"session", "admin", "approve", "create_class", "logout", "callback"},
          u \in WebUsers :
        /\ route \in Unsafe => token[b] # None
        /\ route = "approve" => seen[b][u] # 0 /\ account[u].rev < MaxRev
        /\ route # "approve" => u = CHOOSE x \in WebUsers : TRUE
        /\ request' = [request EXCEPT ![r] =
              [NoRequest EXCEPT !.pc = IF route = "callback" THEN "rotate" ELSE "authenticate",
                                !.browser = b, !.route = route, !.cookie = jar[b],
                                !.csrf = IF route \in Unsafe THEN token[b] ELSE None,
                                !.target = u,
                                !.expected = IF route = "approve" THEN seen[b][u] ELSE 0]]
        /\ token' = IF route \in Unsafe THEN [token EXCEPT ![b] = None] ELSE token
    /\ NoFault
    /\ UNCHANGED <<account, session, jar, seen, delivered, stale>>

-----------------------------------------------------------------------------
(* The server.                                                             *)

Step(r, pc) == request' = [request EXCEPT ![r].pc = pc]
Answered(r) == request' = [request EXCEPT ![r] = NoRequest]

\* Not HTTPS, a query, a body or a header that is not allowed, a malformed token:
\* the request is answered before anything is read.
reject(r) ==
    /\ request[r].pc \in {"authenticate", "rotate"}
    /\ Answered(r) /\ NoFault
    /\ UNCHANGED <<account, session, jar, token, seen, delivered, stale>>

\* SessionService.authenticate: the session is live and its account active.
Valid(s) == s # None /\ session[s].live /\ account[session[s].user].active

\* _validate_csrf: the token is the one of the bearer in the cookie.
CsrfAccepted(r) == request[r].csrf = request[r].cookie

\* HttpSessionAuthBoundary.authenticate and the role check of the mutations.  A
\* logout with a dead session clears the cookie and does nothing else.
authenticate(r) ==
    LET q == request[r]
        u == session[q.cookie].user IN
    /\ q.pc = "authenticate"
    /\ \/ /\ Valid(q.cookie)
          /\ q.route \in Unsafe => CsrfAccepted(r)
          /\ q.route \in {"approve", "create_class"} => account[u].role = "admin"
          /\ request' = [request EXCEPT ![r].pc = q.route, ![r].user = u,
                                        ![r].rev = account[u].rev]
       \/ /\ ~Valid(q.cookie) /\ q.cookie # None /\ q.route = "logout"
          /\ Step(r, "cleared")
       \/ /\ ~Valid(q.cookie) /\ (q.route # "logout" \/ q.cookie = None)
          /\ Answered(r)
       \/ /\ Valid(q.cookie) /\ q.route \in Unsafe
          /\ ~CsrfAccepted(r) \/ (q.route # "logout" /\ account[u].role # "admin")
          /\ Answered(r)
    /\ NoFault
    /\ UNCHANGED <<account, session, jar, token, seen, delivered, stale>>

\* _require_current_admin, in the transaction of every administrative operation.
CurrentAdmin(r) ==
    LET a == account[request[r].user] IN
    a.role = "admin" /\ a.active /\ a.rev = request[r].rev

\* _session_response: the page's script has the token of its cookie.
show_session(r) ==
    /\ request[r].pc = "session"
    /\ token' = [token EXCEPT ![request[r].browser] = request[r].cookie]
    /\ Answered(r) /\ NoFault
    /\ UNCHANGED <<account, session, jar, seen, delivered, stale>>

\* _admin_response: the pending accounts, read by a current administrator.
show_admin(r) ==
    /\ request[r].pc = "admin"
    /\ \/ /\ CurrentAdmin(r)
          /\ seen' = [seen EXCEPT ![request[r].browser] =
                        [u \in WebUsers |-> IF account[u].role = "pending"
                                            THEN account[u].rev ELSE 0]]
       \/ ~CurrentAdmin(r) /\ UNCHANGED seen
    /\ Answered(r) /\ NoFault
    /\ UNCHANGED <<account, session, jar, token, delivered, stale>>

\* The account gets a new revision; its live sessions end with the old one.
Revised(u, role, active) ==
    /\ account' = [account EXCEPT ![u] = [role |-> role, active |-> active, rev |-> @.rev + 1]]
    /\ session' = [s \in WebSessions |->
                     IF session[s].user = u THEN [session[s] EXCEPT !.live = FALSE]
                     ELSE session[s]]

Mutation(r) ==
    LET q == request[r] IN
    [bound |-> q.csrf = q.cookie,
     admin |-> account[q.user].role = "admin" /\ account[q.user].active
                 /\ account[q.user].rev = q.rev,
     fresh |-> q.route = "approve" =>
                 account[q.target].rev = q.expected /\ account[q.target].role = "pending"]
Sound(m) == m.bound /\ m.admin /\ m.fresh

\* approve_pending_user_as_admin: the target is pending and as the page showed it.
Current(r) ==
    LET t == account[request[r].target] IN
    /\ t.role = "pending" /\ t.active /\ t.rev = request[r].expected
    /\ request[r].target # request[r].user

\* _approve_admin_user and _create_admin_class, one transaction each.
mutate(r) ==
    LET q == request[r] IN
    /\ q.pc \in {"approve", "create_class"}
    /\ \/ /\ CurrentAdmin(r) /\ (q.pc = "approve" => Current(r))
          /\ IF q.pc = "approve"
             THEN \E role \in {"teacher", "student"} : Revised(q.target, role, account[q.target].active)
             ELSE UNCHANGED <<account, session>>
          /\ stale' = stale \cup {m \in {Mutation(r)} : ~Sound(m)}
       \/ /\ ~CurrentAdmin(r) \/ (q.pc = "approve" /\ ~Current(r))     \* 409
          /\ UNCHANGED <<account, session, stale>>
    /\ Answered(r) /\ NoFault
    /\ UNCHANGED <<jar, token, seen, delivered>>

\* SessionService.revoke: at once, or an error.
Revoke(s) ==
    \/ /\ session' = [session EXCEPT ![s].live = FALSE]
       /\ NoFault /\ UNCHANGED delivered
    \/ /\ Fault(WebFaults)
       /\ delivered' = delivered \cup {s}
       /\ UNCHANGED session

logout(r) ==
    LET q == request[r] IN
    /\ q.pc = "logout"
    /\ Revoke(q.cookie)
    /\ IF faults' = faults THEN Step(r, "cleared") ELSE Answered(r)
    /\ UNCHANGED <<account, jar, token, seen, stale>>

\* The clearing cookie reaches the browser, or the connection is broken.
cleared(r) ==
    /\ request[r].pc = "cleared"
    /\ jar' \in {[jar EXCEPT ![request[r].browser] = None], jar}
    /\ Answered(r) /\ NoFault
    /\ UNCHANGED <<account, session, token, seen, delivered, stale>>

-----------------------------------------------------------------------------
(* The end of a Google login: establish_session for the resolved account.  *)

\* The browser's earlier session is revoked first; when that fails there is no
\* new one.
rotate(r) ==
    LET q == request[r] IN
    /\ q.pc = "rotate"
    /\ \/ q.cookie = None /\ NoFault /\ UNCHANGED <<session, delivered>>
       \/ q.cookie # None /\ Revoke(q.cookie)
    /\ IF faults' = faults THEN Step(r, "issue") ELSE Answered(r)
    /\ UNCHANGED <<account, jar, token, seen, stale>>

\* A session that was never issued: which one makes no difference.
NewSession ==
    LET unissued == {s \in WebSessions : session[s].user = None} IN
    IF unissued = {} THEN {} ELSE {CHOOSE s \in unissued : TRUE}

\* The login was that of account u.
issue(r, u) ==
    /\ request[r].pc = "issue"
    /\ \/ /\ account[u].active
          /\ \E s \in NewSession :
              /\ session' = [session EXCEPT ![s] = [user |-> u, live |-> TRUE]]
              /\ request' = [request EXCEPT ![r].pc = "confirm", ![r].new = s]
       \/ /\ ~account[u].active \/ \A s \in WebSessions : session[s].user # None
          /\ Answered(r)
          /\ UNCHANGED session
    /\ NoFault
    /\ UNCHANGED <<account, jar, token, seen, delivered, stale>>

\* Mutant of discard: the session is left to expire.
MutDiscard(r) ==
    /\ Answered(r) /\ NoFault
    /\ UNCHANGED <<session, delivered>>

\* _best_effort_revoke and discard_established_session.
discard(r) == Revoke(request[r].new) /\ Answered(r)

\* _established_result: the bearer is authenticated once before it is handed out.
confirm(r) ==
    /\ request[r].pc = "confirm"
    /\ \/ /\ Valid(request[r].new)
          /\ Step(r, "write") /\ NoFault /\ UNCHANGED <<session, delivered>>
       \/ ~Valid(request[r].new) /\ discard(r)
    /\ UNCHANGED <<account, jar, token, seen, stale>>

\* write_google_oidc_response: the delivery guard discards the session when the
\* response cannot be built or written.
write_response(r) ==
    LET q == request[r] IN
    /\ q.pc = "write"
    /\ \/ /\ jar' = [jar EXCEPT ![q.browser] = q.new]
          /\ delivered' = delivered \cup {q.new}
          /\ Answered(r) /\ NoFault
          /\ UNCHANGED session
       \/ /\ discard(r)
          /\ UNCHANGED jar
    /\ UNCHANGED <<account, token, seen, stale>>

\* Another administrator changes or disables an account.
change_account(u) ==
    /\ account[u].rev < MaxRev
    /\ Revised(u, account[u].role, FALSE) \/ Revised(u, "student", TRUE)
    /\ NoFault
    /\ UNCHANGED <<jar, token, seen, request, delivered, stale>>

WebNext ==
    \/ \E r \in WebRequests :
        \/ \E b \in WebBrowsers : send(r, b)
        \/ reject(r) \/ authenticate(r) \/ show_session(r) \/ show_admin(r) \/ mutate(r) \/ logout(r) \/ cleared(r)
        \/ rotate(r) \/ (\E u \in WebUsers : issue(r, u)) \/ confirm(r) \/ write_response(r)
    \/ \E u \in WebUsers : change_account(u)

WebSpec == WebInit /\ [][WebNext]_webVars

-----------------------------------------------------------------------------

\* A login whose answer never reached its browser leaves no usable session behind:
\* a live session was delivered, or is on its way, or the attempt to revoke it
\* failed (establish_session, GoogleOidcDeliveryGuard).
UndeliveredLoginIsDead ==
    \A s \in WebSessions :
        session[s].live =>
            \/ s \in delivered
            \/ \E r \in WebRequests : request[r].new = s

\* A committed approval or class was asked for with the token of the very session
\* that is in the cookie, by an account that still is the administrator it was
\* when authenticated, and about the account as the page showed it, although the
\* browser's cookie, the administrator and the target may all change between the
\* page, the token and the post (dispatch, _require_current_admin).
MutationsAreCurrent == stale = {}

\* Both together: a session is one its browser has, and what is done with it is
\* done by the account, and about the account, that the browser was shown.
SessionsAreBound == UndeliveredLoginIsDead /\ MutationsAreCurrent

=============================================================================
