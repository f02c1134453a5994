----------------------------- MODULE SignInRoutes -----------------------------
(***************************************************************************)
(* The HTTPS routes that begin and end a sign-in with Google and the link  *)
(* of a GitHub account, as the browsers see them: a begin stores a one-time *)
(* flow and sets the flow's transaction cookie, the callback must bring    *)
(* that cookie back, and its answer clears it (thebitlab_google_oidc_http, *)
(* thebitlab_github_oauth_http, and the begin and the checks of            *)
(* thebitlab_google_oidc.py and thebitlab_github_oauth.py).  What happens  *)
(* to accounts and links behind the callback is in AccountLinks.           *)
(*                                                                         *)
(* A browser has several tabs: its requests carry the cookies it had when  *)
(* they were sent, and its answers arrive in any order.  A callback is a   *)
(* URL: any browser may open it, any number of times.                      *)
(***************************************************************************)
EXTENDS Naturals, FiniteSets, Faults

CONSTANTS
    FlowIds,        \* state parameters of the flows (secrets.token_urlsafe)
    Visitors,       \* browsers
    FlowCalls,      \* threads that serve these routes
    MaxFlows,       \* flows of a kind kept at a time (max_pending_flows)
    MaxSignIns,     \* bound on the web sessions issued
    FlowFaults      \* bound on the answers that are lost

Kinds == {"login", "link"}

\* The state parameters are strings of a fixed length; the limit is a positive int.
ASSUME SignInAssumption ==
    /\ IsFiniteSet(FlowIds)
    /\ MaxFlows \in Nat \ {0}
    /\ None \notin [kind : Kinds, visitor : Visitors]

VARIABLES
    kept,           \* the flow of each id in memory, or None
    crumbs,         \* the transaction cookies of each browser, by flow id
    signed,         \* the web session each browser's cookie names, 0 for none
    alive,          \* the live web sessions
    signIns,        \* web sessions issued so far
    flowCall,       \* what each thread is doing
    \* History variables, read by no action but to tell unused ids:
    began,          \* the kind of each flow and the browser that began it, or None
    handed,          \* flows whose cookie was sent, arrived or not
    taken,          \* flows that a callback consumed
    completed,          \* the browser each flow was completed for, or None
    lost            \* flows whose callback was answered in vain

signInState == << kept, crumbs, signed, alive, signIns, flowCall, began, handed, taken, completed, lost >>
signInVars == << signInState, faults >>

NoCallback == [pc |-> "idle", kind |-> None, id |-> None, visitor |-> None, cookies |-> {},
               session |-> 0, ok |-> FALSE]

SignInInit ==
    /\ kept = [i \in FlowIds |-> None]
    /\ crumbs = [b \in Visitors |-> {}]
    /\ signed = [b \in Visitors |-> 0]
    /\ alive = {} /\ signIns = 0
    /\ flowCall = [c \in FlowCalls |-> NoCallback]
    /\ began = [i \in FlowIds |-> None]
    /\ handed = {} /\ taken = {} /\ lost = {}
    /\ completed = [i \in FlowIds |-> None]
    /\ faults = 0

\* The error answer of a route, or its end: it sets no cookie.
Closed(c) == flowCall' = [flowCall EXCEPT ![c] = NoCallback]

\* The session in the request's cookie is live (_context).
InSession(c) == flowCall[c].session \in alive

-----------------------------------------------------------------------------
(* The begin of a flow.                                                    *)

open_begin(c, b, kind) ==
    /\ flowCall[c].pc = "idle"
    /\ flowCall' = [flowCall EXCEPT ![c] =
          [NoCallback EXCEPT !.pc = "begin", !.kind = kind, !.visitor = b, !.session = signed[b]]]
    /\ NoFault
    /\ UNCHANGED << kept, crumbs, signed, alive, signIns, began, handed, taken, completed, lost >>

\* dispatch: not HTTPS, a body, another method, a query that is not allowed or not
\* well formed, too many requests, or for a link no web session.
refuse_flow(c) ==
    /\ flowCall[c].pc \in {"begin", "callback"}
    /\ Closed(c) /\ NoFault
    /\ UNCHANGED << kept, crumbs, signed, alive, signIns, began, handed, taken, completed, lost >>

Stored(kind) == {i \in FlowIds : kept[i] # None /\ kept[i].kind = kind}

\* create drops the expired flows of its store.
Purged(kind) ==
    [i \in FlowIds |-> IF i \in Stored(kind) /\ kept[i].expired THEN None ELSE kept[i]]

NewFlow == CHOOSE i \in FlowIds : began[i] = None

\* begin_login and begin_link up to create: refused at capacity.
create_flow(c) ==
    LET q == flowCall[c]
        live == {i \in Stored(q.kind) : ~kept[i].expired} IN
    /\ q.pc = "begin"
    /\ q.kind = "link" => InSession(c)
    /\ \E i \in FlowIds : began[i] = None
    /\ IF Cardinality(live) < MaxFlows
       THEN /\ kept' = [Purged(q.kind) EXCEPT ![NewFlow] =
                          [kind |-> q.kind, expired |-> FALSE, session |-> q.session]]
            /\ began' = [began EXCEPT ![NewFlow] = [kind |-> q.kind, visitor |-> q.visitor]]
            /\ flowCall' = [flowCall EXCEPT ![c].pc = "build", ![c].id = NewFlow]
       ELSE /\ kept' = Purged(q.kind)
            /\ Closed(c)
            /\ UNCHANGED began
    /\ NoFault
    /\ UNCHANGED << crumbs, signed, alive, signIns, handed, taken, completed, lost >>

\* Mutant of discard_created_flow: the flow is left to expire.
MutDiscardCreatedFlow(i) == kept

\* Only the flow this call created, by its marker.
discard_created_flow(i) == [kept EXCEPT ![i] = None]

\* The redirect and the cookie are built, or the begin fails and takes its flow back.
build_authorization(c) ==
    LET q == flowCall[c] IN
    /\ q.pc = "build"
    /\ \/ /\ flowCall' = [flowCall EXCEPT ![c].pc = "redirect"]
          /\ handed' = handed \cup {q.id}
          /\ UNCHANGED kept
       \/ /\ kept' = discard_created_flow(q.id)
          /\ Closed(c)
          /\ UNCHANGED handed
    /\ NoFault
    /\ UNCHANGED << crumbs, signed, alive, signIns, began, taken, completed, lost >>

\* The 302 arrives with its cookie, or is lost.
redirect(c) ==
    LET q == flowCall[c] IN
    /\ q.pc = "redirect"
    /\ \/ /\ crumbs' = [crumbs EXCEPT ![q.visitor] = @ \cup {q.id}]
          /\ NoFault
       \/ Fault(FlowFaults) /\ UNCHANGED crumbs
    /\ Closed(c)
    /\ UNCHANGED << kept, signed, alive, signIns, began, handed, taken, completed, lost >>

-----------------------------------------------------------------------------
(* The callback.                                                           *)

open_callback(c, b, i) ==
    /\ flowCall[c].pc = "idle" /\ i \in handed
    /\ flowCall' = [flowCall EXCEPT ![c] =
          [NoCallback EXCEPT !.pc = "callback", !.kind = began[i].kind, !.id = i, !.visitor = b,
                             !.cookies = crumbs[b], !.session = signed[b]]]
    /\ NoFault
    /\ UNCHANGED << kept, crumbs, signed, alive, signIns, began, handed, taken, completed, lost >>

\* Mutant of transaction_binding: any browser may complete the flow.
MutTransactionBinding(c) == TRUE

\* The cookie of this very flow came with the request (_transaction_binding and
\* _browser_binding); consume compares it with the flow.
transaction_binding(c) == flowCall[c].id \in flowCall[c].cookies

\* A link is of the live web session that began it.
link_context(c) ==
    LET q == flowCall[c] IN
    q.kind = "link" => InSession(c) /\ kept[q.id].session = q.session

\* consume: an unknown flow, another browser or another session changes nothing, and
\* leaves the cookie; an expired flow is taken and refused.
consume_flow(c) ==
    LET q == flowCall[c] IN
    /\ q.pc = "callback"
    /\ IF transaction_binding(c) /\ kept[q.id] # None /\ link_context(c)
       THEN /\ kept' = [kept EXCEPT ![q.id] = None]
            /\ taken' = taken \cup {q.id}
            /\ flowCall' = [flowCall EXCEPT ![c].pc = IF kept[q.id].expired THEN "answer" ELSE "provider"]
       ELSE /\ Closed(c)
            /\ UNCHANGED << kept, taken >>
    /\ NoFault
    /\ UNCHANGED << crumbs, signed, alive, signIns, began, handed, completed, lost >>

\* complete_callback and complete_link after the flow is taken: the user cancelled,
\* the provider or the account is refused, or there is a session or a link.
complete_flow(c) ==
    LET q == flowCall[c] IN
    /\ q.pc = "provider"
    /\ \/ /\ flowCall' = [flowCall EXCEPT ![c].pc = "answer"]
          /\ UNCHANGED << completed, alive, signIns >>
       \/ /\ q.kind = "login" => signIns < MaxSignIns
          /\ flowCall' = [flowCall EXCEPT ![c].pc = "answer", ![c].ok = TRUE,
                             ![c].session = IF q.kind = "login" THEN signIns + 1 ELSE @]
          /\ signIns' = IF q.kind = "login" THEN signIns + 1 ELSE signIns
          \* establish_session revokes the session in the request's cookie.
          /\ alive' = IF q.kind = "login" THEN (alive \ {q.session}) \cup {signIns + 1} ELSE alive
          /\ completed' = [completed EXCEPT ![q.id] = q.visitor]
    /\ NoFault
    /\ UNCHANGED << kept, crumbs, signed, began, handed, taken, lost >>

\* The answer of a taken flow, an error or a redirect, clears the flow's cookie and no
\* other; a login also sets the session cookie.  When it cannot be written the
\* delivery guard discards the session.
answer_callback(c) ==
    LET q == flowCall[c]
        login == q.ok /\ q.kind = "login" IN
    /\ q.pc = "answer"
    /\ \/ /\ crumbs' = [crumbs EXCEPT ![q.visitor] = @ \ {q.id}]
          /\ signed' = IF login THEN [signed EXCEPT ![q.visitor] = q.session] ELSE signed
          /\ NoFault
          /\ UNCHANGED << alive, lost >>
       \/ /\ Fault(FlowFaults)
          /\ alive' = IF login THEN alive \ {q.session} ELSE alive
          /\ lost' = lost \cup {q.id}
          /\ UNCHANGED << crumbs, signed >>
    /\ Closed(c)
    /\ UNCHANGED << kept, signIns, began, handed, taken, completed >>

-----------------------------------------------------------------------------
(* Time and the browser.                                                   *)

\* flow_ttl passes.
flow_expires(i) ==
    /\ kept[i] # None /\ ~kept[i].expired
    /\ kept' = [kept EXCEPT ![i].expired = TRUE]
    /\ NoFault
    /\ UNCHANGED << crumbs, signed, alive, signIns, flowCall, began, handed, taken, completed, lost >>

\* Max-Age of the cookie, which began after the flow's lifetime.
crumb_expires(b, i) ==
    /\ i \in crumbs[b]
    /\ kept[i] # None => kept[i].expired
    /\ crumbs' = [crumbs EXCEPT ![b] = @ \ {i}]
    /\ NoFault
    /\ UNCHANGED << kept, signed, alive, signIns, flowCall, began, handed, taken, completed, lost >>

\* The user logs out.
leave(b) ==
    /\ signed[b] \in alive
    /\ alive' = alive \ {signed[b]}
    /\ signed' = [signed EXCEPT ![b] = 0]
    /\ NoFault
    /\ UNCHANGED << kept, crumbs, signIns, flowCall, began, handed, taken, completed, lost >>

SignInNext ==
    \/ \E c \in FlowCalls, b \in Visitors :
          \/ \E kind \in Kinds : open_begin(c, b, kind)
          \/ \E i \in FlowIds : open_callback(c, b, i)
    \/ \E c \in FlowCalls :
          \/ refuse_flow(c) \/ create_flow(c) \/ build_authorization(c) \/ redirect(c)
          \/ consume_flow(c) \/ complete_flow(c) \/ answer_callback(c)
    \/ \E i \in FlowIds : flow_expires(i)
    \/ \E b \in Visitors, i \in FlowIds : crumb_expires(b, i)
    \/ \E b \in Visitors : leave(b)

SignInSpec == SignInInit /\ [][SignInNext]_signInVars

-----------------------------------------------------------------------------
Serving(i) == \E c \in FlowCalls : flowCall[c].id = i /\ flowCall[c].pc # "idle"

\* Sign-ins and links of several tabs and browsers do not disturb each other,
\* however their requests interleave and whatever answers are lost: a flow is
\* completed only in the browser that began it (the transaction cookie); a begin
\* that failed leaves no flow that would use up the store's capacity; and a cookie
\* outlives its consumed flow only when the answer that clears it was lost.
FlowsStayInTheirBrowser ==
    /\ \A i \in FlowIds : completed[i] # None => completed[i] = began[i].visitor
    /\ \A i \in FlowIds : kept[i] # None => i \in handed \/ Serving(i)
    /\ \A b \in Visitors : \A i \in crumbs[b] \cap taken : i \in lost \/ Serving(i)
    /\ \A kind \in Kinds : Cardinality(Stored(kind)) <= MaxFlows

=============================================================================
