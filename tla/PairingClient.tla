----------------------------- MODULE PairingClient -----------------------------
(***************************************************************************)
(* The terminal's side of a pairing: begin, poll until the browser has      *)
(* authorized the code, use the bearer, log out before the program ends.    *)
(* Every request runs in a process of its own, which is killed at the       *)
(* request's deadline: a request that was already sent is then served with  *)
(* nobody waiting for the answer.  The server, modelled here only as far as *)
(* the client sees it, may also refuse a request as too many (429) or as    *)
(* temporarily unavailable (503).  The shapes of the answers are left out   *)
(* (a malformed one is the outcome "error"), and both clocks agree.         *)
(***************************************************************************)
EXTENDS Faults, FiniteSets

CONSTANTS
    PairingLife,    \* lifetime of a pairing's code
    RequestTime,    \* deadline of one request
    MaxTime,        \* bound on the clock
    MaxSent,        \* bound on requests
    ClientFaults    \* bound on refusals and broken answers

Outcomes == {"ok", "pending", "rate", "unavailable", "error"}

\* Lifetimes are whole seconds here; no outcome is an outcome of its own.
ASSUME ClientAssumption ==
    PairingLife \in Nat /\ RequestTime \in Nat /\ None \notin Outcomes

VARIABLES
    time,           \* the monotonic clock
    tui,            \* [pc, deadline, until, wake, request, warned, credential]
    process,        \* the transport process: "none", "launching" or "sent"
    wire,           \* requests sent and not served: [id, kind]
    outcome,        \* what the transport process printed, or None
    pairing,        \* server: "none", "pending", "authorized", "consumed"
    expires,        \* server: when the code expires
    terminalSession,        \* server: "none", "live", "revoked"
    sent            \* requests so far

clientState == << time, tui, process, wire, outcome, pairing, expires, terminalSession, sent >>
clientVars == << clientState, faults >>

ClientInit ==
    /\ time = 0
    /\ tui = [pc |-> "begin", deadline |-> 0, until |-> 0, wake |-> 0, request |-> 0,
              warned |-> FALSE, credential |-> FALSE]
    /\ process = "none"
    /\ wire = {}
    /\ outcome = None
    /\ pairing = "none" /\ expires = 0 /\ terminalSession = "none"
    /\ sent = 0
    /\ faults = 0

Earlier(a, b) == IF a < b THEN a ELSE b

\* The request of each phase.
Asks == [begin |-> "begin", poll |-> "consume", logout |-> "logout"]

\* acquire_tui_bearer failed: main prints the error and returns 1.
Gives(pc) == tui' = [tui EXCEPT !.pc = pc]

---------------------------------------------------------------------------
(* The transport.                                                          *)

\* _run_killable_subprocess: the process is launched by a thread.
launch ==
    /\ tui.pc \in DOMAIN Asks /\ process = "none" /\ outcome = None
    /\ time >= tui.wake
    /\ tui.pc # "begin" => time < tui.deadline
    /\ sent < MaxSent
    /\ process' = "launching"
    /\ sent' = sent + 1
    /\ tui' = [tui EXCEPT !.request = sent + 1,
                          !.until = IF tui.pc = "begin" THEN time + RequestTime
                                    ELSE IF tui.pc = "poll" THEN Earlier(time + RequestTime, tui.deadline)
                                    ELSE tui.deadline]
    /\ NoFault
    /\ UNCHANGED << time, wire, outcome, pairing, expires, terminalSession >>

\* The process reads its specification and sends the request.
communicate ==
    /\ process = "launching" /\ time < tui.until
    /\ process' = "sent"
    /\ wire' = wire \cup {[id |-> tui.request, kind |-> Asks[tui.pc]]}
    /\ NoFault
    /\ UNCHANGED << time, tui, outcome, pairing, expires, terminalSession, sent >>

\* The deadline passes: the process is killed, a late launch reads no input.
\* A poll or a begin that is not answered is an error, and so is a logout.
kill_process ==
    /\ process # "none" /\ time >= tui.until
    /\ process' = "none"
    /\ tui' = [tui EXCEPT !.pc = IF tui.pc = "logout" THEN "ended" ELSE "failed",
                          !.warned = (tui.pc = "logout")]
    /\ NoFault
    /\ UNCHANGED << time, wire, outcome, pairing, expires, terminalSession, sent >>

\* The process prints an outcome: only for the request it sent.
Answer(request, o) ==
    IF process = "sent" /\ tui.request = request.id
    THEN outcome' = o /\ process' = "none"
    ELSE UNCHANGED << outcome, process >>

---------------------------------------------------------------------------
(* The server, as the client meets it.                                     *)

serve(r) ==
    /\ wire' = wire \ {r}
    /\ NoFault
    /\ \/ /\ r.kind = "begin"
          /\ pairing' = "pending" /\ expires' = time + PairingLife
          /\ Answer(r, "ok")
          /\ UNCHANGED terminalSession
       \/ /\ r.kind = "consume"
          /\ IF time >= expires THEN Answer(r, "error") /\ UNCHANGED << pairing, terminalSession >>
             ELSE IF pairing = "pending" THEN Answer(r, "pending") /\ UNCHANGED << pairing, terminalSession >>
             ELSE IF pairing = "authorized"
             THEN Answer(r, "ok") /\ pairing' = "consumed" /\ terminalSession' = "live"
             ELSE Answer(r, "error") /\ UNCHANGED << pairing, terminalSession >>
          /\ UNCHANGED expires
       \/ /\ r.kind = "logout"
          /\ terminalSession # "none"
          /\ terminalSession' = "revoked"
          /\ Answer(r, "ok")
          /\ UNCHANGED << pairing, expires >>
    /\ UNCHANGED << time, tui, sent >>

\* 429, 503, or an answer the client cannot use, before or after the work.
refuse(r, o) ==
    /\ wire' = wire \ {r}
    /\ Fault(ClientFaults)
    /\ o \in {"rate", "unavailable", "error"}
    /\ Answer(r, o)
    /\ \/ UNCHANGED terminalSession
       \/ o = "error" /\ r.kind = "logout" /\ terminalSession' = "revoked"
    /\ UNCHANGED << time, tui, pairing, expires, sent >>

authorize ==
    /\ pairing = "pending" /\ time < expires
    /\ pairing' = "authorized"
    /\ NoFault
    /\ UNCHANGED << time, tui, process, wire, outcome, expires, terminalSession, sent >>

---------------------------------------------------------------------------
(* The client.                                                             *)

Takes(o) == outcome = o /\ outcome' = None

\* A code, whose lifetime is at most the client's bound; anything else fails.
begin ==
    /\ tui.pc = "begin"
    /\ \/ Takes("ok") /\ tui' = [tui EXCEPT !.pc = "poll", !.deadline = expires]
       \/ \E o \in {"rate", "unavailable", "error"} : Takes(o) /\ Gives("failed")
    /\ NoFault
    /\ UNCHANGED << time, process, wire, pairing, expires, terminalSession, sent >>

\* _sleep_bounded, at most until the deadline.
Sleeps(d) == tui' = [tui EXCEPT !.wake = Earlier(time + d, tui.deadline)]

\* Pending and rate limited are polled again, until the code expires.
poll ==
    /\ tui.pc = "poll"
    /\ \/ Takes("ok") /\ tui' = [tui EXCEPT !.pc = "using", !.credential = TRUE]
       \/ \E o \in {"pending", "rate"} :
             /\ Takes(o)
             /\ IF time < tui.deadline THEN Sleeps(1) ELSE Gives("failed")
       \/ \E o \in {"unavailable", "error"} : Takes(o) /\ Gives("failed")
    /\ NoFault
    /\ UNCHANGED << time, process, wire, pairing, expires, terminalSession, sent >>

\* No time is left for another request.
expired ==
    /\ tui.pc \in {"poll", "logout"} /\ process = "none" /\ outcome = None
    /\ time >= tui.deadline
    /\ tui' = [tui EXCEPT !.pc = IF tui.pc = "logout" THEN "ended" ELSE "failed",
                          !.warned = (tui.pc = "logout")]
    /\ NoFault
    /\ UNCHANGED << time, process, wire, outcome, pairing, expires, terminalSession, sent >>

\* run_tui ends or raises: the finally clause of main revokes the bearer.
revoke_tui_bearer ==
    /\ tui.pc = "using"
    /\ tui' = [tui EXCEPT !.pc = "logout", !.deadline = time + RequestTime, !.wake = time]
    /\ NoFault
    /\ UNCHANGED << time, process, wire, outcome, pairing, expires, terminalSession, sent >>

\* Mutant of logout_terminal: a server that is unavailable counts as logged out.
MutLogoutClient ==
    /\ tui.pc = "logout"
    /\ \/ \E o \in {"ok", "unavailable"} : Takes(o) /\ Gives("ended")
       \/ /\ Takes("rate")
          /\ IF time < tui.deadline THEN Sleeps(1)
             ELSE tui' = [tui EXCEPT !.pc = "ended", !.warned = TRUE]
       \/ Takes("error") /\ tui' = [tui EXCEPT !.pc = "ended", !.warned = TRUE]
    /\ NoFault
    /\ UNCHANGED << time, process, wire, pairing, expires, terminalSession, sent >>

\* Only 204 ends the logout; 429 and 503 are tried again; the rest is a warning.
logout_terminal ==
    /\ tui.pc = "logout"
    /\ \/ Takes("ok") /\ Gives("ended")
       \/ \E o \in {"rate", "unavailable"} :
             /\ Takes(o)
             /\ IF time < tui.deadline THEN Sleeps(1)
                ELSE tui' = [tui EXCEPT !.pc = "ended", !.warned = TRUE]
       \/ Takes("error") /\ tui' = [tui EXCEPT !.pc = "ended", !.warned = TRUE]
    /\ NoFault
    /\ UNCHANGED << time, process, wire, pairing, expires, terminalSession, sent >>

tick ==
    /\ time < MaxTime
    /\ time' = time + 1
    /\ NoFault
    /\ UNCHANGED << tui, process, wire, outcome, pairing, expires, terminalSession, sent >>

ClientNext ==
    \/ launch \/ communicate \/ kill_process
    \/ \E r \in wire : serve(r) \/ \E o \in {"rate", "unavailable", "error"} : refuse(r, o)
    \/ authorize
    \/ begin \/ poll \/ expired \/ revoke_tui_bearer \/ logout_terminal
    \/ tick

ClientSpec == ClientInit /\ [][ClientNext]_clientVars

---------------------------------------------------------------------------
\* A terminal that held a credential and ends without a warning has no live
\* session left on the server, whatever was retried, refused or served late.
SilentExitIsLoggedOut ==
    tui.pc = "ended" /\ ~tui.warned => terminalSession = "revoked"

=============================================================================
