------------------------------ MODULE AppTokens ------------------------------
(***************************************************************************)
(* The GitHub App installation token that gives the course board its       *)
(* private sources (scripts/github_app_token_runtime.py): one file, one    *)
(* runtime that renews it, and the lock that keeps a second process out.   *)
(*                                                                         *)
(* A runtime has three threads: the caller of start and stop (main), the   *)
(* renewal loop, and the reaper that ends a shutdown whose deadline the    *)
(* loop overran.  Each is a program counter; op says for whom a refresh or *)
(* a removal runs.  The file is exchanged with a staged one, whose name    *)
(* then holds the earlier token (spare) until the new one is verified.     *)
(***************************************************************************)
EXTENDS Faults

CONSTANTS
    Runtimes,       \* processes with this configuration
    TokenLife,      \* lifetime of an installation token
    Margin,         \* RENEWAL_MARGIN_SECONDS
    TransportSlots, \* RUNTIME_TRANSPORT_SLOTS
    MaxToken,       \* bound on the tokens GitHub gives
    MaxAppClock,    \* bound on the wall clock
    AppFaults       \* bound on the failing calls and crashes

Threads == {"main", "loop", "reaper"}

ASSUME AppAssumption == TokenLife \in Nat /\ None \notin Runtimes \cup Threads

VARIABLES
    tokenFile,      \* the published token, or None
    spare,          \* the token under the staged name, or None
    processLock,    \* RuntimeFileLock: the process that holds it, and the depth
    runtime,        \* fields of each GitHubAppTokenRuntime
    at,             \* program counter of each thread
    hung,           \* transport workers that still hold a slot
    appClock,
    tokens,         \* tokens given so far
    \* History variables, read by no action:
    ended,          \* runtimes whose shutdown is complete
    reported        \* runtimes that reported a failed removal or rollback

appState == << tokenFile, spare, processLock, runtime, at, hung, appClock, tokens, ended,
               reported >>
appVars == << appState, faults >>

NewRuntime == [stop |-> FALSE, owned |-> None, expires |-> 0, refreshLock |-> None]
Resting == [pc |-> "idle", op |-> None, new |-> None]
AtRest == [a \in Threads |-> Resting]

AppInit ==
    /\ tokenFile = None /\ spare = None
    /\ processLock = [owner |-> None, depth |-> 0]
    /\ runtime = [p \in Runtimes |-> NewRuntime]
    /\ at = [p \in Runtimes |-> AtRest]
    /\ hung = [p \in Runtimes |-> 0]
    /\ appClock = 0 /\ tokens = 0
    /\ ended = {} /\ reported = {}
    /\ faults = 0

-----------------------------------------------------------------------------

\* RuntimeFileLock: reentrant in its process, refused at once to another.
Acquirable(p) == processLock.owner \in {None, p}
Acquire(p) == processLock' = [owner |-> p, depth |-> processLock.depth + 1]

\* Mutant of Release: the innermost release gives the file lock up.
MutRelease(p) == processLock' = [owner |-> None, depth |-> 0]

Release(p) ==
    processLock' = IF processLock.owner # p THEN processLock
                   ELSE IF processLock.depth = 1 THEN [owner |-> None, depth |-> 0]
                   ELSE [processLock EXCEPT !.depth = @ - 1]

\* A token when the process that asked for it is gone: it is nobody's any more.
Orphaned(token, p) ==
    IF token # None /\ token.by = p THEN [token EXCEPT !.by = None] ELSE token

Goes(p, a, pc) == at' = [at EXCEPT ![p][a].pc = pc]
Ended(p, a) == at' = [at EXCEPT ![p][a] = Resting]
OpOf(p, a) == at[p][a].op

\* The lifecycle lock: start and stop hold it, and the reaper while it cleans up.
LifecycleFree(p) ==
    /\ at[p]["main"].pc = "idle" /\ at[p]["reaper"].pc \in {"idle", "join"}

-----------------------------------------------------------------------------
(* The callers.                                                            *)

\* start, refused to a runtime that was started or stopped.
start(p) ==
    /\ LifecycleFree(p) /\ ~runtime[p].stop
    /\ at[p]["loop"].pc = "idle"
    /\ at' = [at EXCEPT ![p]["main"] = [pc |-> "lock", op |-> "start", new |-> None]]
    /\ NoFault
    /\ UNCHANGED <<tokenFile, spare, processLock, runtime, hung, appClock, tokens, ended, reported>>

\* main with --once: one refresh, then the process ends and leaves the token.
refresh_once(p) ==
    /\ LifecycleFree(p) /\ runtime[p] = NewRuntime
    /\ at[p]["loop"].pc = "idle"
    /\ at' = [at EXCEPT ![p]["main"] = [pc |-> "lock", op |-> "once", new |-> None]]
    /\ NoFault
    /\ UNCHANGED <<tokenFile, spare, processLock, runtime, hung, appClock, tokens, ended, reported>>

\* stop: the loop is told, then joined with a deadline; a second stop finds the
\* reaper of the first.
stop(p) ==
    /\ LifecycleFree(p) /\ at[p]["reaper"].pc = "idle"
    /\ runtime' = [runtime EXCEPT ![p].stop = TRUE]
    /\ at' = [at EXCEPT ![p]["main"] = [pc |-> "join", op |-> "stop", new |-> None]]
    /\ NoFault
    /\ UNCHANGED <<tokenFile, spare, processLock, hung, appClock, tokens, ended, reported>>

\* The loop is gone, or the deadline passes and _delegate_late_cleanup leaves the
\* rest to the reaper.
stop_joined(p) ==
    /\ at[p]["main"].pc = "join"
    /\ \/ at[p]["loop"].pc = "idle" /\ Goes(p, "main", "removeLock")
       \/ /\ at[p]["loop"].pc # "idle"
          /\ at' = [at EXCEPT ![p]["main"] = Resting,
                              ![p]["reaper"] = [pc |-> "join", op |-> "reaper", new |-> None]]
    /\ NoFault
    /\ UNCHANGED <<tokenFile, spare, processLock, runtime, hung, appClock, tokens, ended, reported>>

finish_shutdown(p) ==
    /\ at[p]["reaper"].pc = "join" /\ at[p]["loop"].pc = "idle" /\ at[p]["main"].pc = "idle"
    /\ Goes(p, "reaper", "removeLock")
    /\ NoFault
    /\ UNCHANGED <<tokenFile, spare, processLock, runtime, hung, appClock, tokens, ended, reported>>

\* _run: it waits until the renewal is due or the runtime stops.
run_wakes(p) ==
    /\ at[p]["loop"].pc = "wait"
    /\ \/ runtime[p].stop /\ Ended(p, "loop")
       \/ /\ ~runtime[p].stop /\ runtime[p].expires <= appClock + Margin
          /\ Goes(p, "loop", "lock")
    /\ NoFault
    /\ UNCHANGED <<tokenFile, spare, processLock, runtime, hung, appClock, tokens, ended, reported>>

-----------------------------------------------------------------------------
(* refresh and _refresh_locked, by thread a.                               *)

\* What follows a refresh that raised: start gives up, the loop goes on waiting
\* and removes a token that has expired meanwhile.
AfterFailure(p, a) ==
    LET op == OpOf(p, a) IN
    at' = [at EXCEPT ![p][a] =
             CASE op = "start" -> [pc |-> "removeLock", op |-> "startFailed", new |-> None]
               [] op = "once" -> Resting
               [] op = "loop" -> [pc |-> IF runtime[p].expires <= appClock THEN "removeLock"
                                         ELSE "wait",
                                  op |-> "loop", new |-> None]]

\* The refresh lock is free again; start keeps the process lock.
RefreshFails(p, a) ==
    /\ AfterFailure(p, a)
    /\ runtime' = [runtime EXCEPT ![p].refreshLock = None,
                                  ![p].stop = @ \/ OpOf(p, a) = "start"]
    /\ IF OpOf(p, a) = "start" THEN UNCHANGED processLock ELSE Release(p)

refresh_lock(p, a) ==
    /\ at[p][a].pc = "lock" /\ runtime[p].refreshLock = None
    /\ \/ /\ Acquirable(p) /\ Acquire(p)
          /\ runtime' = [runtime EXCEPT ![p].refreshLock = a]
          /\ Goes(p, a, "request")
       \/ ~Acquirable(p) /\ RefreshFails(p, a)
    /\ NoFault
    /\ UNCHANGED <<tokenFile, spare, hung, appClock, tokens, ended, reported>>

\* _request_token_payload: a worker thread asks GitHub.  An answer in time is
\* parsed; a worker that overruns the timeout keeps its slot until it returns.
request_token(p, a) ==
    /\ at[p][a].pc = "request"
    /\ \/ /\ hung[p] < TransportSlots /\ tokens < MaxToken
          /\ tokens' = tokens + 1
          /\ at' = [at EXCEPT ![p][a].pc = "check",
                              ![p][a].new = [id |-> tokens + 1, by |-> p,
                                             expires |-> appClock + TokenLife]]
          /\ UNCHANGED <<runtime, processLock, hung>>
       \/ /\ RefreshFails(p, a)
          /\ hung' \in {hung, [hung EXCEPT ![p] = IF @ < TransportSlots THEN @ + 1 ELSE @]}
          /\ UNCHANGED tokens
    /\ NoFault
    /\ UNCHANGED <<tokenFile, spare, appClock, ended, reported>>

worker_returns(p) ==
    /\ hung[p] > 0
    /\ hung' = [hung EXCEPT ![p] = @ - 1]
    /\ NoFault
    /\ UNCHANGED <<tokenFile, spare, processLock, runtime, at, appClock, tokens, ended, reported>>

\* parse_installation_token and the last look at the stop flag.
check_stop(p, a) ==
    /\ at[p][a].pc = "check"
    /\ \/ /\ ~runtime[p].stop /\ at[p][a].new.expires > appClock
          /\ Goes(p, a, "exchange")
          /\ UNCHANGED <<runtime, processLock>>
       \/ /\ runtime[p].stop \/ at[p][a].new.expires <= appClock
          /\ RefreshFails(p, a)
    /\ NoFault
    /\ UNCHANGED <<tokenFile, spare, hung, appClock, tokens, ended, reported>>

\* _secure_atomic_write: the staged file and the published one trade names.
exchange_names(p, a) ==
    /\ at[p][a].pc = "exchange"
    /\ \/ /\ NoFault
          /\ tokenFile' = at[p][a].new /\ spare' = tokenFile
          /\ Goes(p, a, "verify")
          /\ UNCHANGED <<runtime, processLock>>
       \/ /\ Fault(AppFaults)
          /\ RefreshFails(p, a)
          /\ UNCHANGED <<tokenFile, spare>>
    /\ UNCHANGED <<hung, appClock, tokens, ended, reported>>

\* The published file is read back and its directory synced, then the spare is
\* unlinked; a failure of either rolls back.
verify_published(p, a) ==
    /\ \/ /\ at[p][a].pc = "verify"
          /\ \/ NoFault /\ Goes(p, a, "drop")
             \/ Fault(AppFaults) /\ Goes(p, a, "rollback")
          /\ UNCHANGED spare
       \/ /\ at[p][a].pc = "drop"
          /\ \/ NoFault /\ spare' = None /\ Goes(p, a, "own")
             \/ spare # None /\ Fault(AppFaults) /\ Goes(p, a, "rollback") /\ UNCHANGED spare
    /\ UNCHANGED <<tokenFile, processLock, runtime, hung, appClock, tokens, ended, reported>>

\* Mutant of rollback: the earlier token is dropped instead of put back.
MutRollback(p, a) ==
    /\ at[p][a].pc = "rollback" /\ NoFault
    /\ spare' = None
    /\ RefreshFails(p, a)
    /\ UNCHANGED <<tokenFile, hung, appClock, tokens, ended, reported>>

\* The names trade back; without an earlier token the new one is unlinked.
rollback(p, a) ==
    /\ at[p][a].pc = "rollback"
    /\ \/ NoFault /\ tokenFile' = spare /\ spare' = None /\ UNCHANGED reported
       \/ Fault(AppFaults) /\ reported' = reported \cup {p} /\ UNCHANGED <<tokenFile, spare>>
    /\ RefreshFails(p, a)
    /\ UNCHANGED <<hung, appClock, tokens, ended>>

\* The rest of refresh: the runtime owns the new generation.  After start the
\* loop begins, or its thread cannot be started; after --once the process ends.
own_token(p, a) ==
    LET op == OpOf(p, a)
        new == at[p][a].new
        owning == [runtime[p] EXCEPT !.owned = new, !.expires = new.expires,
                                     !.refreshLock = None] IN
    /\ at[p][a].pc = "own"
    /\ \/ /\ op = "start" /\ NoFault
          /\ runtime' = [runtime EXCEPT ![p] = owning]
          /\ at' = [at EXCEPT ![p]["main"] = Resting,
                              ![p]["loop"] = [pc |-> "wait", op |-> "loop", new |-> None]]
          /\ UNCHANGED <<tokenFile, processLock>>
       \/ /\ op = "start" /\ Fault(AppFaults)
          /\ runtime' = [runtime EXCEPT ![p] = [owning EXCEPT !.stop = TRUE]]
          /\ at' = [at EXCEPT ![p]["main"] =
                      [pc |-> "removeLock", op |-> "startFailed", new |-> None]]
          /\ UNCHANGED <<tokenFile, processLock>>
       \/ /\ op = "once" /\ NoFault
          /\ runtime' = [runtime EXCEPT ![p] = NewRuntime]
          /\ tokenFile' = Orphaned(tokenFile, p)
          /\ Ended(p, a) /\ Release(p)
       \/ /\ op = "loop" /\ NoFault
          /\ runtime' = [runtime EXCEPT ![p] = owning]
          /\ at' = [at EXCEPT ![p]["loop"] = [@ EXCEPT !.pc = "wait", !.new = None]]
          /\ Release(p)
          /\ UNCHANGED tokenFile
    /\ UNCHANGED <<spare, hung, appClock, tokens, ended, reported>>

-----------------------------------------------------------------------------
(* _remove_owned_token, by thread a.                                       *)

remove_lock(p, a) ==
    /\ at[p][a].pc = "removeLock" /\ runtime[p].refreshLock = None
    /\ \/ /\ Acquirable(p) /\ Acquire(p)
          /\ runtime' = [runtime EXCEPT ![p].refreshLock = a]
          /\ Goes(p, a, "claim")
       \/ /\ ~Acquirable(p)         \* the error ends a failed start
          /\ Ended(p, a)
          /\ UNCHANGED <<runtime, processLock>>
    /\ NoFault
    /\ UNCHANGED <<tokenFile, spare, hung, appClock, tokens, ended, reported>>

\* Both locks are given back; a shutdown then releases the process lock of start.
RemoveEnds(p, a, rt) ==
    /\ runtime' = [runtime EXCEPT ![p] = [rt EXCEPT !.refreshLock = None]]
    /\ Release(p)
    /\ Goes(p, a, IF OpOf(p, a) = "loop" THEN "wait" ELSE "release")

\* Only the generation the runtime owns is renamed to a private name, and then
\* unlinked.  A failure is logged.
claim_token(p, a) ==
    LET rt == runtime[p] IN
    /\ at[p][a].pc = "claim"
    /\ \/ /\ rt.owned = None \/ tokenFile # rt.owned
          /\ NoFault
          /\ RemoveEnds(p, a, rt)
          /\ UNCHANGED <<tokenFile, reported>>
       \/ /\ rt.owned # None /\ tokenFile = rt.owned
          /\ \/ /\ NoFault
                /\ tokenFile' = None
                /\ Goes(p, a, "unlink")
                /\ UNCHANGED <<reported, runtime, processLock>>
             \/ /\ Fault(AppFaults)
                /\ reported' = reported \cup {p}
                /\ RemoveEnds(p, a, rt)
                /\ UNCHANGED tokenFile
    /\ UNCHANGED <<spare, hung, appClock, tokens, ended>>

unlink_claim(p, a) ==
    LET rt == runtime[p] IN
    /\ at[p][a].pc = "unlink"
    /\ \/ /\ NoFault
          /\ RemoveEnds(p, a, [rt EXCEPT !.owned = None, !.expires = 0])
          /\ UNCHANGED reported
       \/ /\ Fault(AppFaults)
          /\ RemoveEnds(p, a, rt)
          /\ reported' = reported \cup {p}
    /\ UNCHANGED <<tokenFile, spare, hung, appClock, tokens, ended>>

\* The end of stop, of finish_shutdown and of a failed start.
release_runtime(p, a) ==
    /\ at[p][a].pc = "release"
    /\ Ended(p, a) /\ Release(p)
    /\ ended' = ended \cup {p}
    /\ NoFault
    /\ UNCHANGED <<tokenFile, spare, runtime, hung, appClock, tokens, reported>>

-----------------------------------------------------------------------------

AppTick ==
    /\ appClock < MaxAppClock
    /\ appClock' = appClock + 1
    /\ NoFault
    /\ UNCHANGED <<tokenFile, spare, processLock, runtime, at, hung, tokens, ended, reported>>

\* The process dies: the system frees its lock, its files stay; the name it had staged
\* is never read again.
AppCrash(p) ==
    /\ Fault(AppFaults)
    /\ \E a \in Threads : at[p][a].pc # "idle"
    /\ runtime' = [runtime EXCEPT ![p] = NewRuntime]
    /\ at' = [at EXCEPT ![p] = AtRest]
    /\ hung' = [hung EXCEPT ![p] = 0]
    /\ processLock' = IF processLock.owner = p THEN [owner |-> None, depth |-> 0] ELSE processLock
    /\ spare' = IF processLock.owner = p THEN None ELSE Orphaned(spare, p)
    /\ tokenFile' = Orphaned(tokenFile, p)
    /\ ended' = ended \ {p} /\ reported' = reported \ {p}
    /\ UNCHANGED <<appClock, tokens>>

AppNext ==
    \/ \E p \in Runtimes :
        \/ start(p) \/ refresh_once(p) \/ stop(p) \/ stop_joined(p) \/ finish_shutdown(p)
        \/ run_wakes(p) \/ worker_returns(p) \/ AppCrash(p)
        \/ \E a \in Threads :
            \/ refresh_lock(p, a) \/ request_token(p, a) \/ check_stop(p, a)
            \/ exchange_names(p, a) \/ verify_published(p, a) \/ rollback(p, a)
            \/ own_token(p, a)
            \/ remove_lock(p, a) \/ claim_token(p, a) \/ unlink_claim(p, a)
            \/ release_runtime(p, a)
    \/ AppTick

AppSpec == AppInit /\ [][AppNext]_appVars

-----------------------------------------------------------------------------

\* When a shutdown is complete, also one that the reaper ended or one after a
\* failed start, no token of that runtime is in the file, unless its removal
\* failed and was reported: a renewal that was under way when stop was called
\* can no longer publish (_refresh_locked, _stop_locked, finish_shutdown).
ShutdownLeavesNoToken ==
    \A p \in ended \ reported : tokenFile = None \/ tokenFile.by # p

\* The token a running runtime serves is its own, whatever other process starts,
\* refreshes once or crashes, and it is the generation it will remove: the file
\* lock taken by start is held until the shutdown, through every nested refresh
\* and removal (RuntimeFileLock), and a failed rotation puts the old one back
\* or is reported.
ServedTokenIsOwned ==
    \A p \in Runtimes \ reported :
        at[p]["loop"].pc = "wait" /\ runtime[p].refreshLock = None =>
            tokenFile \in {None, runtime[p].owned}

\* Both together: the token file is its runtime's from the start to the end.
TokenFileIsOwned == ShutdownLeavesNoToken /\ ServedTokenIsOwned

=============================================================================
