---------------------------- MODULE ServiceProofs ----------------------------
(***************************************************************************)
(* Proofs about the session and pairing services: AuthServices, and its    *)
(* composition with the pairing services in TuiPairing, over IdentityStore.*)
(*                                                                         *)
(* A call holds what it has read while others write.  The invariant says   *)
(* how far that may be from the tables; with it each write of a call is a  *)
(* transaction of the store from its current rows, whatever the call read. *)
(* One lemma per step shows what the step makes of its own call (Becomes), *)
(* one what it does to the tables (StoreMoves), and one that what holds of *)
(* the other calls survives that (JobAges).                                *)
(***************************************************************************)
EXTENDS TuiPairing, IdentityStoreProofs

-----------------------------------------------------------------------------
(***************************************************************************)
(* What holds of a call.  Between two of its transactions the rows it has  *)
(* read grow old: they never say more than the table did, and as long as   *)
(* the revision of an account is the one read, the whole account is.       *)
(***************************************************************************)

\* Where a session call goes on within its caller.
Returns == {"done", "azn:session", "con:verify", "con:failed", "bear:snapshot"}

AuthStages == {"auth:read", "auth:clock", "auth:account", "auth:touch", "auth:reread"}

RevokeStages == {"rev:read", "rev:clock", "rev:save", "rev:reread"}

\* After the session call: these have its outcome.
Resumed == {"azn:session", "con:verify", "con:discard", "con:deliver", "con:failed",
            "bear:snapshot", "bear:clock", "bear:status"}

SessionStages == AuthStages \cup RevokeStages \cup Resumed

UserStages == {"issue:account", "issue:clock", "issue:insert", "issue:recheck", "all:clock",
               "all:update", "azn:read", "azn:clock", "azn:account", "azn:save", "azn:conflict"}

ConsumeStages == {"con:read", "con:clock", "con:account", "con:save", "con:recheck"}

PairingStages ==
    ConsumeStages \cup
    {"azn:read", "azn:clock", "azn:account", "azn:save", "azn:conflict", "pair:expire",
     "prv:read", "prv:clock", "prv:save", "prv:conflict"}

Stages ==
    {"idle", "done", "clean:clock", "clean:sessions", "clean:pairings", "pair:clock", "pair:create"}
    \cup SessionStages \cup UserStages \cup PairingStages

Calls == {"none", "issue", "authenticate", "revoke", "revoke_all", "begin", "authorize", "consume",
          "bearer", "revoke_pairing"}

JobType ==
    [op : Calls, at : Stages, ret : Returns, out : Outcomes \cup {None},
     s : SessionIds \cup {None}, u : Users \cup {None}, p : PairingIds \cup {None},
     aud : {"web", "tui"}, gen : SessionRow \cup {None}, row : SessionRow \cup {None},
     acct : UserRow \cup {None}, prow : PairingRow \cup {None}, t : Time, tries : Nat]

\* The account u was a when a call read it, and is while its revision is a's.
Seen(u, a) ==
    /\ a # None /\ users[u] # None
    /\ a.updated_at <= users[u].updated_at
    /\ a.updated_at = users[u].updated_at => users[u] = a

\* The session s was row when a call read it; its id is never generated again.
WasRow(s, row) ==
    /\ s \in SessionIds /\ s \in spent
    /\ row.last_seen_at \in Time
    /\ sessions[s] # None =>
          /\ SameGeneration(sessions[s], row)
          /\ row.last_seen_at <= sessions[s].last_seen_at
          /\ row.revoked_at # None => sessions[s].revoked_at # None

StagesHold(j) ==
    /\ j.at \in SessionStages => j.s \in SessionIds
    /\ j.at \in UserStages => j.u \in Users
    /\ j.at \in PairingStages => j.p \in PairingIds
    /\ j.ret # "done" =>
          /\ j.at \in SessionStages
          /\ j.s \in SessionIds
          /\ j.ret # "bear:snapshot" => j.p \in PairingIds
    /\ j.at \in ConsumeStages => j.gen = None /\ j.row = None
    /\ j.out # None => j.at \in {"done"} \cup Resumed \cup RevokeStages
    /\ j.at \in Resumed => j.out # None
    /\ j.at \in {"azn:session", "con:verify", "con:discard", "con:deliver", "con:failed"} =>
          j.p \in PairingIds
    /\ j.at = "azn:session" /\ j.out = "ok" => j.row # None

RowsHold(j) ==
    /\ j.at \in {"auth:reread", "rev:save", "rev:reread"} => j.gen # None
    /\ j.at = "rev:save" => j.row # None
    /\ j.row # None => WasRow(j.s, j.row) /\ j.gen = Generation(j.row)
    /\ j.gen # None =>
          /\ j.s \in SessionIds /\ j.s \in spent
          /\ sessions[j.s] # None => Generation(sessions[j.s]) = j.gen

AccountsHold(j) ==
    /\ j.at = "auth:touch" =>
          /\ j.row # None
          /\ Seen(j.row.user, j.acct) /\ j.acct.active
    /\ j.at \in {"azn:save", "azn:conflict"} =>
          Seen(j.u, j.acct) /\ j.acct.active /\ j.acct.role = "student"

PairingsHold(j) ==
    /\ j.prow # None => PairingContract(j.prow)
    /\ j.at \in {"con:clock", "con:account", "con:save", "con:recheck"} => j.prow # None
    /\ j.at \in {"con:account", "con:save", "con:recheck"} => j.prow.status = "authorized"

JobHolds(j) ==
    j \in JobType /\ StagesHold(j) /\ RowsHold(j) /\ AccountsHold(j) /\ PairingsHold(j)

\* The store below, with the clock: no id of a session comes twice, and a
\* session issued before its account was disabled is revoked.
StoreHolds == Inv /\ SessionsValid /\ PairingsValid

ClockHolds ==
    /\ now \in Time
    /\ \A s \in SessionIds : sessions[s] # None =>
          s \in spent /\ sessions[s].last_seen_at \in Time

ServiceFence ==
    \A s \in SessionIds :
        sessions[s] # None /\ issuedUnder[s] < fence[sessions[s].user] =>
            sessions[s].revoked_at # None

ServiceInv ==
    /\ StoreHolds /\ ClockHolds /\ ServiceFence
    /\ job \in [Workers -> JobType]
    /\ \A w \in Workers : JobHolds(job[w])

-----------------------------------------------------------------------------
(***************************************************************************)
(* What holds of a logout while the clock is not set back.                 *)
(***************************************************************************)

\* Nothing in the tables is from the future.
NothingIsLater ==
    \A s \in SessionIds : sessions[s] # None =>
        sessions[s].created_at <= now /\ sessions[s].last_seen_at <= now

LogoutHolds(j) ==
    /\ j.t <= now
    /\ j.row # None => j.row.created_at <= now /\ j.row.last_seen_at <= now
    /\ j.op = "revoke" => j.at \in RevokeStages \cup {"done"} /\ j.ret = "done"
    /\ j.at = "rev:clock" /\ j.gen # None /\ j.row = None => sessions[j.s] = None
    /\ /\ j.op = "revoke" /\ j.at = "done" /\ j.out \in {"ok", "false"}
       /\ j.gen # None /\ Audience(j.gen) = j.aud
       => ~Usable(sessions[j.s], now)

LogoutInv == ServiceInv /\ NothingIsLater /\ \A w \in Workers : LogoutHolds(job[w])

-----------------------------------------------------------------------------
(***************************************************************************)
(* How a call goes on: what it becomes holds of the tables as they were.   *)
(***************************************************************************)

\* A call that has read nothing yet, and a worker without one.
LEMMA FreshHolds ==
    ASSUME NEW j \in JobType, j.out = None, j.gen = None, j.row = None,
           j.at \in SessionStages => j.s \in SessionIds,
           j.at \in UserStages => j.u \in Users,
           j.at \in PairingStages => j.p \in PairingIds,
           j.ret # "done" => /\ j.at \in SessionStages /\ j.s \in SessionIds
                             /\ j.ret # "bear:snapshot" => j.p \in PairingIds,
           j.prow = None, j.at \notin Resumed,
           j.at \notin {"auth:touch", "auth:reread", "rev:save", "rev:reread", "azn:save",
                       "azn:conflict", "con:clock", "con:account", "con:save", "con:recheck"}
    PROVE  JobHolds(j)
<1>1. StagesHold(j)
    BY ServiceAssumption DEF StagesHold, Resumed
<1>2. RowsHold(j) /\ AccountsHold(j) /\ PairingsHold(j)
    BY DEF RowsHold, AccountsHold, PairingsHold
<1> QED
    BY <1>1, <1>2 DEF JobHolds

\* The end of a session call.
LEMMA EndedHolds ==
    ASSUME NEW j, JobHolds(j), NEW out \in Outcomes, ClockHolds,
           out = "ok" /\ j.ret = "azn:session" => j.row # None
    PROVE  JobHolds(Ended(j, out)) /\ Ended(j, out).at \notin {"idle", "auth:touch"}
<1>0. j \in JobType /\ 0 \in Time /\ out # None
    BY TTLAssumption, ServiceAssumption DEF JobHolds, Time
<1>1. CASE j.ret = "done"
  <2> DEFINE k == [j EXCEPT !.at = "done", !.out = out, !.row = None, !.acct = None,
                            !.t = 0, !.tries = 0]
  <2>1. k \in JobType
    BY <1>0 DEF JobType, Stages
  <2>2. /\ k.at = "done" /\ k.ret = "done" /\ k.row = None /\ k.gen = j.gen /\ k.s = j.s
        /\ k.out = out /\ k.prow = j.prow
    BY <1>0, <1>1 DEF JobType
  <2> HIDE DEF k
  <2>3. StagesHold(k)
    BY <2>2 DEF StagesHold, SessionStages, AuthStages, RevokeStages, Resumed, UserStages,
       PairingStages, ConsumeStages
  <2>4. RowsHold(k)
    BY <2>2 DEF JobHolds, RowsHold
  <2>5. AccountsHold(k) /\ PairingsHold(k)
    BY <2>2 DEF JobHolds, AccountsHold, PairingsHold
  <2>6. Ended(j, out) = k
    BY <1>1 DEF Ended, k
  <2> QED
    BY <2>1, <2>2, <2>3, <2>4, <2>5, <2>6 DEF JobHolds
<1>2. CASE j.ret # "done"
  <2> DEFINE k == [j EXCEPT !.at = j.ret, !.out = out, !.t = 0, !.tries = 0]
  <2>0. j.ret \in Stages
    BY <1>0, <1>2 DEF JobType, Returns, Stages, SessionStages, Resumed
  <2>1. k \in JobType
    BY <1>0, <2>0 DEF JobType
  <2>2. /\ k.at = j.ret /\ k.ret = j.ret /\ k.row = j.row /\ k.gen = j.gen /\ k.s = j.s
        /\ k.out = out /\ k.p = j.p /\ k.u = j.u /\ k.prow = j.prow
    BY <1>0 DEF JobType
  <2> HIDE DEF k
  <2>3. j.ret \in {"azn:session", "con:verify", "con:failed", "bear:snapshot"}
    BY <1>0, <1>2 DEF JobType, Returns
  <2>4. StagesHold(k)
    BY <1>0, <1>2, <2>2, <2>3 DEF JobHolds, StagesHold, SessionStages, AuthStages, RevokeStages, Resumed,
       UserStages, PairingStages, ConsumeStages
  <2>5. RowsHold(k)
    BY <2>2, <2>3 DEF JobHolds, RowsHold
  <2>6. AccountsHold(k) /\ PairingsHold(k)
    BY <2>2, <2>3 DEF JobHolds, AccountsHold, PairingsHold
  <2>7. Ended(j, out) = k
    BY <1>2 DEF Ended, k
  <2> QED
    BY <2>1, <2>2, <2>3, <2>4, <2>5, <2>6, <2>7 DEF JobHolds
<1> QED
    BY <1>1, <1>2

\* The answer of a boundary call: what it had read is gone.
AnswerOf(j, out) ==
    [NoJob EXCEPT !.op = j.op, !.at = "done", !.out = out,
                  !.s = IF j.op = "consume" THEN j.s ELSE None,
                  !.p = j.p,
                  !.prow = IF j.op = "consume" THEN j.prow ELSE None]

LEMMA AnswerHolds ==
    ASSUME NEW j, JobHolds(j), NEW out \in Outcomes, ClockHolds
    PROVE  JobHolds(AnswerOf(j, out))
<1> DEFINE k == AnswerOf(j, out)
<1>0. /\ 0 \in Time /\ "done" \in Returns /\ "done" \in Stages
      /\ j.op \in Calls /\ j.p \in PairingIds \cup {None}
      /\ (IF j.op = "consume" THEN j.s ELSE None) \in SessionIds \cup {None}
      /\ (IF j.op = "consume" THEN j.prow ELSE None) \in PairingRow \cup {None}
    BY TTLAssumption DEF JobHolds, JobType, Time, Returns, Stages
<1>1. k \in JobType /\ k.at = "done" /\ k.ret = "done" /\ k.row = None /\ k.gen = None
      /\ k.prow \in {None, j.prow}
    BY <1>0 DEF JobType, AnswerOf, NoJob
<1> HIDE DEF k
<1>2. StagesHold(k)
    BY <1>1 DEF StagesHold, SessionStages, AuthStages, RevokeStages, Resumed, UserStages,
       PairingStages, ConsumeStages
<1>3. RowsHold(k) /\ AccountsHold(k) /\ PairingsHold(k)
    BY <1>1 DEF JobHolds, RowsHold, AccountsHold, PairingsHold
<1> QED
    BY <1>1, <1>2, <1>3 DEF JobHolds, k

\* A worker's call goes on as a call that holds.
Becomes(w) == \E k : JobHolds(k) /\ job' = [job EXCEPT ![w] = k]

LEMMA JobFacts ==
    ASSUME ServiceInv, NEW w \in Workers
    PROVE  /\ JobHolds(job[w]) /\ job[w] \in JobType
           /\ StagesHold(job[w]) /\ RowsHold(job[w]) /\ AccountsHold(job[w])
           /\ PairingsHold(job[w]) /\ ClockHolds /\ now \in Time /\ TypeOK
    BY DEF ServiceInv, StoreHolds, Inv, JobHolds, ClockHolds

LEMMA ReturnBecomes ==
    ASSUME ServiceInv, NEW w \in Workers, NEW out \in Outcomes, Return(w, out),
           out = "ok" /\ job[w].ret = "azn:session" => job[w].row # None
    PROVE  Becomes(w)
    BY JobFacts, EndedHolds DEF Return, Become, Becomes

LEMMA AnswerBecomes ==
    ASSUME ServiceInv, NEW w \in Workers, NEW out \in Outcomes, Answer(w, out)
    PROVE  Becomes(w)
    BY JobFacts, AnswerHolds DEF Answer, AnswerOf, Become, Becomes

\* A stage that needs no more of a call than the one before.
Follows(a, b) ==
    /\ b \in SessionStages <=> a \in SessionStages
    /\ b \in UserStages => a \in UserStages
    /\ b \in PairingStages => a \in PairingStages
    /\ b \in ConsumeStages => a \in ConsumeStages
    /\ a \in {"done"} \cup Resumed \cup RevokeStages => b \in {"done"} \cup Resumed \cup RevokeStages
    /\ b \in Resumed => a \in Resumed
    /\ b \in {"azn:session", "con:verify", "con:discard", "con:deliver", "con:failed"} =>
          a \in {"azn:session", "con:verify", "con:discard", "con:deliver", "con:failed"}
    /\ b # "azn:session" /\ b \in Stages
    /\ b \in {"con:clock", "con:account", "con:save", "con:recheck"} =>
          a \in {"con:clock", "con:account", "con:save", "con:recheck"}
    /\ b \in {"con:account", "con:save", "con:recheck"} => a \in {"con:account", "con:save", "con:recheck"}

\* A call goes from one stage to the next of its kind, with what it has read.
LEMMA StageMoves ==
    ASSUME NEW j, StagesHold(j), PairingsHold(j), NEW k,
           k.s = j.s, k.u = j.u, k.p = j.p, k.ret = j.ret, k.out = j.out, k.gen = j.gen,
           k.row = j.row, k.prow = j.prow,
           Follows(j.at, k.at)
    PROVE  StagesHold(k) /\ PairingsHold(k)
    BY DEF StagesHold, PairingsHold, Follows

\* A clock reading, and a step that reads nothing.
LEMMA ReadingBecomes ==
    ASSUME ServiceInv, NEW w \in Workers, NEW at \in Stages, NEW t \in Time,
           job' = [job EXCEPT ![w] = [job[w] EXCEPT !.at = at, !.t = t]],
           \/ Follows(job[w].at, at)
           \/ job[w].at = "con:clock" /\ at = "con:account" /\ job[w].prow.status = "authorized",
           at \in {"auth:reread", "rev:save", "rev:reread"} => job[w].gen # None,
           at = "rev:save" => job[w].row # None,
           at \notin {"auth:touch", "azn:save"},
           at = "azn:conflict" => job[w].at = "azn:save"
    PROVE  Becomes(w)
<1> DEFINE j == job[w]
           k == [j EXCEPT !.at = at, !.t = t]
<1>1. JobHolds(j) /\ StagesHold(j) /\ RowsHold(j) /\ AccountsHold(j) /\ PairingsHold(j)
      /\ j \in JobType
    BY JobFacts
<1>2. /\ k \in JobType /\ k.at = at /\ k.s = j.s /\ k.u = j.u /\ k.p = j.p /\ k.ret = j.ret
      /\ k.out = j.out /\ k.gen = j.gen /\ k.row = j.row /\ k.acct = j.acct
      /\ k.prow = j.prow
    BY <1>1, ZenonT(60) DEF JobType
<1>3. job' = [job EXCEPT ![w] = k]
    OBVIOUS
<1> HIDE DEF k
<1>4. StagesHold(k) /\ PairingsHold(k)
  <2>1. CASE Follows(j.at, at)
    BY <1>1, <1>2, <2>1, StageMoves
  <2>2. CASE j.at = "con:clock" /\ at = "con:account" /\ j.prow.status = "authorized"
    BY <1>1, <1>2, <2>2 DEF StagesHold, PairingsHold, SessionStages, AuthStages, RevokeStages, Resumed,
       UserStages, PairingStages, ConsumeStages
  <2> QED
    BY <2>1, <2>2
<1>5. RowsHold(k)
    BY <1>1, <1>2 DEF RowsHold
<1>6. AccountsHold(k)
    BY <1>1, <1>2 DEF AccountsHold
<1> QED
    BY <1>2, <1>3, <1>4, <1>5, <1>6 DEF Becomes, JobHolds

LEMMA ReadClockBecomes ==
    ASSUME ServiceInv, NEW w \in Workers,
           \/ IssueClock(w) \/ AuthClock(w) \/ RevAllClock(w) \/ CleanClock(w) \/ PairClock(w)
    PROVE  Becomes(w)
<1>1. now \in Time
    BY JobFacts
<1>2. /\ Follows("issue:clock", "issue:insert") /\ Follows("auth:clock", "auth:account")
      /\ Follows("all:clock", "all:update") /\ Follows("clean:clock", "clean:sessions")
      /\ Follows("pair:clock", "pair:create")
      /\ {"issue:insert", "auth:account", "all:update", "clean:sessions", "pair:create"} \subseteq Stages
    BY DEF Follows, Stages, SessionStages, AuthStages, RevokeStages, Resumed, UserStages, PairingStages,
       ConsumeStages
<1>3. ASSUME NEW at \in Stages, NEW label, ReadClock(w, label, at), Follows(label, at),
             at \notin {"auth:touch", "auth:reread", "rev:save", "rev:reread", "azn:save", "azn:conflict"}
      PROVE  Becomes(w)
    BY <1>1, <1>3, ReadingBecomes DEF ReadClock, Become, At
<1> QED
    BY <1>2, <1>3 DEF IssueClock, AuthClock, RevAllClock, CleanClock, PairClock

\* A call goes to another stage with nothing new.
LEMMA GotoBecomes ==
    ASSUME ServiceInv, NEW w \in Workers, NEW at \in Stages, Goto(w, at), Follows(job[w].at, at),
           at \in {"auth:reread", "rev:save", "rev:reread"} => job[w].gen # None,
           at = "rev:save" => job[w].row # None,
           at \notin {"auth:touch", "azn:save"},
           at = "azn:conflict" => job[w].at = "azn:save"
    PROVE  Becomes(w)
<1>1. job[w] \in JobType /\ job[w].t \in Time
    BY JobFacts DEF JobType
<1>2. [job[w] EXCEPT !.at = at] = [job[w] EXCEPT !.at = at, !.t = job[w].t]
    BY <1>1 DEF JobType
<1> QED
    BY <1>1, <1>2, ReadingBecomes DEF Goto, Become

\* The next attempt of a loop, or its error.
LEMMA RetryBecomes ==
    ASSUME ServiceInv, NEW w \in Workers, NEW j, JobHolds(j), NEW at \in Stages,
           NEW out \in Outcomes \ {"ok"}, Retry(w, j, at, out), Follows(j.at, at),
           at \notin {"auth:touch", "auth:reread", "rev:save", "rev:reread", "azn:save", "azn:conflict"}
    PROVE  Becomes(w)
<1>1. CASE j.tries + 1 = MaxAttempts
    BY <1>1, EndedHolds, JobFacts DEF Retry, Become, Becomes
<1>2. CASE j.tries + 1 # MaxAttempts
  <2> DEFINE n == j.tries + 1
             k == [j EXCEPT !.at = at, !.tries = n]
  <2>1. job' = [job EXCEPT ![w] = k]
    BY <1>2 DEF Retry, Become
  <2>2. j \in JobType /\ n \in Nat /\ StagesHold(j) /\ RowsHold(j) /\ PairingsHold(j)
    BY DEF JobHolds, JobType
  <2> HIDE DEF n
  <2>3. /\ k \in JobType /\ k.at = at /\ k.s = j.s /\ k.u = j.u /\ k.p = j.p /\ k.ret = j.ret
        /\ k.out = j.out /\ k.gen = j.gen /\ k.row = j.row /\ k.acct = j.acct
        /\ k.prow = j.prow
    BY <2>2, ZenonT(60) DEF JobType
  <2> HIDE DEF k
  <2>4. StagesHold(k) /\ RowsHold(k) /\ AccountsHold(k) /\ PairingsHold(k)
    BY <2>2, <2>3, StageMoves DEF RowsHold, AccountsHold
  <2> QED
    BY <2>1, <2>3, <2>4 DEF Becomes, JobHolds
<1> QED
    BY <1>1, <1>2

\* A call begins.
LEMMA BeginBecomes ==
    ASSUME ServiceInv, NEW w \in Workers, NEW op \in Calls, NEW at \in Stages,
           NEW j \in JobType, Begin(w, op, at, j), j.out = None, j.gen = None, j.row = None,
           j.prow = None, at \notin Resumed,
           at \in SessionStages => j.s \in SessionIds,
           at \in UserStages => j.u \in Users,
           at \in PairingStages => j.p \in PairingIds,
           j.ret # "done" => /\ at \in SessionStages /\ j.s \in SessionIds
                             /\ j.ret # "bear:snapshot" => j.p \in PairingIds,
           at \notin {"auth:touch", "auth:reread", "rev:save", "rev:reread", "azn:save", "azn:conflict",
                   "con:clock", "con:account", "con:save", "con:recheck"}
    PROVE  Becomes(w)
<1> DEFINE k == [j EXCEPT !.op = op, !.at = at]
<1>1. job' = [job EXCEPT ![w] = k]
    BY DEF Begin, Become
<1>2. /\ k \in JobType /\ k.at = at /\ k.s = j.s /\ k.u = j.u /\ k.p = j.p /\ k.ret = j.ret
      /\ k.out = None /\ k.gen = None /\ k.row = None /\ k.prow = None
    BY DEF JobType
<1> HIDE DEF k
<1>3. JobHolds(k)
    BY <1>2, FreshHolds
<1> QED
    BY <1>1, <1>3 DEF Becomes

LEMMA StageClasses ==
    /\ {"auth:read", "auth:clock", "auth:account", "auth:touch", "auth:reread", "rev:read",
        "rev:clock", "rev:save", "rev:reread"} \subseteq SessionStages
    /\ {"issue:account", "issue:clock", "issue:insert", "issue:recheck", "all:clock", "all:update",
        "con:read", "con:clock", "con:account", "con:save", "con:recheck", "idle", "done",
        "clean:clock", "clean:sessions", "clean:pairings", "pair:clock", "pair:create",
        "azn:read", "azn:clock", "azn:account", "azn:save", "azn:conflict",
        "prv:read", "prv:clock", "prv:save", "prv:conflict", "pair:expire"} \cap SessionStages = {}
    /\ UserStages \subseteq Stages /\ SessionStages \subseteq Stages /\ PairingStages \subseteq Stages
    /\ (SessionStages \cap UserStages) = {} /\ (SessionStages \cap PairingStages) = {}
    /\ {"auth:read", "rev:read", "issue:account", "all:clock", "con:read", "prv:read", "clean:clock"}
        \cap {"auth:touch", "auth:reread", "rev:save", "rev:reread", "azn:save", "azn:conflict",
              "con:clock", "con:account", "con:save", "con:recheck"} = {}
    /\ {"auth:read", "rev:read", "issue:account", "all:clock", "con:read", "prv:read", "clean:clock",
        "azn:read", "idle"} \cap Resumed = {}
    /\ {"con:read", "prv:read", "clean:clock"} \cap UserStages = {}
    /\ {"issue:account", "all:clock", "clean:clock"} \cap PairingStages = {}
    BY DEF Stages, SessionStages, AuthStages, RevokeStages, Resumed, UserStages, PairingStages,
       ConsumeStages

LEMMA CallBecomes ==
    ASSUME ServiceInv, NEW w \in Workers,
           \/ CallIssue(w) \/ CallAuthenticate(w) \/ CallRevoke(w) \/ CallRevokeAll(w)
           \/ CallBegin(w) \/ CallAuthorize(w) \/ CallConsume(w) \/ CallBearer(w)
           \/ CallRevokePairing(w)
    PROVE  Becomes(w)
<1>0. /\ {"issue", "authenticate", "revoke", "revoke_all", "begin", "authorize", "consume",
          "bearer", "revoke_pairing"} \subseteq Calls
      /\ {"done", "azn:session", "bear:snapshot"} \subseteq Returns
      /\ Audiences \subseteq {"web", "tui"}
      /\ {"issue:account", "auth:read", "rev:read", "all:clock", "clean:clock", "con:read", "prv:read"}
            \subseteq Stages
    BY ServiceAssumption DEF Calls, Returns, Stages, SessionStages, AuthStages, RevokeStages, UserStages,
       PairingStages, ConsumeStages
<1>00. 0 \in Time /\ {"none"} \subseteq Calls /\ {"idle"} \subseteq Stages
    BY TTLAssumption DEF Time, Calls, Stages
<1> DEFINE Fresh(j, s, u, p, ret) ==
               /\ j \in JobType /\ j.out = None /\ j.gen = None /\ j.row = None /\ j.prow = None
               /\ j.s = s /\ j.u = u /\ j.p = p /\ j.ret = ret
<1>1. CASE CallIssue(w)
  <2>1. PICK u \in Users : Begin(w, "issue", "issue:account", [NoJob EXCEPT !.u = u])
    BY <1>1 DEF CallIssue
  <2>2. Fresh([NoJob EXCEPT !.u = u], None, u, None, "done")
    BY <1>0, <1>00 DEF NoJob, JobType
  <2> QED
    BY <1>0, <2>1, <2>2, StageClasses, BeginBecomes
<1>2. CASE CallAuthenticate(w) \/ CallRevoke(w)
  <2>1. PICK s \in SessionIds, aud \in Audiences :
            \/ Begin(w, "authenticate", "auth:read", [NoJob EXCEPT !.s = s, !.aud = aud])
            \/ Begin(w, "revoke", "rev:read", [NoJob EXCEPT !.s = s, !.aud = aud])
    BY <1>2 DEF CallAuthenticate, CallRevoke
  <2>2. Fresh([NoJob EXCEPT !.s = s, !.aud = aud], s, None, None, "done")
    BY <1>0, <1>00 DEF NoJob, JobType
  <2> QED
    BY <1>0, <2>1, <2>2, StageClasses, BeginBecomes
<1>3. CASE CallRevokeAll(w)
  <2>1. PICK u \in Users, aud \in Audiences :
            Begin(w, "revoke_all", "all:clock", [NoJob EXCEPT !.u = u, !.aud = aud])
    BY <1>3 DEF CallRevokeAll
  <2>2. Fresh([NoJob EXCEPT !.u = u, !.aud = aud], None, u, None, "done")
    BY <1>0, <1>00 DEF NoJob, JobType
  <2> QED
    BY <1>0, <2>1, <2>2, StageClasses, BeginBecomes
<1>4. CASE CallBegin(w)
  <2>1. Fresh(NoJob, None, None, None, "done")
    BY <1>0, <1>00 DEF NoJob, JobType
  <2> QED
    BY <1>0, <1>4, <2>1, StageClasses, BeginBecomes DEF CallBegin
<1>5. CASE CallAuthorize(w)
  <2>1. PICK s \in SessionIds, p \in PairingIds :
            Begin(w, "authorize", "auth:read", [NoJob EXCEPT !.s = s, !.p = p, !.ret = "azn:session"])
    BY <1>5 DEF CallAuthorize
  <2>2. Fresh([NoJob EXCEPT !.s = s, !.p = p, !.ret = "azn:session"], s, None, p, "azn:session")
    BY <1>0, <1>00 DEF NoJob, JobType
  <2> QED
    BY <1>0, <2>1, <2>2, StageClasses, BeginBecomes, ZenonT(60)
<1>6. CASE CallConsume(w) \/ CallRevokePairing(w)
  <2>1. PICK p \in PairingIds :
            \/ Begin(w, "consume", "con:read", [NoJob EXCEPT !.p = p])
            \/ Begin(w, "revoke_pairing", "prv:read", [NoJob EXCEPT !.p = p])
    BY <1>6 DEF CallConsume, CallRevokePairing
  <2>2. Fresh([NoJob EXCEPT !.p = p], None, None, p, "done")
    BY <1>0, <1>00 DEF NoJob, JobType
  <2> QED
    BY <1>0, <2>1, <2>2, StageClasses, BeginBecomes
<1>7. CASE CallBearer(w)
  <2>1. PICK s \in SessionIds :
            Begin(w, "bearer", "auth:read", [NoJob EXCEPT !.s = s, !.aud = "tui", !.ret = "bear:snapshot"])
    BY <1>7 DEF CallBearer
  <2>2. Fresh([NoJob EXCEPT !.s = s, !.aud = "tui", !.ret = "bear:snapshot"],
              s, None, None, "bear:snapshot")
    BY <1>0, <1>00 DEF NoJob, JobType
  <2> QED
    BY <1>0, <2>1, <2>2, StageClasses, BeginBecomes
<1> QED
    BY <1>1, <1>2, <1>3, <1>4, <1>5, <1>6, <1>7

-----------------------------------------------------------------------------
(***************************************************************************)
(* The steps of issue, authenticate, revoke and revoke_all.                *)
(***************************************************************************)

LEMMA FinishBecomes ==
    ASSUME ServiceInv, NEW w \in Workers, Finish(w)
    PROVE  Becomes(w)
<1>1. 0 \in Time /\ "none" \in Calls /\ "idle" \in Stages /\ "done" \in Returns
    BY TTLAssumption DEF Time, Calls, Stages, Returns
<1>2. /\ NoJob \in JobType /\ NoJob.out = None /\ NoJob.gen = None /\ NoJob.row = None
      /\ NoJob.prow = None
      /\ NoJob.at = "idle" /\ NoJob.ret = "done"
    BY <1>1 DEF NoJob, JobType
<1>3. JobHolds(NoJob)
  <2>1. "idle" \notin SessionStages \cup UserStages \cup PairingStages
    BY DEF SessionStages, AuthStages, RevokeStages, Resumed, UserStages, PairingStages, ConsumeStages
  <2> QED
    BY <1>2, <2>1, StageClasses, FreshHolds
<1> QED
    BY <1>3 DEF Finish, Become, Becomes

\* What is read of a session is so, for as long as its id is spent.
LEMMA RowRead ==
    ASSUME ServiceInv, NEW s \in SessionIds, sessions[s] # None
    PROVE  /\ WasRow(s, sessions[s]) /\ s \in spent
           /\ sessions[s] \in SessionRow
           /\ Generation(sessions[s]) \in SessionRow /\ Generation(sessions[s]) # None
<1>1. TypeOK /\ ClockHolds
    BY DEF ServiceInv, StoreHolds, Inv
<1>2. sessions[s] \in SessionRow /\ s \in spent /\ sessions[s].last_seen_at \in Time
    BY <1>1 DEF TypeOK, ClockHolds
<1>3. WasRow(s, sessions[s])
  <2>1. sessions[s].last_seen_at <= sessions[s].last_seen_at
    BY <1>2 DEF SessionRow
  <2>2. SameGeneration(sessions[s], sessions[s])
    BY DEF SameGeneration
  <2> QED
    BY <1>2, <2>1, <2>2 DEF WasRow
<1>4. Generation(sessions[s]) \in SessionRow
    BY <1>2 DEF Generation, SessionRow
<1> QED
    BY <1>2, <1>3, <1>4, NoneAssumption

\* What has been read of a session has a generation.
LEMMA RowGeneration ==
    ASSUME NEW row \in SessionRow
    PROVE  Generation(row) \in SessionRow /\ Generation(row) # None
<1>1. row # None
    BY NoneAssumption
<1>2. Generation(row) = [row EXCEPT !.last_seen_at = row.created_at, !.revoked_at = None]
    BY <1>1 DEF Generation
<1>3. Generation(row) \in SessionRow
    BY <1>2 DEF SessionRow
<1> QED
    BY <1>3, NoneAssumption

\* Rows of the same generation have the same immutable columns.
LEMMA SameGenerations ==
    ASSUME NEW row \in SessionRow, NEW row2 \in SessionRow
    PROVE  SameGeneration(row, row2) <=> Generation(row) = Generation(row2)
<1>1. row # None /\ row2 # None
    BY NoneAssumption
<1>2. /\ Generation(row) = [row EXCEPT !.last_seen_at = row.created_at, !.revoked_at = None]
      /\ Generation(row2) = [row2 EXCEPT !.last_seen_at = row2.created_at, !.revoked_at = None]
    BY <1>1 DEF Generation
<1>3. /\ Generation(row).user = row.user /\ Generation(row2).user = row2.user
      /\ Generation(row).created_at = row.created_at /\ Generation(row2).created_at = row2.created_at
      /\ Generation(row).expires_at = row.expires_at /\ Generation(row2).expires_at = row2.expires_at
      /\ Generation(row).source_pairing = row.source_pairing
      /\ Generation(row2).source_pairing = row2.source_pairing
      /\ Generation(row).last_seen_at = row.created_at /\ Generation(row2).last_seen_at = row2.created_at
      /\ Generation(row).revoked_at = None /\ Generation(row2).revoked_at = None
      /\ Generation(row) \in SessionRow /\ Generation(row2) \in SessionRow
    BY <1>2 DEF SessionRow
<1>4. ASSUME SameGeneration(row, row2) PROVE Generation(row) = Generation(row2)
    BY <1>3, <1>4 DEF SameGeneration, SessionRow
<1>5. ASSUME Generation(row) = Generation(row2) PROVE SameGeneration(row, row2)
    BY <1>1, <1>3, <1>5 DEF SameGeneration
<1> QED
    BY <1>4, <1>5

LEMMA ReadBecomes ==
    ASSUME ServiceInv, NEW w \in Workers, AuthRead(w) \/ RevRead(w)
    PROVE  Becomes(w)
<1> DEFINE j == job[w]
           row == sessions[j.s]
           gen == Generation(row)
<1>1. PICK at \in {"auth:clock", "rev:clock"} :
          /\ job' = [job EXCEPT ![w] = [j EXCEPT !.at = at, !.row = row, !.gen = gen]]
          /\ j.at \in {"auth:read", "rev:read"}
          /\ at = "auth:clock" <=> j.at = "auth:read"
    BY DEF AuthRead, RevRead, Become, At
<1>2. JobHolds(j) /\ j \in JobType /\ StagesHold(j) /\ TypeOK
    BY JobFacts
<1>3. j.s \in SessionIds
    BY <1>1, <1>2, StageClasses DEF StagesHold
<1>4. row \in SessionRow \cup {None} /\ gen \in SessionRow \cup {None} /\ at \in Stages
    BY <1>1, <1>2, <1>3, RowRead, StageClasses DEF TypeOK, Generation
<1>5. row # None => WasRow(j.s, row) /\ j.s \in spent
    BY <1>3, RowRead
<1>6. gen # None => row # None
    BY DEF Generation
<1> DEFINE k == [j EXCEPT !.at = at, !.row = row, !.gen = gen]
<1> HIDE DEF row, gen
<1>7. /\ k \in JobType /\ k.at = at /\ k.s = j.s /\ k.u = j.u /\ k.p = j.p /\ k.ret = j.ret
      /\ k.out = j.out /\ k.gen = gen /\ k.row = row /\ k.prow = j.prow
    BY <1>2, <1>4, ZenonT(60) DEF JobType
<1> HIDE DEF k
<1>8. StagesHold(k)
    BY <1>1, <1>2, <1>3, <1>7 DEF StagesHold, SessionStages, AuthStages, RevokeStages, Resumed,
       UserStages, PairingStages, ConsumeStages
<1>9. RowsHold(k)
    BY <1>1, <1>3, <1>5, <1>6, <1>7 DEF RowsHold, row, gen
<1>10. AccountsHold(k) /\ PairingsHold(k)
    BY <1>1, <1>2, <1>7 DEF AccountsHold, PairingsHold, JobHolds
<1> QED
    BY <1>1, <1>7, <1>8, <1>9, <1>10 DEF Becomes, JobHolds, k

LEMMA IssueBecomes ==
    ASSUME ServiceInv, NEW w \in Workers,
           \/ IssueAccount(w) \/ IssueRecheck(w) \/ \E s \in SessionIds : IssueInsert(w, s)
    PROVE  Becomes(w)
<1> DEFINE j == job[w]
<1>0. JobHolds(j) /\ j \in JobType /\ StagesHold(j) /\ RowsHold(j) /\ TypeOK /\ j.ret \in Returns
    BY JobFacts DEF JobType
<1>1. /\ Follows("issue:account", "issue:clock") /\ Follows("issue:insert", "issue:recheck")
      /\ Follows("issue:recheck", "issue:insert")
      /\ {"issue:clock", "issue:insert", "issue:recheck"} \subseteq Stages
      /\ {"invalid", "ok"} \subseteq Outcomes /\ {"conflict", "unavailable"} \subseteq Outcomes \ {"ok"}
    BY DEF Follows, Stages, SessionStages, AuthStages, RevokeStages, Resumed, UserStages, PairingStages,
       ConsumeStages, Outcomes
<1>2. j.at \in {"issue:account", "issue:insert", "issue:recheck"} => j.ret = "done" /\ j.u \in Users
    BY <1>0, StageClasses DEF StagesHold, UserStages
<1>3. CASE IssueAccount(w)
  <2>1. CASE Return(w, "invalid")
    BY <1>1, <2>1, ReturnBecomes
  <2>2. CASE Become(w, [j EXCEPT !.at = "issue:clock", !.acct = users[j.u]])
    <3> DEFINE a == users[j.u]
               k == [j EXCEPT !.at = "issue:clock", !.acct = a]
    <3>1. j.at = "issue:account" /\ a \in UserRow \cup {None}
      BY <1>0, <1>2, <1>3 DEF IssueAccount, At, TypeOK
    <3>2. job' = [job EXCEPT ![w] = k]
      BY <2>2 DEF Become
    <3> HIDE DEF a
    <3>3. /\ k \in JobType /\ k.at = "issue:clock" /\ k.s = j.s /\ k.u = j.u /\ k.p = j.p
          /\ k.ret = j.ret /\ k.out = j.out /\ k.gen = j.gen /\ k.row = j.row
          /\ k.prow = j.prow
      BY <1>0, <1>1, <3>1, ZenonT(60) DEF JobType
    <3> HIDE DEF k
    <3>4. StagesHold(k) /\ RowsHold(k) /\ AccountsHold(k) /\ PairingsHold(k)
      BY <1>0, <1>1, <3>1, <3>3, StageMoves DEF RowsHold, AccountsHold, JobHolds
    <3> QED
      BY <3>2, <3>3, <3>4 DEF Becomes, JobHolds
  <2> QED
    BY <1>3, <2>1, <2>2 DEF IssueAccount
<1>4. CASE \E s \in SessionIds : IssueInsert(w, s)
  <2>1. j.at = "issue:insert" /\ (Return(w, "ok") \/ Goto(w, "issue:recheck"))
    BY <1>4 DEF IssueInsert, At
  <2>2. j.ret # "azn:session"
    BY <1>2, <2>1
  <2> QED
    BY <1>1, <2>1, <2>2, ReturnBecomes, GotoBecomes
<1>5. CASE IssueRecheck(w)
  <2>1. /\ j.at = "issue:recheck"
        /\ \/ Return(w, "invalid") \/ Return(w, "conflict")
           \/ Retry(w, j, "issue:insert", "unavailable")
    BY <1>5 DEF IssueRecheck, At
  <2>2. "conflict" \in Outcomes
    BY <1>1
  <2> QED
    BY <1>0, <1>1, <2>1, <2>2, ReturnBecomes, RetryBecomes
<1> QED
    BY <1>3, <1>4, <1>5

LEMMA AuthAccountBecomes ==
    ASSUME ServiceInv, NEW w \in Workers, AuthAccount(w)
    PROVE  Becomes(w)
<1> DEFINE j == job[w]
           verdict == SessionVerdict(j.row, j.aud, j.t)
<1>0. JobHolds(j) /\ j \in JobType /\ StagesHold(j) /\ RowsHold(j) /\ TypeOK
    BY JobFacts
<1>1. {"ok", "invalid", "conflict"} \subseteq Outcomes /\ verdict \in {"ok", "invalid", "conflict"}
    BY DEF Outcomes, SessionVerdict
<1>2. ASSUME NEW out \in {"invalid", "conflict"}, Return(w, out)
      PROVE  Becomes(w)
    BY <1>1, <1>2, ReturnBecomes
<1>3. ASSUME verdict = "ok", IsActive(j.row.user),
             Become(w, [j EXCEPT !.at = "auth:touch", !.acct = users[j.row.user]])
      PROVE  Becomes(w)
  <2> DEFINE a == users[j.row.user]
             k == [j EXCEPT !.at = "auth:touch", !.acct = a]
  <2>1. j.row # None /\ j.row \in SessionRow /\ j.row.user \in Users
    BY <1>0, <1>3 DEF SessionVerdict, JobType, SessionRow
  <2>2. a \in UserRow /\ a # None /\ a.active /\ Seen(j.row.user, a)
    BY <1>0, <1>3, <2>1 DEF TypeOK, IsActive, Seen, UserRow
  <2>3. job' = [job EXCEPT ![w] = k] /\ j.at = "auth:account"
    BY <1>3 DEF Become, AuthAccount, At
  <2> HIDE DEF a
  <2>4. /\ k \in JobType /\ k.at = "auth:touch" /\ k.s = j.s /\ k.u = j.u /\ k.p = j.p
        /\ k.ret = j.ret /\ k.out = j.out /\ k.gen = j.gen /\ k.row = j.row /\ k.acct = a
        /\ k.prow = j.prow
    BY <1>0, <2>2, StageClasses, ZenonT(60) DEF JobType
  <2> HIDE DEF k
  <2>5. Follows("auth:account", "auth:touch")
    BY DEF Follows, Stages, SessionStages, AuthStages, RevokeStages, Resumed, UserStages,
       PairingStages, ConsumeStages
  <2>6. StagesHold(k) /\ PairingsHold(k)
    BY <1>0, <2>3, <2>4, <2>5, StageMoves DEF JobHolds
  <2>7. RowsHold(k)
    BY <1>0, <2>4 DEF RowsHold
  <2>8. AccountsHold(k)
    BY <2>1, <2>2, <2>4 DEF AccountsHold
  <2> QED
    BY <2>3, <2>4, <2>6, <2>7, <2>8 DEF Becomes, JobHolds
<1> QED
    BY <1>1, <1>2, <1>3 DEF AuthAccount

LEMMA AuthTouchBecomes ==
    ASSUME ServiceInv, NEW w \in Workers, AuthTouch(w)
    PROVE  Becomes(w)
<1> DEFINE j == job[w]
<1>0. JobHolds(j) /\ StagesHold(j) /\ RowsHold(j) /\ AccountsHold(j)
    BY JobFacts
<1>1. /\ j.at = "auth:touch"
      /\ Return(w, "ok") \/ Return(w, "invalid") \/ Goto(w, "auth:reread")
    BY DEF AuthTouch, At
<1>2. j.row # None /\ j.gen # None
  <2>1. j.row # None /\ j.row \in SessionRow
    BY <1>0, <1>1 DEF AccountsHold, JobHolds, JobType
  <2> QED
    BY <1>0, <2>1, RowGeneration DEF RowsHold
<1>3. {"ok", "invalid"} \subseteq Outcomes /\ Follows("auth:touch", "auth:reread") /\ "auth:reread" \in Stages
    BY DEF Outcomes, Follows, Stages, SessionStages, AuthStages, RevokeStages, Resumed, UserStages,
       PairingStages, ConsumeStages
<1> QED
    BY <1>1, <1>2, <1>3, ReturnBecomes, GotoBecomes

\* A reread row, of a session read before.
LEMMA RereadBecomes ==
    ASSUME ServiceInv, NEW w \in Workers, AuthReread(w) \/ RevReread(w)
    PROVE  Becomes(w)
<1> DEFINE j == job[w]
           row == sessions[j.s]
           k == [j EXCEPT !.row = row]
<1>0. JobHolds(j) /\ j \in JobType /\ StagesHold(j) /\ RowsHold(j) /\ AccountsHold(j) /\ TypeOK
    BY JobFacts
<1>1. PICK at \in {"auth:account", "rev:clock"} :
          /\ Retry(w, k, at, "conflict")
          /\ j.at \in {"auth:reread", "rev:reread"}
          /\ at = "auth:account" <=> j.at = "auth:reread"
    BY DEF AuthReread, RevReread, At
<1>2. j.s \in SessionIds /\ j.gen # None
    BY <1>0, <1>1, StageClasses DEF StagesHold, RowsHold
<1>3. row \in SessionRow \cup {None}
    BY <1>0, <1>2 DEF TypeOK
<1>4. row # None => WasRow(j.s, row) /\ j.gen = Generation(row)
    BY <1>0, <1>2, RowRead DEF RowsHold
<1> HIDE DEF row
<1>5. /\ k \in JobType /\ k.at = j.at /\ k.s = j.s /\ k.u = j.u /\ k.p = j.p
      /\ k.ret = j.ret /\ k.out = j.out /\ k.gen = j.gen /\ k.row = row
      /\ k.prow = j.prow
    BY <1>0, <1>3 DEF JobType
<1> HIDE DEF k
<1>6. StagesHold(k)
  <2>1. k.at \notin ConsumeStages /\ k.at # "azn:session"
    BY <1>1, <1>5 DEF ConsumeStages
  <2> QED
    BY <1>0, <1>5, <2>1 DEF StagesHold
<1>7. RowsHold(k)
    BY <1>0, <1>1, <1>4, <1>5 DEF RowsHold
<1>8. AccountsHold(k) /\ PairingsHold(k)
    BY <1>0, <1>1, <1>5 DEF AccountsHold, PairingsHold, JobHolds
<1>9. /\ Follows("auth:reread", "auth:account") /\ Follows("rev:reread", "rev:clock")
      /\ "conflict" \in Outcomes \ {"ok"} /\ {"auth:account", "rev:clock"} \subseteq Stages
    BY DEF Outcomes, Follows, Stages, SessionStages, AuthStages, RevokeStages, Resumed, UserStages,
       PairingStages, ConsumeStages
<1> QED
    BY <1>1, <1>5, <1>6, <1>7, <1>8, <1>9, RetryBecomes DEF JobHolds

LEMMA RevokeBecomes ==
    ASSUME ServiceInv, NEW w \in Workers,
           RevClock(w) \/ RevSave(w) \/ RevAllUpdate(w)
    PROVE  Becomes(w)
<1> DEFINE j == job[w]
<1>0. JobHolds(j) /\ j \in JobType /\ StagesHold(j) /\ RowsHold(j) /\ ClockHolds
    BY JobFacts
<1>1. /\ {"ok", "false", "conflict"} \subseteq Outcomes
      /\ Follows("rev:clock", "rev:save") /\ Follows("rev:save", "rev:reread")
      /\ {"rev:save", "rev:reread"} \subseteq Stages
      /\ {"rev:save", "rev:reread"} \cap {"auth:touch", "azn:save", "azn:conflict"} = {}
    BY DEF Outcomes, Follows, Stages, SessionStages, AuthStages, RevokeStages, Resumed, UserStages,
       PairingStages, ConsumeStages
<1>2. j.at = "all:update" => j.ret = "done"
    BY <1>0, StageClasses DEF StagesHold
<1>3. CASE RevClock(w)
  <2>1. CASE Return(w, "false")
    BY <1>1, <2>1, ReturnBecomes
  <2>2. CASE /\ ~NothingToRevoke(j.row, j.aud, now)
             /\ Become(w, [j EXCEPT !.at = "rev:save", !.t = Later(now, j.row.last_seen_at)])
    <3>1. j.row # None /\ j.row.last_seen_at \in Time /\ now \in Time
      BY <1>0, <2>2 DEF NothingToRevoke, RowsHold, WasRow, ClockHolds
    <3>2. Later(now, j.row.last_seen_at) \in Time
      BY <3>1 DEF Later
    <3>3. j.gen # None /\ j.at = "rev:clock"
      <4>1. j.row \in SessionRow
        BY <1>0, <3>1 DEF JobType
      <4> QED
        BY <1>0, <1>3, <3>1, <4>1, RowGeneration DEF RowsHold, RevClock, At
    <3> DEFINE t == Later(now, j.row.last_seen_at)
    <3>4. job' = [job EXCEPT ![w] = [job[w] EXCEPT !.at = "rev:save", !.t = t]] /\ t \in Time
      BY <2>2, <3>2 DEF Become
    <3> HIDE DEF t
    <3> QED
      BY <1>1, <3>1, <3>3, <3>4, ReadingBecomes
  <2> QED
    BY <1>3, <2>1, <2>2 DEF RevClock
<1>4. CASE RevSave(w) \/ RevAllUpdate(w)
  <2>1. /\ j.at \in {"rev:save", "all:update"}
        /\ \/ Return(w, "ok") \/ Return(w, "conflict")
           \/ Goto(w, "rev:reread") /\ j.at = "rev:save"
    BY <1>4 DEF RevSave, RevAllUpdate, At
  <2>2. j.at = "rev:save" => j.gen # None
    BY <1>0 DEF RowsHold
  <2>3. j.ret = "azn:session" => j.row # None
    BY <1>0, <1>2, <2>1 DEF RowsHold
  <2> QED
    BY <1>1, <2>1, <2>2, <2>3, ReturnBecomes, GotoBecomes
<1> QED
    BY <1>3, <1>4

-----------------------------------------------------------------------------
(***************************************************************************)
(* The steps of the pairing services and of the boundary.                  *)
(***************************************************************************)

LEMMA CleanBecomes ==
    ASSUME ServiceInv, NEW w \in Workers,
           \/ CleanSessionRows(w) \/ CleanPairingRows(w) \/ \E p \in PairingIds : PairCreate(w, p)
    PROVE  Becomes(w)
<1> DEFINE j == job[w]
<1>0. JobHolds(j) /\ StagesHold(j)
    BY JobFacts
<1>1. /\ Follows("clean:sessions", "clean:pairings") /\ Follows("clean:pairings", "pair:clock")
      /\ Follows("pair:create", "pair:create")
      /\ {"clean:pairings", "pair:clock", "pair:create"} \subseteq Stages
      /\ "ok" \in Outcomes /\ "unavailable" \in Outcomes \ {"ok"}
    BY DEF Outcomes, Follows, Stages, SessionStages, AuthStages, RevokeStages, Resumed, UserStages,
       PairingStages, ConsumeStages
<1>2. CASE CleanSessionRows(w) \/ CleanPairingRows(w)
    BY <1>1, <1>2, GotoBecomes DEF CleanSessionRows, CleanPairingRows, At
<1>3. CASE \E p \in PairingIds : PairCreate(w, p)
  <2>1. j.at = "pair:create" /\ (Return(w, "ok") \/ Retry(w, j, "pair:create", "unavailable"))
    BY <1>3 DEF PairCreate, At
  <2>2. j.ret # "azn:session"
    BY <1>0, <2>1, StageClasses DEF StagesHold
  <2> QED
    BY <1>0, <1>1, <2>1, <2>2, ReturnBecomes, RetryBecomes
<1> QED
    BY <1>2, <1>3

LEMMA ReadPairingBecomes ==
    ASSUME ServiceInv, NEW w \in Workers, AznRead(w) \/ ConRead(w) \/ PrvRead(w)
    PROVE  Becomes(w)
<1> DEFINE j == job[w]
           row == pairings[j.p]
<1>0. JobHolds(j) /\ j \in JobType /\ StagesHold(j) /\ RowsHold(j) /\ TypeOK /\ PairingsValid
    BY JobFacts DEF ServiceInv, StoreHolds
<1>1. "invalid" \in Outcomes
    BY DEF Outcomes
<1>2. ASSUME NEW label \in {"azn:read", "con:read", "prv:read"}, NEW next, ReadPairing(w, label, next),
             next = IF label = "azn:read" THEN "azn:clock"
                    ELSE IF label = "con:read" THEN "con:clock" ELSE "prv:clock"
      PROVE  Becomes(w)
  <2>1. CASE row = None
    BY <1>1, <1>2, <2>1, AnswerBecomes DEF ReadPairing
  <2>2. CASE row # None
    <3> DEFINE k == [j EXCEPT !.at = next, !.prow = row]
    <3>1. j.at = label /\ job' = [job EXCEPT ![w] = k]
      BY <1>2, <2>2 DEF ReadPairing, Become, At
    <3>2. j.p \in PairingIds /\ next \in Stages
      BY <1>0, <1>2, <3>1 DEF StagesHold, PairingStages, ConsumeStages, Stages
    <3>3. row \in PairingRow /\ PairingContract(row)
      BY <1>0, <2>2, <3>2 DEF TypeOK, PairingsValid
    <3> HIDE DEF row
    <3>4. /\ k \in JobType /\ k.at = next /\ k.s = j.s /\ k.u = j.u /\ k.p = j.p /\ k.ret = j.ret
          /\ k.out = j.out /\ k.gen = j.gen /\ k.row = j.row /\ k.prow = row
      BY <1>0, <3>2, <3>3 DEF JobType
    <3> HIDE DEF k
    <3>5. StagesHold(k)
      BY <1>0, <1>2, <3>1, <3>4 DEF StagesHold, SessionStages, AuthStages, RevokeStages, Resumed,
         UserStages, PairingStages, ConsumeStages
    <3>6. RowsHold(k) /\ AccountsHold(k)
      BY <1>0, <1>2, <3>4 DEF RowsHold, AccountsHold
    <3>7. PairingsHold(k)
      BY <1>2, <2>2, <3>3, <3>4 DEF PairingsHold, row
    <3> QED
      BY <3>1, <3>4, <3>5, <3>6, <3>7 DEF Becomes, JobHolds
  <2> QED
    BY <2>1, <2>2
<1> QED
    BY <1>2 DEF AznRead, ConRead, PrvRead

LEMMA CheckPairingBecomes ==
    ASSUME ServiceInv, NEW w \in Workers, AznClock(w) \/ ConClock(w) \/ PrvClock(w)
    PROVE  Becomes(w)
<1> DEFINE j == job[w]
<1>0. now \in Time
    BY JobFacts
<1>1. {"expired", "conflict"} \subseteq Outcomes
    BY DEF Outcomes
<1>2. /\ {"con:account", "azn:account", "prv:save", "pair:expire"} \subseteq Stages
      /\ {"con:account", "azn:account", "prv:save", "pair:expire"} \cap
           {"auth:touch", "auth:reread", "rev:save", "rev:reread", "azn:save", "azn:conflict"} = {}
      /\ Follows("azn:clock", "azn:account") /\ Follows("prv:clock", "prv:save")
      /\ Follows("azn:clock", "pair:expire") /\ Follows("con:clock", "pair:expire")
      /\ Follows("prv:clock", "pair:expire")
    BY DEF Follows, Stages, SessionStages, AuthStages, RevokeStages, Resumed, UserStages, PairingStages,
       ConsumeStages
<1>3. ASSUME NEW label \in {"azn:clock", "con:clock", "prv:clock"}, NEW wanted, NEW next,
             CheckPairing(w, label, wanted, next),
             next = IF label = "azn:clock" THEN "azn:account"
                    ELSE IF label = "con:clock" THEN "con:account" ELSE "prv:save",
             label = "con:clock" => wanted = {"authorized"}
      PROVE  Becomes(w)
  <2> DEFINE verdict == PairingVerdict(j.prow, wanted, now)
  <2>1. verdict \in {"expired", "conflict", "late", "ok"}
    BY DEF PairingVerdict
  <2>2. verdict = "ok" /\ label = "con:clock" => j.prow.status = "authorized"
    BY <1>3 DEF PairingVerdict
  <2>3. j.at = label
    BY <1>3 DEF CheckPairing, At
  <2>4. CASE verdict = "ok"
    <3>1. job' = [job EXCEPT ![w] = [job[w] EXCEPT !.at = next, !.t = now]]
      BY <1>3, <2>4 DEF CheckPairing, Become
    <3>2. next \in Stages /\ \/ Follows(j.at, next)
                             \/ j.at = "con:clock" /\ next = "con:account" /\ j.prow.status = "authorized"
      BY <1>2, <1>3, <2>2, <2>3, <2>4
    <3>3. next \notin {"auth:touch", "auth:reread", "rev:save", "rev:reread", "azn:save", "azn:conflict"}
      BY <1>3
    <3> QED
      BY <1>0, <3>1, <3>2, <3>3, ReadingBecomes
  <2>5. CASE verdict = "late"
    <3>1. job' = [job EXCEPT ![w] = [job[w] EXCEPT !.at = "pair:expire", !.t = now]]
      BY <1>3, <2>5 DEF CheckPairing, Become
    <3>2. "pair:expire" \in Stages /\ Follows(j.at, "pair:expire")
      BY <1>2, <1>3, <2>3
    <3> QED
      BY <1>0, <3>1, <3>2, ReadingBecomes
  <2>6. CASE verdict \in {"expired", "conflict"}
    <3>1. Answer(w, verdict)
      BY <1>3, <2>6 DEF CheckPairing
    <3> HIDE DEF verdict
    <3> QED
      BY <1>1, <2>6, <3>1, AnswerBecomes
  <2> QED
    BY <2>1, <2>4, <2>5, <2>6
<1> QED
    BY <1>3 DEF AznClock, ConClock, PrvClock

LEMMA ReadStudentBecomes ==
    ASSUME ServiceInv, NEW w \in Workers, AznAccount(w) \/ ConAccount(w)
    PROVE  Becomes(w)
<1> DEFINE j == job[w]
<1>0. JobHolds(j) /\ j \in JobType /\ StagesHold(j) /\ RowsHold(j) /\ PairingsHold(j) /\ TypeOK
    BY JobFacts
<1>1. PICK u, next :
          /\ ReadStudent(w, j.at, u, next)
          /\ \/ j.at = "azn:account" /\ u = j.u /\ next = "azn:save"
             \/ j.at = "con:account" /\ u = j.prow.user /\ next = "con:save"
    BY DEF AznAccount, ConAccount, ReadStudent, At
<1>2. "invalid" \in Outcomes
    BY DEF Outcomes
<1>3. u \in Users
  <2>1. CASE j.at = "azn:account"
    BY <1>0, <1>1, <2>1 DEF StagesHold, UserStages
  <2>2. CASE j.at = "con:account"
    <3>1. j.prow # None /\ PairingContract(j.prow) /\ j.prow.status = "authorized" /\ j.prow \in PairingRow
      BY <1>0, <2>2 DEF PairingsHold, JobType
    <3>2. j.prow.user # None
      BY <3>1 DEF PairingContract
    <3> QED
      BY <1>1, <2>2, <3>1, <3>2 DEF PairingRow
  <2> QED
    BY <1>1, <2>1, <2>2
<1>4. CASE Answer(w, "invalid")
    BY <1>2, <1>4, AnswerBecomes
<1>5. CASE IsActive(u) /\ users[u].role = "student" /\ Become(w, [j EXCEPT !.at = next, !.acct = users[u]])
  <2> DEFINE a == users[u]
             k == [j EXCEPT !.at = next, !.acct = a]
  <2>1. job' = [job EXCEPT ![w] = k]
    BY <1>5 DEF Become
  <2>2. a \in UserRow /\ a.active /\ a.role = "student" /\ Seen(u, a)
    BY <1>0, <1>3, <1>5 DEF TypeOK, IsActive, Seen, UserRow
  <2> HIDE DEF a
  <2>3. next \in Stages
    BY <1>1 DEF Stages, UserStages, PairingStages, ConsumeStages
  <2>4. /\ k \in JobType /\ k.at = next /\ k.s = j.s /\ k.u = j.u /\ k.p = j.p /\ k.ret = j.ret
        /\ k.out = j.out /\ k.gen = j.gen /\ k.row = j.row /\ k.prow = j.prow /\ k.acct = a
    BY <1>0, <2>2, <2>3, ZenonT(60) DEF JobType
  <2> HIDE DEF k
  <2>5. Follows(j.at, next)
    BY <1>1 DEF Follows, Stages, SessionStages, AuthStages, RevokeStages, Resumed, UserStages,
       PairingStages, ConsumeStages
  <2>6. StagesHold(k) /\ PairingsHold(k)
    BY <1>0, <2>4, <2>5, StageMoves
  <2>7. RowsHold(k)
    BY <1>0, <1>1, <2>4 DEF RowsHold
  <2>8. AccountsHold(k)
    BY <1>1, <2>2, <2>4 DEF AccountsHold
  <2> QED
    BY <2>1, <2>4, <2>6, <2>7, <2>8 DEF Becomes, JobHolds
<1> QED
    BY <1>1, <1>4, <1>5 DEF ReadStudent

\* The steps that end a call, or change nothing but its stage.
LEMMA SimpleBecomes ==
    ASSUME ServiceInv, NEW w \in Workers,
           \/ PairExpire(w) \/ AznConflict(w) \/ PrvSave(w) \/ PrvConflict(w) \/ AznSave(w)
           \/ ConVerify(w) \/ ConFailed(w) \/ BearClock(w) \/ BearStatus(w)
    PROVE  Becomes(w)
<1> DEFINE j == job[w]
<1>1. {"ok", "expired", "invalid", "conflict", "unavailable", "denied"} \subseteq Outcomes
    BY DEF Outcomes
<1>2. /\ {"azn:conflict", "prv:conflict", "con:deliver", "con:discard", "bear:status"} \subseteq Stages
      /\ Follows("azn:save", "azn:conflict") /\ Follows("prv:save", "prv:conflict")
      /\ Follows("con:verify", "con:deliver") /\ Follows("con:verify", "con:discard")
      /\ Follows("bear:clock", "bear:status")
    BY DEF Follows, Stages, SessionStages, AuthStages, RevokeStages, Resumed, UserStages, PairingStages,
       ConsumeStages
<1>3. ASSUME NEW out \in {"ok", "expired", "invalid", "conflict", "unavailable", "denied"}, Answer(w, out)
      PROVE  Becomes(w)
    BY <1>1, <1>3, AnswerBecomes
<1>4. CASE PairExpire(w) \/ AznConflict(w) \/ PrvConflict(w) \/ ConFailed(w)
    BY <1>3, <1>4 DEF PairExpire, AznConflict, PrvConflict, SaveConflict, ConFailed
<1>5. CASE PrvSave(w) \/ AznSave(w)
    BY <1>2, <1>3, <1>5, GotoBecomes DEF PrvSave, AznSave, At
<1>6. CASE ConVerify(w)
    BY <1>2, <1>6, GotoBecomes DEF ConVerify, At
<1>7. CASE BearClock(w)
    BY <1>2, <1>3, <1>7, GotoBecomes DEF BearClock, At
<1>8. CASE BearStatus(w)
    BY <1>3, <1>8 DEF BearStatus
<1> QED
    BY <1>4, <1>5, <1>6, <1>7, <1>8

LEMMA AznSessionBecomes ==
    ASSUME ServiceInv, NEW w \in Workers, AznSession(w)
    PROVE  Becomes(w)
<1> DEFINE j == job[w]
<1>0. JobHolds(j) /\ j \in JobType /\ StagesHold(j)
    BY JobFacts
<1>1. "denied" \in Outcomes
    BY DEF Outcomes
<1>2. CASE j.out = "ok" /\ j.acct.role = "student"
  <2> DEFINE u == j.row.user
             k == [NoJob EXCEPT !.op = j.op, !.at = "azn:read", !.p = j.p, !.u = u]
  <2>1. job' = [job EXCEPT ![w] = k] /\ j.at = "azn:session"
    BY <1>2 DEF AznSession, Become, At
  <2>2. u \in Users
    BY <1>0, <1>2, <2>1 DEF StagesHold, JobType, SessionRow
  <2>3. 0 \in Time /\ "azn:read" \in Stages /\ "done" \in Returns /\ j.op \in Calls
        /\ j.p \in PairingIds \cup {None}
    BY <1>0, TTLAssumption DEF Time, Stages, UserStages, Returns, JobType
  <2> HIDE DEF u
  <2>4. /\ k \in JobType /\ k.out = None /\ k.gen = None /\ k.row = None /\ k.prow = None
        /\ k.at = "azn:read" /\ k.ret = "done" /\ k.u = u /\ k.p = j.p
    BY <2>2, <2>3 DEF NoJob, JobType
  <2> HIDE DEF k
  <2>6. j.p \in PairingIds
    BY <1>0, <2>1 DEF StagesHold
  <2>7. "azn:read" \notin SessionStages
    BY StageClasses
  <2>8. JobHolds(k)
    BY <2>2, <2>4, <2>6, <2>7, StageClasses, FreshHolds
  <2> QED
    BY <2>1, <2>8 DEF Becomes
<1>3. CASE ~(j.out = "ok" /\ j.acct.role = "student")
  <2> DEFINE out == IF j.out = "ok" THEN "denied" ELSE j.out
  <2>1. Answer(w, out)
    BY <1>3 DEF AznSession
  <2>2. j.at = "azn:session"
    BY DEF AznSession, At
  <2>3. out \in Outcomes
    BY <1>0, <1>1, <2>2 DEF StagesHold, JobType, Resumed
  <2> HIDE DEF out
  <2> QED
    BY <2>1, <2>3, AnswerBecomes
<1> QED
    BY <1>2, <1>3

\* A session call within a call of the boundary.
LEMMA WithinBecomes ==
    ASSUME ServiceInv, NEW w \in Workers, NEW j \in JobType, RowsHold(j), PairingsHold(j),
           NEW at \in {"auth:read", "rev:read"}, NEW ret \in {"con:verify", "con:failed"},
           CallWithin(w, j, at, ret, "tui"), j.s \in SessionIds, j.p \in PairingIds,
           at = "auth:read" => j.out = None
    PROVE  Becomes(w)
<1> DEFINE k == [j EXCEPT !.at = at, !.ret = ret, !.aud = "tui", !.tries = 0]
<1>1. job' = [job EXCEPT ![w] = k]
    BY DEF CallWithin, Become
<1>2. at \in Stages /\ ret \in Returns
    BY StageClasses DEF Returns
<1>3. /\ k \in JobType /\ k.at = at /\ k.s = j.s /\ k.u = j.u /\ k.p = j.p /\ k.ret = ret
      /\ k.out = j.out /\ k.gen = j.gen /\ k.row = j.row /\ k.prow = j.prow
    BY <1>2 DEF JobType
<1> HIDE DEF k
<1>4. StagesHold(k)
    BY <1>3 DEF StagesHold, SessionStages, AuthStages, RevokeStages, Resumed,
       UserStages, PairingStages, ConsumeStages
<1>5. RowsHold(k) /\ AccountsHold(k) /\ PairingsHold(k)
    BY <1>3 DEF RowsHold, AccountsHold, PairingsHold
<1> QED
    BY <1>1, <1>3, <1>4, <1>5 DEF Becomes, JobHolds

LEMMA ConSaveBecomes ==
    ASSUME ServiceInv, NEW w \in Workers, \E s \in SessionIds : ConSave(w, s)
    PROVE  Becomes(w)
<1> DEFINE j == job[w]
<1>0. JobHolds(j) /\ j \in JobType /\ StagesHold(j) /\ RowsHold(j) /\ PairingsHold(j)
    BY JobFacts
<1>1. PICK s \in SessionIds :
          /\ j.at = "con:save"
          /\ \/ CallWithin(w, [j EXCEPT !.s = s, !.acct = None], "auth:read", "con:verify", "tui")
             \/ Answer(w, "expired") \/ Answer(w, "conflict") \/ Goto(w, "con:recheck")
    BY DEF ConSave, At
<1>2. /\ {"expired", "conflict"} \subseteq Outcomes /\ "con:recheck" \in Stages
      /\ Follows("con:save", "con:recheck")
    BY DEF Outcomes, Follows, Stages, SessionStages, AuthStages, RevokeStages, Resumed, UserStages,
       PairingStages, ConsumeStages
<1>3. CASE CallWithin(w, [j EXCEPT !.s = s, !.acct = None], "auth:read", "con:verify", "tui")
  <2> DEFINE k == [j EXCEPT !.s = s, !.acct = None]
  <2>1. /\ k \in JobType /\ k.s = s /\ k.p = j.p /\ k.out = j.out /\ k.gen = j.gen /\ k.row = j.row
        /\ k.prow = j.prow /\ k.at = j.at
    BY <1>0 DEF JobType
  <2>2. j.gen = None /\ j.row = None /\ j.out = None /\ j.p \in PairingIds
    BY <1>0, <1>1 DEF StagesHold, SessionStages, AuthStages, RevokeStages, Resumed, UserStages,
       PairingStages, ConsumeStages
  <2>3. CallWithin(w, k, "auth:read", "con:verify", "tui")
    BY <1>3
  <2> HIDE DEF k
  <2>4. RowsHold(k) /\ PairingsHold(k)
    BY <1>0, <1>1, <2>1, <2>2 DEF RowsHold, PairingsHold
  <2> QED
    BY <2>1, <2>2, <2>3, <2>4, WithinBecomes
<1> QED
    BY <1>1, <1>2, <1>3, AnswerBecomes, GotoBecomes

LEMMA ConRecheckBecomes ==
    ASSUME ServiceInv, NEW w \in Workers, ConRecheck(w)
    PROVE  Becomes(w)
<1> DEFINE j == job[w]
<1>0. JobHolds(j)
    BY JobFacts
<1>1. /\ j.at = "con:recheck"
      /\ \/ Answer(w, "expired") \/ Answer(w, "conflict") \/ Answer(w, "invalid")
         \/ Retry(w, j, "con:save", "unavailable")
    BY DEF ConRecheck, At
<1>2. /\ {"expired", "conflict", "invalid"} \subseteq Outcomes /\ "con:save" \in Stages
      /\ "unavailable" \in Outcomes \ {"ok"}
      /\ Follows("con:recheck", "con:save")
    BY DEF Outcomes, Follows, Stages, SessionStages, AuthStages, RevokeStages, Resumed, UserStages,
       PairingStages, ConsumeStages
<1> QED
    BY <1>0, <1>1, <1>2, AnswerBecomes, RetryBecomes

LEMMA ConDiscardBecomes ==
    ASSUME ServiceInv, NEW w \in Workers, ConDiscard(w) \/ ConDeliver(w)
    PROVE  Becomes(w)
<1> DEFINE j == job[w]
<1>0. JobHolds(j) /\ j \in JobType /\ StagesHold(j) /\ RowsHold(j) /\ PairingsHold(j)
    BY JobFacts
<1>1. /\ j.at \in {"con:discard", "con:deliver"}
      /\ \/ Answer(w, "ok") \/ CallWithin(w, j, "rev:read", "con:failed", "tui")
         \/ Goto(w, "con:failed")
    BY DEF ConDiscard, ConDeliver, At
<1>2. /\ "ok" \in Outcomes /\ "con:failed" \in Stages
      /\ Follows("con:discard", "con:failed") /\ Follows("con:deliver", "con:failed")
    BY DEF Outcomes, Follows, Stages, SessionStages, AuthStages, RevokeStages, Resumed, UserStages,
       PairingStages, ConsumeStages
<1>3. j.s \in SessionIds /\ j.p \in PairingIds
    BY <1>0, <1>1 DEF StagesHold, SessionStages, Resumed
<1> QED
    BY <1>0, <1>1, <1>2, <1>3, AnswerBecomes, GotoBecomes, WithinBecomes

LEMMA BearSnapshotBecomes ==
    ASSUME ServiceInv, NEW w \in Workers, BearSnapshot(w)
    PROVE  Becomes(w)
<1> DEFINE j == job[w]
           row == sessions[j.s]
<1>0. JobHolds(j) /\ j \in JobType /\ StagesHold(j) /\ RowsHold(j) /\ TypeOK
    BY JobFacts
<1>1. /\ {"invalid", "unavailable"} \subseteq Outcomes /\ {"bear:clock", "bear:status"} \subseteq Stages
      /\ Follows("bear:snapshot", "bear:status") /\ Follows("bear:snapshot", "bear:clock")
    BY DEF Outcomes, Follows, Stages, SessionStages, AuthStages, RevokeStages, Resumed, UserStages,
       PairingStages, ConsumeStages
<1>2. j.at = "bear:snapshot"
    BY DEF BearSnapshot, At
<1>3. CASE Answer(w, "invalid") \/ Answer(w, "unavailable") \/ Goto(w, "bear:status")
    BY <1>1, <1>2, <1>3, AnswerBecomes, GotoBecomes
<1>4. CASE Generation(row) = j.gen /\ Become(w, [j EXCEPT !.at = "bear:clock", !.row = row])
  <2> DEFINE k == [j EXCEPT !.at = "bear:clock", !.row = row]
  <2>1. job' = [job EXCEPT ![w] = k]
    BY <1>4 DEF Become
  <2>2. j.s \in SessionIds
    BY <1>0, <1>2 DEF StagesHold, SessionStages, Resumed
  <2>3. row \in SessionRow \cup {None} /\ (row # None => WasRow(j.s, row))
    BY <1>0, <2>2, RowRead DEF TypeOK
  <2>4. row # None => j.gen = Generation(row)
    BY <1>4
  <2> HIDE DEF row
  <2>5. /\ k \in JobType /\ k.at = "bear:clock" /\ k.s = j.s /\ k.u = j.u /\ k.p = j.p
        /\ k.ret = j.ret /\ k.out = j.out /\ k.gen = j.gen /\ k.row = row /\ k.prow = j.prow
    BY <1>0, <1>1, <2>3, ZenonT(60) DEF JobType
  <2> HIDE DEF k
  <2>6. StagesHold(k)
    BY <1>0, <1>2, <2>5 DEF StagesHold, SessionStages, AuthStages, RevokeStages, Resumed, UserStages,
       PairingStages, ConsumeStages
  <2>7. RowsHold(k)
    BY <1>0, <2>3, <2>4, <2>5 DEF RowsHold
  <2>8. AccountsHold(k) /\ PairingsHold(k)
    BY <1>0, <1>2, <2>5 DEF AccountsHold, PairingsHold, JobHolds
  <2> QED
    BY <2>1, <2>5, <2>6, <2>7, <2>8 DEF Becomes, JobHolds
<1> QED
    BY <1>3, <1>4 DEF BearSnapshot

\* Every step of a worker leaves it with a call that holds of the tables as
\* they were before the step.
LEMMA WorkerBecomes ==
    ASSUME ServiceInv, NEW w \in Workers, WorkerStep(w)
    PROVE  Becomes(w)
<1>1. CASE SessionCalls(w)
  <2>1. CASE Issue(w)
    BY <2>1, CallBecomes, IssueBecomes, ReadClockBecomes DEF Issue
  <2>2. CASE Authenticate(w)
    BY <2>2, CallBecomes, ReadBecomes, ReadClockBecomes, AuthAccountBecomes, AuthTouchBecomes,
       RereadBecomes DEF Authenticate
  <2>3. CASE Revoke(w)
    BY <2>3, CallBecomes, ReadBecomes, RevokeBecomes, RereadBecomes DEF Revoke
  <2>4. CASE RevokeAll(w)
    BY <2>4, CallBecomes, ReadClockBecomes, RevokeBecomes DEF RevokeAll
  <2> QED
    BY <1>1, <2>1, <2>2, <2>3, <2>4 DEF SessionCalls
<1>2. CASE PairingCalls(w)
  <2>1. CASE BeginPairing(w) \/ PairExpire(w)
    BY <2>1, CallBecomes, ReadClockBecomes, CleanBecomes, SimpleBecomes DEF BeginPairing
  <2>2. CASE Authorize(w)
    BY <2>2, CallBecomes, AznSessionBecomes, ReadPairingBecomes, CheckPairingBecomes,
       ReadStudentBecomes, SimpleBecomes DEF Authorize
  <2>3. CASE Consume(w)
    BY <2>3, CallBecomes, ReadPairingBecomes, CheckPairingBecomes, ReadStudentBecomes, ConSaveBecomes,
       ConRecheckBecomes, ConDiscardBecomes, SimpleBecomes DEF Consume
  <2>4. CASE Bearer(w)
    BY <2>4, CallBecomes, BearSnapshotBecomes, SimpleBecomes DEF Bearer
  <2>5. CASE RevokePairingCall(w)
    BY <2>5, CallBecomes, ReadPairingBecomes, CheckPairingBecomes, SimpleBecomes DEF RevokePairingCall
  <2> QED
    BY <1>2, <2>1, <2>2, <2>3, <2>4, <2>5 DEF PairingCalls
<1>3. CASE Finish(w)
    BY <1>3, FinishBecomes
<1> QED
    BY <1>1, <1>2, <1>3 DEF WorkerStep

-----------------------------------------------------------------------------
(***************************************************************************)
(* What a step does to the tables: it is a transaction of the store.       *)
(***************************************************************************)

Transaction == SessionStep \/ PairingStep

\* No session is inserted; what is used is used by a worker, now.
NoInsertion ==
    /\ Transaction
    /\ UNCHANGED <<users, fence, issuedUnder>>
    /\ \A s \in SessionIds :
          /\ sessions[s] = None => sessions'[s] = None
          /\ sessions'[s] # None =>
                \/ sessions'[s].last_seen_at = sessions[s].last_seen_at
                \/ \E w \in Workers : sessions'[s].last_seen_at = Later(job[w].t, now)

\* One is, with an id that no other session had, at the instant a worker has
\* read.
Insertion ==
    /\ Transaction
    /\ UNCHANGED <<users, fence>>
    /\ \E s \in SessionIds, u \in Users, t \in Time, p \in PairingIds \cup {None} :
          /\ \E w \in Workers : t = job[w].t
          /\ sessions[s] = None /\ users[u] # None
          /\ s \notin spent /\ spent' = spent \cup {s}
          /\ InsertSession(s, NewSession(u, t, p))

AccountChange ==
    \E u \in Users, role \in Roles :
        SaveActiveUser(u, role, now) \/ SaveInactiveUser(u, role, now)

StoreMoves ==
    /\ now' \in Time
    /\ \/ spent \subseteq spent' /\ (UNCHANGED storeVars \/ NoInsertion)
       \/ spent' = spent /\ AccountChange
       \/ Insertion

LEMMA LaterTime ==
    ASSUME NEW t \in Time, NEW u \in Time
    PROVE  Later(t, u) \in Time /\ t <= Later(t, u)
<1>1. t \in Nat /\ u \in Nat
    BY TimeIsNat
<1> QED
    BY <1>1 DEF Later

LEMMA EnvironmentMoves ==
    ASSUME ServiceInv, Environment
    PROVE  StoreMoves /\ UNCHANGED job
<1>0. now \in Time /\ TypeOK /\ ClockHolds
    BY DEF ServiceInv, StoreHolds, Inv, ClockHolds
<1>1. CASE Tick \/ StepBack
    BY <1>0, <1>1, TTLAssumption DEF Tick, StepBack, StoreMoves, Time
<1>2. CASE AdminSaves
    BY <1>0, <1>2, ServiceAssumption DEF AdminSaves, StoreMoves, AccountChange
<1>3. CASE CleanSessions
  <2>1. SessionStep
    BY <1>0, <1>3 DEF CleanSessions, SessionStep
  <2>2. \A s \in SessionIds : sessions'[s] = None \/ sessions'[s] = sessions[s]
    BY <1>3 DEF CleanSessions, DeleteExpiredSessions
  <2> QED
    BY <1>0, <1>3, <2>1, <2>2 DEF CleanSessions, DeleteExpiredSessions, StoreMoves, NoInsertion,
       Transaction, ClockHolds
<1> QED
    BY <1>1, <1>2, <1>3 DEF Environment

LEMMA IssueMoves ==
    ASSUME ServiceInv, NEW w \in Workers, NEW s \in SessionIds, IssueInsert(w, s)
    PROVE  StoreMoves
<1> DEFINE j == job[w]
<1>0. now \in Time /\ StagesHold(j) /\ TypeOK /\ j \in JobType /\ ClockHolds
    BY JobFacts
<1>1. now' = now /\ spent' = spent \cup {s} /\ Generates(s) /\ j.at = "issue:insert"
    BY DEF IssueInsert, At
<1>2. j.u \in Users /\ j.t \in Time
    BY <1>0, <1>1 DEF StagesHold, UserStages, JobType
<1>3. CASE UNCHANGED storeVars
    BY <1>0, <1>1, <1>3 DEF StoreMoves
<1>4. CASE CreateSession(s, j.u, j.acct.updated_at, j.t)
  <2>1. CreateSession(s, j.u, users[j.u].updated_at, j.t) /\ IsActive(j.u)
    BY <1>4 DEF CreateSession, CanInsertSession
  <2>2. SessionStep
    BY <1>2, <2>1 DEF SessionStep
  <2>3. Insertion
    BY <1>1, <1>2, <2>1, <2>2 DEF Insertion, CreateSession, CanInsertSession, IsActive, Generates,
       Transaction
  <2> QED
    BY <1>0, <1>1, <2>3 DEF StoreMoves
<1> QED
    BY <1>3, <1>4 DEF IssueInsert

LEMMA TouchMoves ==
    ASSUME ServiceInv, NEW w \in Workers, AuthTouch(w)
    PROVE  StoreMoves
<1> DEFINE j == job[w]
           t == Later(j.t, now)
<1>0. /\ now \in Time /\ StagesHold(j) /\ RowsHold(j) /\ AccountsHold(j) /\ TypeOK /\ j \in JobType
      /\ ClockHolds
    BY JobFacts
<1>1. now' = now /\ spent' = spent /\ j.at = "auth:touch"
    BY DEF AuthTouch, At
<1>2. j.s \in SessionIds /\ t \in Time
    BY <1>0, <1>1, LaterTime, StageClasses DEF StagesHold, JobType
<1>2a. t = Later(job[w].t, now)
    OBVIOUS
<1> HIDE DEF t
<1>3. CASE UNCHANGED storeVars
    BY <1>0, <1>1, <1>3 DEF StoreMoves
<1>4. CASE TouchSession(j.s, j.row, j.acct.updated_at, t)
  <2> DEFINE row == sessions[j.s]
             rev == users[row.user].updated_at
  <2>1. row # None /\ row.user = j.row.user /\ j.acct.updated_at = rev /\ IsActive(row.user)
    BY <1>4 DEF TouchSession, CanTouch, SameGeneration
  <2>2. CanTouch(j.s, row, rev, t)
    BY <1>4, <2>1 DEF TouchSession, CanTouch, SameGeneration
  <2>3. sessions' = [sessions EXCEPT ![j.s].last_seen_at = t]
        /\ UNCHANGED <<users, pairings, fence, issuedUnder>>
    BY <1>4 DEF TouchSession
  <2>4. TouchSession(j.s, row, rev, t)
    BY <2>2, <2>3 DEF TouchSession
  <2>5. SessionStep
    BY <1>2, <2>1, <2>4 DEF SessionStep
  <2>6. \A s \in SessionIds : s # j.s => sessions'[s] = sessions[s]
    BY <1>0, <1>2, <2>3 DEF TypeOK
  <2>7. sessions'[j.s] = [row EXCEPT !.last_seen_at = t]
    BY <1>0, <1>2, <2>3 DEF TypeOK
  <2>8. row \in SessionRow
    BY <1>0, <1>2, <2>1 DEF TypeOK
  <2>9. sessions'[j.s].last_seen_at = t
    BY <2>7, <2>8 DEF SessionRow
  <2>10. NoInsertion
    BY <1>2, <1>2a, <2>1, <2>3, <2>5, <2>6, <2>9 DEF NoInsertion, Transaction
  <2> QED
    BY <1>0, <1>1, <2>10 DEF StoreMoves
<1> QED
    BY <1>3, <1>4 DEF AuthTouch, t

LEMMA RevSaveMoves ==
    ASSUME ServiceInv, NEW w \in Workers, RevSave(w)
    PROVE  StoreMoves
<1> DEFINE j == job[w]
           row == sessions[j.s]
<1>0. /\ now \in Time /\ StagesHold(j) /\ RowsHold(j) /\ TypeOK /\ j \in JobType
      /\ ClockHolds
    BY JobFacts
<1>1. now' = now /\ spent' = spent /\ j.at = "rev:save"
    BY DEF RevSave, At
<1>2. j.s \in SessionIds /\ j.t \in Time
    BY <1>0, <1>1, StageClasses DEF StagesHold, JobType
<1>3. CASE UNCHANGED storeVars
    BY <1>0, <1>1, <1>3 DEF StoreMoves
<1>4. CASE RevokeSession(j.s, j.row, j.t)
  <2>1. row # None /\ SameGeneration(row, j.row)
    BY <1>4 DEF RevokeSession, CanRevoke, SameGeneration
  <2>2. row \in SessionRow /\ j.row.last_seen_at <= row.last_seen_at /\ j.row.last_seen_at \in Nat
        /\ row.last_seen_at \in Nat
    BY <1>0, <1>1, <1>2, <2>1, TimeIsNat DEF RowsHold, WasRow, TypeOK, SessionRow
  <2>3. Later(row.last_seen_at, j.row.last_seen_at) = Later(row.last_seen_at, row.last_seen_at)
        /\ Later(row.last_seen_at, row.last_seen_at) = row.last_seen_at
    BY <2>2 DEF Later
  <2>4. CanRevoke(j.s, row, j.t)
    BY <1>4, <2>1, <2>2 DEF RevokeSession, CanRevoke, SameGeneration
  <2>5. RevokeSession(j.s, row, j.t)
    BY <1>4, <2>3, <2>4 DEF RevokeSession
  <2>6. SessionStep
    BY <1>2, <2>5 DEF SessionStep
  <2>7. sessions' = [sessions EXCEPT ![j.s].last_seen_at = row.last_seen_at, ![j.s].revoked_at = j.t]
        /\ UNCHANGED <<users, pairings, fence, issuedUnder>>
    BY <2>3, <2>5 DEF RevokeSession
  <2>8. \A s \in SessionIds : s # j.s => sessions'[s] = sessions[s]
    BY <1>0, <1>2, <2>7 DEF TypeOK
  <2>9. sessions'[j.s] = [row EXCEPT !.last_seen_at = row.last_seen_at, !.revoked_at = j.t]
    BY <1>0, <1>2, <2>7 DEF TypeOK
  <2>10. sessions'[j.s].last_seen_at = row.last_seen_at
    BY <2>2, <2>9 DEF SessionRow
  <2>11. NoInsertion
    BY <1>0, <1>2, <2>1, <2>6, <2>7, <2>8, <2>10 DEF NoInsertion, Transaction, ClockHolds
  <2> QED
    BY <1>0, <1>1, <2>11 DEF StoreMoves
<1> QED
    BY <1>3, <1>4 DEF RevSave

LEMMA BulkMoves ==
    ASSUME ServiceInv, NEW w \in Workers, RevAllUpdate(w) \/ CleanSessionRows(w)
    PROVE  StoreMoves
<1> DEFINE j == job[w]
<1>0. /\ now \in Time /\ StagesHold(j) /\ TypeOK /\ j \in JobType
      /\ ClockHolds
    BY JobFacts
<1>1. now' = now /\ spent' = spent /\ j.t \in Time
    BY <1>0 DEF RevAllUpdate, CleanSessionRows, JobType
<1>2. CASE UNCHANGED storeVars
    BY <1>0, <1>1, <1>2 DEF StoreMoves
<1>3. CASE j.at = "all:update" /\ RevokeUserSessions(j.u, j.t, j.aud)
  <2>1. j.u \in Users /\ j.aud \in {"web", "tui"}
    BY <1>0, <1>3 DEF StagesHold, UserStages, JobType
  <2>2. SessionStep
    BY <1>1, <1>3, <2>1 DEF SessionStep
  <2>3. /\ UNCHANGED <<users, fence, issuedUnder>>
        /\ \A s \in SessionIds :
              sessions'[s] = IF LiveAt(s, j.u, j.t) /\ Audience(sessions[s]) = j.aud
                             THEN [sessions[s] EXCEPT !.revoked_at = j.t] ELSE sessions[s]
    BY <1>3 DEF RevokeUserSessions
  <2>4. ASSUME NEW s \in SessionIds
        PROVE  /\ sessions[s] = None => sessions'[s] = None
               /\ sessions'[s].last_seen_at = sessions[s].last_seen_at
    <3>1. CASE LiveAt(s, j.u, j.t)
      <4>1. sessions[s] \in SessionRow /\ sessions[s] # None
        BY <1>0, <3>1 DEF LiveAt, OpenSession, TypeOK
      <4>2. [sessions[s] EXCEPT !.revoked_at = j.t].last_seen_at = sessions[s].last_seen_at
        BY <4>1 DEF SessionRow
      <4> QED
        BY <2>3, <4>1, <4>2
    <3>2. CASE ~LiveAt(s, j.u, j.t)
      BY <2>3, <3>2
    <3> QED
      BY <3>1, <3>2
  <2>5. NoInsertion
    BY <2>2, <2>3, <2>4 DEF NoInsertion, Transaction
  <2> QED
    BY <1>0, <1>1, <2>5 DEF StoreMoves
<1>4. CASE DeleteExpiredSessions(j.t)
  <2>1. SessionStep
    BY <1>1, <1>4 DEF SessionStep
  <2>2. \A s \in SessionIds : sessions'[s] = None \/ sessions'[s] = sessions[s]
    BY <1>4 DEF DeleteExpiredSessions
  <2>3. NoInsertion
    BY <1>0, <1>4, <2>1, <2>2 DEF DeleteExpiredSessions, NoInsertion, Transaction, ClockHolds
  <2> QED
    BY <1>0, <1>1, <2>3 DEF StoreMoves
<1> QED
    BY <1>2, <1>3, <1>4 DEF RevAllUpdate, CleanSessionRows, At

\* A transaction on the pairings alone.
LEMMA PairingOnlyMoves ==
    ASSUME ServiceInv, now' = now, spent \subseteq spent', PairingStep, UNCHANGED <<users, sessions, fence, issuedUnder>>
    PROVE  StoreMoves
<1>1. now \in Time /\ ClockHolds
    BY DEF ServiceInv, ClockHolds
<1>2. NoInsertion
    BY <1>1 DEF NoInsertion, Transaction, ClockHolds
<1> QED
    BY <1>1, <1>2 DEF StoreMoves

LEMMA StillMoves ==
    ASSUME ServiceInv, now' = now, spent \subseteq spent', UNCHANGED storeVars
    PROVE  StoreMoves
    BY DEF StoreMoves, ServiceInv, ClockHolds

\* The row a call has read of a pairing serves a compare-and-set as the
\* current one does.
LEMMA PairingAsRead ==
    ASSUME ServiceInv, NEW p \in PairingIds, NEW row
    PROVE  LET cur == pairings[p] IN
           /\ SamePairing(cur, row) => SamePairing(cur, cur)
           /\ CanEnd(p, row) => /\ CanEnd(p, cur) /\ cur \in PairingRow
                                /\ cur.created_at = row.created_at /\ cur.expires_at = row.expires_at
                                /\ cur.authorized_at = row.authorized_at
           /\ AuthorizedAsRead(p, row) =>
                 /\ AuthorizedAsRead(p, cur) /\ cur \in PairingRow
                 /\ cur.created_at = row.created_at /\ cur.expires_at = row.expires_at
                 /\ cur.authorized_at = row.authorized_at
                 /\ cur.user = row.user /\ row.user \in Users
<1>1. TypeOK /\ PairingsValid
    BY DEF ServiceInv, StoreHolds, Inv
<1>2. pairings[p] # None => pairings[p] \in PairingRow /\ PairingContract(pairings[p])
    BY <1>1 DEF TypeOK, PairingsValid
<1>3. pairings[p] # None /\ pairings[p].status = "authorized" => pairings[p].user \in Users
    BY <1>2 DEF PairingContract, PairingRow
<1> QED
    BY <1>2, <1>3 DEF SamePairing, CanEnd, AuthorizedAsRead

LEMMA PairExpireMoves ==
    ASSUME ServiceInv, NEW w \in Workers,
           \/ PairExpire(w) \/ PrvSave(w) \/ CleanPairingRows(w)
           \/ \E p \in PairingIds : PairCreate(w, p)
    PROVE  StoreMoves
<1> DEFINE j == job[w]
<1>0. StagesHold(j) /\ j \in JobType /\ j.t \in Time
    BY JobFacts DEF JobType
<1>1. now' = now /\ spent \subseteq spent'
    BY DEF PairExpire, PrvSave, CleanPairingRows, PairCreate
<1>2. CASE PairExpire(w)
  <2>1. j.p \in PairingIds
    BY <1>0, <1>2 DEF PairExpire, At, StagesHold, PairingStages
  <2>2. CASE UNCHANGED storeVars
    BY <1>1, <2>2, StillMoves
  <2>3. CASE ExpirePairing(j.p, j.prow, j.t)
    <3>1. ExpirePairing(j.p, pairings[j.p], j.t)
      BY <2>1, <2>3, PairingAsRead DEF ExpirePairing
    <3>2. PairingStep
      BY <1>0, <2>1, <3>1 DEF PairingStep
    <3> QED
      BY <1>1, <2>3, <3>2, PairingOnlyMoves DEF ExpirePairing
  <2> QED
    BY <1>2, <2>2, <2>3 DEF PairExpire
<1>3. CASE PrvSave(w)
  <2>1. j.p \in PairingIds
    BY <1>0, <1>3 DEF PrvSave, At, StagesHold, PairingStages
  <2>2. CASE UNCHANGED storeVars
    BY <1>1, <2>2, StillMoves
  <2>3. CASE RevokePairing(j.p, j.prow, j.t)
    <3>1. RevokePairing(j.p, pairings[j.p], j.t)
      BY <2>1, <2>3, PairingAsRead DEF RevokePairing
    <3>2. PairingStep
      BY <1>0, <2>1, <3>1 DEF PairingStep
    <3> QED
      BY <1>1, <2>3, <3>2, PairingOnlyMoves DEF RevokePairing
  <2> QED
    BY <1>3, <2>2, <2>3 DEF PrvSave
<1>4. CASE CleanPairingRows(w)
  <2>1. DeleteExpiredPairings(j.t)
    BY <1>4 DEF CleanPairingRows
  <2>2. PairingStep
    BY <1>0, <2>1 DEF PairingStep
  <2> QED
    BY <1>1, <2>1, <2>2, PairingOnlyMoves DEF DeleteExpiredPairings
<1>5. CASE \E p \in PairingIds : PairCreate(w, p)
  <2>1. PICK p \in PairingIds : CreatePairing(p, j.t) \/ UNCHANGED storeVars
    BY <1>5 DEF PairCreate
  <2>2. CASE UNCHANGED storeVars
    BY <1>1, <2>2, StillMoves
  <2>3. CASE CreatePairing(p, j.t)
    <3>1. PairingStep
      BY <1>0, <2>3 DEF PairingStep
    <3> QED
      BY <1>1, <2>3, <3>1, PairingOnlyMoves DEF CreatePairing
  <2> QED
    BY <2>1, <2>2, <2>3
<1> QED
    BY <1>2, <1>3, <1>4, <1>5

LEMMA AznSaveMoves ==
    ASSUME ServiceInv, NEW w \in Workers, AznSave(w)
    PROVE  StoreMoves
<1> DEFINE j == job[w]
<1>0. StagesHold(j) /\ j \in JobType /\ j.t \in Time /\ now \in Time
    BY JobFacts DEF JobType
<1>1. now' = now /\ spent \subseteq spent' /\ j.p \in PairingIds /\ j.u \in Users
    BY <1>0 DEF AznSave, At, StagesHold, PairingStages, UserStages
<1>2. CASE UNCHANGED storeVars
    BY <1>1, <1>2, StillMoves
<1>3. CASE AuthorizePairing(j.p, j.prow, j.u, j.acct.updated_at, j.t, now)
  <2>1. AuthorizePairing(j.p, pairings[j.p], j.u, users[j.u].updated_at, j.t, now) /\ IsActive(j.u)
    BY <1>3 DEF AuthorizePairing, CanAuthorize, SamePairing
  <2>2. PairingStep
    BY <1>0, <1>1, <2>1 DEF PairingStep
  <2> QED
    BY <1>1, <1>3, <2>2, PairingOnlyMoves DEF AuthorizePairing
<1>4. CASE ExpireOnAuthorize(j.p, now)
  <2>1. PairingStep
    BY <1>0, <1>1, <1>4 DEF PairingStep
  <2> QED
    BY <1>1, <1>4, <2>1, PairingOnlyMoves DEF ExpireOnAuthorize
<1> QED
    BY <1>2, <1>3, <1>4 DEF AznSave

LEMMA ConSaveMoves ==
    ASSUME ServiceInv, NEW w \in Workers, NEW s \in SessionIds, ConSave(w, s)
    PROVE  StoreMoves
<1> DEFINE j == job[w]
           clk == Later(j.t, now)
           rev == j.acct.updated_at
           row == pairings[j.p]
<1>0. StagesHold(j) /\ j \in JobType /\ j.t \in Time /\ now \in Time /\ TypeOK
    BY JobFacts DEF JobType
<1>1. /\ now' = now /\ spent' = spent \cup {s} /\ spent \subseteq spent' /\ Generates(s)
      /\ j.p \in PairingIds /\ clk \in Time
    BY <1>0, LaterTime DEF ConSave, At, StagesHold, PairingStages, ConsumeStages
<1> HIDE DEF clk
<1>2. CASE UNCHANGED storeVars
    BY <1>1, <1>2, StillMoves
<1>3. CASE ConsumePairing(j.p, s, j.prow, rev, j.t, clk)
  <2>1. /\ AuthorizedAsRead(j.p, j.prow) /\ CanConsume(j.p, s, j.prow, rev, clk)
        /\ j.t <= clk /\ j.prow.authorized_at <= j.t /\ clk < j.prow.expires_at
        /\ clk < j.t + SessionTTL
        /\ IsActive(j.prow.user) /\ rev = users[j.prow.user].updated_at
        /\ users[j.prow.user].role = "student" /\ sessions[s] = None
        /\ j.prow.created_at <= clk /\ j.prow.authorized_at <= clk
    BY <1>3 DEF ConsumePairing, CanConsume
  <2>2. /\ AuthorizedAsRead(j.p, row) /\ row.created_at = j.prow.created_at
        /\ row.expires_at = j.prow.expires_at /\ row.authorized_at = j.prow.authorized_at
        /\ row.user = j.prow.user /\ row.user \in Users /\ row # None
    BY <1>1, <2>1, PairingAsRead DEF AuthorizedAsRead, SamePairing
  <2>3. /\ pairings' = [pairings EXCEPT ![j.p].status = "consumed", ![j.p].consumed_at = j.t]
        /\ InsertSession(s, NewSession(row.user, j.t, j.p))
        /\ UNCHANGED <<users, fence>>
    BY <1>3, <2>2 DEF ConsumePairing
  <2>4. CanConsume(j.p, s, row, users[row.user].updated_at, clk)
    BY <2>1, <2>2 DEF CanConsume
  <2>5. ConsumePairing(j.p, s, row, users[row.user].updated_at, j.t, clk)
    BY <2>1, <2>2, <2>3, <2>4 DEF ConsumePairing
  <2>6. IsActive(row.user)
    BY <2>1, <2>2
  <2>7. PairingStep
    BY <1>0, <1>1, <2>2, <2>5, <2>6 DEF PairingStep
  <2>8. users[row.user] # None /\ s \notin spent /\ j.p \in PairingIds \cup {None}
    BY <1>1, <2>1, <2>6 DEF IsActive, Generates
  <2>9. Insertion
    BY <1>0, <1>1, <2>1, <2>2, <2>3, <2>7, <2>8 DEF Insertion, Transaction
  <2> QED
    BY <1>0, <1>1, <2>9 DEF StoreMoves
<1>4. CASE ExpireOnConsume(j.p, j.prow, clk)
  <2>1. ExpireOnConsume(j.p, row, clk)
    BY <1>1, <1>4, PairingAsRead DEF ExpireOnConsume
  <2>2. PairingStep
    BY <1>1, <2>1 DEF PairingStep
  <2> QED
    BY <1>1, <1>4, <2>2, PairingOnlyMoves DEF ExpireOnConsume
<1> QED
    BY <1>2, <1>3, <1>4 DEF ConSave, clk

\* Every other step of a worker leaves the tables alone.
LEMMA WorkerMoves ==
    ASSUME ServiceInv, NEW w \in Workers, WorkerStep(w)
    PROVE  StoreMoves
<1>0. ASSUME UNCHANGED <<storeVars, now, spent>> PROVE StoreMoves
    BY <1>0, StillMoves
<1>1. CASE SessionCalls(w)
  <2>1. CASE CallIssue(w) \/ CallAuthenticate(w) \/ CallRevoke(w) \/ CallRevokeAll(w)
    BY <1>0, <2>1 DEF CallIssue, CallAuthenticate, CallRevoke, CallRevokeAll, Begin
  <2>2. CASE IssueAccount(w) \/ IssueClock(w) \/ IssueRecheck(w)
    BY <1>0, <2>2 DEF IssueAccount, IssueClock, IssueRecheck, ReadClock, ReadOnly
  <2>3. CASE AuthRead(w) \/ AuthClock(w) \/ AuthAccount(w) \/ AuthReread(w)
    BY <1>0, <2>3 DEF AuthRead, AuthClock, AuthAccount, AuthReread, ReadClock, ReadOnly
  <2>4. CASE RevRead(w) \/ RevClock(w) \/ RevReread(w) \/ RevAllClock(w)
    BY <1>0, <2>4 DEF RevRead, RevClock, RevReread, RevAllClock, ReadClock, ReadOnly
  <2>5. CASE \E s \in SessionIds : IssueInsert(w, s)
    BY <2>5, IssueMoves
  <2>6. CASE AuthTouch(w) \/ RevSave(w) \/ RevAllUpdate(w)
    BY <2>6, TouchMoves, RevSaveMoves, BulkMoves
  <2> QED
    BY <1>1, <2>1, <2>2, <2>3, <2>4, <2>5, <2>6
       DEF SessionCalls, Issue, Authenticate, Revoke, RevokeAll
<1>2. CASE PairingCalls(w)
  <2>1. CASE \/ CallBegin(w) \/ CallAuthorize(w) \/ CallConsume(w) \/ CallBearer(w)
             \/ CallRevokePairing(w)
    BY <1>0, <2>1 DEF CallBegin, CallAuthorize, CallConsume, CallBearer, CallRevokePairing, Begin
  <2>2. CASE CleanClock(w) \/ PairClock(w)
    BY <1>0, <2>2 DEF CleanClock, PairClock, ReadClock, ReadOnly
  <2>3. CASE \/ AznSession(w) \/ AznRead(w) \/ AznClock(w) \/ AznAccount(w) \/ AznConflict(w)
    BY <1>0, <2>3 DEF AznSession, AznRead, AznClock, AznAccount, AznConflict, ReadPairing, CheckPairing,
       ReadStudent, SaveConflict, ReadOnly
  <2>4. CASE ConRead(w) \/ ConClock(w) \/ ConAccount(w)
    BY <1>0, <2>4 DEF ConRead, ConClock, ConAccount, ReadPairing, CheckPairing, ReadStudent, ReadOnly
  <2>5. CASE ConRecheck(w) \/ ConVerify(w) \/ ConDiscard(w) \/ ConDeliver(w) \/ ConFailed(w)
    BY <1>0, <2>5 DEF ConRecheck, ConVerify, ConDiscard, ConDeliver, ConFailed, ReadOnly
  <2>6. CASE BearSnapshot(w) \/ BearClock(w) \/ BearStatus(w)
    BY <1>0, <2>6 DEF BearSnapshot, BearClock, BearStatus, ReadOnly
  <2>7. CASE PrvRead(w) \/ PrvClock(w) \/ PrvConflict(w)
    BY <1>0, <2>7 DEF PrvRead, PrvClock, PrvConflict, ReadPairing, CheckPairing, SaveConflict, ReadOnly
  <2>8. CASE \/ PairExpire(w) \/ PrvSave(w) \/ CleanPairingRows(w)
             \/ \E p \in PairingIds : PairCreate(w, p)
    BY <2>8, PairExpireMoves
  <2>9. CASE AznSave(w) \/ CleanSessionRows(w) \/ \E s \in SessionIds : ConSave(w, s)
    BY <2>9, AznSaveMoves, BulkMoves, ConSaveMoves
  <2> QED
    BY <1>2, <2>1, <2>2, <2>3, <2>4, <2>5, <2>6, <2>7, <2>8, <2>9
       DEF PairingCalls, BeginPairing, Authorize, Consume, Bearer, RevokePairingCall
<1>3. CASE Finish(w)
    BY <1>0, <1>3 DEF Finish
<1> QED
    BY <1>1, <1>2, <1>3 DEF WorkerStep

-----------------------------------------------------------------------------
(***************************************************************************)
(* What holds of a call survives every step of the tables.                 *)
(***************************************************************************)

\* Ids are not reused, sessions continue, and accounts age.
TablesAge ==
    /\ spent \subseteq spent'
    /\ \A s \in SessionIds :
          /\ Continues(sessions[s], sessions'[s])
          /\ sessions'[s] # None => s \in spent' /\ sessions'[s].last_seen_at \in Time
          /\ sessions[s] = None /\ s \in spent => sessions'[s] = None
    /\ \A u \in Users :
          \/ users'[u] = users[u]
          \/ /\ users[u] # None /\ users'[u] # None
             /\ users[u].updated_at < users'[u].updated_at

LEMMA MovesAreTransactions ==
    ASSUME ServiceInv, StoreMoves
    PROVE  [Next]_storeVars
<1>1. AccountChange => AccountStep
    BY DEF AccountChange, AccountStep, ServiceInv, ClockHolds
<1> QED
    BY <1>1 DEF StoreMoves, NoInsertion, Insertion, Transaction, Next

LEMMA MovesAge ==
    ASSUME ServiceInv, StoreMoves
    PROVE  TablesAge /\ StoreHolds'
<1>0. Inv /\ TypeOK /\ SessionsValid /\ PairingsValid /\ ClockHolds
    BY DEF ServiceInv, StoreHolds, Inv
<1>1. [Next]_storeVars
    BY MovesAreTransactions
<1>2. SessionsKept /\ PairingsValid'
    BY <1>0, <1>1, StepKeeps
<1>3. SessionsValid'
    BY <1>2 DEF SessionsKept, SessionsValid
<1>4. TypeOK'
  <2>1. CASE UNCHANGED storeVars
    BY <1>0, <2>1 DEF TypeOK, storeVars
  <2> QED
    BY <1>0, <1>1, <2>1, AccountTypes, SessionTypes, PairingTypes DEF Next
<1>5. Inv'
  <2>1. CASE UNCHANGED storeVars
    BY <1>0, <2>1 DEF storeVars, Inv, TypeOK, TuiSessionCorrelated, OneSessionPerPairing,
       DisabledHasNothing, OpenSession, FenceBound, IssueBound, RevocationFence
  <2> QED
    BY <1>0, <1>1, <1>4, <2>1, AccountInv, SessionInv, PairingInv DEF Next
<1>6. StoreHolds'
    BY <1>2, <1>3, <1>5 DEF StoreHolds
<1>7. \A s \in SessionIds : Continues(sessions[s], sessions'[s])
    BY <1>2 DEF SessionsKept
<1>8. TablesAge
  <2>1. CASE spent \subseteq spent' /\ UNCHANGED storeVars
    BY <1>0, <1>7, <2>1 DEF TablesAge, storeVars, ClockHolds
  <2>2. CASE spent \subseteq spent' /\ NoInsertion
    <3>1. \A s \in SessionIds : sessions'[s] # None => s \in spent' /\ sessions'[s].last_seen_at \in Time
      <4> SUFFICES ASSUME NEW s \in SessionIds, sessions'[s] # None
                   PROVE  s \in spent' /\ sessions'[s].last_seen_at \in Time
        OBVIOUS
      <4>1. sessions[s] # None /\ s \in spent /\ s \in spent' /\ sessions[s].last_seen_at \in Time
        BY <1>0, <2>2 DEF NoInsertion, ClockHolds
      <4>2. \A w \in Workers : Later(job[w].t, now) \in Time
        BY <1>0, LaterTime, JobFacts DEF JobType, ClockHolds
      <4> QED
        BY <2>2, <4>1, <4>2 DEF NoInsertion
    <3> QED
      BY <1>7, <2>2, <3>1 DEF TablesAge, NoInsertion
  <2>3. CASE spent' = spent /\ AccountChange
    <3>1. PICK u \in Users, role \in Roles : SaveActiveUser(u, role, now) \/ SaveInactiveUser(u, role, now)
      BY <2>3 DEF AccountChange
    <3>2. now \in Nat /\ now # None
      BY <1>0, TimeIsNat, NoneAssumption DEF ClockHolds
    <3>3. PICK b \in BOOLEAN :
              /\ users' = [users EXCEPT ![u] = [role |-> role, active |-> b, updated_at |-> now]]
              /\ now > users[u].updated_at /\ users[u] # None
      BY <3>1 DEF SaveActiveUser, SaveInactiveUser
    <3>4. /\ \A v \in Users : v # u => users'[v] = users[v]
          /\ users'[u] = [role |-> role, active |-> b, updated_at |-> now]
      BY <1>0, <3>3 DEF TypeOK
    <3>5. users'[u] # None /\ users[u].updated_at < users'[u].updated_at
      <4>1. users[u] \in UserRow /\ users[u].updated_at \in Nat
        BY <1>0, <3>3 DEF TypeOK, UserRow
      <4>2. [role |-> role, active |-> b, updated_at |-> now] \in UserRow
        BY <3>2 DEF UserRow
      <4> QED
        BY <3>2, <3>3, <3>4, <4>1, <4>2, NoneAssumption
    <3>6. \A s \in SessionIds : sessions'[s] # None => sessions[s] # None
                                     /\ sessions'[s].last_seen_at = sessions[s].last_seen_at
      <4>1. CASE SaveActiveUser(u, role, now)
        BY <4>1 DEF SaveActiveUser
      <4>2. CASE SaveInactiveUser(u, role, now)
        <5> SUFFICES ASSUME NEW s \in SessionIds, sessions'[s] # None
                     PROVE  sessions[s] # None /\ sessions'[s].last_seen_at = sessions[s].last_seen_at
          OBVIOUS
        <5> DEFINE d == DisabledAt(sessions[s], now)
        <5>1. sessions'[s] = IF OpenSession(s, u) THEN [sessions[s] EXCEPT !.revoked_at = d] ELSE sessions[s]
          BY <4>2 DEF SaveInactiveUser, SessionsDisabled
        <5> HIDE DEF d
        <5>2. CASE OpenSession(s, u)
          <6>1. sessions[s] \in SessionRow /\ sessions[s] # None
            BY <1>0, <5>2 DEF OpenSession, TypeOK
          <6> QED
            BY <5>1, <5>2, <6>1 DEF SessionRow
        <5>3. CASE ~OpenSession(s, u)
          BY <5>1, <5>3
        <5> QED
          BY <5>2, <5>3
      <4> QED
        BY <3>1, <4>1, <4>2
    <3>7. \A s \in SessionIds :
              /\ sessions'[s] # None => s \in spent' /\ sessions'[s].last_seen_at \in Time
              /\ sessions[s] = None => sessions'[s] = None
      BY <1>0, <2>3, <3>6 DEF ClockHolds
    <3>8. \A v \in Users :
              \/ users'[v] = users[v]
              \/ /\ users[v] # None /\ users'[v] # None
                 /\ users[v].updated_at < users'[v].updated_at
      BY <3>3, <3>4, <3>5
    <3> QED
      BY <1>7, <2>3, <3>7, <3>8 DEF TablesAge
  <2>4. CASE Insertion
    <3>1. PICK s \in SessionIds, u \in Users, t \in Time, p \in PairingIds \cup {None} :
              /\ sessions[s] = None /\ s \notin spent /\ spent' = spent \cup {s}
              /\ InsertSession(s, NewSession(u, t, p))
      BY <2>4 DEF Insertion
    <3>2. /\ sessions'[s] = NewSession(u, t, p)
          /\ \A r \in SessionIds : r # s => sessions'[r] = sessions[r]
      BY <1>0, <3>1 DEF InsertSession, TypeOK
    <3>3. \A r \in SessionIds :
              /\ sessions'[r] # None => r \in spent' /\ sessions'[r].last_seen_at \in Time
              /\ sessions[r] = None /\ r \in spent => sessions'[r] = None
      BY <1>0, <3>1, <3>2 DEF ClockHolds, NewSession
    <3> QED
      BY <1>7, <2>4, <3>1, <3>3 DEF TablesAge, Insertion
  <2> QED
    BY <2>1, <2>2, <2>3, <2>4 DEF StoreMoves
<1> QED
    BY <1>6, <1>8

LEMMA RowAges ==
    ASSUME TypeOK, TypeOK', TablesAge, NEW s, NEW row, WasRow(s, row)
    PROVE  WasRow(s, row)'
<1>1. s \in SessionIds /\ s \in spent /\ s \in spent' /\ row.last_seen_at \in Nat
    BY TimeIsNat DEF WasRow, TablesAge
<1>2. ASSUME sessions'[s] # None
      PROVE  /\ SameGeneration(sessions'[s], row)
             /\ row.last_seen_at <= sessions'[s].last_seen_at
             /\ row.revoked_at # None => sessions'[s].revoked_at # None
  <2>1. sessions[s] # None
    BY <1>1, <1>2 DEF TablesAge
  <2>2. sessions[s] \in SessionRow /\ sessions'[s] \in SessionRow
    BY <1>1, <1>2, <2>1 DEF TypeOK
  <2>3. Continues(sessions[s], sessions'[s])
    BY <1>1 DEF TablesAge
  <2>4. /\ SameGeneration(sessions[s], sessions'[s])
        /\ sessions[s].last_seen_at <= sessions'[s].last_seen_at
        /\ sessions[s].revoked_at # None => sessions'[s] = sessions[s]
    BY <1>2, <2>1, <2>3 DEF Continues
  <2>5. /\ SameGeneration(sessions[s], row) /\ row.last_seen_at <= sessions[s].last_seen_at
        /\ row.revoked_at # None => sessions[s].revoked_at # None
    BY <2>1 DEF WasRow
  <2>6. SameGeneration(sessions'[s], row)
    BY <2>4, <2>5 DEF SameGeneration
  <2>7. row.last_seen_at <= sessions'[s].last_seen_at
    BY <1>1, <2>2, <2>4, <2>5 DEF SessionRow
  <2> QED
    BY <2>4, <2>5, <2>6, <2>7
<1> QED
    BY <1>1, <1>2 DEF WasRow

LEMMA AccountAges ==
    ASSUME TypeOK, TypeOK', TablesAge, NEW u \in Users, NEW a \in UserRow \cup {None}, Seen(u, a)
    PROVE  Seen(u, a)'
<1>1. a # None /\ users[u] # None /\ a \in UserRow /\ users[u] \in UserRow /\ users'[u] \in UserRow \cup {None}
    BY DEF Seen, TypeOK
<1>2. CASE users'[u] = users[u]
    BY <1>2 DEF Seen
<1>3. CASE users'[u] # None /\ users[u].updated_at < users'[u].updated_at
  <2>1. users'[u] \in UserRow
    BY <1>1, <1>3
  <2>2. a.updated_at < users'[u].updated_at
    BY <1>1, <1>3, <2>1 DEF Seen, UserRow
  <2>3. a.updated_at \in Nat /\ users'[u].updated_at \in Nat
    BY <1>1, <2>1 DEF UserRow
  <2> QED
    BY <1>1, <1>3, <2>2, <2>3 DEF Seen
<1> QED
    BY <1>2, <1>3 DEF TablesAge

\* What held of a call before a step of the tables holds after it.
LEMMA JobAges ==
    ASSUME TypeOK, TypeOK', TablesAge, NEW j, JobHolds(j)
    PROVE  JobHolds(j)'
<1>0. j \in JobType /\ StagesHold(j) /\ RowsHold(j) /\ AccountsHold(j) /\ PairingsHold(j)
    BY DEF JobHolds
<1>1. StagesHold(j)' /\ PairingsHold(j)'
    BY <1>0 DEF StagesHold, PairingsHold
<1>2. RowsHold(j)'
  <2>1. j.row # None => WasRow(j.s, j.row)' /\ j.gen = Generation(j.row)
    BY <1>0, RowAges DEF RowsHold
  <2>2. ASSUME j.gen # None
        PROVE  /\ j.s \in SessionIds /\ j.s \in spent'
               /\ sessions'[j.s] # None => Generation(sessions'[j.s]) = j.gen
    <3>1. j.s \in SessionIds /\ j.s \in spent /\ j.s \in spent'
      BY <1>0, <2>2 DEF RowsHold, TablesAge
    <3>2. ASSUME sessions'[j.s] # None PROVE Generation(sessions'[j.s]) = j.gen
      <4>1. sessions[j.s] # None
        BY <3>1, <3>2 DEF TablesAge
      <4>2. sessions[j.s] \in SessionRow /\ sessions'[j.s] \in SessionRow
        BY <3>1, <3>2, <4>1 DEF TypeOK
      <4>3. SameGeneration(sessions[j.s], sessions'[j.s])
        BY <3>1, <3>2, <4>1 DEF TablesAge, Continues
      <4>4. Generation(sessions[j.s]) = Generation(sessions'[j.s])
        BY <4>2, <4>3, SameGenerations
      <4> QED
        BY <1>0, <2>2, <4>1, <4>4 DEF RowsHold
    <3> QED
      BY <3>1, <3>2
  <2> QED
    BY <1>0, <2>1, <2>2 DEF RowsHold
<1>3. AccountsHold(j)'
  <2>1. ASSUME j.at = "auth:touch"
        PROVE  j.row # None /\ Seen(j.row.user, j.acct)' /\ j.acct.active
    <3>1. j.row # None /\ Seen(j.row.user, j.acct) /\ j.acct.active
      BY <1>0, <2>1 DEF AccountsHold
    <3>2. j.row.user \in Users /\ j.acct \in UserRow \cup {None}
      BY <1>0, <3>1 DEF JobType, SessionRow
    <3> QED
      BY <3>1, <3>2, AccountAges
  <2>2. ASSUME j.at \in {"azn:save", "azn:conflict"}
        PROVE  Seen(j.u, j.acct)' /\ j.acct.active /\ j.acct.role = "student"
    <3>1. Seen(j.u, j.acct) /\ j.acct.active /\ j.acct.role = "student"
      BY <1>0, <2>2 DEF AccountsHold
    <3>2. j.u \in Users /\ j.acct \in UserRow \cup {None}
      BY <1>0, <2>2 DEF StagesHold, UserStages, JobType
    <3> QED
      BY <3>1, <3>2, AccountAges
  <2> QED
    BY <2>1, <2>2 DEF AccountsHold
<1> QED
    BY <1>0, <1>1, <1>2, <1>3 DEF JobHolds

LEMMA FenceMoves ==
    ASSUME ServiceInv, StoreMoves, TypeOK', TablesAge
    PROVE  ServiceFence'
<1>0. Inv /\ TypeOK /\ ServiceFence /\ FenceBound /\ SessionsValid
    BY DEF ServiceInv, StoreHolds, Inv
<1> SUFFICES ASSUME NEW s \in SessionIds, sessions'[s] # None,
                    issuedUnder'[s] < fence'[sessions'[s].user]
             PROVE  sessions'[s].revoked_at # None
    BY DEF ServiceFence
<1>1. ASSUME sessions[s] # None
      PROVE  /\ sessions'[s].user = sessions[s].user
             /\ sessions[s].revoked_at # None => sessions'[s].revoked_at # None
    BY <1>1 DEF TablesAge, Continues, SameGeneration
<1>2. CASE UNCHANGED storeVars
    BY <1>0, <1>2 DEF ServiceFence, storeVars
<1>3. CASE NoInsertion
    BY <1>0, <1>1, <1>3 DEF NoInsertion, ServiceFence
<1>4. CASE AccountChange
  <2>1. PICK u \in Users, role \in Roles : SaveActiveUser(u, role, now) \/ SaveInactiveUser(u, role, now)
    BY <1>4 DEF AccountChange
  <2>2. CASE SaveActiveUser(u, role, now)
    BY <1>0, <2>2 DEF SaveActiveUser, ServiceFence
  <2>3. CASE SaveInactiveUser(u, role, now)
    <3> DEFINE d == DisabledAt(sessions[s], now)
    <3>1. /\ sessions'[s] = IF OpenSession(s, u) THEN [sessions[s] EXCEPT !.revoked_at = d] ELSE sessions[s]
          /\ fence' = [fence EXCEPT ![u] = now] /\ issuedUnder' = issuedUnder
      BY <2>3 DEF SaveInactiveUser, SessionsDisabled
    <3>2. sessions[s] # None
      BY <3>1 DEF OpenSession
    <3>3. sessions[s] \in SessionRow
      BY <1>0, <3>2 DEF TypeOK
    <3>4. CASE OpenSession(s, u)
      <4>1. sessions'[s].revoked_at = d
        BY <3>1, <3>3, <3>4 DEF SessionRow
      <4>2. d \in Nat
        BY <3>3, TimeIsNat DEF DisabledAt, SessionRow, ServiceInv, ClockHolds
      <4> QED
        BY <4>1, <4>2, NoneAssumption
    <3>5. CASE ~OpenSession(s, u)
      <4>1. sessions'[s] = sessions[s]
        BY <3>1, <3>5
      <4>2. CASE sessions[s].user = u
        BY <3>2, <3>5, <4>1, <4>2 DEF OpenSession
      <4>3. CASE sessions[s].user # u
        <5>1. fence'[sessions[s].user] = fence[sessions[s].user]
          BY <1>0, <3>1, <3>3, <4>3 DEF TypeOK, SessionRow
        <5> QED
          BY <1>0, <3>1, <3>2, <4>1, <5>1 DEF ServiceFence
      <4> QED
        BY <4>2, <4>3
    <3> QED
      BY <3>4, <3>5
  <2> QED
    BY <2>1, <2>2, <2>3
<1>5. CASE Insertion
  <2>1. PICK r \in SessionIds, u \in Users, t \in Time, p \in PairingIds \cup {None} :
            sessions[r] = None /\ users[u] # None /\ InsertSession(r, NewSession(u, t, p))
    BY <1>5 DEF Insertion
  <2>2. /\ sessions'[s] = IF s = r THEN NewSession(u, t, p) ELSE sessions[s]
        /\ issuedUnder'[s] = IF s = r THEN users[u].updated_at ELSE issuedUnder[s]
        /\ fence' = fence
    BY <1>0, <1>5, <2>1 DEF InsertSession, TypeOK, NewSession, Insertion
  <2>3. CASE s = r
    <3>1. sessions'[s].user = u /\ issuedUnder'[s] = users[u].updated_at
      BY <2>2, <2>3 DEF NewSession
    <3>2. fence[u] <= users[u].updated_at /\ fence[u] \in Nat /\ users[u].updated_at \in Nat
      BY <1>0, <2>1 DEF FenceBound, TypeOK, UserRow
    <3> QED
      BY <2>2, <3>1, <3>2
  <2>4. CASE s # r
    BY <1>0, <2>2, <2>4 DEF ServiceFence
  <2> QED
    BY <2>3, <2>4
<1> QED
    BY <1>2, <1>3, <1>4, <1>5 DEF StoreMoves

-----------------------------------------------------------------------------
(***************************************************************************)
(* The invariant of the services.                                          *)
(***************************************************************************)

LEMMA PairingMoves ==
    ASSUME ServiceInv, PairingNext
    PROVE  StoreMoves
    BY EnvironmentMoves, WorkerMoves DEF PairingNext

LEMMA ServiceKept ==
    ASSUME ServiceInv, PairingNext
    PROVE  ServiceInv'
<1>1. StoreMoves
    BY PairingMoves
<1>2. TablesAge /\ StoreHolds'
    BY <1>1, MovesAge
<1>3. TypeOK /\ TypeOK'
    BY <1>2 DEF ServiceInv, StoreHolds, Inv
<1>4. ClockHolds'
    BY <1>1, <1>2 DEF StoreMoves, TablesAge, ClockHolds
<1>5. ServiceFence'
    BY <1>1, <1>2, <1>3, FenceMoves
<1>6. job' \in [Workers -> JobType] /\ \A v \in Workers : JobHolds(job'[v])
  <2>1. CASE job' = job
    BY <2>1 DEF ServiceInv
  <2>2. CASE \E w \in Workers : WorkerStep(w)
    <3>1. PICK w \in Workers : WorkerStep(w)
      BY <2>2
    <3>2. PICK k : JobHolds(k) /\ job' = [job EXCEPT ![w] = k]
      BY <3>1, WorkerBecomes DEF Becomes
    <3>3. k \in JobType
      BY <3>2 DEF JobHolds
    <3> QED
      BY <3>1, <3>2, <3>3 DEF ServiceInv
  <2> QED
    BY <2>1, <2>2, EnvironmentMoves DEF PairingNext
<1>7. \A v \in Workers : JobHolds(job[v])'
  <2> SUFFICES ASSUME NEW v \in Workers PROVE JobHolds(job[v])'
    OBVIOUS
  <2>1. PICK k : k = job'[v] /\ JobHolds(k)
    BY <1>6
  <2>2. JobHolds(k)'
    BY <1>2, <1>3, <2>1, JobAges
  <2> QED
    BY <2>1, <2>2
<1> QED
    BY <1>2, <1>4, <1>5, <1>6, <1>7 DEF ServiceInv

LEMMA ServiceStays ==
    ASSUME ServiceInv, UNCHANGED vars
    PROVE  ServiceInv'
    BY DEF vars, ServiceInv, StoreHolds, Inv, TypeOK, TuiSessionCorrelated, OneSessionPerPairing,
       DisabledHasNothing, OpenSession, FenceBound, IssueBound, RevocationFence, SessionsValid,
       PairingsValid, ClockHolds, ServiceFence, JobHolds, StagesHold, RowsHold, AccountsHold,
       PairingsHold, WasRow, Seen

LEMMA IdleHolds == JobHolds(NoJob)
<1>1. 0 \in Time /\ "none" \in Calls /\ "idle" \in Stages /\ "done" \in Returns
    BY TTLAssumption DEF Time, Calls, Stages, Returns
<1>2. /\ NoJob \in JobType /\ NoJob.out = None /\ NoJob.gen = None /\ NoJob.row = None
      /\ NoJob.prow = None
      /\ NoJob.at = "idle" /\ NoJob.ret = "done"
    BY <1>1 DEF NoJob, JobType
<1>3. "idle" \notin SessionStages \cup UserStages \cup PairingStages
    BY DEF SessionStages, AuthStages, RevokeStages, Resumed, UserStages, PairingStages, ConsumeStages
<1> QED
    BY <1>2, <1>3, StageClasses, FreshHolds

\* The deployment the services start on.
LEMMA ServiceStarts == ServiceInit => ServiceInv
<1> SUFFICES ASSUME ServiceInit PROVE ServiceInv
    OBVIOUS
<1>0. 0 \in Time /\ 0 \in Nat /\ {"student", "pending"} \subseteq Roles
      /\ {"pending", "authorized"} \subseteq PairingStatuses
    BY TTLAssumption DEF Time, Roles, PairingStatuses
<1>1. \A u \in Users : users[u] = [role |-> "student", active |-> TRUE, updated_at |-> 0]
                       /\ fence[u] = 0
    BY DEF ServiceInit
<1>2. \A u \in Users : users[u] \in UserRow /\ users[u] # None /\ users[u].active
                       /\ users[u].updated_at = 0
  <2> DEFINE row == [role |-> "student", active |-> TRUE, updated_at |-> 0]
  <2>1. row \in UserRow /\ row.active /\ row.updated_at = 0
    BY <1>0 DEF UserRow
  <2>2. row # None
    BY <2>1, NoneAssumption
  <2> QED
    BY <1>1, <2>1, <2>2
<1>3. LoggedIn # {} \/ PairingAtStart = "authorized" => SomeUser \in Users
    BY ServiceAssumption DEF SomeUser
<1>4. ASSUME NEW s \in SessionIds, sessions[s] # None
      PROVE  s \in LoggedIn /\ SomeUser \in Users /\ sessions[s] = NewSession(SomeUser, 0, None)
  <2>1. s \in LoggedIn /\ sessions[s] = NewSession(SomeUser, 0, None)
    BY <1>4 DEF ServiceInit
  <2> QED
    BY <1>3, <2>1
<1>5. ASSUME NEW s \in SessionIds, sessions[s] # None
      PROVE  /\ sessions[s] \in SessionRow /\ SessionContract(sessions[s])
             /\ sessions[s].source_pairing = None /\ sessions[s].last_seen_at = 0
             /\ sessions[s].user \in Users /\ s \in LoggedIn
  <2>1. s \in LoggedIn /\ SomeUser \in Users /\ sessions[s] = NewSession(SomeUser, 0, None)
    BY <1>4, <1>5
  <2>2. NewSession(SomeUser, 0, None) \in SessionRow
    BY <1>0, <2>1, TTLAssumption DEF NewSession, SessionRow
  <2>3. SessionContract(NewSession(SomeUser, 0, None))
    BY <1>0, <2>1, NewSessionContract
  <2> QED
    BY <2>1, <2>2, <2>3 DEF NewSession
<1>6. ASSUME NEW p \in PairingIds, pairings[p] # None
      PROVE  /\ pairings[p] \in PairingRow /\ PairingContract(pairings[p])
  <2>1. pairings[p] = StartedPairing
    BY DEF ServiceInit
  <2>2. NewPairing(0) \in PairingRow
    BY <1>0, TTLAssumption DEF NewPairing, PairingRow
  <2>3. CASE PairingAtStart = "pending"
    BY <2>1, <2>2, <2>3, NoneAssumption, TTLAssumption DEF StartedPairing, NewPairing, PairingContract
  <2>4. CASE PairingAtStart = "authorized"
    <3> DEFINE r == [NewPairing(0) EXCEPT !.status = "authorized", !.user = SomeUser, !.authorized_at = 0]
    <3>1. SomeUser \in Users /\ SomeUser # None /\ 0 # None
      BY <1>0, <1>3, <2>4, NoneAssumption
    <3>2. /\ r.status = "authorized" /\ r.user = SomeUser /\ r.authorized_at = 0 /\ r.created_at = 0
          /\ r.expires_at = 0 + PairingTTL /\ r.consumed_at = None /\ r.ended_at = None
      BY DEF NewPairing
    <3>3. r \in PairingRow
      BY <1>0, <2>2, <3>1 DEF PairingRow
    <3> HIDE DEF r
    <3>4. PairingContract(r)
      BY <3>1, <3>2, TTLAssumption DEF PairingContract
    <3>5. pairings[p] = r
      BY <2>1, <2>4 DEF StartedPairing, r
    <3> QED
      BY <3>3, <3>4, <3>5
  <2> QED
    BY <1>6, <2>1, <2>3, <2>4 DEF StartedPairing
<1>7. TypeOK
  <2>1. \A s \in SessionIds : sessions[s] \in SessionRow \cup {None}
    BY <1>5
  <2>2. \A p \in PairingIds : pairings[p] \in PairingRow \cup {None}
    BY <1>6
  <2>3. /\ users = [u \in Users |-> users[u]] /\ sessions = [s \in SessionIds |-> sessions[s]]
        /\ pairings = [p \in PairingIds |-> pairings[p]]
        /\ fence = [u \in Users |-> 0] /\ issuedUnder = [s \in SessionIds |-> 0]
    BY DEF ServiceInit
  <2> QED
    BY <1>0, <1>2, <2>1, <2>2, <2>3 DEF TypeOK
<1>8. Inv
  <2>1. TuiSessionCorrelated /\ OneSessionPerPairing
    BY <1>5 DEF TuiSessionCorrelated, OneSessionPerPairing
  <2>2. DisabledHasNothing
    BY <1>2 DEF DisabledHasNothing
  <2>3. FenceBound
    <3>1. ASSUME NEW u \in Users
          PROVE  users[u] # None /\ fence[u] = 0 /\ users[u].updated_at = 0
      BY <1>1, <1>2
    <3>2. ASSUME NEW u \in Users
          PROVE  users[u] # None /\ fence[u] <= users[u].updated_at
      <4> DEFINE f == fence[u]
                 r == users[u].updated_at
      <4>1. users[u] # None /\ f = 0 /\ r = 0
        BY <3>1
      <4> HIDE DEF f, r
      <4>2. f <= r
        BY <4>1
      <4> QED
        BY <4>1, <4>2 DEF f, r
    <3> QED
      BY <3>2 DEF FenceBound
  <2>4. IssueBound
    BY <1>2, <1>5 DEF IssueBound, ServiceInit
  <2>5. RevocationFence
    BY <1>1, <1>5 DEF RevocationFence, ServiceInit
  <2> QED
    BY <1>7, <2>1, <2>2, <2>3, <2>4, <2>5 DEF Inv
<1>9. StoreHolds
    BY <1>5, <1>6, <1>8 DEF StoreHolds, SessionsValid, PairingsValid
<1>10. ClockHolds
    BY <1>0, <1>5 DEF ClockHolds, ServiceInit
<1>11. ServiceFence
    BY <1>1, <1>5 DEF ServiceFence, ServiceInit
<1>12. job \in [Workers -> JobType] /\ \A w \in Workers : JobHolds(job[w])
    BY IdleHolds DEF ServiceInit, JobHolds
<1> QED
    BY <1>9, <1>10, <1>11, <1>12 DEF ServiceInv

\* SessionService alone makes fewer calls.
LEMMA SessionServiceSteps == SessionServiceNext => PairingNext
    BY DEF SessionServiceNext, PairingNext, WorkerStep

\* For every deployment and every number of workers: what a call has read of the
\* tables bounds what they hold now, in SessionService and in its composition
\* with the pairing services.
THEOREM ServiceInvAlways == (SessionServiceSpec => []ServiceInv) /\ (PairingSpec => []ServiceInv)
<1>1. ServiceInv /\ [PairingNext]_vars => ServiceInv'
    BY ServiceKept, ServiceStays
<1>2. ServiceInv /\ [SessionServiceNext]_vars => ServiceInv'
    BY <1>1, SessionServiceSteps
<1>3. SessionServiceSpec => []ServiceInv
    BY <1>2, ServiceStarts, PTL DEF SessionServiceSpec
<1>4. PairingSpec => []ServiceInv
    BY <1>1, ServiceStarts, PTL DEF PairingSpec
<1> QED
    BY <1>3, <1>4

\* For every deployment: the services, on rows and revisions read earlier, write
\* only what IdentityStore allows from the current rows.
THEOREM StepsAreTransactionsAlways ==
    (SessionServiceSpec => StepsAreTransactions) /\ (PairingSpec => StepsAreTransactions)
<1>1. ServiceInv /\ [PairingNext]_vars => [Next]_storeVars
  <2>1. ASSUME UNCHANGED vars PROVE UNCHANGED storeVars
    BY <2>1 DEF vars, storeVars
  <2> QED
    BY <2>1, PairingMoves, MovesAreTransactions
<1>2. ServiceInv /\ [SessionServiceNext]_vars => [Next]_storeVars
    BY <1>1, SessionServiceSteps
<1>3. SessionServiceSpec => [][Next]_storeVars
    BY <1>2, ServiceInvAlways, PTL DEF SessionServiceSpec
<1>4. PairingSpec => [][Next]_storeVars
    BY <1>1, ServiceInvAlways, PTL DEF PairingSpec
<1> QED
    BY <1>3, <1>4 DEF StepsAreTransactions

\* For every deployment: what IdentityStore promises of its tables holds below
\* the services, from a deployment with accounts, sessions and pairings.
THEOREM StoreIsSoundBelow == (SessionServiceSpec => []StoreIsSound) /\ (PairingSpec => []StoreIsSound)
<1>1. ServiceInv => StoreIsSound
    BY DEF ServiceInv, StoreHolds, Inv, StoreIsSound, RowsValid, SessionsValid, PairingsValid
<1> QED
    BY <1>1, ServiceInvAlways, PTL

-----------------------------------------------------------------------------
(***************************************************************************)
(* What the services promise of their steps.                               *)
(***************************************************************************)

\* The call of a worker is changed by that worker's steps alone.
LEMMA OthersKeep ==
    ASSUME ServiceInv, [PairingNext]_vars, NEW w \in Workers, job'[w] # job[w]
    PROVE  WorkerStep(w)
<1>1. PairingNext
    BY DEF vars
<1>2. job' # job
    OBVIOUS
<1>3. PICK v \in Workers : WorkerStep(v)
    BY <1>1, <1>2, EnvironmentMoves DEF PairingNext
<1>4. CASE v # w
  <2>1. PICK k : job' = [job EXCEPT ![v] = k]
    BY <1>3, WorkerBecomes DEF Becomes
  <2> QED
    BY <1>4, <2>1 DEF ServiceInv
<1> QED
    BY <1>3, <1>4

\* The steps of a worker that is about to commit are commits.
LEMMA CommitSteps ==
    ASSUME NEW w \in Workers, WorkerStep(w)
    PROVE  /\ At(w, "auth:touch") => AuthTouch(w)
           /\ At(w, "all:update") => RevAllUpdate(w)
           /\ At(w, "azn:save") => AznSave(w)
<1>1. CASE SessionCalls(w)
  <2>1. CASE Issue(w)
    BY <2>1 DEF Issue, CallIssue, IssueAccount, IssueClock, IssueInsert, IssueRecheck, Begin, ReadClock,
       At
  <2>2. CASE Authenticate(w)
    BY <2>2 DEF Authenticate, CallAuthenticate, AuthRead, AuthClock, AuthAccount, AuthReread, Begin,
       AuthTouch, ReadClock, At
  <2>3. CASE Revoke(w)
    BY <2>3 DEF Revoke, CallRevoke, RevRead, RevClock, RevSave, RevReread, Begin, At
  <2>4. CASE RevokeAll(w)
    BY <2>4 DEF RevokeAll, CallRevokeAll, RevAllClock, Begin, ReadClock, RevAllUpdate, At
  <2> QED
    BY <1>1, <2>1, <2>2, <2>3, <2>4 DEF SessionCalls
<1>2. CASE PairingCalls(w)
  <2>1. CASE BeginPairing(w) \/ PairExpire(w)
    BY <2>1 DEF BeginPairing, PairExpire, CallBegin, CleanClock, CleanSessionRows, CleanPairingRows,
       PairClock, PairCreate, Begin, ReadClock, At
  <2>2. CASE Authorize(w)
    BY <2>2 DEF Authorize, CallAuthorize, AznSession, AznRead, AznClock, AznAccount, AznSave, AznConflict,
       Begin, ReadPairing, CheckPairing, ReadStudent, SaveConflict, At
  <2>3. CASE Consume(w)
    BY <2>3 DEF Consume, CallConsume, ConRead, ConClock, ConAccount, ConSave, ConRecheck, ConVerify,
       ConDiscard, ConDeliver, ConFailed, Begin, ReadPairing, CheckPairing, ReadStudent, At
  <2>4. CASE Bearer(w)
    BY <2>4 DEF Bearer, CallBearer, BearSnapshot, BearClock, BearStatus, Begin, At
  <2>5. CASE RevokePairingCall(w)
    BY <2>5 DEF RevokePairingCall, CallRevokePairing, PrvRead, PrvClock, PrvSave, PrvConflict, Begin,
       ReadPairing, CheckPairing, SaveConflict, At
  <2> QED
    BY <1>2, <2>1, <2>2, <2>3, <2>4, <2>5 DEF PairingCalls
<1>3. CASE Finish(w)
    BY <1>3 DEF Finish, At
<1> QED
    BY <1>1, <1>2, <1>3 DEF WorkerStep

\* The outcome of a call that ends, and of one that goes on.
LEMMA Outcome ==
    ASSUME ServiceInv, NEW w \in Workers
    PROVE  /\ \A out : Return(w, out) => job'[w].out = out
           /\ \A out : Answer(w, out) => job'[w].out = out /\ job'[w].at = "done"
           /\ \A at : Goto(w, at) => job'[w].out = job[w].out /\ job'[w].at = at
           /\ At(w, "auth:touch") \/ At(w, "all:update") \/ At(w, "azn:save") => job[w].out = None
<1>0. job[w] \in JobType /\ StagesHold(job[w]) /\ job \in [Workers -> JobType]
    BY JobFacts DEF ServiceInv
<1>1. \A out : Return(w, out) => job'[w].out = out
    BY <1>0 DEF Return, Become, Ended, JobType
<1>2. \A out : Answer(w, out) => job'[w].out = out /\ job'[w].at = "done"
    BY <1>0 DEF Answer, Become, NoJob
<1>3. \A at : Goto(w, at) => job'[w].out = job[w].out /\ job'[w].at = at
    BY <1>0 DEF Goto, Become, JobType
<1>4. At(w, "auth:touch") \/ At(w, "all:update") \/ At(w, "azn:save") => job[w].out = None
    BY <1>0 DEF StagesHold, At, Resumed, RevokeStages
<1> QED
    BY <1>1, <1>2, <1>3, <1>4

\* A touch that succeeds finds the account as it was read.
LEMMA TouchCommits ==
    ASSUME ServiceInv, [PairingNext]_vars, NEW w \in Workers,
           At(w, "auth:touch"), job'[w].out = "ok", job'[w].at # "auth:touch"
    PROVE  /\ job[w].acct = users[job[w].row.user]
           /\ job[w].acct.active
           /\ Usable(sessions'[job[w].s], Later(job[w].t, now))
           /\ Generation(sessions'[job[w].s]) = job[w].gen
           /\ issuedUnder[job[w].s] >= fence[job[w].row.user]
<1> DEFINE j == job[w]
           t == Later(j.t, now)
           row == sessions[j.s]
<1>0. /\ StagesHold(j) /\ RowsHold(j) /\ AccountsHold(j) /\ TypeOK /\ j \in JobType /\ ServiceFence
      /\ now \in Time
    BY JobFacts DEF ServiceInv
<1>1. AuthTouch(w)
    BY OthersKeep, CommitSteps DEF At
<1>2. TouchSession(j.s, j.row, j.acct.updated_at, t)
  <2>1. j.out = None /\ None # "ok"
    BY Outcome, ServiceAssumption DEF Outcomes
  <2>2. ~Return(w, "invalid") /\ ~Goto(w, "auth:reread")
    BY <2>1, Outcome
  <2> QED
    BY <1>1, <2>2 DEF AuthTouch
<1>3. /\ SameGeneration(row, j.row) /\ row.revoked_at = None /\ t < row.expires_at
      /\ users[j.row.user].updated_at = j.acct.updated_at
      /\ sessions' = [sessions EXCEPT ![j.s].last_seen_at = t]
    BY <1>2 DEF TouchSession, CanTouch
<1>4. j.s \in SessionIds /\ j.row # None /\ Seen(j.row.user, j.acct) /\ j.acct.active
    BY <1>0, StageClasses DEF StagesHold, AccountsHold, At
<1>5. row # None /\ row.user = j.row.user
    BY <1>3 DEF SameGeneration
<1>6. row \in SessionRow /\ j.row \in SessionRow /\ t \in Time /\ t \in Nat
    BY <1>0, <1>4, <1>5, LaterTime, TimeIsNat DEF TypeOK, JobType
<1>7. j.acct = users[j.row.user]
    BY <1>3, <1>4 DEF Seen
<1>8. /\ sessions'[j.s] = [row EXCEPT !.last_seen_at = t]
    BY <1>0, <1>3, <1>4 DEF TypeOK
<1> HIDE DEF t
<1>9. /\ sessions'[j.s] \in SessionRow /\ sessions'[j.s].revoked_at = None
      /\ t < sessions'[j.s].expires_at
      /\ SameGeneration(sessions'[j.s], row)
  <2>1. [row EXCEPT !.last_seen_at = t] \in SessionRow
    BY <1>6 DEF SessionRow
  <2>2. [row EXCEPT !.last_seen_at = t] # None
    BY <2>1, NoneAssumption
  <2>3. SameGeneration([row EXCEPT !.last_seen_at = t], row)
    BY <1>5, <1>6, <2>2 DEF SameGeneration, SessionRow
  <2> QED
    BY <1>3, <1>6, <1>8, <2>1, <2>3 DEF SessionRow
<1>10. Usable(sessions'[j.s], t)
    BY <1>9 DEF Usable, SameGeneration
<1>11. Generation(sessions'[j.s]) = j.gen
    BY <1>0, <1>4, <1>5, <1>6, <1>9, SameGenerations, RowGeneration DEF RowsHold
<1>12. issuedUnder[j.s] >= fence[j.row.user]
  <2>1. ~(issuedUnder[j.s] < fence[row.user])
    BY <1>0, <1>3, <1>4, <1>5 DEF ServiceFence
  <2>2. issuedUnder[j.s] \in Nat /\ fence[row.user] \in Nat
    BY <1>0, <1>4, <1>6 DEF TypeOK, SessionRow
  <2> QED
    BY <1>5, <2>1, <2>2
<1> QED
    BY <1>4, <1>7, <1>10, <1>11, <1>12 DEF t

\* For every deployment: who a successful authenticate returns is the account as
\* it is now, in a session it opened since it was last disabled.
THEOREM AuthenticatedIsCurrentAlways ==
    (SessionServiceSpec => AuthenticatedIsCurrent) /\ (PairingSpec => AuthenticatedIsCurrent)
<1> DEFINE A == \A w \in Workers :
                  At(w, "auth:touch") /\ job'[w].out = "ok" /\ job'[w].at # "auth:touch" =>
                    /\ job[w].acct = users[job[w].row.user]
                    /\ job[w].acct.active
                    /\ Usable(sessions'[job[w].s], Later(job[w].t, now))
                    /\ Generation(sessions'[job[w].s]) = job[w].gen
           B == \A w \in Workers :
                  At(w, "auth:touch") /\ job'[w].out = "ok" /\ job'[w].at # "auth:touch" =>
                    issuedUnder[job[w].s] >= fence[job[w].row.user]
<1>1. ServiceInv /\ [PairingNext]_vars => A /\ B
    BY TouchCommits
<1>2. ServiceInv /\ [SessionServiceNext]_vars => A /\ B
    BY <1>1, SessionServiceSteps
<1> HIDE DEF A, B
<1>3. SessionServiceSpec => [][A]_vars /\ [][B]_vars
    BY <1>2, ServiceInvAlways, PTL DEF SessionServiceSpec
<1>4. PairingSpec => [][A]_vars /\ [][B]_vars
    BY <1>1, ServiceInvAlways, PTL DEF PairingSpec
<1> QED
    BY <1>3, <1>4 DEF AuthenticatedIsCurrent, AuthenticatedAccountIsCurrent, NoRevivedSession, A, B

\* A bulk revocation that succeeds leaves nothing usable at its instant.
LEMMA RevokeAllCommits ==
    ASSUME ServiceInv, [PairingNext]_vars, NEW w \in Workers, NEW s \in SessionIds,
           At(w, "all:update"), job'[w].out = "ok",
           sessions'[s] # None, sessions'[s].user = job[w].u, Audience(sessions'[s]) = job[w].aud
    PROVE  ~Usable(sessions'[s], job[w].t)
<1> DEFINE j == job[w]
<1>0. StagesHold(j) /\ TypeOK /\ j \in JobType
    BY JobFacts
<1>1. j.out = None /\ None # "ok"
    BY Outcome, ServiceAssumption DEF Outcomes
<1>2. RevAllUpdate(w)
    BY <1>1, OthersKeep, CommitSteps DEF At
<1>3. RevokeUserSessions(j.u, j.t, j.aud)
    BY <1>2, Outcome DEF RevAllUpdate
<1>4. /\ sessions'[s] = IF LiveAt(s, j.u, j.t) /\ Audience(sessions[s]) = j.aud
                        THEN [sessions[s] EXCEPT !.revoked_at = j.t] ELSE sessions[s]
      /\ StaleFor(s, j.u, j.t) => Audience(sessions[s]) # j.aud
    BY <1>3 DEF RevokeUserSessions, CanRevokeAll
<1>5. j.t \in Nat /\ j.t # None
    BY <1>0, TimeIsNat, NoneAssumption DEF JobType
<1>6. CASE LiveAt(s, j.u, j.t) /\ Audience(sessions[s]) = j.aud
  <2>1. sessions[s] \in SessionRow
    BY <1>0, <1>6 DEF LiveAt, OpenSession, TypeOK
  <2>2. sessions'[s].revoked_at = j.t
    BY <1>4, <1>6, <2>1 DEF SessionRow
  <2> QED
    BY <1>5, <2>2 DEF Usable
<1>7. CASE ~(LiveAt(s, j.u, j.t) /\ Audience(sessions[s]) = j.aud)
  <2>1. sessions'[s] = sessions[s]
    BY <1>4, <1>7
  <2>2. sessions[s] \in SessionRow /\ sessions[s].user = j.u /\ Audience(sessions[s]) = j.aud
        /\ sessions[s] # None
    BY <1>0, <2>1 DEF TypeOK
  <2>3. ~LiveAt(s, j.u, j.t) /\ ~StaleFor(s, j.u, j.t)
    BY <1>4, <1>7, <2>2
  <2> QED
    BY <1>5, <2>1, <2>2, <2>3 DEF Usable, LiveAt, StaleFor, OpenSession, SessionRow
<1> QED
    BY <1>6, <1>7

\* For every deployment: revoke_all that succeeds has revoked whatever the
\* account could use, of its audience, when the clock was read.
THEOREM RevokeAllIsCompleteAlways ==
    (SessionServiceSpec => RevokeAllIsComplete) /\ (PairingSpec => RevokeAllIsComplete)
<1> DEFINE A == \A w \in Workers, s \in SessionIds :
                  /\ At(w, "all:update")
                  /\ job'[w].out = "ok"
                  /\ sessions'[s] # None
                  /\ sessions'[s].user = job[w].u
                  /\ Audience(sessions'[s]) = job[w].aud
                  => ~Usable(sessions'[s], job[w].t)
<1>1. ServiceInv /\ [PairingNext]_vars => A
    BY RevokeAllCommits
<1>2. ServiceInv /\ [SessionServiceNext]_vars => A
    BY <1>1, SessionServiceSteps
<1> HIDE DEF A
<1>3. SessionServiceSpec => [][A]_vars
    BY <1>2, ServiceInvAlways, PTL DEF SessionServiceSpec
<1>4. PairingSpec => [][A]_vars
    BY <1>1, ServiceInvAlways, PTL DEF PairingSpec
<1> QED
    BY <1>3, <1>4 DEF RevokeAllIsComplete, A

\* An authorization that commits finds the account as it was read.
LEMMA ConsentCommits ==
    ASSUME ServiceInv, [PairingNext]_vars, NEW w \in Workers,
           At(w, "azn:save"), job'[w].out = "ok", job'[w].at = "done"
    PROVE  /\ users[job[w].u] = job[w].acct
           /\ users[job[w].u].active
           /\ users[job[w].u].role = "student"
           /\ pairings'[job[w].p].user = job[w].u
<1> DEFINE j == job[w]
<1>0. StagesHold(j) /\ AccountsHold(j) /\ TypeOK /\ j \in JobType
    BY JobFacts
<1>1. AznSave(w)
    BY OthersKeep, CommitSteps DEF At
<1>2. AuthorizePairing(j.p, j.prow, j.u, j.acct.updated_at, j.t, now)
    BY <1>1, Outcome DEF AznSave
<1>3. Seen(j.u, j.acct) /\ j.acct.active /\ j.acct.role = "student"
      /\ j.p \in PairingIds
    BY <1>0 DEF AccountsHold, At, StagesHold, PairingStages
<1>4. users[j.u].updated_at = j.acct.updated_at
    BY <1>2 DEF AuthorizePairing, CanAuthorize
<1>5. users[j.u] = j.acct
    BY <1>3, <1>4 DEF Seen
<1>6. pairings[j.p] \in PairingRow
    BY <1>0, <1>2, <1>3 DEF TypeOK, AuthorizePairing, CanAuthorize, SamePairing
<1>7. pairings'[j.p].user = j.u
    BY <1>0, <1>2, <1>3, <1>6 DEF AuthorizePairing, TypeOK, PairingRow
<1> QED
    BY <1>3, <1>5, <1>7

\* For every deployment: a pairing is authorized by the active student of the
\* browser's session, as the account is at that moment.
THEOREM ConsentIsByStudentAlways == PairingSpec => ConsentIsByStudent
<1> DEFINE A == \A w \in Workers :
                  At(w, "azn:save") /\ job'[w].out = "ok" /\ job'[w].at = "done" =>
                    /\ users[job[w].u] = job[w].acct
                    /\ users[job[w].u].active
                    /\ users[job[w].u].role = "student"
                    /\ pairings'[job[w].p].user = job[w].u
<1>1. ServiceInv /\ [PairingNext]_vars => A
    BY ConsentCommits
<1> HIDE DEF A
<1>2. PairingSpec => [][A]_vars
    BY <1>1, ServiceInvAlways, PTL DEF PairingSpec
<1> QED
    BY <1>2 DEF ConsentIsByStudent, A

-----------------------------------------------------------------------------
(***************************************************************************)
(* Logout, while the clock is not set back.                                *)
(***************************************************************************)

\* What every step but those of a logout makes of a call.
CarriedOn(w, k) ==
    /\ job' = [job EXCEPT ![w] = k]
    /\ job[w].at \notin RevokeStages \cup {"done"}
    /\ k.op = job[w].op /\ k.at # "rev:clock"
    /\ k.t = 0 \/ k.t = job[w].t \/ k.t = now
    /\ \/ k.row = None \/ k.row = job[w].row
       \/ job[w].s \in SessionIds /\ k.row = sessions[job[w].s]

Carries(w) == \E k : CarriedOn(w, k)

LEMMA CarryEnd ==
    ASSUME ServiceInv, NEW w \in Workers, job[w].at \notin RevokeStages \cup {"done"},
           NEW out, Return(w, out) \/ Answer(w, out)
    PROVE  Carries(w)
<1>0. job[w] \in JobType
    BY JobFacts
<1>1. CASE Return(w, out)
  <2>1. /\ Ended(job[w], out).op = job[w].op /\ Ended(job[w], out).at # "rev:clock"
        /\ Ended(job[w], out).t = 0
        /\ Ended(job[w], out).row = None \/ Ended(job[w], out).row = job[w].row
    BY <1>0 DEF Ended, JobType, Returns
  <2> QED
    BY <1>1, <2>1 DEF Return, Become, Carries, CarriedOn
<1>2. CASE Answer(w, out)
  <2>1. /\ AnswerOf(job[w], out).op = job[w].op /\ AnswerOf(job[w], out).at = "done"
        /\ AnswerOf(job[w], out).t = 0 /\ AnswerOf(job[w], out).row = None
    BY DEF AnswerOf, NoJob
  <2> QED
    BY <1>2, <2>1 DEF Answer, AnswerOf, Become, Carries, CarriedOn
<1> QED
    BY <1>1, <1>2

LEMMA CarryGoto ==
    ASSUME ServiceInv, NEW w \in Workers, job[w].at \notin RevokeStages \cup {"done"},
           NEW at, at # "rev:clock",
           \/ Goto(w, at)
           \/ \E t \in {job[w].t, now} : job' = [job EXCEPT ![w] = [job[w] EXCEPT !.at = at, !.t = t]]
           \/ \E a : job' = [job EXCEPT ![w] = [job[w] EXCEPT !.at = at, !.acct = a]]
           \/ \E p : job' = [job EXCEPT ![w] = [job[w] EXCEPT !.at = at, !.prow = p]]
           \/ \E n : job' = [job EXCEPT ![w] = [job[w] EXCEPT !.at = at, !.tries = n]]
    PROVE  Carries(w)
<1>0. job[w] \in JobType
    BY JobFacts
<1>1. ASSUME NEW k, job' = [job EXCEPT ![w] = k], k.op = job[w].op, k.at = at,
             k.t = job[w].t \/ k.t = now, k.row = job[w].row
      PROVE  Carries(w)
    BY <1>1 DEF Carries, CarriedOn
<1>2. CASE Goto(w, at)
  <2>1. LET k == [job[w] EXCEPT !.at = at] IN
        k.op = job[w].op /\ k.at = at /\ k.t = job[w].t /\ k.row = job[w].row
    BY <1>0 DEF JobType
  <2> QED
    BY <1>1, <1>2, <2>1 DEF Goto, Become
<1>3. CASE \E t \in {job[w].t, now} : job' = [job EXCEPT ![w] = [job[w] EXCEPT !.at = at, !.t = t]]
  <2>1. PICK t \in {job[w].t, now} : job' = [job EXCEPT ![w] = [job[w] EXCEPT !.at = at, !.t = t]]
    BY <1>3
  <2>2. LET k == [job[w] EXCEPT !.at = at, !.t = t] IN
        k.op = job[w].op /\ k.at = at /\ (k.t = job[w].t \/ k.t = now) /\ k.row = job[w].row
    BY <1>0, <2>1 DEF JobType
  <2> QED
    BY <1>1, <2>1, <2>2
<1>4. CASE \E a : job' = [job EXCEPT ![w] = [job[w] EXCEPT !.at = at, !.acct = a]]
  <2>1. PICK a : job' = [job EXCEPT ![w] = [job[w] EXCEPT !.at = at, !.acct = a]]
    BY <1>4
  <2>2. LET k == [job[w] EXCEPT !.at = at, !.acct = a] IN
        k.op = job[w].op /\ k.at = at /\ (k.t = job[w].t \/ k.t = now) /\ k.row = job[w].row
    BY <1>0, <2>1 DEF JobType
  <2> QED
    BY <1>1, <2>1, <2>2
<1>5. CASE \E p : job' = [job EXCEPT ![w] = [job[w] EXCEPT !.at = at, !.prow = p]]
  <2>1. PICK p : job' = [job EXCEPT ![w] = [job[w] EXCEPT !.at = at, !.prow = p]]
    BY <1>5
  <2>2. LET k == [job[w] EXCEPT !.at = at, !.prow = p] IN
        k.op = job[w].op /\ k.at = at /\ (k.t = job[w].t \/ k.t = now) /\ k.row = job[w].row
    BY <1>0, <2>1 DEF JobType
  <2> QED
    BY <1>1, <2>1, <2>2
<1>6. CASE \E n : job' = [job EXCEPT ![w] = [job[w] EXCEPT !.at = at, !.tries = n]]
  <2>1. PICK n : job' = [job EXCEPT ![w] = [job[w] EXCEPT !.at = at, !.tries = n]]
    BY <1>6
  <2>2. LET k == [job[w] EXCEPT !.at = at, !.tries = n] IN
        k.op = job[w].op /\ k.at = at /\ (k.t = job[w].t \/ k.t = now) /\ k.row = job[w].row
    BY <1>0, <2>1 DEF JobType
  <2> QED
    BY <1>1, <2>1, <2>2
<1> QED
    BY <1>2, <1>3, <1>4, <1>5, <1>6

LEMMA IssueCarries ==
    ASSUME ServiceInv, NEW w \in Workers,
           \/ IssueAccount(w) \/ IssueClock(w) \/ IssueRecheck(w) \/ RevAllClock(w) \/ RevAllUpdate(w)
           \/ \E s \in SessionIds : IssueInsert(w, s)
    PROVE  Carries(w)
<1> DEFINE j == job[w]
<1>1. j.at \in {"issue:account", "issue:clock", "issue:recheck", "issue:insert", "all:clock", "all:update"}
    BY DEF IssueAccount, IssueClock, IssueRecheck, RevAllClock, RevAllUpdate, IssueInsert, ReadClock, At
<1>2. j.at \notin RevokeStages \cup {"done"}
    BY <1>1 DEF RevokeStages
<1>3. CASE IssueAccount(w)
    BY <1>2, <1>3, CarryEnd, CarryGoto DEF IssueAccount, Become
<1>4. CASE IssueClock(w) \/ RevAllClock(w)
    BY <1>2, <1>4, CarryGoto DEF IssueClock, RevAllClock, ReadClock, Become
<1>5. CASE IssueRecheck(w)
  <2>1. CASE j.tries + 1 = MaxAttempts /\ Become(w, Ended(j, "unavailable"))
    BY <1>2, <2>1, CarryEnd DEF Return
  <2>2. CASE Become(w, [j EXCEPT !.at = "issue:insert", !.tries = j.tries + 1])
    BY <1>2, <2>2, CarryGoto DEF Become
  <2>3. CASE Return(w, "invalid") \/ Return(w, "conflict")
    BY <1>2, <2>3, CarryEnd
  <2> QED
    BY <1>5, <2>1, <2>2, <2>3 DEF IssueRecheck, Retry
<1>6. CASE RevAllUpdate(w)
    BY <1>2, <1>6, CarryEnd DEF RevAllUpdate
<1>7. CASE \E s \in SessionIds : IssueInsert(w, s)
    BY <1>2, <1>7, CarryEnd, CarryGoto DEF IssueInsert
<1> QED
    BY <1>3, <1>4, <1>5, <1>6, <1>7

LEMMA AuthCarries ==
    ASSUME ServiceInv, NEW w \in Workers,
           AuthRead(w) \/ AuthClock(w) \/ AuthAccount(w) \/ AuthTouch(w) \/ AuthReread(w)
    PROVE  Carries(w)
<1> DEFINE j == job[w]
<1>0. j \in JobType /\ StagesHold(j)
    BY JobFacts
<1>1. j.at \in AuthStages
    BY DEF AuthRead, AuthClock, AuthAccount, AuthTouch, AuthReread, ReadClock, At, AuthStages
<1>2. j.at \notin RevokeStages \cup {"done"} /\ j.s \in SessionIds
    BY <1>0, <1>1 DEF RevokeStages, AuthStages, StagesHold, SessionStages
<1>3. CASE AuthRead(w)
  <2> DEFINE row == sessions[j.s]
             k == [j EXCEPT !.at = "auth:clock", !.row = row, !.gen = Generation(row)]
  <2>1. job' = [job EXCEPT ![w] = k]
    BY <1>3 DEF AuthRead, Become
  <2>2. k.op = j.op /\ k.at = "auth:clock" /\ k.t = j.t /\ k.row = row
    BY <1>0 DEF JobType
  <2> HIDE DEF k
  <2> QED
    BY <1>2, <2>1, <2>2 DEF Carries, CarriedOn
<1>4. CASE AuthClock(w)
    BY <1>2, <1>4, CarryGoto DEF AuthClock, ReadClock, Become
<1>5. CASE AuthAccount(w)
  <2>1. \/ \E out : Return(w, out)
        \/ \E a : Become(w, [j EXCEPT !.at = "auth:touch", !.acct = a])
    BY <1>5 DEF AuthAccount
  <2> QED
    BY <1>2, <2>1, CarryEnd, CarryGoto DEF Become
<1>6. CASE AuthTouch(w)
    BY <1>2, <1>6, CarryEnd, CarryGoto DEF AuthTouch
<1>7. CASE AuthReread(w)
  <2> DEFINE row == sessions[j.s]
             i == [j EXCEPT !.row = row]
             out == "conflict"
  <2>1. /\ i.op = j.op /\ i.t = j.t /\ i.row = row /\ i.ret = j.ret /\ i.tries = j.tries
        /\ i.ret \in Returns
    BY <1>0 DEF JobType
  <2>2. /\ Ended(i, out).op = j.op /\ Ended(i, out).at # "rev:clock" /\ Ended(i, out).t = 0
        /\ Ended(i, out).row = None \/ Ended(i, out).row = row
    BY <1>0 DEF Ended, JobType, Returns
  <2>3. /\ [i EXCEPT !.at = "auth:account", !.tries = j.tries + 1].op = j.op
        /\ [i EXCEPT !.at = "auth:account", !.tries = j.tries + 1].at = "auth:account"
        /\ [i EXCEPT !.at = "auth:account", !.tries = j.tries + 1].t = j.t
        /\ [i EXCEPT !.at = "auth:account", !.tries = j.tries + 1].row = row
    BY <1>0 DEF JobType
  <2>4. \/ job' = [job EXCEPT ![w] = Ended(i, out)]
        \/ job' = [job EXCEPT ![w] = [i EXCEPT !.at = "auth:account", !.tries = j.tries + 1]]
    BY <1>7, <2>1 DEF AuthReread, Retry, Become
  <2> HIDE DEF i
  <2> QED
    BY <1>2, <2>2, <2>3, <2>4 DEF Carries, CarriedOn
<1> QED
    BY <1>3, <1>4, <1>5, <1>6, <1>7

LEMMA BeginCarries ==
    ASSUME ServiceInv, NEW w \in Workers,
           \/ CleanClock(w) \/ CleanSessionRows(w) \/ CleanPairingRows(w) \/ PairClock(w)
           \/ PairExpire(w) \/ \E p \in PairingIds : PairCreate(w, p)
    PROVE  Carries(w)
<1> DEFINE j == job[w]
<1>1. j.at \in {"clean:clock", "clean:sessions", "clean:pairings", "pair:clock", "pair:create", "pair:expire"}
    BY DEF CleanClock, CleanSessionRows, CleanPairingRows, PairClock, PairExpire, PairCreate, ReadClock, At
<1>2. j.at \notin RevokeStages \cup {"done"}
    BY <1>1 DEF RevokeStages
<1>3. CASE CleanClock(w) \/ PairClock(w)
    BY <1>2, <1>3, CarryGoto DEF CleanClock, PairClock, ReadClock, Become
<1>4. CASE CleanSessionRows(w) \/ CleanPairingRows(w)
    BY <1>2, <1>4, CarryGoto DEF CleanSessionRows, CleanPairingRows
<1>5. CASE PairExpire(w)
    BY <1>2, <1>5, CarryEnd DEF PairExpire
<1>6. CASE \E p \in PairingIds : PairCreate(w, p)
  <2>1. CASE Become(w, Ended(j, "unavailable"))
    BY <1>2, <2>1, CarryEnd DEF Return
  <2>2. CASE Become(w, [j EXCEPT !.at = "pair:create", !.tries = j.tries + 1])
    BY <1>2, <2>2, CarryGoto DEF Become
  <2>3. CASE Return(w, "ok")
    BY <1>2, <2>3, CarryEnd
  <2> QED
    BY <1>6, <2>1, <2>2, <2>3 DEF PairCreate, Retry
<1> QED
    BY <1>3, <1>4, <1>5, <1>6

LEMMA PairingCarries ==
    ASSUME ServiceInv, NEW w \in Workers,
           \/ AznRead(w) \/ AznClock(w) \/ AznAccount(w) \/ AznSave(w) \/ AznConflict(w)
           \/ ConRead(w) \/ ConClock(w) \/ ConAccount(w)
           \/ PrvRead(w) \/ PrvClock(w) \/ PrvSave(w) \/ PrvConflict(w)
    PROVE  Carries(w)
<1> DEFINE j == job[w]
<1>1. j.at \in {"azn:read", "azn:clock", "azn:account", "azn:save", "azn:conflict", "con:read", "con:clock",
                "con:account", "prv:read", "prv:clock", "prv:save", "prv:conflict"}
    BY DEF AznRead, AznClock, AznAccount, AznSave, AznConflict, ConRead, ConClock, ConAccount,
       PrvRead, PrvClock, PrvSave, PrvConflict, ReadPairing, CheckPairing, ReadStudent, SaveConflict, At
<1>2. j.at \notin RevokeStages \cup {"done"}
    BY <1>1 DEF RevokeStages
<1>3. ASSUME NEW label, NEW next, next # "rev:clock", ReadPairing(w, label, next)
      PROVE  Carries(w)
  <2>1. \/ Answer(w, "invalid")
        \/ \E p : job' = [job EXCEPT ![w] = [j EXCEPT !.at = next, !.prow = p]]
    BY <1>3 DEF ReadPairing, Become
  <2> QED
    BY <1>2, <1>3, <2>1, CarryEnd, CarryGoto
<1>4. ASSUME NEW label, NEW wanted, NEW next, next # "rev:clock", CheckPairing(w, label, wanted, next)
      PROVE  Carries(w)
  <2>1. \/ \E out : Answer(w, out)
        \/ \E at \in {next, "pair:expire"} :
              job' = [job EXCEPT ![w] = [j EXCEPT !.at = at, !.t = now]]
    BY <1>4 DEF CheckPairing, Become
  <2>2. CASE \E out : Answer(w, out)
    BY <1>2, <2>2, CarryEnd
  <2>3. CASE \E at \in {next, "pair:expire"} :
                job' = [job EXCEPT ![w] = [j EXCEPT !.at = at, !.t = now]]
    <3>1. PICK at \in {next, "pair:expire"} : job' = [job EXCEPT ![w] = [j EXCEPT !.at = at, !.t = now]]
      BY <2>3
    <3> QED
      BY <1>2, <1>4, <3>1, CarryGoto
  <2> QED
    BY <2>1, <2>2, <2>3
<1>5. ASSUME NEW label, NEW u, NEW next, next # "rev:clock", ReadStudent(w, label, u, next)
      PROVE  Carries(w)
  <2>1. \/ Answer(w, "invalid")
        \/ \E a : job' = [job EXCEPT ![w] = [j EXCEPT !.at = next, !.acct = a]]
    BY <1>5 DEF ReadStudent, Become
  <2> QED
    BY <1>2, <1>5, <2>1, CarryEnd, CarryGoto
<1>6. CASE AznRead(w) \/ ConRead(w) \/ PrvRead(w)
    BY <1>3, <1>6 DEF AznRead, ConRead, PrvRead
<1>7. CASE AznClock(w) \/ ConClock(w) \/ PrvClock(w)
    BY <1>4, <1>7 DEF AznClock, ConClock, PrvClock
<1>8. CASE AznAccount(w) \/ ConAccount(w)
    BY <1>5, <1>8 DEF AznAccount, ConAccount
<1>9. CASE AznConflict(w) \/ PrvConflict(w)
    BY <1>2, <1>9, CarryEnd DEF AznConflict, PrvConflict, SaveConflict
<1>10. CASE AznSave(w) \/ PrvSave(w)
    BY <1>2, <1>10, CarryEnd, CarryGoto DEF AznSave, PrvSave
<1> QED
    BY <1>6, <1>7, <1>8, <1>9, <1>10

LEMMA TerminalCarries ==
    ASSUME ServiceInv, NEW w \in Workers,
           \/ AznSession(w) \/ ConRecheck(w) \/ ConVerify(w) \/ ConDiscard(w) \/ ConDeliver(w)
           \/ ConFailed(w) \/ BearSnapshot(w) \/ BearClock(w) \/ BearStatus(w)
           \/ \E s \in SessionIds : ConSave(w, s)
    PROVE  Carries(w)
<1> DEFINE j == job[w]
<1>0. j \in JobType /\ StagesHold(j)
    BY JobFacts
<1>1. j.at \in {"azn:session", "con:recheck", "con:verify", "con:discard", "con:deliver", "con:failed",
                "con:save", "bear:snapshot", "bear:clock", "bear:status"}
    BY DEF AznSession, ConRecheck, ConVerify, ConDiscard, ConDeliver, ConFailed, ConSave, BearSnapshot,
       BearClock, BearStatus, At
<1>2. j.at \notin RevokeStages \cup {"done"}
    BY <1>1 DEF RevokeStages
<1>3. CASE AznSession(w)
  <2>1. CASE \E out : Answer(w, out)
    BY <1>2, <2>1, CarryEnd
  <2>2. CASE Become(w, [NoJob EXCEPT !.op = j.op, !.at = "azn:read", !.p = j.p, !.u = j.row.user])
    <3> DEFINE k == [NoJob EXCEPT !.op = j.op, !.at = "azn:read", !.p = j.p, !.u = j.row.user]
    <3>1. k.op = j.op /\ k.at = "azn:read" /\ k.t = 0 /\ k.row = None
      BY DEF NoJob
    <3>2. job' = [job EXCEPT ![w] = k]
      BY <2>2 DEF Become
    <3> HIDE DEF k
    <3> QED
      BY <1>2, <3>1, <3>2 DEF Carries, CarriedOn
  <2> QED
    BY <1>3, <2>1, <2>2 DEF AznSession
<1>4. CASE \E s \in SessionIds : ConSave(w, s)
  <2>1. PICK s \in SessionIds : ConSave(w, s)
    BY <1>4
  <2> DEFINE i == [j EXCEPT !.s = s, !.acct = None]
             k == [i EXCEPT !.at = "auth:read", !.ret = "con:verify", !.aud = "tui", !.tries = 0]
  <2>2. CASE job' = [job EXCEPT ![w] = k]
    <3>1. k.op = j.op /\ k.at = "auth:read" /\ k.t = j.t /\ k.row = j.row
      BY <1>0 DEF JobType
    <3> HIDE DEF k
    <3> QED
      BY <1>2, <2>2, <3>1 DEF Carries, CarriedOn
  <2>3. CASE \/ \E out : Answer(w, out)
             \/ Goto(w, "con:recheck")
    BY <1>2, <2>3, CarryEnd, CarryGoto
  <2> QED
    BY <2>1, <2>2, <2>3 DEF ConSave, CallWithin, Become
<1>5. CASE ConRecheck(w)
  <2>1. \/ \E out : Answer(w, out)
        \/ Become(w, Ended(j, "unavailable"))
        \/ Become(w, [j EXCEPT !.at = "con:save", !.tries = j.tries + 1])
    BY <1>5 DEF ConRecheck, Retry
  <2>2. CASE Become(w, Ended(j, "unavailable"))
    BY <1>2, <2>2, CarryEnd DEF Return
  <2>3. CASE Become(w, [j EXCEPT !.at = "con:save", !.tries = j.tries + 1])
    BY <1>2, <2>3, CarryGoto DEF Become
  <2>4. CASE \E out : Answer(w, out)
    BY <1>2, <2>4, CarryEnd
  <2> QED
    BY <2>1, <2>2, <2>3, <2>4
<1>6. CASE ConVerify(w) \/ ConFailed(w) \/ BearClock(w) \/ BearStatus(w)
  <2>1. \/ \E out : Answer(w, out)
        \/ \E at \in {"con:deliver", "con:discard", "bear:status"} : Goto(w, at)
    BY <1>6 DEF ConVerify, ConFailed, BearClock, BearStatus
  <2> QED
    BY <1>2, <2>1, CarryEnd, CarryGoto
<1>7. CASE ConDiscard(w) \/ ConDeliver(w)
  <2> DEFINE k == [j EXCEPT !.at = "rev:read", !.ret = "con:failed", !.aud = "tui", !.tries = 0]
  <2>1. \/ Answer(w, "ok") \/ Goto(w, "con:failed")
        \/ job' = [job EXCEPT ![w] = k]
    BY <1>7 DEF ConDiscard, ConDeliver, CallWithin, Become
  <2>2. CASE job' = [job EXCEPT ![w] = k]
    <3>1. k.op = j.op /\ k.at = "rev:read" /\ k.t = j.t /\ k.row = j.row
      BY <1>0 DEF JobType
    <3> HIDE DEF k
    <3> QED
      BY <1>2, <2>2, <3>1 DEF Carries, CarriedOn
  <2> QED
    BY <1>2, <2>1, <2>2, CarryEnd, CarryGoto
<1>8. CASE BearSnapshot(w)
  <2> DEFINE row == sessions[j.s]
             k == [j EXCEPT !.at = "bear:clock", !.row = row]
  <2>1. \/ \E out : Answer(w, out)
        \/ Goto(w, "bear:status")
        \/ job' = [job EXCEPT ![w] = k]
    BY <1>8 DEF BearSnapshot, Become
  <2>2. CASE job' = [job EXCEPT ![w] = k]
    <3>1. k.op = j.op /\ k.at = "bear:clock" /\ k.t = j.t /\ k.row = row
      BY <1>0 DEF JobType
    <3>2. j.s \in SessionIds
      BY <1>0, <1>8 DEF StagesHold, SessionStages, Resumed, BearSnapshot, At
    <3> HIDE DEF k
    <3> QED
      BY <1>2, <2>2, <3>1, <3>2 DEF Carries, CarriedOn
  <2> QED
    BY <1>2, <2>1, <2>2, CarryEnd, CarryGoto
<1> QED
    BY <1>3, <1>4, <1>5, <1>6, <1>7, <1>8

\* A call that begins has read nothing, and a logout begins at its first stage.
Begins(w) ==
    \E k :
        /\ job' = [job EXCEPT ![w] = k]
        /\ k.t = 0 /\ k.row = None /\ k.gen = None
        /\ k.at \notin {"rev:clock", "done"}
        /\ k.op = "revoke" => k.at = "rev:read" /\ k.ret = "done"

LEMMA CallBegins ==
    ASSUME NEW w \in Workers,
           \/ CallIssue(w) \/ CallAuthenticate(w) \/ CallRevoke(w) \/ CallRevokeAll(w)
           \/ CallBegin(w) \/ CallAuthorize(w) \/ CallConsume(w) \/ CallBearer(w)
           \/ CallRevokePairing(w) \/ Finish(w)
    PROVE  Begins(w)
<1>1. ASSUME NEW op, NEW at, NEW j, Begin(w, op, at, j),
             LET k == [j EXCEPT !.op = op, !.at = at] IN
             k.t = 0 /\ k.row = None /\ k.gen = None /\ k.at = at /\ k.op = op /\ k.ret = j.ret,
             at \notin {"rev:clock", "done"}, op = "revoke" => at = "rev:read" /\ j.ret = "done"
      PROVE  Begins(w)
  <2> DEFINE k == [j EXCEPT !.op = op, !.at = at]
  <2>1. job' = [job EXCEPT ![w] = k]
    BY <1>1 DEF Begin, Become
  <2>2. k.t = 0 /\ k.row = None /\ k.gen = None /\ k.at = at /\ k.op = op /\ k.ret = j.ret
    BY <1>1
  <2> HIDE DEF k
  <2> QED
    BY <1>1, <2>1, <2>2 DEF Begins
<1>2. CASE CallIssue(w)
  <2>1. PICK u \in Users : Begin(w, "issue", "issue:account", [NoJob EXCEPT !.u = u])
    BY <1>2 DEF CallIssue
  <2> DEFINE j == [NoJob EXCEPT !.u = u]
  <2>2. LET k == [j EXCEPT !.op = "issue", !.at = "issue:account"] IN
        k.t = 0 /\ k.row = None /\ k.gen = None /\ k.at = "issue:account" /\ k.op = "issue" /\ k.ret = j.ret
    BY DEF NoJob
  <2> HIDE DEF j
  <2> QED
    BY <1>1, <2>1, <2>2 DEF j
<1>3. CASE CallAuthenticate(w)
  <2>1. PICK s \in SessionIds, aud \in Audiences : Begin(w, "authenticate", "auth:read", [NoJob EXCEPT !.s = s, !.aud = aud])
    BY <1>3 DEF CallAuthenticate
  <2> DEFINE j == [NoJob EXCEPT !.s = s, !.aud = aud]
  <2>2. LET k == [j EXCEPT !.op = "authenticate", !.at = "auth:read"] IN
        k.t = 0 /\ k.row = None /\ k.gen = None /\ k.at = "auth:read" /\ k.op = "authenticate" /\ k.ret = j.ret
    BY DEF NoJob
  <2> HIDE DEF j
  <2> QED
    BY <1>1, <2>1, <2>2 DEF j
<1>4. CASE CallRevoke(w)
  <2>1. PICK s \in SessionIds, aud \in Audiences : Begin(w, "revoke", "rev:read", [NoJob EXCEPT !.s = s, !.aud = aud])
    BY <1>4 DEF CallRevoke
  <2> DEFINE j == [NoJob EXCEPT !.s = s, !.aud = aud]
  <2>2. LET k == [j EXCEPT !.op = "revoke", !.at = "rev:read"] IN
        k.t = 0 /\ k.row = None /\ k.gen = None /\ k.at = "rev:read" /\ k.op = "revoke" /\ k.ret = j.ret
    BY DEF NoJob
  <2>3. j.ret = "done"
    BY DEF NoJob
  <2> HIDE DEF j
  <2> QED
    BY <1>1, <2>1, <2>2, <2>3 DEF j
<1>5. CASE CallRevokeAll(w)
  <2>1. PICK u \in Users, aud \in Audiences : Begin(w, "revoke_all", "all:clock", [NoJob EXCEPT !.u = u, !.aud = aud])
    BY <1>5 DEF CallRevokeAll
  <2> DEFINE j == [NoJob EXCEPT !.u = u, !.aud = aud]
  <2>2. LET k == [j EXCEPT !.op = "revoke_all", !.at = "all:clock"] IN
        k.t = 0 /\ k.row = None /\ k.gen = None /\ k.at = "all:clock" /\ k.op = "revoke_all" /\ k.ret = j.ret
    BY DEF NoJob
  <2> HIDE DEF j
  <2> QED
    BY <1>1, <2>1, <2>2 DEF j
<1>6. CASE CallBegin(w)
  <2>1. Begin(w, "begin", "clean:clock", NoJob)
    BY <1>6 DEF CallBegin
  <2> DEFINE j == NoJob
  <2>2. LET k == [j EXCEPT !.op = "begin", !.at = "clean:clock"] IN
        k.t = 0 /\ k.row = None /\ k.gen = None /\ k.at = "clean:clock" /\ k.op = "begin" /\ k.ret = j.ret
    BY DEF NoJob
  <2> HIDE DEF j
  <2> QED
    BY <1>1, <2>1, <2>2 DEF j
<1>7. CASE CallAuthorize(w)
  <2>1. PICK s \in SessionIds, p \in PairingIds : Begin(w, "authorize", "auth:read", [NoJob EXCEPT !.s = s, !.p = p, !.ret = "azn:session"])
    BY <1>7 DEF CallAuthorize
  <2> DEFINE j == [NoJob EXCEPT !.s = s, !.p = p, !.ret = "azn:session"]
  <2>2. LET k == [j EXCEPT !.op = "authorize", !.at = "auth:read"] IN
        k.t = 0 /\ k.row = None /\ k.gen = None /\ k.at = "auth:read" /\ k.op = "authorize" /\ k.ret = j.ret
    BY DEF NoJob
  <2> HIDE DEF j
  <2> QED
    BY <1>1, <2>1, <2>2 DEF j
<1>8. CASE CallConsume(w)
  <2>1. PICK p \in PairingIds : Begin(w, "consume", "con:read", [NoJob EXCEPT !.p = p])
    BY <1>8 DEF CallConsume
  <2> DEFINE j == [NoJob EXCEPT !.p = p]
  <2>2. LET k == [j EXCEPT !.op = "consume", !.at = "con:read"] IN
        k.t = 0 /\ k.row = None /\ k.gen = None /\ k.at = "con:read" /\ k.op = "consume" /\ k.ret = j.ret
    BY DEF NoJob
  <2> HIDE DEF j
  <2> QED
    BY <1>1, <2>1, <2>2 DEF j
<1>9. CASE CallBearer(w)
  <2>1. PICK s \in SessionIds : Begin(w, "bearer", "auth:read", [NoJob EXCEPT !.s = s, !.aud = "tui", !.ret = "bear:snapshot"])
    BY <1>9 DEF CallBearer
  <2> DEFINE j == [NoJob EXCEPT !.s = s, !.aud = "tui", !.ret = "bear:snapshot"]
  <2>2. LET k == [j EXCEPT !.op = "bearer", !.at = "auth:read"] IN
        k.t = 0 /\ k.row = None /\ k.gen = None /\ k.at = "auth:read" /\ k.op = "bearer" /\ k.ret = j.ret
    BY DEF NoJob
  <2> HIDE DEF j
  <2> QED
    BY <1>1, <2>1, <2>2 DEF j
<1>10. CASE CallRevokePairing(w)
  <2>1. PICK p \in PairingIds : Begin(w, "revoke_pairing", "prv:read", [NoJob EXCEPT !.p = p])
    BY <1>10 DEF CallRevokePairing
  <2> DEFINE j == [NoJob EXCEPT !.p = p]
  <2>2. LET k == [j EXCEPT !.op = "revoke_pairing", !.at = "prv:read"] IN
        k.t = 0 /\ k.row = None /\ k.gen = None /\ k.at = "prv:read" /\ k.op = "revoke_pairing" /\ k.ret = j.ret
    BY DEF NoJob
  <2> HIDE DEF j
  <2> QED
    BY <1>1, <2>1, <2>2 DEF j
<1>11. CASE Finish(w)
  <2>1. NoJob.t = 0 /\ NoJob.row = None /\ NoJob.gen = None /\ NoJob.at = "idle" /\ NoJob.op = "none"
    BY DEF NoJob
  <2> QED
    BY <1>11, <2>1 DEF Finish, Begins, Become
<1> QED
    BY <1>2, <1>3, <1>4, <1>5, <1>6, <1>7, <1>8, <1>9, <1>10, <1>11

-----------------------------------------------------------------------------
(***************************************************************************)
(* The steps of a logout.                                                  *)
(***************************************************************************)

LEMMA EndedLogout ==
    ASSUME NEW i \in JobType, now \in Time, now' = now, NEW out,
           i.row # None => i.row.created_at <= now /\ i.row.last_seen_at <= now,
           i.op = "revoke" => i.ret = "done",
           i.op = "revoke" /\ out \in {"ok", "false"} /\ i.gen # None /\ Audience(i.gen) = i.aud =>
               ~Usable(sessions'[i.s], now)
    PROVE  LogoutHolds(Ended(i, out))'
<1>0. 0 <= now
    BY TimeIsNat
<1> DEFINE k == Ended(i, out)
<1>1. CASE i.ret = "done"
  <2>1. /\ k.at = "done" /\ k.t = 0 /\ k.row = None /\ k.op = i.op /\ k.out = out /\ k.gen = i.gen
        /\ k.aud = i.aud /\ k.s = i.s /\ k.ret = "done"
    BY <1>1 DEF Ended, JobType
  <2> HIDE DEF k
  <2>2. LogoutHolds(k)'
    BY <1>0, <2>1 DEF LogoutHolds
  <2> QED
    BY <2>2 DEF k
<1>2. CASE i.ret # "done"
  <2>1. /\ k.at = i.ret /\ k.t = 0 /\ k.row = i.row /\ k.op = i.op
        /\ k.at # "rev:clock" /\ k.op # "revoke"
    BY <1>2 DEF Ended, JobType, Returns
  <2> HIDE DEF k
  <2>2. LogoutHolds(k)'
    BY <1>0, <2>1 DEF LogoutHolds
  <2> QED
    BY <2>2 DEF k
<1> QED
    BY <1>1, <1>2

\* Where a worker's step leaves its call.
Leaves(w) == \E k : job' = [job EXCEPT ![w] = k] /\ LogoutHolds(k)'

LEMMA RevReadLeaves ==
    ASSUME LogoutInv, NEW w \in Workers, RevRead(w)
    PROVE  Leaves(w)
<1> DEFINE j == job[w]
           row == sessions[j.s]
           gen == Generation(row)
           k == [j EXCEPT !.at = "rev:clock", !.row = row, !.gen = gen]
<1>0. /\ j \in JobType /\ StagesHold(j) /\ LogoutHolds(j) /\ now' = now /\ sessions' = sessions
      /\ j.at = "rev:read"
    BY JobFacts DEF LogoutInv, RevRead, ReadOnly, storeVars, At
<1>1. j.s \in SessionIds
    BY <1>0, StageClasses DEF StagesHold
<1>2. row # None => row.created_at <= now /\ row.last_seen_at <= now
    BY <1>1 DEF LogoutInv, NothingIsLater
<1>3. gen # None => row # None
    BY DEF Generation
<1>4. job' = [job EXCEPT ![w] = k]
    BY DEF RevRead, Become
<1> HIDE DEF row, gen
<1>5. k.at = "rev:clock" /\ k.t = j.t /\ k.row = row /\ k.gen = gen /\ k.op = j.op /\ k.ret = j.ret
    BY <1>0 DEF JobType
<1> HIDE DEF k
<1>6. PICK h : h = k
    OBVIOUS
<1>7. LogoutHolds(h)'
    BY <1>0, <1>2, <1>3, <1>5, <1>6 DEF LogoutHolds, RevokeStages
<1> QED
    BY <1>4, <1>6, <1>7 DEF Leaves

\* A logout with nothing to do has nothing left to revoke.
LEMMA NothingIsNothing ==
    ASSUME LogoutInv, NEW w \in Workers, At(w, "rev:clock"),
           NothingToRevoke(job[w].row, job[w].aud, now),
           job[w].gen # None, Audience(job[w].gen) = job[w].aud
    PROVE  ~Usable(sessions[job[w].s], now)
<1> DEFINE j == job[w]
           row == sessions[j.s]
<1>0. /\ j \in JobType /\ StagesHold(j) /\ RowsHold(j) /\ LogoutHolds(j) /\ TypeOK /\ now \in Time
    BY JobFacts DEF LogoutInv
<1>1. j.s \in SessionIds
    BY <1>0 DEF RowsHold
<1>2. CASE j.row = None
    BY <1>0, <1>2 DEF LogoutHolds, At, Usable
<1>3. CASE j.row # None /\ row # None
  <2>1. row \in SessionRow /\ j.row \in SessionRow
    BY <1>0, <1>1, <1>3 DEF TypeOK, JobType
  <2>2. /\ SameGeneration(row, j.row)
        /\ j.row.revoked_at # None => row.revoked_at # None
        /\ j.gen = Generation(j.row)
    BY <1>0, <1>3 DEF RowsHold, WasRow
  <2>3. Audience(j.row) = j.aud
    <3>1. j.gen.source_pairing = j.row.source_pairing
      BY <1>3, <2>1, <2>2 DEF Generation, SessionRow
    <3> QED
      BY <3>1 DEF Audience
  <2>4. ~(now < j.row.created_at)
    <3>1. j.row.created_at <= now
      BY <1>0, <1>3 DEF LogoutHolds
    <3>2. j.row.created_at \in Nat /\ now \in Nat
      BY <1>0, <2>1, TimeIsNat DEF SessionRow
    <3> QED
      BY <3>1, <3>2
  <2>5. j.row.revoked_at # None \/ now >= j.row.expires_at
    BY <1>3, <2>3, <2>4 DEF NothingToRevoke
  <2>6. row.expires_at = j.row.expires_at /\ row.expires_at \in Nat /\ now \in Nat
    BY <1>0, <2>1, <2>2, TimeIsNat DEF SameGeneration, SessionRow
  <2> QED
    BY <2>2, <2>5, <2>6 DEF Usable
<1> QED
    BY <1>2, <1>3 DEF Usable

LEMMA RevClockLeaves ==
    ASSUME LogoutInv, NEW w \in Workers, RevClock(w)
    PROVE  Leaves(w)
<1> DEFINE j == job[w]
<1>0. /\ j \in JobType /\ RowsHold(j) /\ LogoutHolds(j) /\ now' = now /\ sessions' = sessions
      /\ j.at = "rev:clock" /\ now \in Time
    BY JobFacts DEF LogoutInv, RevClock, ReadOnly, storeVars, At
<1>1. CASE NothingToRevoke(j.row, j.aud, now) /\ Return(w, "false")
  <2>1. j.gen # None /\ Audience(j.gen) = j.aud => ~Usable(sessions'[j.s], now)
    BY <1>0, <1>1, NothingIsNothing DEF At
  <2>2. PICK i \in JobType : i = j
    BY <1>0
  <2>3. LogoutHolds(Ended(i, "false"))'
    BY <1>0, <2>1, <2>2, EndedLogout DEF LogoutHolds
  <2>4. job' = [job EXCEPT ![w] = Ended(i, "false")]
    BY <1>1, <2>2 DEF Return, Become
  <2> QED
    BY <2>3, <2>4 DEF Leaves
<1>2. CASE /\ ~NothingToRevoke(j.row, j.aud, now)
           /\ Become(w, [j EXCEPT !.at = "rev:save", !.t = Later(now, j.row.last_seen_at)])
  <2> DEFINE t == Later(now, j.row.last_seen_at)
             k == [j EXCEPT !.at = "rev:save", !.t = t]
  <2>1. t <= now
    <3>1. j.row # None /\ j.row.last_seen_at <= now /\ j.row.last_seen_at \in Nat /\ now \in Nat
      BY <1>0, <1>2, TimeIsNat DEF LogoutHolds, NothingToRevoke, RowsHold, WasRow
    <3> QED
      BY <3>1 DEF Later
  <2>2. job' = [job EXCEPT ![w] = k]
    BY <1>2 DEF Become
  <2> HIDE DEF t
  <2>3. k.at = "rev:save" /\ k.t = t /\ k.row = j.row /\ k.op = j.op /\ k.ret = j.ret
    BY <1>0 DEF JobType
  <2> HIDE DEF k
  <2>4. PICK h : h = k
    OBVIOUS
  <2>5. LogoutHolds(h)'
    BY <1>0, <2>1, <2>3, <2>4 DEF LogoutHolds, RevokeStages
  <2> QED
    BY <2>2, <2>4, <2>5 DEF Leaves
<1> QED
    BY <1>1, <1>2 DEF RevClock

LEMMA RevSaveLeaves ==
    ASSUME LogoutInv, NEW w \in Workers, RevSave(w)
    PROVE  Leaves(w)
<1> DEFINE j == job[w]
           row == sessions[j.s]
<1>0. /\ j \in JobType /\ StagesHold(j) /\ RowsHold(j) /\ LogoutHolds(j) /\ now' = now
      /\ j.at = "rev:save" /\ now \in Time /\ TypeOK
    BY JobFacts DEF LogoutInv, RevSave, At
<1>1. CASE RevokeSession(j.s, j.row, j.t) /\ Return(w, "ok")
  <2>1. j.s \in SessionIds /\ j.t # None
    BY <1>0, StageClasses, TimeIsNat, NoneAssumption DEF StagesHold, JobType
  <2>2. row \in SessionRow
    BY <1>0, <1>1, <2>1 DEF TypeOK, RevokeSession, CanRevoke, SameGeneration
  <2> DEFINE l == Later(row.last_seen_at, j.row.last_seen_at)
  <2>3. sessions' = [sessions EXCEPT ![j.s].last_seen_at = l, ![j.s].revoked_at = j.t]
    BY <1>1 DEF RevokeSession
  <2> HIDE DEF l
  <2>4. sessions'[j.s].revoked_at = j.t
    BY <1>0, <2>1, <2>2, <2>3 DEF TypeOK, SessionRow
  <2>5. ~Usable(sessions'[j.s], now)
    BY <2>1, <2>4 DEF Usable
  <2>6. PICK i \in JobType : i = j
    BY <1>0
  <2>7. LogoutHolds(Ended(i, "ok"))'
    BY <1>0, <2>5, <2>6, EndedLogout DEF LogoutHolds
  <2>8. job' = [job EXCEPT ![w] = Ended(i, "ok")]
    BY <1>1, <2>6 DEF Return, Become
  <2> QED
    BY <2>7, <2>8 DEF Leaves
<1>2. CASE Goto(w, "rev:reread")
  <2> DEFINE k == [j EXCEPT !.at = "rev:reread"]
  <2>1. job' = [job EXCEPT ![w] = k]
    BY <1>2 DEF Goto, Become
  <2>2. k.at = "rev:reread" /\ k.t = j.t /\ k.row = j.row /\ k.op = j.op /\ k.ret = j.ret
    BY <1>0 DEF JobType
  <2> HIDE DEF k
  <2>3. PICK h : h = k
    OBVIOUS
  <2>4. LogoutHolds(h)'
    BY <1>0, <2>2, <2>3 DEF LogoutHolds, RevokeStages
  <2> QED
    BY <2>1, <2>3, <2>4 DEF Leaves
<1> QED
    BY <1>1, <1>2 DEF RevSave

LEMMA RevRereadLeaves ==
    ASSUME LogoutInv, NEW w \in Workers, RevReread(w)
    PROVE  Leaves(w)
<1> DEFINE j == job[w]
           row == sessions[j.s]
           i == [j EXCEPT !.row = row]
<1>0. /\ j \in JobType /\ StagesHold(j) /\ LogoutHolds(j) /\ now' = now /\ sessions' = sessions
      /\ j.at = "rev:reread" /\ now \in Time /\ TypeOK
    BY JobFacts DEF LogoutInv, RevReread, ReadOnly, storeVars, At
<1>1. j.s \in SessionIds
    BY <1>0, StageClasses DEF StagesHold
<1>2. /\ row # None => row.created_at <= now /\ row.last_seen_at <= now
      /\ row \in SessionRow \cup {None}
    BY <1>0, <1>1 DEF LogoutInv, NothingIsLater, TypeOK
<1>3. Retry(w, i, "rev:clock", "conflict")
    BY DEF RevReread
<1>5. row = sessions[j.s]
    OBVIOUS
<1> HIDE DEF row
<1>6. /\ i \in JobType /\ i.row = row /\ i.t = j.t /\ i.op = j.op /\ i.ret = j.ret /\ i.gen = j.gen
      /\ i.aud = j.aud /\ i.s = j.s
    BY <1>0, <1>2 DEF JobType
<1> HIDE DEF i
<1>7. PICK h \in JobType : h = i
    BY <1>6
<1>8. CASE Become(w, Ended(i, "conflict"))
  <2>1. LogoutHolds(Ended(h, "conflict"))'
    BY <1>0, <1>2, <1>6, <1>7, EndedLogout DEF LogoutHolds
  <2>2. job' = [job EXCEPT ![w] = Ended(h, "conflict")]
    BY <1>7, <1>8 DEF Become
  <2> QED
    BY <2>1, <2>2 DEF Leaves
<1>9. CASE Become(w, [i EXCEPT !.at = "rev:clock", !.tries = i.tries + 1])
  <2> DEFINE n == i.tries + 1
             k == [h EXCEPT !.at = "rev:clock", !.tries = n]
  <2>1. job' = [job EXCEPT ![w] = k]
    BY <1>7, <1>9 DEF Become
  <2> HIDE DEF n
  <2>2. /\ k.at = "rev:clock" /\ k.t = j.t /\ k.row = row /\ k.op = j.op /\ k.ret = j.ret /\ k.s = j.s
    BY <1>6, <1>7 DEF JobType
  <2> HIDE DEF k
  <2>3. PICK g : g = k
    OBVIOUS
  <2>4. g.row = None => sessions'[g.s] = None
    BY <1>0, <1>5, <2>2, <2>3
  <2>5. LogoutHolds(g)'
    BY <1>0, <1>2, <2>2, <2>3, <2>4 DEF LogoutHolds, RevokeStages
  <2> QED
    BY <2>1, <2>3, <2>5 DEF Leaves
<1> QED
    BY <1>3, <1>8, <1>9 DEF Retry

-----------------------------------------------------------------------------
(***************************************************************************)
(* The clock, the other calls, and the invariant of a logout.              *)
(***************************************************************************)

\* The steps of a call take no time.
LEMMA WorkerNow ==
    ASSUME NEW w \in Workers, WorkerStep(w)
    PROVE  now' = now
<1>1. CASE SessionCalls(w)
  <2>1. CASE Issue(w)
    BY <2>1 DEF Issue, CallIssue, IssueAccount, IssueClock, IssueInsert, IssueRecheck, Begin, ReadClock,
       ReadOnly
  <2>2. CASE Authenticate(w)
    BY <2>2 DEF Authenticate, CallAuthenticate, AuthRead, AuthClock, AuthAccount, AuthTouch, AuthReread,
       Begin, ReadClock, ReadOnly
  <2>3. CASE Revoke(w)
    BY <2>3 DEF Revoke, CallRevoke, RevRead, RevClock, RevSave, RevReread, Begin, ReadOnly
  <2>4. CASE RevokeAll(w)
    BY <2>4 DEF RevokeAll, CallRevokeAll, RevAllClock, RevAllUpdate, Begin, ReadClock, ReadOnly
  <2> QED
    BY <1>1, <2>1, <2>2, <2>3, <2>4 DEF SessionCalls
<1>2. CASE PairingCalls(w)
  <2>1. CASE BeginPairing(w) \/ PairExpire(w)
    BY <2>1 DEF BeginPairing, PairExpire, CallBegin, CleanClock, CleanSessionRows, CleanPairingRows,
       PairClock, PairCreate, Begin, ReadClock, ReadOnly
  <2>2. CASE Authorize(w)
    BY <2>2 DEF Authorize, CallAuthorize, AznSession, AznRead, AznClock, AznAccount, AznSave, AznConflict,
       Begin, ReadPairing, CheckPairing, ReadStudent, SaveConflict, ReadOnly
  <2>3. CASE Consume(w)
    BY <2>3 DEF Consume, CallConsume, ConRead, ConClock, ConAccount, ConSave, ConRecheck, ConVerify,
       ConDiscard, ConDeliver, ConFailed, Begin, ReadPairing, CheckPairing, ReadStudent, ReadOnly
  <2>4. CASE Bearer(w)
    BY <2>4 DEF Bearer, CallBearer, BearSnapshot, BearClock, BearStatus, Begin, ReadOnly
  <2>5. CASE RevokePairingCall(w)
    BY <2>5 DEF RevokePairingCall, CallRevokePairing, PrvRead, PrvClock, PrvSave, PrvConflict, Begin,
       ReadPairing, CheckPairing, SaveConflict, ReadOnly
  <2> QED
    BY <1>2, <2>1, <2>2, <2>3, <2>4, <2>5 DEF PairingCalls
<1>3. CASE Finish(w)
    BY <1>3 DEF Finish
<1> QED
    BY <1>1, <1>2, <1>3 DEF WorkerStep

\* A step of a worker is of one of four kinds.
LEMMA StepKinds ==
    ASSUME ServiceInv, NEW w \in Workers, WorkerStep(w)
    PROVE  Carries(w) \/ Begins(w) \/ RevRead(w) \/ RevClock(w) \/ RevSave(w) \/ RevReread(w)
<1>1. CASE SessionCalls(w)
  <2>1. CASE Issue(w)
    BY <2>1, IssueCarries, CallBegins DEF Issue
  <2>2. CASE Authenticate(w)
    BY <2>2, AuthCarries, CallBegins DEF Authenticate
  <2>3. CASE Revoke(w)
    BY <2>3, CallBegins DEF Revoke
  <2>4. CASE RevokeAll(w)
    BY <2>4, IssueCarries, CallBegins DEF RevokeAll
  <2> QED
    BY <1>1, <2>1, <2>2, <2>3, <2>4 DEF SessionCalls
<1>2. CASE PairingCalls(w)
  <2>1. CASE BeginPairing(w) \/ PairExpire(w)
    BY <2>1, BeginCarries, CallBegins DEF BeginPairing
  <2>2. CASE Authorize(w)
    BY <2>2, PairingCarries, TerminalCarries, CallBegins DEF Authorize
  <2>3. CASE Consume(w)
    BY <2>3, PairingCarries, TerminalCarries, CallBegins DEF Consume
  <2>4. CASE Bearer(w)
    BY <2>4, TerminalCarries, CallBegins DEF Bearer
  <2>5. CASE RevokePairingCall(w)
    BY <2>5, PairingCarries, CallBegins DEF RevokePairingCall
  <2> QED
    BY <1>2, <2>1, <2>2, <2>3, <2>4, <2>5 DEF PairingCalls
<1>3. CASE Finish(w)
    BY <1>3, CallBegins
<1> QED
    BY <1>1, <1>2, <1>3 DEF WorkerStep

LEMMA WorkerLeaves ==
    ASSUME LogoutInv, NEW w \in Workers, WorkerStep(w)
    PROVE  Leaves(w)
<1> DEFINE j == job[w]
<1>0. j \in JobType /\ LogoutHolds(j) /\ now \in Time /\ now' = now /\ ServiceInv
    BY JobFacts, WorkerNow DEF LogoutInv
<1>1. CASE Carries(w)
  <2>1. PICK k : CarriedOn(w, k)
    BY <1>1 DEF Carries
  <2>2. k.t <= now
    BY <1>0, <2>1, TimeIsNat DEF CarriedOn, LogoutHolds
  <2>3. k.row # None => k.row.created_at <= now /\ k.row.last_seen_at <= now
    BY <1>0, <2>1 DEF CarriedOn, LogoutHolds, LogoutInv, NothingIsLater
  <2>4. k.op # "revoke" /\ k.at # "rev:clock"
    BY <1>0, <2>1 DEF CarriedOn, LogoutHolds
  <2>5. LogoutHolds(k)'
    BY <1>0, <2>2, <2>3, <2>4 DEF LogoutHolds
  <2> QED
    BY <2>1, <2>5 DEF CarriedOn, Leaves
<1>2. CASE Begins(w)
  <2>1. PICK k : /\ job' = [job EXCEPT ![w] = k]
                 /\ k.t = 0 /\ k.row = None /\ k.gen = None
                 /\ k.at \notin {"rev:clock", "done"}
                 /\ k.op = "revoke" => k.at = "rev:read" /\ k.ret = "done"
    BY <1>2 DEF Begins
  <2>2. LogoutHolds(k)'
    BY <1>0, <2>1, TimeIsNat DEF LogoutHolds, RevokeStages
  <2> QED
    BY <2>1, <2>2 DEF Leaves
<1> QED
    BY <1>0, <1>1, <1>2, StepKinds, RevReadLeaves, RevClockLeaves, RevSaveLeaves, RevRereadLeaves

\* What holds of a call outlives the steps of others, and the time they take.
LEMMA LogoutAges ==
    ASSUME TypeOK, TypeOK', TablesAge, now \in Time, now' \in Time, now <= now',
           NEW j, JobHolds(j), LogoutHolds(j)
    PROVE  LogoutHolds(j)'
<1>0. j \in JobType /\ RowsHold(j) /\ now \in Nat /\ now' \in Nat /\ j.t \in Nat
    BY TimeIsNat DEF JobHolds, JobType
<1>1. j.t <= now'
    BY <1>0 DEF LogoutHolds
<1>2. j.row # None => j.row.created_at <= now' /\ j.row.last_seen_at <= now'
  <2>1. j.row # None => j.row.created_at \in Nat /\ j.row.last_seen_at \in Nat
    BY <1>0 DEF JobType, SessionRow
  <2> QED
    BY <1>0, <2>1 DEF LogoutHolds
<1>3. ASSUME j.gen # None, sessions[j.s] = None PROVE sessions'[j.s] = None
    BY <1>0, <1>3 DEF RowsHold, TablesAge
<1>4. ASSUME j.gen # None, ~Usable(sessions[j.s], now) PROVE ~Usable(sessions'[j.s], now')
  <2> DEFINE row == sessions[j.s]
             new == sessions'[j.s]
  <2>1. CASE row = None \/ new = None
    BY <1>3, <1>4, <2>1 DEF Usable
  <2>2. CASE row # None /\ new # None
    <3>1. j.s \in SessionIds
      BY <1>0, <1>4 DEF RowsHold
    <3>2. /\ row \in SessionRow /\ new \in SessionRow
          /\ SameGeneration(row, new) /\ (row.revoked_at # None => new = row)
      BY <2>2, <3>1 DEF TypeOK, TablesAge, Continues
    <3>3. row.expires_at = new.expires_at /\ row.expires_at \in Nat
      BY <3>2 DEF SameGeneration, SessionRow
    <3> QED
      BY <1>0, <1>4, <2>2, <3>2, <3>3 DEF Usable
  <2> QED
    BY <2>1, <2>2
<1> QED
    BY <1>1, <1>2, <1>3, <1>4 DEF LogoutHolds

\* A change of an account is no use of its sessions.
LEMMA AccountsUseNothing ==
    ASSUME TypeOK, AccountChange, NEW s \in SessionIds, sessions'[s] # None
    PROVE  sessions[s] # None /\ sessions'[s].last_seen_at = sessions[s].last_seen_at
<1>1. PICK u \in Users, role \in Roles : SaveActiveUser(u, role, now) \/ SaveInactiveUser(u, role, now)
    BY DEF AccountChange
<1>2. CASE SaveActiveUser(u, role, now)
    BY <1>2 DEF SaveActiveUser
<1>3. CASE SaveInactiveUser(u, role, now)
  <2> DEFINE d == DisabledAt(sessions[s], now)
  <2>1. sessions'[s] = IF OpenSession(s, u) THEN [sessions[s] EXCEPT !.revoked_at = d] ELSE sessions[s]
    BY <1>3 DEF SaveInactiveUser, SessionsDisabled
  <2> HIDE DEF d
  <2>2. CASE OpenSession(s, u)
    <3>1. sessions[s] \in SessionRow /\ sessions[s] # None
      BY <2>2 DEF OpenSession, TypeOK
    <3> QED
      BY <2>1, <2>2, <3>1 DEF SessionRow
  <2>3. CASE ~OpenSession(s, u)
    BY <2>1, <2>3
  <2> QED
    BY <2>2, <2>3
<1> QED
    BY <1>1, <1>2, <1>3

LEMMA NothingBecomesLater ==
    ASSUME LogoutInv, StoreMoves, TablesAge, TypeOK', now <= now'
    PROVE  NothingIsLater'
<1>0. /\ TypeOK /\ now \in Nat /\ now' \in Nat
      /\ \A w \in Workers : job[w].t \in Nat /\ job[w].t <= now
  <2>1. TypeOK /\ now \in Time /\ now' \in Time /\ \A w \in Workers : job[w] \in JobType /\ LogoutHolds(job[w])
    BY JobFacts DEF LogoutInv, StoreMoves, ServiceInv, StoreHolds, Inv, ClockHolds
  <2> QED
    BY <2>1, TimeIsNat DEF JobType, LogoutHolds
<1> SUFFICES ASSUME NEW s \in SessionIds, sessions'[s] # None
             PROVE  sessions'[s].created_at <= now' /\ sessions'[s].last_seen_at <= now'
    BY DEF NothingIsLater
<1>1. sessions'[s] \in SessionRow
    BY DEF TypeOK
<1>2. ASSUME sessions[s] # None
      PROVE  /\ sessions'[s].created_at = sessions[s].created_at
             /\ sessions[s].created_at <= now /\ sessions[s].last_seen_at <= now
    BY <1>2 DEF TablesAge, Continues, SameGeneration, LogoutInv, NothingIsLater
<1>3. sessions'[s].created_at \in Nat /\ sessions'[s].last_seen_at \in Nat
    BY <1>1 DEF SessionRow
<1>4. CASE UNCHANGED storeVars
    BY <1>0, <1>2, <1>3, <1>4 DEF storeVars
<1>5. CASE NoInsertion
  <2>1. sessions[s] # None
    BY <1>5 DEF NoInsertion
  <2>2. \A w \in Workers : Later(job[w].t, now) = now
    BY <1>0 DEF Later
  <2>3. sessions'[s].last_seen_at <= now
    BY <1>2, <1>5, <1>0, <2>1, <2>2 DEF NoInsertion
  <2> QED
    BY <1>0, <1>2, <1>3, <2>1, <2>3
<1>6. CASE AccountChange
    BY <1>0, <1>2, <1>3, <1>6, AccountsUseNothing
<1>7. CASE Insertion
  <2>1. PICK r \in SessionIds, u \in Users, t \in Time, p \in PairingIds \cup {None} :
            /\ \E w \in Workers : t = job[w].t
            /\ InsertSession(r, NewSession(u, t, p))
    BY <1>7 DEF Insertion
  <2>2. /\ sessions'[r] = NewSession(u, t, p)
        /\ s # r => sessions'[s] = sessions[s]
    BY <1>0, <2>1 DEF InsertSession, TypeOK
  <2>3. CASE s = r
    <3>1. sessions'[s].created_at = t /\ sessions'[s].last_seen_at = t
      BY <2>2, <2>3 DEF NewSession
    <3>2. t <= now
      BY <1>0, <2>1
    <3> QED
      BY <1>0, <1>3, <3>1, <3>2
  <2>4. CASE s # r
    BY <1>0, <1>2, <1>3, <2>2, <2>4
  <2> QED
    BY <2>3, <2>4
<1> QED
    BY <1>4, <1>5, <1>6, <1>7 DEF StoreMoves

LEMMA LogoutKept ==
    ASSUME ~ClockMayStepBack, LogoutInv, PairingNext
    PROVE  LogoutInv'
<1>0. ServiceInv /\ ServiceInv' /\ StoreMoves
    BY ServiceKept, PairingMoves DEF LogoutInv
<1>1. /\ TypeOK /\ TypeOK' /\ TablesAge /\ now \in Time /\ now' \in Time
    BY <1>0, MovesAge DEF ServiceInv, StoreHolds, Inv, ClockHolds
<1>2. now <= now'
  <2>1. now \in Nat
    BY <1>1, TimeIsNat
  <2>2. CASE Environment
    BY <2>1, <2>2 DEF Environment, Tick, StepBack, AdminSaves, CleanSessions
  <2> QED
    BY <2>1, <2>2, WorkerNow DEF PairingNext
<1>3. NothingIsLater'
    BY <1>0, <1>1, <1>2, NothingBecomesLater
<1>4. ASSUME NEW v \in Workers PROVE LogoutHolds(job[v])'
  <2>1. JobHolds(job[v]) /\ LogoutHolds(job[v])
    BY JobFacts DEF LogoutInv
  <2>2. CASE job'[v] = job[v]
    <3>1. PICK j : j = job[v]
      OBVIOUS
    <3>2. LogoutHolds(j)'
      BY <1>1, <1>2, <2>1, <3>1, LogoutAges
    <3> QED
      BY <2>2, <3>1, <3>2
  <2>3. CASE job'[v] # job[v]
    <3>1. WorkerStep(v)
      BY <1>0, <2>3, OthersKeep
    <3>2. PICK k : job' = [job EXCEPT ![v] = k] /\ LogoutHolds(k)'
      BY <3>1, WorkerLeaves DEF Leaves
    <3>3. job'[v] = k
      BY <1>0, <3>2 DEF ServiceInv
    <3> QED
      BY <3>2, <3>3
  <2> QED
    BY <2>2, <2>3
<1> QED
    BY <1>0, <1>3, <1>4 DEF LogoutInv

LEMMA LogoutStarts == ServiceInit => LogoutInv
<1> SUFFICES ASSUME ServiceInit PROVE LogoutInv
    OBVIOUS
<1>1. ServiceInv /\ now = 0
    BY ServiceStarts DEF ServiceInit
<1>2. NothingIsLater
  <2> SUFFICES ASSUME NEW s \in SessionIds, sessions[s] # None
               PROVE  sessions[s].created_at <= now /\ sessions[s].last_seen_at <= now
    BY DEF NothingIsLater
  <2>1. sessions[s] = NewSession(SomeUser, 0, None)
    BY DEF ServiceInit
  <2> QED
    BY <1>1, <2>1 DEF NewSession
<1>3. LogoutHolds(NoJob)
    BY <1>1 DEF LogoutHolds, NoJob
<1> QED
    BY <1>1, <1>2, <1>3 DEF LogoutInv, ServiceInit

\* For every deployment whose clock is not set back: whatever goes on
\* meanwhile, a logout that answers leaves no usable session behind it.
THEOREM LogoutIsFinalAlways ==
    ASSUME ~ClockMayStepBack
    PROVE  (SessionServiceSpec => []LogoutIsFinal) /\ (PairingSpec => []LogoutIsFinal)
<1>1. LogoutInv /\ [PairingNext]_vars => LogoutInv'
  <2>1. ASSUME LogoutInv, UNCHANGED vars PROVE LogoutInv'
    <3>1. ServiceInv'
      BY <2>1, ServiceStays DEF LogoutInv
    <3> QED
      BY <2>1, <3>1 DEF LogoutInv, vars, NothingIsLater, LogoutHolds
  <2> QED
    BY <2>1, LogoutKept
<1>2. LogoutInv /\ [SessionServiceNext]_vars => LogoutInv'
    BY <1>1, SessionServiceSteps
<1>3. LogoutInv => LogoutIsFinal
    BY DEF LogoutInv, LogoutHolds, LogoutIsFinal, At
<1>4. SessionServiceSpec => []LogoutIsFinal
    BY <1>2, <1>3, LogoutStarts, PTL DEF SessionServiceSpec
<1>5. PairingSpec => []LogoutIsFinal
    BY <1>1, <1>3, LogoutStarts, PTL DEF PairingSpec
<1> QED
    BY <1>4, <1>5
==============================================================================
