---------------------------- MODULE ProviderProofs ----------------------------
(***************************************************************************)
(* Proofs about what the server takes from GitHub and Google: the accounts  *)
(* that are linked to those of TheBitLab, the classes that GitHub teams     *)
(* give, and the token file that a classroom machine reads private sources  *)
(* with.  The inductive invariant of each component comes first, then the   *)
(* lemmas on its actions.                                                   *)
(***************************************************************************)
EXTENDS AccountLinks, TeamMemberships, AppTokens,
        FiniteSetTheorems, WellFoundedInduction, TLAPS

-----------------------------------------------------------------------------
(***************************************************************************)
(* The accounts at identity providers (AccountLinks)                        *)
(***************************************************************************)

GoogleStages == {"resolve", "provision", "owner", "refresh", "session"}
GitHubStages == {"account", "links", "winner", "latest", "insert", "retry", "renew"}
PersonRows == [rev : Nat, active : BOOLEAN]
CookieRows == [id : LoginIds, user : Owners]
LinkCalls == [pc : {"idle", "claims", "profile", "unlinks", "delete"} \cup GoogleStages
                     \cup GitHubStages,
              subject : ExternalSubjects \cup {None}, browser : Browsers \cup {None},
              state : States \cup {None}, user : Owners \cup {None}, rev : Nat \cup {None},
              session : LoginIds \cup {None}, row : LinkRows \cup {None},
              seen : Nat \cup {None}, now : Nat \cup {None}]

\* Generations in use have a last one.
HasNewest(past) == past # {} => \E x \in past : \A y \in past : y <= x

LinkTypeOK ==
    /\ person \in [Owners -> PersonRows \cup {None}]
    /\ link \in [ExternalSubjects -> LinkRows \cup {None}]
    /\ gens \in [ExternalSubjects -> SUBSET Nat]
    /\ cookie \in [Browsers -> CookieRows \cup {None}] /\ issued \in Nat
    /\ pending \in SUBSET States
    /\ flowOf \in [States -> LoginFlows \cup LinkFlows \cup {None}]
    /\ call \in [Requests -> LinkCalls]
    /\ linkClock \in Nat
    /\ born \in [ExternalSubjects -> Nat] /\ touched \in BOOLEAN
    /\ redeemed \in [States -> {0, 1}]
    /\ made \in [Owners -> Google \cup {None}]

\* A link is in a generation of its subject.
LinkHolds ==
    \A s \in ExternalSubjects :
        HasNewest(gens[s]) /\ (link[s] # None => link[s].gen \in gens[s])

\* A flow is redeemed neither before it was begun nor while it is kept.
FlowHolds ==
    \A st \in States :
        /\ st \in pending => flowOf[st] # None
        /\ flowOf[st] = None \/ st \in pending => redeemed[st] = 0

\* A Google subject that provisioned an account stays linked, and provisions no other.
MadeHolds ==
    \A u \in Owners : made[u] \in Google =>
        /\ link[made[u]] # None
        /\ \A v \in Owners : made[v] = made[u] => v = u

\* The row that a call has read is in a generation of its subject, and as long as it
\* is the link, no other was made since.
RowHolds(c) ==
    c.row # None => /\ c.subject \in ExternalSubjects /\ c.row.gen \in gens[c.subject]
                    /\ link[c.subject] = c.row => c.seen = born[c.subject]

\* A call that links acts for the account and the session that began its flow.
ConsentHolds(c) ==
    /\ c.pc \in {"profile"} \cup GitHubStages => c.state \in States /\ flowOf[c.state] \in LinkFlows
    /\ c.pc \in GitHubStages => /\ c.user = flowOf[c.state].user /\ c.rev = flowOf[c.state].rev
                                /\ c.session = flowOf[c.state].session

StageHolds(c) ==
    /\ c.pc \in GoogleStages => c.subject \in Google
    /\ c.pc \in GitHubStages \cup {"delete"} => c.subject \in GitHub
    /\ c.pc \in {"resolve", "provision", "links", "winner", "latest", "insert", "retry"} => c.now \in Nat
    /\ c.pc \in {"owner", "refresh", "renew", "delete"} => c.row # None
    /\ c.row # None => c.pc \in {"owner", "refresh", "session", "renew", "delete"}
    /\ c.pc \in {"refresh", "session"} => c.user \in Owners

CallHolds(c) == RowHolds(c) /\ ConsentHolds(c) /\ StageHolds(c)

LinkInv ==
    /\ LinkTypeOK /\ LinkHolds /\ FlowHolds /\ MadeHolds
    /\ \A r \in Requests : CallHolds(call[r])
    /\ ~touched

\* What may happen to the links and the flows under a call that is elsewhere.
LinksMove ==
    \A s \in ExternalSubjects :
        /\ gens[s] \subseteq gens'[s]
        /\ \/ link'[s] = link[s] /\ born'[s] = born[s]
           \/ link'[s] = None
           \/ link'[s].gen \notin gens[s]
FlowsMove ==
    \A st \in States : flowOf[st] \in LinkFlows =>
        /\ flowOf'[st] \in LinkFlows
        /\ flowOf'[st].user = flowOf[st].user /\ flowOf'[st].rev = flowOf[st].rev
        /\ flowOf'[st].session = flowOf[st].session

LEMMA CallStays ==
    ASSUME LinkInv, NEW t \in Requests, call'[t] = call[t], LinksMove, FlowsMove
    PROVE  CallHolds(call[t])'
<1>1. CallHolds(call[t])
    BY DEF LinkInv
<1>2. RowHolds(call[t])'
    BY <1>1 DEF CallHolds, RowHolds, LinksMove
<1>3. ConsentHolds(call[t])'
    BY <1>1 DEF CallHolds, ConsentHolds, FlowsMove
<1>4. StageHolds(call[t])'
    BY <1>1 DEF CallHolds, StageHolds
<1> QED
    BY <1>2, <1>3, <1>4 DEF CallHolds

\* A step that changes one call only.
LEMMA OneCall ==
    ASSUME LinkInv, NEW r \in Requests, NEW c \in LinkCalls, call' = [call EXCEPT ![r] = c],
           CallHolds(c), UNCHANGED << store, pending, flowOf, linkClock, history >>
    PROVE  LinkInv'
<1>1. call' \in [Requests -> LinkCalls]
    BY DEF LinkInv, LinkTypeOK
<1>2. LinksMove /\ FlowsMove
    BY DEF LinksMove, FlowsMove, store, history
<1>3. \A t \in Requests : CallHolds(call[t])'
  <2>1. ASSUME NEW t \in Requests, t # r PROVE CallHolds(call[t])'
    <3>1. call'[t] = call[t]
        BY <2>1 DEF LinkInv, LinkTypeOK
    <3> QED
        BY <1>2, <3>1, CallStays
  <2>2. call'[r] = c
      BY DEF LinkInv, LinkTypeOK
  <2>3. CallHolds(call[r])'
      BY <2>2 DEF CallHolds, RowHolds, ConsentHolds, StageHolds, store, history
  <2> QED
      BY <2>1, <2>3
<1> QED
    BY <1>1, <1>3 DEF LinkInv, LinkTypeOK, LinkHolds, FlowHolds, MadeHolds, store, history

LEMMA IdleHolds == NoLink \in LinkCalls /\ CallHolds(NoLink)
BY DEF LinkCalls, CallHolds, RowHolds, ConsentHolds, StageHolds, NoLink, GoogleStages, GitHubStages

\* A call that ends, changing nothing.
LEMMA CallGivesUp ==
    ASSUME LinkInv, NEW r \in Requests, LinkEnds(r),
           UNCHANGED << store, pending, flowOf, linkClock, history >>
    PROVE  LinkInv'
BY IdleHolds, OneCall DEF LinkEnds

LEMMA LinkStart ==
    ASSUME LinkInit, LinkAssumption
    PROVE  LinkInv
<1>1. cookie \in [Browsers -> CookieRows \cup {None}]
  <2>1. ASSUME NEW b \in Browsers, SignedInAs[b] # None
        PROVE  [id |-> <<b, 0>>, user |-> SignedInAs[b]] \in CookieRows
      BY <2>1, LinkAssumption DEF LinkAssumption, CookieRows, LoginIds
  <2> QED
      BY <2>1 DEF LinkInit
<1>2. LinkTypeOK
    BY <1>1, IdleHolds DEF LinkInit, LinkTypeOK, PersonRows
<1>3. LinkHolds /\ FlowHolds
    BY DEF LinkInit, LinkHolds, FlowHolds, HasNewest
<1>4. MadeHolds
    BY LinkAssumption DEF LinkInit, MadeHolds, LinkAssumption
<1>5. \A r \in Requests : CallHolds(call[r])
    BY IdleHolds DEF LinkInit
<1> QED
    BY <1>2, <1>3, <1>4, <1>5 DEF LinkInv, LinkInit

LEMMA BeginStep ==
    ASSUME LinkInv, LinkAssumption, NEW st \in States, NEW b \in Browsers,
           begin_login(st, b) \/ begin_link(st, b)
    PROVE  LinkInv'
<1>1. PICK flow \in LoginFlows \cup LinkFlows : Begin(st, flow)
  <2>1. linkClock + FlowTtl \in Nat
      BY LinkAssumption DEF LinkInv, LinkTypeOK, LinkAssumption
  <2>2. CASE begin_login(st, b)
    <3>1. [kind |-> "login", browser |-> b, expires |-> linkClock + FlowTtl] \in LoginFlows
        BY <2>1 DEF LoginFlows
    <3> QED
        BY <2>2, <3>1 DEF begin_login
  <2>3. CASE begin_link(st, b)
    <3>1. cookie[b] \in CookieRows /\ cookie[b].user \in Owners /\ cookie[b].id \in LoginIds
        BY <2>3 DEF begin_link, SignedIn, LinkInv, LinkTypeOK, CookieRows
    <3>2. person[cookie[b].user] \in PersonRows
        BY <2>3, <3>1 DEF begin_link, SignedIn, Active, LinkInv, LinkTypeOK
    <3>3. [kind |-> "link", browser |-> b, expires |-> linkClock + FlowTtl,
           user |-> cookie[b].user, rev |-> person[cookie[b].user].rev,
           session |-> cookie[b].id] \in LinkFlows
        BY <2>1, <3>1, <3>2 DEF LinkFlows, PersonRows
    <3> QED
        BY <2>3, <3>3 DEF begin_link
  <2> QED
      BY <2>2, <2>3
<1>2. /\ flowOf[st] = None /\ flowOf' = [flowOf EXCEPT ![st] = flow]
      /\ pending' \subseteq pending \cup {st}
      /\ UNCHANGED << store, call, linkClock, history >>
    BY <1>1 DEF Begin, Unexpired
<1>3. flow # None
    BY LinkAssumption DEF LinkAssumption
<1>4. LinkTypeOK'
    BY <1>2 DEF LinkInv, LinkTypeOK, store, history
<1>5. FlowHolds'
    BY <1>2, <1>3 DEF LinkInv, LinkTypeOK, FlowHolds, history
<1>6. LinksMove /\ FlowsMove
    BY <1>2, LinkAssumption DEF LinksMove, FlowsMove, store, history, LinkAssumption, LinkInv, LinkTypeOK
<1>7. \A t \in Requests : CallHolds(call[t])'
    BY <1>2, <1>6, CallStays
<1> QED
    BY <1>2, <1>4, <1>5, <1>7 DEF LinkInv, LinkHolds, MadeHolds, store, history

LEMMA ReceiveStep ==
    ASSUME LinkInv, LinkAssumption, NEW r \in Requests, NEW st \in States, NEW b \in Browsers,
           complete_callback(r, st, b) \/ complete_link(r, st, b)
    PROVE  LinkInv'
<1> DEFINE flow == flowOf[st]
           taken == [flow EXCEPT !.expires = 0]
<1>1. /\ Received(r, st, b) /\ flow.kind \in {"login", "link"} /\ st \in pending
    BY DEF complete_callback, complete_link, Received, Consumable
<1>2. /\ flow \in LoginFlows \cup LinkFlows /\ redeemed[st] = 0
    BY <1>1 DEF LinkInv, LinkTypeOK, FlowHolds
<1>3. /\ flow \in LoginFlows => taken \in LoginFlows
      /\ flow \in LinkFlows => /\ taken \in LinkFlows /\ taken.user = flow.user
                               /\ taken.rev = flow.rev /\ taken.session = flow.session
    BY DEF LoginFlows, LinkFlows
<1>4. /\ flowOf' = [flowOf EXCEPT ![st] = taken] /\ pending' = pending \ {st}
      /\ UNCHANGED << store, linkClock, born, touched, landed, made >>
    BY <1>1 DEF Received, Taken
<1> DEFINE c == [NoLink EXCEPT !.state = st, !.browser = b,
                          !.pc = IF flow.kind = "login" THEN "claims" ELSE "profile"]
<1>5. \/ UNCHANGED << call, redeemed >>
      \/ redeemed' = [redeemed EXCEPT ![st] = @ + 1] /\ call' = [call EXCEPT ![r] = c]
    BY <1>1 DEF Received
<1>6. taken # None
    BY <1>2, <1>3, LinkAssumption DEF LinkAssumption
<1>7. flowOf' \in [States -> LoginFlows \cup LinkFlows \cup {None}]
    BY <1>2, <1>3, <1>4 DEF LinkInv, LinkTypeOK
<1>8. redeemed' \in [States -> {0, 1}]
    BY <1>2, <1>5 DEF LinkInv, LinkTypeOK
<1>9. FlowHolds'
    BY <1>2, <1>4, <1>5, <1>6 DEF LinkInv, LinkTypeOK, FlowHolds
<1>10. LinksMove /\ FlowsMove
    BY <1>3, <1>4, LinkAssumption DEF LinksMove, FlowsMove, store, LinkAssumption, LinkInv, LinkTypeOK
<1>11. c \in LinkCalls
    BY DEF LinkCalls, NoLink
<1>12. call' \in [Requests -> LinkCalls]
    BY <1>5, <1>11 DEF LinkInv, LinkTypeOK
<1>13. \A t \in Requests : CallHolds(call[t])'
  <2>1. ASSUME NEW t \in Requests, call'[t] = call[t] PROVE CallHolds(call[t])'
      BY <2>1, <1>10, CallStays
  <2>2. ASSUME call'[r] = c PROVE CallHolds(call[r])'
    <3>1. c.pc = "profile" => flowOf'[st] \in LinkFlows
        BY <1>2, <1>3, <1>4 DEF LinkInv, LinkTypeOK, LoginFlows, NoLink
    <3>2. c.row = None /\ c.state = st /\ c.pc \in {"claims", "profile"}
        BY DEF NoLink
    <3> HIDE DEF c
    <3> QED
        BY <2>2, <3>1, <3>2 DEF CallHolds, RowHolds, ConsentHolds, StageHolds, GoogleStages, GitHubStages
  <2> HIDE DEF c
  <2> QED
      BY <1>5, <2>1, <2>2 DEF LinkInv, LinkTypeOK
<1> QED
    BY <1>4, <1>7, <1>8, <1>9, <1>12, <1>13
    DEF LinkInv, LinkTypeOK, LinkHolds, MadeHolds, store

\* The steps that read, or ask the provider: they change their call only.
LEMMA ProviderAnswers ==
    ASSUME LinkInv, LinkAssumption, NEW r \in Requests, assertion_from_claims(r) \/ read_profile(r)
    PROVE  LinkInv'
<1> USE LinkAssumption DEF LinkAssumption
<1>1. /\ call[r] \in LinkCalls /\ CallHolds(call[r]) /\ linkClock \in Nat
      /\ UNCHANGED << store, pending, flowOf, linkClock, history >>
    BY DEF LinkInv, LinkTypeOK, assertion_from_claims, read_profile
<1>2. CASE LinkEnds(r)
    BY <1>1, <1>2, CallGivesUp
<1>3. ASSUME NEW s \in Google, call[r].pc = "claims",
             call' = [call EXCEPT ![r].pc = "resolve", ![r].subject = s, ![r].now = linkClock]
      PROVE  LinkInv'
  <2> DEFINE c == [call[r] EXCEPT !.pc = "resolve", !.subject = s, !.now = linkClock]
  <2>1. call' = [call EXCEPT ![r] = c]
      BY <1>3 DEF LinkInv, LinkTypeOK
  <2>2. c \in LinkCalls
      BY <1>1 DEF LinkCalls, GoogleStages, ExternalSubjects
  <2>3. CallHolds(c)
      BY <1>1, <1>3 DEF LinkCalls, CallHolds, RowHolds, ConsentHolds, StageHolds, GitHubStages
  <2> QED
      BY <1>1, <2>1, <2>2, <2>3, OneCall
<1>4. ASSUME NEW s \in GitHub, call[r].pc = "profile",
             call' = [call EXCEPT ![r].pc = "account", ![r].subject = s,
                        ![r].user = flowOf[call[r].state].user, ![r].rev = flowOf[call[r].state].rev,
                        ![r].session = flowOf[call[r].state].session]
      PROVE  LinkInv'
  <2> DEFINE flow == flowOf[call[r].state]
             c == [call[r] EXCEPT !.pc = "account", !.subject = s, !.user = flow.user,
                                  !.rev = flow.rev, !.session = flow.session]
  <2>1. call' = [call EXCEPT ![r] = c]
      BY <1>4 DEF LinkInv, LinkTypeOK
  <2>2. flow \in LinkFlows /\ call[r].state \in States
      BY <1>1, <1>4 DEF CallHolds, ConsentHolds
  <2>3. flow.user \in Owners /\ flow.rev \in Nat /\ flow.session \in LoginIds
      BY <2>2 DEF LinkFlows
  <2>4. c \in LinkCalls
      BY <1>1, <2>3 DEF LinkCalls, GitHubStages, ExternalSubjects
  <2>5. CallHolds(c)
      BY <1>1, <1>4, <2>2 DEF LinkCalls, CallHolds, RowHolds, ConsentHolds, StageHolds, GoogleStages
  <2> QED
      BY <1>1, <2>1, <2>4, <2>5, OneCall
<1> QED
    BY <1>2, <1>3, <1>4 DEF assertion_from_claims, read_profile, exchange

LEMMA ResolveReads ==
    ASSUME LinkInv, LinkAssumption, NEW r \in Requests, resolve_read(r) \/ resolve_owner(r)
    PROVE  LinkInv'
<1> USE LinkAssumption DEF LinkAssumption
<1>1. /\ call[r] \in LinkCalls /\ CallHolds(call[r]) /\ call \in [Requests -> LinkCalls]
      /\ UNCHANGED << store, pending, flowOf, linkClock, history >>
    BY DEF LinkInv, LinkTypeOK, resolve_read, resolve_owner
<1>2. CASE LinkEnds(r)
    BY <1>1, <1>2, CallGivesUp
<1>3. CASE resolve_read(r)
  <2> DEFINE s == call[r].subject
             row == link[s]
  <2>1. s \in Google /\ s \in ExternalSubjects /\ call[r].pc = "resolve" /\ call[r].row = None
      BY <1>1, <1>3 DEF resolve_read, CallHolds, StageHolds, GoogleStages, ExternalSubjects
  <2>2. CASE row = None
    <3> DEFINE c == [call[r] EXCEPT !.pc = "provision"]
    <3>1. call' = [call EXCEPT ![r] = c]
        BY <1>3, <2>2 DEF resolve_read, Goto
    <3>2. c \in LinkCalls
        BY <1>1 DEF LinkCalls, GoogleStages
    <3>3. CallHolds(c)
        BY <1>1, <2>1 DEF LinkCalls, CallHolds, RowHolds, ConsentHolds, StageHolds, GitHubStages
    <3> QED
        BY <1>1, <3>1, <3>2, <3>3, OneCall
  <2>3. CASE row # None
    <3> DEFINE c == [call[r] EXCEPT !.pc = "owner", !.row = row, !.seen = born[s]]
    <3>1. call' = [call EXCEPT ![r] = c]
        BY <1>1, <1>3, <2>3 DEF resolve_read
    <3>2. row \in LinkRows /\ born[s] \in Nat /\ row.gen \in gens[s]
        BY <2>1, <2>3 DEF LinkInv, LinkTypeOK, LinkHolds
    <3>3. c \in LinkCalls
        BY <1>1, <3>2 DEF LinkCalls, GoogleStages
    <3>4. CallHolds(c)
        BY <1>1, <2>1, <2>3, <3>2 DEF LinkCalls, CallHolds, RowHolds, ConsentHolds, StageHolds, GitHubStages
    <3> QED
        BY <1>1, <3>1, <3>3, <3>4, OneCall
  <2> QED
      BY <2>2, <2>3
<1>4. CASE resolve_owner(r) /\ ~LinkEnds(r)
  <2> DEFINE u == call[r].row.user
             c == [call[r] EXCEPT !.pc = "refresh", !.user = u, !.rev = person[u].rev]
  <2>1. call' = [call EXCEPT ![r] = c] /\ call[r].pc = "owner" /\ Active(u)
      BY <1>1, <1>4 DEF resolve_owner
  <2>2. call[r].row \in LinkRows /\ u \in Owners
      BY <1>1, <2>1 DEF CallHolds, StageHolds, LinkCalls, LinkRows
  <2>3. person[u].rev \in Nat
      BY <2>1, <2>2 DEF Active, LinkInv, LinkTypeOK, PersonRows
  <2>4. c \in LinkCalls
      BY <1>1, <2>2, <2>3 DEF LinkCalls, GoogleStages
  <2>5. CallHolds(c)
      BY <1>1, <2>1, <2>2 DEF LinkCalls, CallHolds, RowHolds, ConsentHolds, StageHolds, GoogleStages, GitHubStages
  <2> QED
      BY <1>1, <2>1, <2>4, <2>5, OneCall
<1> QED
    BY <1>2, <1>3, <1>4

\* A call of GitHubStages goes on in another of these stages.
LEMMA LinkGoesOn ==
    ASSUME LinkInv, NEW r \in Requests, NEW q \in GitHubStages \ {"renew"}, NEW n \in Nat,
           call[r].pc \in GitHubStages \ {"renew"},
           \/ call' = [call EXCEPT ![r].pc = q, ![r].now = n]
           \/ Goto(r, q) /\ call[r].now = n,
           UNCHANGED << store, pending, flowOf, linkClock, history >>
    PROVE  LinkInv'
<1>1. call[r] \in LinkCalls /\ CallHolds(call[r]) /\ call \in [Requests -> LinkCalls]
    BY DEF LinkInv, LinkTypeOK
<1>2. PICK c \in LinkCalls :
        /\ call' = [call EXCEPT ![r] = c] /\ c.pc = q /\ c.now = n
        /\ c.row = call[r].row /\ c.subject = call[r].subject /\ c.state = call[r].state
        /\ c.user = call[r].user /\ c.rev = call[r].rev /\ c.session = call[r].session
  <2>1. CASE call' = [call EXCEPT ![r].pc = q, ![r].now = n]
    <3> DEFINE d == [call[r] EXCEPT !.pc = q, !.now = n]
    <3>1. call' = [call EXCEPT ![r] = d]
        BY <1>1, <2>1
    <3>2. d \in LinkCalls
        BY <1>1 DEF LinkCalls
    <3> QED
        BY <1>1, <3>1, <3>2, ZenonT(60) DEF LinkCalls
  <2>2. CASE Goto(r, q) /\ call[r].now = n
    <3> DEFINE d == [call[r] EXCEPT !.pc = q]
    <3>1. call' = [call EXCEPT ![r] = d]
        BY <1>1, <2>2 DEF Goto
    <3>2. d \in LinkCalls
        BY <1>1 DEF LinkCalls
    <3> QED
        BY <1>1, <2>2, <3>1, <3>2, ZenonT(60) DEF LinkCalls
  <2> QED
      BY <2>1, <2>2
<1>3. CallHolds(c)
    BY <1>1, <1>2 DEF CallHolds, RowHolds, ConsentHolds, StageHolds, GoogleStages, GitHubStages
<1> QED
    BY <1>2, <1>3, OneCall

LEMMA LinkReads ==
    ASSUME LinkInv, NEW r \in Requests,
           \/ link_account(r) \/ link_list(r) \/ link_winner(r) \/ link_latest(r) \/ link_retry(r)
    PROVE  LinkInv'
<1>1. /\ call[r] \in LinkCalls /\ CallHolds(call[r]) /\ call \in [Requests -> LinkCalls]
      /\ UNCHANGED << store, pending, flowOf, linkClock, history >>
    BY DEF LinkInv, LinkTypeOK, link_account, link_list, link_winner, link_latest, link_retry
<1>2. CASE LinkEnds(r)
    BY <1>1, <1>2, CallGivesUp
<1>3. call[r].pc \in {"links", "winner", "latest", "retry"} => call[r].now \in Nat
    BY <1>1 DEF CallHolds, StageHolds
<1>4. CASE link_account(r) /\ ~LinkEnds(r)
  <2>1. linkClock \in Nat
      BY DEF LinkInv, LinkTypeOK
  <2> QED
      BY <1>1, <1>4, <2>1, LinkGoesOn DEF link_account, GitHubStages
<1>5. CASE link_list(r) /\ ~LinkEnds(r)
    BY <1>1, <1>3, <1>5, LinkGoesOn DEF link_list, GitHubStages
<1>6. CASE link_latest(r)
  <2> DEFINE past == gens[call[r].subject]
             n == IF past # {} /\ Max(past) >= call[r].now THEN Max(past) + 1 ELSE call[r].now
  <2>1. call[r].subject \in ExternalSubjects
      BY <1>1, <1>6 DEF link_latest, CallHolds, StageHolds, GitHubStages, ExternalSubjects
  <2>2. past \in SUBSET Nat /\ (past # {} => \E x \in past : \A y \in past : x >= y)
      BY <2>1 DEF LinkInv, LinkTypeOK, LinkHolds, HasNewest
  <2>3. past # {} => Max(past) \in Nat
      BY <2>2 DEF Max
  <2>4. n \in Nat
      BY <1>3, <1>6, <2>3 DEF link_latest
  <2>5. call' = [call EXCEPT ![r].pc = "insert", ![r].now = n] /\ call[r].pc = "latest"
      BY <1>1, <1>6 DEF link_latest
  <2> HIDE DEF n
  <2> QED
      BY <1>1, <2>4, <2>5, LinkGoesOn DEF GitHubStages
<1>7. CASE link_retry(r) /\ ~LinkEnds(r)
    BY <1>1, <1>3, <1>7, LinkGoesOn DEF link_retry, GitHubStages
<1>8. CASE link_winner(r) /\ ~LinkEnds(r)
  <2> DEFINE s == call[r].subject
             row == link[s]
             c == [call[r] EXCEPT !.pc = "renew", !.row = row, !.seen = born[s]]
  <2>1. s \in GitHub /\ s \in ExternalSubjects /\ call[r].pc = "winner"
      BY <1>1, <1>8 DEF link_winner, CallHolds, StageHolds, GitHubStages, ExternalSubjects
  <2>2. CASE Goto(r, "latest")
      BY <1>1, <1>3, <2>1, <2>2, LinkGoesOn DEF GitHubStages
  <2>3. CASE row # None /\ ~Goto(r, "latest")
    <3>1. call' = [call EXCEPT ![r] = c]
        BY <1>1, <1>8, <2>3 DEF link_winner
    <3>2. row \in LinkRows /\ born[s] \in Nat /\ row.gen \in gens[s]
        BY <2>1, <2>3 DEF LinkInv, LinkTypeOK, LinkHolds
    <3>3. c \in LinkCalls
        BY <1>1, <3>2 DEF LinkCalls, GitHubStages
    <3>4. CallHolds(c)
        BY <1>1, <2>1, <2>3, <3>2 DEF LinkCalls, CallHolds, RowHolds, ConsentHolds, StageHolds,
                                      GoogleStages, GitHubStages
    <3> QED
        BY <1>1, <3>1, <3>3, <3>4, OneCall
  <2> QED
      BY <1>8, <2>2, <2>3 DEF link_winner
<1> QED
    BY <1>2, <1>4, <1>5, <1>6, <1>7, <1>8

LEMMA UnlinkReads ==
    ASSUME LinkInv, NEW r \in Requests, unlink_list(r) \/ \E b \in Browsers : unlink(r, b)
    PROVE  LinkInv'
<1>1. /\ call[r] \in LinkCalls /\ CallHolds(call[r]) /\ call \in [Requests -> LinkCalls]
      /\ UNCHANGED << store, pending, flowOf, linkClock, history >>
    BY DEF LinkInv, LinkTypeOK, unlink_list, unlink
<1>2. CASE LinkEnds(r)
    BY <1>1, <1>2, CallGivesUp
<1>3. ASSUME NEW b \in Browsers, unlink(r, b) PROVE LinkInv'
  <2> DEFINE c == [NoLink EXCEPT !.pc = "unlinks", !.user = cookie[b].user,
                    !.rev = person[cookie[b].user].rev, !.session = cookie[b].id]
  <2>1. call' = [call EXCEPT ![r] = c]
      BY <1>3 DEF unlink
  <2>2. cookie[b].user \in Owners /\ cookie[b].id \in LoginIds
      BY <1>3 DEF unlink, SignedIn, LinkInv, LinkTypeOK, CookieRows
  <2>3. person[cookie[b].user].rev \in Nat
      BY <1>3, <2>2 DEF unlink, SignedIn, Active, LinkInv, LinkTypeOK, PersonRows
  <2>4. c \in LinkCalls
      BY <2>2, <2>3 DEF LinkCalls, NoLink
  <2>5. CallHolds(c)
      BY DEF CallHolds, RowHolds, ConsentHolds, StageHolds, NoLink, GoogleStages, GitHubStages
  <2> QED
      BY <1>1, <2>1, <2>4, <2>5, OneCall
<1>4. CASE unlink_list(r) /\ ~LinkEnds(r)
  <2> DEFINE mine == LinksOf(call[r].user)
             s == CHOOSE x \in mine : TRUE
             c == [call[r] EXCEPT !.pc = "delete", !.subject = s, !.row = link[s], !.seen = born[s]]
  <2>1. call' = [call EXCEPT ![r] = c] /\ call[r].pc = "unlinks" /\ mine # {}
      BY <1>1, <1>4 DEF unlink_list
  <2>2. s \in mine
      BY <2>1
  <2>3. s \in GitHub /\ s \in ExternalSubjects /\ link[s] # None
      BY <2>2 DEF LinksOf, ExternalSubjects
  <2>4. link[s] \in LinkRows /\ born[s] \in Nat /\ link[s].gen \in gens[s]
      BY <2>3 DEF LinkInv, LinkTypeOK, LinkHolds
  <2> HIDE DEF s
  <2>5. c \in LinkCalls
      BY <1>1, <2>3, <2>4 DEF LinkCalls
  <2>6. CallHolds(c)
      BY <1>1, <2>3, <2>4 DEF LinkCalls, CallHolds, RowHolds, ConsentHolds, StageHolds,
                              GoogleStages, GitHubStages
  <2> QED
      BY <1>1, <2>1, <2>5, <2>6, OneCall
<1> QED
    BY <1>2, <1>3, <1>4

-----------------------------------------------------------------------------
(* The transactions that write links.                                      *)

\* A link in a generation that was not used: the rows read before stay behind.
LEMMA NewLink ==
    ASSUME LinkInv, LinkAssumption, NEW s \in ExternalSubjects, NEW u \in Owners, NEW g \in Nat,
           g \notin gens[s], link[s] = None, Linked(s, u, g)
    PROVE  /\ link' \in [ExternalSubjects -> LinkRows \cup {None}]
           /\ gens' \in [ExternalSubjects -> SUBSET Nat]
           /\ born' \in [ExternalSubjects -> Nat]
           /\ LinkHolds' /\ LinksMove
           /\ \A x \in ExternalSubjects : link'[x] = IF x = s THEN [user |-> u, gen |-> g] ELSE link[x]
           /\ link'[s] # None
<1> DEFINE row == [user |-> u, gen |-> g]
<1>1. row \in LinkRows /\ row # None /\ row.gen = g
    BY LinkAssumption DEF LinkAssumption, LinkRows
<1>2. /\ link' = [link EXCEPT ![s] = row] /\ gens' = [gens EXCEPT ![s] = @ \cup {g}]
      /\ born' = [born EXCEPT ![s] = @ + 1]
    BY DEF Linked, Reserved
<1> HIDE DEF row
<1>3. HasNewest(gens[s] \cup {g})
  <2>1. gens[s] \in SUBSET Nat /\ HasNewest(gens[s])
      BY DEF LinkInv, LinkTypeOK, LinkHolds
  <2> QED
      BY <2>1 DEF HasNewest
<1>4. /\ link' \in [ExternalSubjects -> LinkRows \cup {None}]
      /\ gens' \in [ExternalSubjects -> SUBSET Nat]
      /\ born' \in [ExternalSubjects -> Nat]
    BY <1>1, <1>2 DEF LinkInv, LinkTypeOK
<1>5. LinkHolds'
    BY <1>1, <1>2, <1>3 DEF LinkInv, LinkTypeOK, LinkHolds
<1>6. LinksMove
    BY <1>1, <1>2 DEF LinksMove, LinkInv, LinkTypeOK
<1> QED
    BY <1>1, <1>2, <1>4, <1>5, <1>6 DEF row, LinkInv, LinkTypeOK

LEMMA ProvisionStep ==
    ASSUME LinkInv, LinkAssumption, NEW r \in Requests, provision_user_with_identity(r)
    PROVE  LinkInv'
<1> DEFINE s == call[r].subject
           g == call[r].now
           u == NewOwner
<1>1. /\ call[r] \in LinkCalls /\ CallHolds(call[r]) /\ call \in [Requests -> LinkCalls]
      /\ UNCHANGED << logins, cookie, issued, pending, flowOf, linkClock, touched, redeemed, landed >>
    BY DEF LinkInv, LinkTypeOK, provision_user_with_identity
<1>2. s \in Google /\ s \in ExternalSubjects /\ g \in Nat /\ call[r].pc = "provision" /\ call[r].row = None
    BY <1>1 DEF provision_user_with_identity, CallHolds, StageHolds, GoogleStages, ExternalSubjects
<1>3. CASE link[s] = None /\ g \notin gens[s]
  <2> DEFINE c == [call[r] EXCEPT !.pc = "session", !.user = u]
  <2>1. /\ u \in Owners /\ Provisioned(u) /\ Linked(s, u, g) /\ made' = [made EXCEPT ![u] = s]
        /\ call' = [call EXCEPT ![r] = c]
      BY <1>1, <1>3 DEF provision_user_with_identity, NewOwner
  <2> HIDE DEF u
  <2>2. /\ link' \in [ExternalSubjects -> LinkRows \cup {None}]
        /\ gens' \in [ExternalSubjects -> SUBSET Nat] /\ born' \in [ExternalSubjects -> Nat]
        /\ LinkHolds' /\ LinksMove /\ link'[s] # None
        /\ \A x \in ExternalSubjects : x # s => link'[x] = link[x]
      BY <1>2, <1>3, <2>1, NewLink
  <2>3. c \in LinkCalls
      BY <1>1, <2>1 DEF LinkCalls, GoogleStages
  <2>4. person' \in [Owners -> PersonRows \cup {None}]
    <3>1. [rev |-> 0, active |-> TRUE] \in PersonRows
        BY DEF PersonRows
    <3> QED
        BY <2>1, <3>1 DEF Provisioned, LinkInv, LinkTypeOK
  <2>5. LinkTypeOK'
      BY <1>1, <1>2, <2>1, <2>2, <2>3, <2>4 DEF LinkInv, LinkTypeOK
  <2>6. MadeHolds'
    <3>1. \A v \in Owners : made[v] # s
        BY <1>2, <1>3 DEF LinkInv, MadeHolds
    <3>2. made \in [Owners -> Google \cup {None}] /\ Google \subseteq ExternalSubjects
        BY DEF LinkInv, LinkTypeOK, ExternalSubjects
    <3>3. ASSUME NEW v \in Owners, made'[v] \in Google
          PROVE  link'[made'[v]] # None /\ \A w \in Owners : made'[w] = made'[v] => w = v
        BY <2>1, <2>2, <3>1, <3>2, <3>3 DEF LinkInv, MadeHolds
    <3> QED
        BY <3>3 DEF MadeHolds
  <2>7. FlowHolds'
      BY <1>1 DEF LinkInv, FlowHolds
  <2>8. \A t \in Requests : CallHolds(call[t])'
    <3>1. FlowsMove
        BY <1>1 DEF FlowsMove
    <3>2. ASSUME NEW t \in Requests, t # r PROVE CallHolds(call[t])'
        BY <1>1, <2>1, <2>2, <3>1, <3>2, CallStays
    <3>3. /\ call'[r] = c /\ c.row = None /\ c.pc = "session" /\ c.subject = s /\ c.user = u
        BY <1>1, <1>2, <2>1 DEF LinkCalls
    <3>4. CallHolds(call[r])'
        BY <1>2, <2>1, <3>3 DEF CallHolds, RowHolds, ConsentHolds, StageHolds, GoogleStages, GitHubStages
    <3> QED
        BY <3>2, <3>4
  <2> QED
      BY <1>1, <2>2, <2>5, <2>6, <2>7, <2>8 DEF LinkInv
<1>4. CASE ~(link[s] = None /\ g \notin gens[s])
  <2> DEFINE c == [call[r] EXCEPT !.pc = "resolve"]
  <2>1. call' = [call EXCEPT ![r] = c] /\ UNCHANGED << store, pending, flowOf, linkClock, history >>
      BY <1>1, <1>4 DEF provision_user_with_identity, Goto, Lost, store, history
  <2>2. c \in LinkCalls
      BY <1>1 DEF LinkCalls, GoogleStages
  <2>3. CallHolds(c)
      BY <1>1, <1>2 DEF LinkCalls, CallHolds, RowHolds, ConsentHolds, StageHolds, GitHubStages
  <2> QED
      BY <2>1, <2>2, <2>3, OneCall
<1> QED
    BY <1>3, <1>4

\* A transaction that finds the row it was given touches no later link.
LEMMA NothingElseTouched ==
    ASSUME LinkInv, NEW r \in Requests, call[r].row # None, SameRow(r), Touch(r)
    PROVE  touched' = FALSE
BY DEF LinkInv, CallHolds, RowHolds, SameRow, Touch

\* A transaction that finds the account and the session it was given has the consent
\* that its flow was begun with.
LEMMA ConsentIsCurrent ==
    ASSUME LinkInv, NEW r \in Requests, call[r].pc \in GitHubStages, SameAccount(r), SameSession(r)
    PROVE  Consent(flowOf[call[r].state])
BY DEF LinkInv, CallHolds, ConsentHolds, SameAccount, SameSession, Consent

\* What lands in a step has the consent of its flow.
LandsWithConsent == \A st \in landed' \ landed : Consent(flowOf[st])

\* A call that ends, while links or sessions change.
LEMMA CallLeaves ==
    ASSUME LinkInv, NEW r \in Requests, LinkEnds(r), LinksMove, FlowsMove
    PROVE  call' \in [Requests -> LinkCalls] /\ \A t \in Requests : CallHolds(call[t])'
<1>1. call' \in [Requests -> LinkCalls] /\ call'[r] = NoLink
    BY IdleHolds DEF LinkEnds, LinkInv, LinkTypeOK
<1>2. CallHolds(call[r])'
    BY <1>1 DEF CallHolds, RowHolds, ConsentHolds, StageHolds, NoLink, GoogleStages, GitHubStages
<1>3. ASSUME NEW t \in Requests, t # r PROVE CallHolds(call[t])'
  <2>1. call'[t] = call[t]
      BY <1>3 DEF LinkEnds, LinkInv, LinkTypeOK
  <2> QED
      BY <2>1, CallStays
<1> QED
    BY <1>1, <1>2, <1>3

LEMMA RefreshStep ==
    ASSUME LinkInv, LinkAssumption, NEW r \in Requests, refresh_external_identity(r)
    PROVE  LinkInv'
<1>1. /\ call[r] \in LinkCalls /\ CallHolds(call[r]) /\ call \in [Requests -> LinkCalls]
      /\ call[r].pc = "refresh" /\ call[r].row # None
      /\ UNCHANGED << store, pending, flowOf, linkClock, born, redeemed, landed, made >>
    BY DEF LinkInv, LinkTypeOK, refresh_external_identity, CallHolds, StageHolds
<1>2. touched' = touched
    BY <1>1, NothingElseTouched DEF refresh_external_identity, LinkInv, LinkTypeOK, Touch, SameRow,
                                    CallHolds, RowHolds
<1>3. UNCHANGED << store, pending, flowOf, linkClock, history >>
    BY <1>1, <1>2 DEF history
<1>4. CASE LinkEnds(r)
    BY <1>3, <1>4, CallGivesUp
<1>5. CASE Goto(r, "session")
  <2> DEFINE c == [call[r] EXCEPT !.pc = "session"]
  <2>1. call' = [call EXCEPT ![r] = c]
      BY <1>1, <1>5 DEF Goto
  <2>2. c \in LinkCalls
      BY <1>1 DEF LinkCalls, GoogleStages
  <2>3. CallHolds(c)
      BY <1>1 DEF LinkCalls, CallHolds, RowHolds, ConsentHolds, StageHolds, GoogleStages, GitHubStages
  <2> QED
      BY <1>3, <2>1, <2>2, <2>3, OneCall
<1> QED
    BY <1>4, <1>5 DEF refresh_external_identity

LEMMA SessionStep ==
    ASSUME LinkInv, LinkAssumption, NEW r \in Requests, establish_session(r)
    PROVE  LinkInv'
<1> DEFINE b == call[r].browser
           u == call[r].user
           kept == [id |-> <<b, issued + 1>>, user |-> u]
<1>1. /\ u \in Owners /\ issued' = issued + 1 /\ LinkEnds(r)
      /\ UNCHANGED << person, link, gens, pending, flowOf, linkClock, history >>
    BY DEF establish_session, LinkInv, CallHolds, StageHolds
<1>2. cookie' = cookie \/ cookie' = [cookie EXCEPT ![b] = kept]
    BY DEF establish_session
<1>3. cookie' \in [Browsers -> CookieRows \cup {None}]
  <2>1. b \in Browsers => kept \in CookieRows
      BY <1>1 DEF CookieRows, LoginIds, LinkInv, LinkTypeOK
  <2> HIDE DEF kept
  <2> QED
      BY <1>2, <2>1 DEF LinkInv, LinkTypeOK
<1>4. LinksMove /\ FlowsMove
    BY <1>1 DEF LinksMove, FlowsMove, history
<1>5. call' \in [Requests -> LinkCalls] /\ \A t \in Requests : CallHolds(call[t])'
    BY <1>1, <1>4, CallLeaves
<1> QED
    BY <1>1, <1>3, <1>5 DEF LinkInv, LinkTypeOK, LinkHolds, FlowHolds, MadeHolds, history

LEMMA InsertStep ==
    ASSUME LinkInv, LinkAssumption, NEW r \in Requests, link_insert(r)
    PROVE  LinkInv' /\ LandsWithConsent
<1> DEFINE s == call[r].subject
           g == call[r].now
           u == call[r].user
<1>1. /\ call[r] \in LinkCalls /\ CallHolds(call[r]) /\ call \in [Requests -> LinkCalls]
      /\ call[r].pc = "insert" /\ g \in Nat /\ s \in GitHub /\ s \in ExternalSubjects
      /\ UNCHANGED << person, logins, cookie, issued, pending, flowOf, linkClock, touched,
                      redeemed, made >>
    BY DEF LinkInv, LinkTypeOK, link_insert, CallHolds, StageHolds, GitHubStages, ExternalSubjects
<1>2. CASE LinkEnds(r) /\ UNCHANGED << link, gens, born, landed >>
  <2>1. UNCHANGED << store, pending, flowOf, linkClock, history >>
      BY <1>1, <1>2 DEF store, history
  <2> QED
      BY <1>2, <2>1, CallGivesUp DEF LandsWithConsent
<1>3. CASE Goto(r, "retry") /\ UNCHANGED << link, gens, born, landed >>
  <2>1. UNCHANGED << store, pending, flowOf, linkClock, history >>
      BY <1>1, <1>3 DEF store, history
  <2> QED
      BY <1>1, <1>3, <2>1, LinkGoesOn DEF LandsWithConsent, GitHubStages
<1>4. CASE /\ g \notin gens[s] /\ link[s] = None /\ SameAccount(r) /\ SameSession(r)
           /\ Linked(s, u, g) /\ landed' = landed \cup {call[r].state} /\ LinkEnds(r)
  <2>1. u \in Owners
      BY <1>1 DEF CallHolds, ConsentHolds, GitHubStages, LinkFlows
  <2>2. /\ link' \in [ExternalSubjects -> LinkRows \cup {None}]
        /\ gens' \in [ExternalSubjects -> SUBSET Nat] /\ born' \in [ExternalSubjects -> Nat]
        /\ LinkHolds' /\ LinksMove /\ link'[s] # None
        /\ \A x \in ExternalSubjects : x # s => link'[x] = link[x]
      BY <1>1, <1>4, <2>1, NewLink, ZenonT(60)
  <2>3. FlowsMove
      BY <1>1 DEF FlowsMove
  <2>4. call' \in [Requests -> LinkCalls] /\ \A t \in Requests : CallHolds(call[t])'
      BY <1>4, <2>2, <2>3, CallLeaves
  <2>5. MadeHolds'
      BY <1>1, <2>2 DEF LinkInv, MadeHolds, ExternalSubjects
  <2>6. LandsWithConsent
      BY <1>1, <1>4, ConsentIsCurrent DEF LandsWithConsent, GitHubStages
  <2> QED
      BY <1>1, <2>2, <2>4, <2>5, <2>6 DEF LinkInv, LinkTypeOK, FlowHolds
<1> QED
    BY <1>2, <1>3, <1>4 DEF link_insert

LEMMA RenewStep ==
    ASSUME LinkInv, LinkAssumption, NEW r \in Requests, link_renew(r)
    PROVE  LinkInv' /\ LandsWithConsent
<1>1. /\ call[r].row # None /\ call[r].pc \in GitHubStages /\ LinkEnds(r)
      /\ UNCHANGED << store, pending, flowOf, linkClock, born, redeemed, made >>
    BY DEF link_renew, LinkInv, CallHolds, StageHolds, GitHubStages
<1>2. LandsWithConsent
    BY <1>1, ConsentIsCurrent DEF link_renew, LandsWithConsent
<1>3. touched' = FALSE
    BY <1>1, NothingElseTouched DEF link_renew, LinkInv, LinkTypeOK
<1>4. LinksMove /\ FlowsMove
    BY <1>1 DEF LinksMove, FlowsMove, store
<1>5. call' \in [Requests -> LinkCalls] /\ \A t \in Requests : CallHolds(call[t])'
    BY <1>1, <1>4, CallLeaves
<1> QED
    BY <1>1, <1>2, <1>3, <1>5 DEF LinkInv, LinkTypeOK, LinkHolds, FlowHolds, MadeHolds, store

LEMMA UnlinkStep ==
    ASSUME LinkInv, LinkAssumption, NEW r \in Requests, unlink_delete(r)
    PROVE  LinkInv'
<1> DEFINE s == call[r].subject
<1>1. /\ call[r].row # None /\ s \in GitHub /\ LinkEnds(r)
      /\ UNCHANGED << person, gens, logins, cookie, issued, pending, flowOf, linkClock, born,
                      redeemed, landed, made >>
    BY DEF unlink_delete, LinkInv, CallHolds, StageHolds
<1>2. touched' = FALSE
    BY <1>1, NothingElseTouched DEF unlink_delete, LinkInv, LinkTypeOK
<1>3. link' = link \/ link' = [link EXCEPT ![s] = None]
    BY DEF unlink_delete
<1>4. link' \in [ExternalSubjects -> LinkRows \cup {None}]
    BY <1>3 DEF LinkInv, LinkTypeOK
<1>5. LinkHolds'
    BY <1>1, <1>3 DEF LinkInv, LinkTypeOK, LinkHolds
<1>6. MadeHolds'
  <2>1. \A x \in Google : x \in ExternalSubjects /\ x # s
      BY <1>1, LinkAssumption DEF LinkAssumption, ExternalSubjects
  <2> QED
      BY <1>1, <1>3, <2>1 DEF LinkInv, LinkTypeOK, MadeHolds
<1>7. LinksMove /\ FlowsMove
    BY <1>1, <1>3 DEF LinksMove, FlowsMove, LinkInv, LinkTypeOK
<1>8. call' \in [Requests -> LinkCalls] /\ \A t \in Requests : CallHolds(call[t])'
    BY <1>1, <1>7, CallLeaves
<1> QED
    BY <1>1, <1>2, <1>4, <1>5, <1>6, <1>8 DEF LinkInv, LinkTypeOK, FlowHolds

\* The account, its browser and the clock.
LEMMA OwnerMoves ==
    ASSUME LinkInv, LinkAssumption,
           \/ \E u \in Owners : save_person(u)
           \/ \E b \in Browsers : logout_browser(b)
           \/ LinkTick \/ UNCHANGED linkVars
    PROVE  LinkInv' /\ landed' = landed
<1>1. UNCHANGED << link, gens, issued, pending, flowOf, call, history >>
    BY DEF save_person, logout_browser, LinkTick, linkVars, linkState, store
<1>2. person' \in [Owners -> PersonRows \cup {None}]
  <2>1. CASE person' = person
      BY <2>1 DEF LinkInv, LinkTypeOK
  <2>2. ASSUME NEW u \in Owners, save_person(u) PROVE person' \in [Owners -> PersonRows \cup {None}]
    <3>1. person[u] \in PersonRows
        BY <2>2 DEF save_person, Active, LinkInv, LinkTypeOK
    <3>2. person[u].rev + 1 \in Nat
        BY <3>1 DEF PersonRows
    <3>3. \A on \in BOOLEAN : [rev |-> person[u].rev + 1, active |-> on] \in PersonRows
        BY <3>2 DEF PersonRows
    <3> QED
        BY <2>2, <3>3 DEF save_person, LinkInv, LinkTypeOK
  <2> QED
      BY <2>1, <2>2 DEF logout_browser, LinkTick, linkVars, linkState, store
<1>3. cookie' \in [Browsers -> CookieRows \cup {None}] /\ linkClock' \in Nat
    BY DEF save_person, logout_browser, LinkTick, linkVars, linkState, store, LinkInv, LinkTypeOK
<1>4. LinksMove /\ FlowsMove
    BY <1>1 DEF LinksMove, FlowsMove, history
<1>5. \A t \in Requests : CallHolds(call[t])'
    BY <1>1, <1>4, CallStays
<1> QED
    BY <1>1, <1>2, <1>3, <1>5 DEF LinkInv, LinkTypeOK, LinkHolds, FlowHolds, MadeHolds, history

LEMMA LinkStep ==
    ASSUME LinkInv, LinkAssumption, [LinkNext]_linkVars
    PROVE  LinkInv' /\ LandsWithConsent
<1>1. ASSUME NEW st \in States, NEW b \in Browsers, begin_login(st, b) \/ begin_link(st, b)
      PROVE  LinkInv' /\ landed' = landed
    BY <1>1, BeginStep DEF begin_login, begin_link, Begin, history
<1>2. ASSUME NEW r \in Requests, NEW st \in States, NEW b \in Browsers,
             complete_callback(r, st, b) \/ complete_link(r, st, b)
      PROVE  LinkInv' /\ landed' = landed
    BY <1>2, ReceiveStep DEF complete_callback, complete_link, Received
<1>3. ASSUME NEW r \in Requests, assertion_from_claims(r) \/ read_profile(r)
      PROVE  LinkInv' /\ landed' = landed
    BY <1>3, ProviderAnswers DEF assertion_from_claims, read_profile, history
<1>4. ASSUME NEW r \in Requests, resolve_read(r) \/ resolve_owner(r)
      PROVE  LinkInv' /\ landed' = landed
    BY <1>4, ResolveReads DEF resolve_read, resolve_owner, history
<1>5. ASSUME NEW r \in Requests, provision_user_with_identity(r)
      PROVE  LinkInv' /\ landed' = landed
    BY <1>5, ProvisionStep DEF provision_user_with_identity
<1>6. ASSUME NEW r \in Requests, refresh_external_identity(r) \/ establish_session(r)
      PROVE  LinkInv' /\ landed' = landed
    BY <1>6, RefreshStep, SessionStep DEF refresh_external_identity, establish_session, history
<1>7. ASSUME NEW r \in Requests,
             \/ link_account(r) \/ link_list(r) \/ link_winner(r) \/ link_latest(r) \/ link_retry(r)
      PROVE  LinkInv' /\ landed' = landed
    BY <1>7, LinkReads DEF link_account, link_list, link_winner, link_latest, link_retry, history
<1>8. ASSUME NEW r \in Requests, link_insert(r) \/ link_renew(r)
      PROVE  LinkInv' /\ LandsWithConsent
    BY <1>8, InsertStep, RenewStep
<1>9. ASSUME NEW r \in Requests, unlink_list(r) \/ \E b \in Browsers : unlink(r, b)
      PROVE  LinkInv' /\ landed' = landed
    BY <1>9, UnlinkReads DEF unlink_list, unlink, history
<1>10. ASSUME NEW r \in Requests, unlink_delete(r)
       PROVE  LinkInv' /\ landed' = landed
    BY <1>10, UnlinkStep DEF unlink_delete
<1>11. CASE LinkNext
  <2>1. landed' = landed => LandsWithConsent
      BY DEF LandsWithConsent
  <2> QED
      BY <1>1, <1>2, <1>3, <1>4, <1>5, <1>6, <1>7, <1>8, <1>9, <1>10, <1>11, <2>1, OwnerMoves DEF LinkNext
<1>12. CASE UNCHANGED linkVars
    BY <1>12, OwnerMoves DEF LandsWithConsent
<1> QED
    BY <1>11, <1>12

\* Accounts that one subject provisioned are one account.
LEMMA OneProvisioned ==
    ASSUME LinkInv
    PROVE  OneAccountPerSubject
<1> SUFFICES ASSUME NEW s \in Google PROVE Cardinality({u \in Owners : made[u] = s}) <= 1
    BY DEF OneAccountPerSubject
<1> DEFINE S == {u \in Owners : made[u] = s}
<1>1. S = {} \/ \E u \in Owners : S = {u}
    BY DEF LinkInv, MadeHolds
<1> HIDE DEF S
<1>2. ASSUME S = {} PROVE Cardinality(S) <= 1
  <2>1. Cardinality({}) = 0
      BY FS_EmptySet
  <2> QED
      BY <1>2, <2>1
<1>3. ASSUME NEW u \in Owners, S = {u} PROVE Cardinality(S) <= 1
  <2>1. Cardinality({u}) = 1
      BY FS_Singleton
  <2> QED
      BY <1>3, <2>1
<1>4. Cardinality(S) <= 1
    BY <1>1, <1>2, <1>3
<1> QED
    BY <1>4 DEF S

\* A refresh, a link or an unlink touches the link that its request read and what its
\* session consented to, a flow is redeemed once, and a Google subject provisions one
\* account, however many browsers, requests and answers race.
THEOREM LinksAreSafeAlways == LinkSpec => LinksAreSafe
<1>1. LinkInit => LinkInv
    BY LinkStart, LinkAssumption
<1>2. LinkInv /\ [LinkNext]_linkVars => LinkInv'
    BY LinkStep, LinkAssumption
<1>3. LinkInv /\ [LinkNext]_linkVars => [\A st \in landed' \ landed : Consent(flowOf[st])]_linkVars
    BY LinkStep, LinkAssumption DEF LandsWithConsent
<1>4. LinkInv => StaleLinkIsLeftAlone /\ FlowIsUsedOnce /\ OneAccountPerSubject
  <2>1. LinkInv => FlowIsUsedOnce
      BY DEF LinkInv, LinkTypeOK, FlowIsUsedOnce
  <2> QED
      BY <2>1, OneProvisioned DEF LinkInv, StaleLinkIsLeftAlone
<1> QED
    BY <1>1, <1>2, <1>3, <1>4, PTL DEF LinkSpec, LinksAreSafe, NothingLandsAfterWithdrawal

-----------------------------------------------------------------------------
(***************************************************************************)
(* The classes from GitHub teams (TeamMemberships)                          *)
(***************************************************************************)

AccountRows == [role : {"student", "pending"}, rev : Nat, active : BOOLEAN]
ClassRows == [active : BOOLEAN, rev : Nat]
MappingRows == [class : Classes, created : Nat, updated : Nat]
Memberships == [class : Classes, group : Groups \cup {None}]
SeenMappings == [Groups -> MappingRows \cup {None}]

Directory == [pc : {"directory"}, user : AccountRows, gen : Nat]
Revoking == [pc : {"revoke"}, user : AccountRows, rows : SUBSET Memberships]
Reading == [pc : {"snapshot", "mappings"}, user : AccountRows, gen : Nat, at : Nat,
            teams : SUBSET Groups, todo : SUBSET Groups, maps : SeenMappings]
Listing == [pc : {"rows"}, user : AccountRows, gen : Nat, at : Nat, teams : SUBSET Groups,
            maps : SeenMappings, classes : [Classes -> ClassRows]]
Applying == [pc : {"apply"}, user : AccountRows, gen : Nat, at : Nat, teams : SUBSET Groups,
             maps : SeenMappings, classes : [Classes -> ClassRows], rows : SUBSET Memberships]

\* Generations that were reserved have a last one.
HasLast(past) == past # {} => \E x \in past : \A y \in past : y <= x

TeamTypeOK ==
    /\ student \in AccountRows /\ class \in [Classes -> ClassRows]
    /\ mapping \in SeenMappings
    /\ mapGens \in [Groups -> SUBSET Nat] /\ \A g \in Groups : HasLast(mapGens[g])
    /\ linkGen \in Nat \cup {None} /\ linkGens \in SUBSET Nat /\ HasLast(linkGens)
    /\ members \in SUBSET Memberships
    /\ teamClock \in 0..MaxTeamClock /\ teams \in [0..MaxTeamClock -> SUBSET Groups]
    /\ sync \in [Syncs -> {NoSync} \cup Directory \cup Revoking \cup Reading \cup Listing
                          \cup Applying]

\* What a call has of GitHub's answer: the teams of the account at an instant that
\* has passed, mappings of these teams only, and after the check an instant since
\* the link was made.
SnapshotHolds(c) ==
    /\ c.at <= teamClock /\ c.teams = teams[c.at]
    /\ Mapped(c) \subseteq c.teams
    /\ c.pc # "snapshot" => c.gen <= c.at
TodoHolds(c) == c.todo \subseteq c.teams

\* A pending account has exactly one team to be onboarded by, into an active class.
OnboardingHolds(c) ==
    c.user.role = "pending" =>
        /\ Mapped(c) # {}
        /\ \A g \in Mapped(c) : c.classes[c.maps[g].class].active

SyncHolds(c) ==
    /\ c \in Reading => SnapshotHolds(c) /\ TodoHolds(c)
    /\ c \in Listing \cup Applying => SnapshotHolds(c) /\ OnboardingHolds(c)

TeamInv ==
    /\ TeamTypeOK
    /\ \A s \in Syncs : SyncHolds(sync[s])
    /\ UnlinkedHasNoTeam

LEMMA LeastNatural ==
    ASSUME NEW T \in SUBSET Nat, T # {}
    PROVE  \E x \in T : \A y \in T : x <= y
<1> DEFINE R == {ss \in Nat \X Nat : ss[1] < ss[2]}
<1>1. IsWellFoundedOn(R, Nat)
    BY NatLessThanWellFounded DEF OpToRel
<1> HIDE DEF R
<1>2. PICK x \in T : \A y \in T : ~(<<y, x>> \in R)
    BY <1>1, WFMin
<1>3. ASSUME NEW y \in T, y < x PROVE FALSE
    BY <1>2, <1>3 DEF R
<1> QED
    BY <1>3

LEMMA LastIsMax ==
    ASSUME NEW past \in SUBSET Nat, past # {}, HasLast(past)
    PROVE  Max(past) \in past /\ \A y \in past : y <= Max(past)
<1>1. \E x \in past : \A y \in past : x >= y
    BY DEF HasLast
<1> QED
    BY <1>1 DEF Max

\* A new generation is later than every one before it, and is the last.
LEMMA GenerationIsNew ==
    ASSUME TeamTypeOK, TeamAssumption, NEW past \in SUBSET Nat, HasLast(past)
    PROVE  /\ NextGeneration(past) \in Nat
           /\ HasLast(past \cup {NextGeneration(past)})
<1>1. teamClock \in Nat
    BY DEF TeamTypeOK, TeamAssumption
<1>2. past # {} => Max(past) \in Nat /\ \A y \in past : y <= Max(past)
    BY LastIsMax
<1>3. NextGeneration(past) \in Nat
    BY <1>1, <1>2 DEF NextGeneration
<1>4. \A y \in past : y <= NextGeneration(past)
    BY <1>1, <1>2 DEF NextGeneration
<1> QED
    BY <1>3, <1>4 DEF HasLast

LEMMA SmallestIsIn ==
    ASSUME NEW T \in SUBSET Nat, T # {}
    PROVE  Min(T) \in T
BY LeastNatural DEF Min

\* What the stage of a call says of its record.
LEMMA StageOfSync ==
    ASSUME TeamTypeOK, NEW s \in Syncs
    PROVE  /\ sync[s].pc = "directory" => sync[s] \in Directory
           /\ sync[s].pc = "revoke" => sync[s] \in Revoking
           /\ sync[s].pc \in {"snapshot", "mappings"} => sync[s] \in Reading
           /\ sync[s].pc = "rows" => sync[s] \in Listing
           /\ sync[s].pc = "apply" => sync[s] \in Applying
BY DEF TeamTypeOK, NoSync, Directory, Revoking, Reading, Listing, Applying

\* Steps that leave the calls alone.
LEMMA CallsAreKept ==
    ASSUME TeamInv, TeamAssumption, teamClock' \in Nat, teamClock <= teamClock', sync' = sync,
           \A t \in 0..MaxTeamClock : t <= teamClock => teams'[t] = teams[t]
    PROVE  \A s \in Syncs : SyncHolds(sync[s])'
<1> SUFFICES ASSUME NEW s \in Syncs PROVE SyncHolds(sync[s])'
    BY DEF SyncHolds
<1> DEFINE c == sync[s]
<1>1. SyncHolds(c) /\ c' = c
    BY DEF TeamInv
<1>2. teamClock \in 0..MaxTeamClock
    BY DEF TeamInv, TeamTypeOK
<1>3. ASSUME c \in Reading \cup Listing \cup Applying, SnapshotHolds(c)
      PROVE  SnapshotHolds(c)'
  <2>1. c.at \in Nat /\ c.at <= teamClock
      BY <1>3 DEF SnapshotHolds, Reading, Listing, Applying
  <2>2. c.at \in 0..MaxTeamClock /\ teams'[c.at] = teams[c.at]
      BY <1>2, <2>1, TeamAssumption DEF TeamAssumption
  <2>3. Mapped(c)' = Mapped(c)
      BY <1>1 DEF Mapped
  <2> QED
      BY <1>1, <1>2, <1>3, <2>1, <2>2, <2>3, TeamAssumption DEF SnapshotHolds, TeamAssumption
<1>4. TodoHolds(c)' <=> TodoHolds(c)
    BY <1>1 DEF TodoHolds
<1>5. OnboardingHolds(c)' <=> OnboardingHolds(c)
    BY <1>1 DEF OnboardingHolds, Mapped
<1> QED
    BY <1>1, <1>3, <1>4, <1>5 DEF SyncHolds

LEMMA CallMoves ==
    ASSUME TeamInv, NEW s \in Syncs, NEW c, sync' = [sync EXCEPT ![s] = c],
           UNCHANGED << teamClock, teams >>,
           c \in {NoSync} \cup Directory \cup Revoking \cup Reading \cup Listing \cup Applying,
           SyncHolds(c)
    PROVE  /\ \A t \in Syncs : SyncHolds(sync[t])'
           /\ sync' \in [Syncs -> {NoSync} \cup Directory \cup Revoking \cup Reading
                                    \cup Listing \cup Applying]
<1>1. sync' \in [Syncs -> {NoSync} \cup Directory \cup Revoking \cup Reading \cup Listing
                            \cup Applying]
    BY DEF TeamInv, TeamTypeOK
<1>2. ASSUME NEW t \in Syncs PROVE SyncHolds(sync'[t])
    BY <1>2 DEF TeamInv, TeamTypeOK
<1>3. ASSUME NEW t \in Syncs PROVE SyncHolds(sync[t])'
    BY <1>2 DEF SyncHolds, SnapshotHolds, TodoHolds, OnboardingHolds, Mapped
<1> QED
    BY <1>1, <1>2, <1>3

\* A call that ends.
LEMMA CallEnds ==
    ASSUME TeamInv, NEW s \in Syncs, SyncEnds(s), UNCHANGED << teamClock, teams >>
    PROVE  /\ \A t \in Syncs : SyncHolds(sync[t])'
           /\ sync' \in [Syncs -> {NoSync} \cup Directory \cup Revoking \cup Reading
                                    \cup Listing \cup Applying]
<1>1. SyncHolds(NoSync)
    BY DEF SyncHolds, NoSync, Reading, Listing, Applying
<1> QED
    BY <1>1, CallMoves DEF SyncEnds

LEMMA MappingStep ==
    ASSUME TeamInv, TeamAssumption, NEW g \in Groups,
           delete_mapping(g) \/ \E k \in Classes : save_mapping(g, k)
    PROVE  TeamInv'
<1>1. UNCHANGED << student, linkGen, linkGens, class, members, sync, teamClock, teams >>
    BY DEF delete_mapping, save_mapping
<1>2. /\ mapping' \in SeenMappings
      /\ mapGens' \in [Groups -> SUBSET Nat] /\ \A h \in Groups : HasLast(mapGens'[h])
  <2>1. CASE delete_mapping(g)
      BY <2>1 DEF delete_mapping, delete_external_group_mapping_for_admin, TeamInv, TeamTypeOK,
                  SeenMappings
  <2>2. ASSUME NEW k \in Classes, save_mapping(g, k) PROVE  /\ mapping' \in SeenMappings
                  /\ mapGens' \in [Groups -> SUBSET Nat] /\ \A h \in Groups : HasLast(mapGens'[h])
    <3>1. /\ NextGeneration(mapGens[g]) \in Nat
          /\ HasLast(mapGens[g] \cup {NextGeneration(mapGens[g])})
        BY GenerationIsNew DEF TeamInv, TeamTypeOK
    <3>2. CASE mapping[g] = None
      <4>1. /\ mapping' = [mapping EXCEPT ![g] = [class |-> k, created |-> NextGeneration(mapGens[g]),
                                                  updated |-> NextGeneration(mapGens[g])]]
            /\ mapGens' = [mapGens EXCEPT ![g] = @ \cup {NextGeneration(mapGens[g])}]
          BY <2>2, <3>2 DEF save_mapping, save_external_group_mapping_for_admin, Reserve
      <4>2. [class |-> k, created |-> NextGeneration(mapGens[g]),
             updated |-> NextGeneration(mapGens[g])] \in MappingRows
          BY <3>1 DEF MappingRows
      <4>3. mapping' \in SeenMappings
          BY <4>1, <4>2 DEF TeamInv, TeamTypeOK, SeenMappings
      <4> QED
          BY <3>1, <4>1, <4>3 DEF TeamInv, TeamTypeOK
    <3>3. CASE mapping[g] # None
      <4>1. mapping[g] \in MappingRows
          BY <3>3 DEF TeamInv, TeamTypeOK, SeenMappings
      <4>2. HasLast({mapping[g].updated}) /\ {mapping[g].updated} \in SUBSET Nat
          BY <4>1 DEF HasLast, MappingRows
      <4>3. NextGeneration({mapping[g].updated}) \in Nat
          BY <4>2, GenerationIsNew DEF TeamInv
      <4>4. /\ mapping' = [mapping EXCEPT ![g].updated = NextGeneration({@})]
            /\ mapGens' = mapGens
          BY <2>2, <3>3 DEF save_mapping, save_external_group_mapping_for_admin
      <4>5. mapping' = [mapping EXCEPT ![g] =
                           [mapping[g] EXCEPT !.updated = NextGeneration({mapping[g].updated})]]
          BY <4>4
      <4>6. [mapping[g] EXCEPT !.updated = NextGeneration({mapping[g].updated})] \in MappingRows
          BY <4>1, <4>3 DEF MappingRows
      <4>7. mapping' \in SeenMappings
          BY <4>5, <4>6 DEF TeamInv, TeamTypeOK, SeenMappings
      <4> QED
          BY <4>4, <4>7 DEF TeamInv, TeamTypeOK
    <3> QED
        BY <3>2, <3>3
  <2> QED
      BY <2>1, <2>2
<1>3. \A s \in Syncs : SyncHolds(sync[s])'
    BY <1>1, CallsAreKept DEF TeamInv, TeamTypeOK, TeamAssumption
<1>4. UnlinkedHasNoTeam'
    BY <1>1 DEF TeamInv, UnlinkedHasNoTeam, FromGitHub
<1> QED
    BY <1>1, <1>2, <1>3, <1>4 DEF TeamInv, TeamTypeOK

LEMMA TeacherStep ==
    ASSUME TeamInv, TeamAssumption, NEW k \in Classes, save_team_class(k) \/ save_team_membership(k)
    PROVE  TeamInv'
<1>1. UNCHANGED << student, linkGen, linkGens, mapping, mapGens, sync, teamClock, teams >>
    BY DEF save_team_class, save_team_membership
<1>2. class' \in [Classes -> ClassRows]
  <2>1. class[k].rev + 1 \in Nat
      BY DEF TeamInv, TeamTypeOK, ClassRows
  <2>2. ASSUME NEW on \in BOOLEAN PROVE [active |-> on, rev |-> class[k].rev + 1] \in ClassRows
      BY <2>1 DEF ClassRows
  <2> QED
      BY <2>2 DEF save_team_class, save_team_membership, TeamInv, TeamTypeOK
<1>3. members' \in SUBSET Memberships /\ FromGitHub' \subseteq FromGitHub
    BY DEF save_team_class, save_team_membership, TeamInv, TeamTypeOK, Memberships, FromGitHub
<1>4. \A s \in Syncs : SyncHolds(sync[s])'
    BY <1>1, CallsAreKept DEF TeamInv, TeamTypeOK, TeamAssumption
<1>5. UnlinkedHasNoTeam'
    BY <1>1, <1>3 DEF TeamInv, UnlinkedHasNoTeam
<1> QED
    BY <1>1, <1>2, <1>3, <1>4, <1>5 DEF TeamInv, TeamTypeOK

LEMMA OwnerStep ==
    ASSUME TeamInv, TeamAssumption, save_student \/ link_github \/ unlink_github
    PROVE  TeamInv'
<1>1. UNCHANGED << class, mapping, mapGens, sync, teamClock, teams >>
    BY DEF save_student, link_github, unlink_github
<1>2. student' \in AccountRows
    BY DEF save_student, link_github, unlink_github, TeamInv, TeamTypeOK, AccountRows
<1>3. /\ linkGen' \in Nat \cup {None} /\ linkGens' \in SUBSET Nat /\ HasLast(linkGens')
      /\ (linkGen' = None => linkGen = None \/ unlink_github)
  <2>1. CASE link_github
    <3>1. NextGeneration(linkGens) \in Nat /\ HasLast(linkGens \cup {NextGeneration(linkGens)})
        BY GenerationIsNew DEF TeamInv, TeamTypeOK
    <3> QED
        BY <2>1, <3>1, TeamAssumption DEF link_github, TeamAssumption, TeamInv, TeamTypeOK
  <2> QED
      BY <2>1 DEF save_student, unlink_github, TeamInv, TeamTypeOK
<1>4. members' \in SUBSET Memberships /\ FromGitHub' \subseteq FromGitHub
      /\ (unlink_github => FromGitHub' = {})
    BY DEF save_student, link_github, unlink_github, TeamInv, TeamTypeOK, FromGitHub, Unlinked
<1>5. \A s \in Syncs : SyncHolds(sync[s])'
    BY <1>1, CallsAreKept DEF TeamInv, TeamTypeOK, TeamAssumption
<1>6. UnlinkedHasNoTeam'
    BY <1>3, <1>4 DEF TeamInv, UnlinkedHasNoTeam
<1> QED
    BY <1>1, <1>2, <1>3, <1>4, <1>5, <1>6 DEF TeamInv, TeamTypeOK

LEMMA TimeStep ==
    ASSUME TeamInv, TeamAssumption, ChangeTeams \/ TeamTick
    PROVE  TeamInv'
<1>1. UNCHANGED << student, linkGen, linkGens, class, mapping, mapGens, members, sync >>
    BY DEF ChangeTeams, TeamTick
<1>2. teamClock' \in 0..MaxTeamClock /\ teamClock <= teamClock'
    BY DEF ChangeTeams, TeamTick, TeamInv, TeamTypeOK, TeamAssumption
<1>3. /\ teams' \in [0..MaxTeamClock -> SUBSET Groups]
      /\ \A t \in 0..MaxTeamClock : t <= teamClock => teams'[t] = teams[t]
    BY DEF ChangeTeams, TeamTick, TeamInv, TeamTypeOK
<1>4. \A s \in Syncs : SyncHolds(sync[s])'
    BY <1>1, <1>2, <1>3, CallsAreKept DEF TeamAssumption
<1>5. UnlinkedHasNoTeam'
    BY <1>1 DEF TeamInv, UnlinkedHasNoTeam, FromGitHub
<1> QED
    BY <1>1, <1>2, <1>3, <1>4, <1>5 DEF TeamInv, TeamTypeOK

LEMMA AskStep ==
    ASSUME TeamInv, TeamAssumption, NEW s \in Syncs,
           reconcile(s) \/ read_complete_memberships(s) \/ validate_snapshot(s)
             \/ \E g \in Groups : read_external_group_mapping(s, g)
    PROVE  TeamInv'
<1> DEFINE c == sync[s]
<1>1. UNCHANGED << student, linkGen, linkGens, class, mapping, mapGens, members, teamClock, teams >>
    BY DEF reconcile, read_complete_memberships, validate_snapshot, read_external_group_mapping,
           SyncKeeps
<1>2. /\ \A t \in Syncs : SyncHolds(sync[t])'
      /\ sync' \in [Syncs -> {NoSync} \cup Directory \cup Revoking \cup Reading \cup Listing
                              \cup Applying]
  <2>1. CASE reconcile(s)
    <3>1. PICK d \in Directory \cup Revoking : sync' = [sync EXCEPT ![s] = d]
      <4>1. linkGen # None => [pc |-> "directory", user |-> student, gen |-> linkGen] \in Directory
          BY DEF Directory, TeamInv, TeamTypeOK
      <4>2. [pc |-> "revoke", user |-> student, rows |-> members] \in Revoking
          BY DEF Revoking, TeamInv, TeamTypeOK
      <4> QED
          BY <2>1, <4>1, <4>2 DEF reconcile
    <3>2. SyncHolds(d)
        BY DEF SyncHolds, Directory, Revoking, Reading, Listing, Applying
    <3> QED
        BY <1>1, <3>1, <3>2, CallMoves
  <2>2. CASE SyncEnds(s)
      BY <1>1, <2>2, CallEnds
  <2>3. CASE read_complete_memberships(s) /\ ~SyncEnds(s)
    <3> DEFINE d == [pc |-> "snapshot", user |-> c.user, gen |-> c.gen, at |-> teamClock,
                     teams |-> teams[teamClock], todo |-> teams[teamClock],
                     maps |-> [g \in Groups |-> None]]
    <3>1. c \in Directory /\ sync' = [sync EXCEPT ![s] = d]
        BY <2>3, StageOfSync DEF TeamInv, read_complete_memberships
    <3>2. teamClock \in Nat /\ teams[teamClock] \in SUBSET Groups
        BY TeamAssumption DEF TeamInv, TeamTypeOK, TeamAssumption
    <3>3. d \in Reading
        BY <3>1, <3>2 DEF Directory, Reading, SeenMappings
    <3>4. SnapshotHolds(d) /\ TodoHolds(d)
        BY <3>2 DEF SnapshotHolds, TodoHolds, Mapped
    <3>5. SyncHolds(d)
        BY <3>3, <3>4 DEF SyncHolds, Listing, Applying
    <3> QED
        BY <1>1, <3>1, <3>3, <3>5, CallMoves
  <2>4. CASE validate_snapshot(s) /\ ~SyncEnds(s)
    <3> DEFINE d == [c EXCEPT !.pc = "mappings"]
    <3>1. /\ c \in Reading /\ c.pc = "snapshot" /\ c.gen <= c.at
          /\ sync' = [sync EXCEPT ![s] = d]
        BY <2>4, StageOfSync DEF TeamInv, validate_snapshot, Reading
    <3>2. d \in Reading
        BY <3>1 DEF Reading
    <3>3. SnapshotHolds(d) /\ TodoHolds(d)
        BY <3>1 DEF TeamInv, SyncHolds, SnapshotHolds, TodoHolds, Mapped, Reading
    <3>4. SyncHolds(d)
        BY <3>2, <3>3 DEF SyncHolds, Reading, Listing, Applying
    <3> QED
        BY <1>1, <3>1, <3>2, <3>4, CallMoves
  <2>5. ASSUME NEW g \in Groups, read_external_group_mapping(s, g)
        PROVE  /\ \A t \in Syncs : SyncHolds(sync[t])'
               /\ sync' \in [Syncs -> {NoSync} \cup Directory \cup Revoking \cup Reading
                                       \cup Listing \cup Applying]
    <3> DEFINE d == [c EXCEPT !.maps[g] = mapping[g], !.todo = c.todo \ {g}]
    <3>1. c \in Reading /\ c.pc = "mappings" /\ g \in c.todo
        BY <2>5, StageOfSync DEF TeamInv, read_external_group_mapping
    <3>2. sync' = [sync EXCEPT ![s] = d]
        BY <2>5, <3>1 DEF read_external_group_mapping, TeamInv, TeamTypeOK, Reading
    <3>3. c.maps \in SeenMappings /\ mapping \in SeenMappings
        BY <3>1 DEF TeamInv, TeamTypeOK, Reading
    <3>4. d.maps = [c.maps EXCEPT ![g] = mapping[g]] /\ d.todo = c.todo \ {g}
          /\ d.pc = c.pc /\ d.gen = c.gen /\ d.at = c.at /\ d.teams = c.teams
        BY <3>1 DEF Reading
    <3>5. d.maps \in SeenMappings
        BY <3>3, <3>4 DEF SeenMappings
    <3>6. d \in Reading
        BY <3>1, <3>5 DEF Reading
    <3>7. SnapshotHolds(c) /\ TodoHolds(c)
        BY <3>1 DEF TeamInv, SyncHolds
    <3>8. Mapped(d) \subseteq Mapped(c) \cup {g}
        BY <3>3, <3>4 DEF Mapped, SeenMappings
    <3>9. SnapshotHolds(d) /\ TodoHolds(d)
        BY <3>1, <3>4, <3>7, <3>8 DEF SnapshotHolds, TodoHolds
    <3>10. SyncHolds(d)
        BY <3>6, <3>9 DEF SyncHolds, Reading, Listing, Applying
    <3> QED
        BY <1>1, <3>2, <3>6, <3>10, CallMoves
  <2> QED
      BY <2>1, <2>2, <2>3, <2>4, <2>5
<1>3. UnlinkedHasNoTeam'
    BY <1>1 DEF TeamInv, UnlinkedHasNoTeam, FromGitHub
<1> QED
    BY <1>1, <1>2, <1>3 DEF TeamInv, TeamTypeOK

LEMMA OnlyTeam ==
    ASSUME NEW c \in Reading, TeamAssumption, Cardinality(Mapped(c)) = 1
    PROVE  Mapped(c) # {}
<1>1. IsFiniteSet(Mapped(c))
    BY FS_Subset, TeamAssumption DEF Mapped, TeamAssumption
<1> QED
    BY <1>1, FS_Singleton

LEMMA ListStep ==
    ASSUME TeamInv, TeamAssumption, NEW s \in Syncs, read_classes(s) \/ read_memberships(s)
    PROVE  TeamInv'
<1> DEFINE c == sync[s]
<1>1. UNCHANGED << student, linkGen, linkGens, class, mapping, mapGens, members, teamClock, teams >>
    BY DEF read_classes, read_memberships, SyncKeeps
<1>2. /\ \A t \in Syncs : SyncHolds(sync[t])'
      /\ sync' \in [Syncs -> {NoSync} \cup Directory \cup Revoking \cup Reading \cup Listing
                              \cup Applying]
  <2>1. CASE SyncEnds(s)
      BY <1>1, <2>1, CallEnds
  <2>2. CASE read_classes(s) /\ ~SyncEnds(s)
    <3> DEFINE d == [pc |-> "rows", user |-> c.user, gen |-> c.gen, at |-> c.at,
                     teams |-> c.teams, maps |-> c.maps, classes |-> class]
    <3>1. c \in Reading /\ c.pc = "mappings" /\ sync' = [sync EXCEPT ![s] = d]
        BY <2>2, StageOfSync DEF TeamInv, read_classes
    <3>2. \/ c.user.role = "student"
          \/ Cardinality(Mapped(c)) = 1 /\ \A g \in Mapped(c) : class[c.maps[g].class].active
        BY <2>2 DEF read_classes
    <3>3. d \in Listing
        BY <3>1 DEF Reading, Listing, TeamInv, TeamTypeOK
    <3>4. Mapped(d) = Mapped(c)
        BY DEF Mapped
    <3>5. SnapshotHolds(d)
        BY <3>1, <3>4 DEF TeamInv, SyncHolds, SnapshotHolds
    <3>6. OnboardingHolds(d)
        BY <3>1, <3>2, <3>4, OnlyTeam DEF OnboardingHolds
    <3>7. SyncHolds(d)
        BY <3>3, <3>5, <3>6 DEF SyncHolds, Reading, Listing
    <3> QED
        BY <1>1, <3>1, <3>3, <3>7, CallMoves
  <2>3. CASE read_memberships(s)
    <3> DEFINE d == [pc |-> "apply", user |-> c.user, gen |-> c.gen, at |-> c.at,
                     teams |-> c.teams, maps |-> c.maps, classes |-> c.classes, rows |-> members]
    <3>1. c \in Listing /\ c.pc = "rows" /\ sync' = [sync EXCEPT ![s] = d]
        BY <2>3, StageOfSync DEF TeamInv, read_memberships
    <3>2. d \in Applying
        BY <3>1 DEF Listing, Applying, TeamInv, TeamTypeOK
    <3>3. Mapped(d) = Mapped(c)
        BY DEF Mapped
    <3>4. SnapshotHolds(d) /\ OnboardingHolds(d)
        BY <3>1, <3>3 DEF TeamInv, SyncHolds, SnapshotHolds, OnboardingHolds
    <3>5. SyncHolds(d)
        BY <3>2, <3>4 DEF SyncHolds, Reading, Applying
    <3> QED
        BY <1>1, <3>1, <3>2, <3>5, CallMoves
  <2> QED
      BY <2>1, <2>2, <2>3
<1>3. UnlinkedHasNoTeam'
    BY <1>1 DEF TeamInv, UnlinkedHasNoTeam, FromGitHub
<1> QED
    BY <1>1, <1>2, <1>3 DEF TeamInv, TeamTypeOK

\* A membership of a team that a transaction grants is as the account is now.
IsCurrent(m) ==
    /\ class[m.class].active
    /\ mapping[m.group] # None /\ mapping[m.group].class = m.class
    /\ \E t \in linkGen..teamClock : t + MaxAge > teamClock /\ m.group \in teams[t]

\* What a transaction compares makes a mapping of the snapshot a current one.
LEMMA UnchangedIsCurrent ==
    ASSUME TeamInv, TeamAssumption, NEW c \in Applying, SyncHolds(c), Unchanged(c),
           NEW g \in Mapped(c), c.classes[c.maps[g].class].active
    PROVE  /\ IsCurrent([class |-> c.maps[g].class, group |-> g])
           /\ linkGen # None
           /\ [class |-> c.maps[g].class, group |-> g] \in Memberships
<1>1. SnapshotHolds(c) /\ c.pc = "apply"
    BY DEF SyncHolds, Applying
<1>2. g \in c.teams /\ g \in Groups /\ c.maps[g] # None /\ c.maps[g] \in MappingRows
    BY <1>1 DEF SnapshotHolds, Mapped, Applying, SeenMappings
<1>3. mapping[g] = c.maps[g] /\ class[c.maps[g].class].active
    BY <1>2 DEF Unchanged, SameMappings, SameClasses
<1>4. linkGen = c.gen /\ c.gen \in Nat /\ c.at \in Nat /\ c.gen <= c.at /\ c.at <= teamClock
    BY <1>1 DEF Unchanged, SnapshotHolds, Applying
<1>5. teamClock \in Nat
    BY TeamAssumption DEF TeamInv, TeamTypeOK, TeamAssumption
<1>6. c.at \in linkGen..teamClock /\ c.at + MaxAge > teamClock /\ g \in teams[c.at]
    BY <1>1, <1>2, <1>4, <1>5 DEF SnapshotHolds, Unchanged, Fresh
<1>7. [class |-> c.maps[g].class, group |-> g] \in Memberships
    BY <1>2 DEF Memberships, MappingRows
<1> QED
    BY <1>2, <1>3, <1>4, <1>6, <1>7, TeamAssumption DEF IsCurrent, TeamAssumption

LEMMA DesiredIsCurrent ==
    ASSUME TeamInv, TeamAssumption, NEW c \in Applying, SyncHolds(c), Unchanged(c),
           NEW m \in Desired(c)
    PROVE  IsCurrent(m) /\ m \in Memberships /\ linkGen # None
<1>1. PICK k \in Classes : /\ c.classes[k].active
                           /\ \E g \in Mapped(c) : c.maps[g].class = k
                           /\ m = [class |-> k, group |-> Min({g \in Mapped(c) : c.maps[g].class = k})]
    BY DEF Desired
<1> DEFINE T == {g \in Mapped(c) : c.maps[g].class = k}
<1>2. T \in SUBSET Nat /\ T # {}
    BY <1>1, TeamAssumption DEF Mapped, TeamAssumption
<1>3. Min(T) \in T
    BY <1>2, SmallestIsIn
<1> HIDE DEF T
<1>4. Min(T) \in Mapped(c) /\ c.maps[Min(T)].class = k
    BY <1>3 DEF T
<1>5. m = [class |-> c.maps[Min(T)].class, group |-> Min(T)]
    BY <1>1, <1>4 DEF T
<1> QED
    BY <1>1, <1>4, <1>5, UnchangedIsCurrent

\* The three transactions that change memberships by teams.
LEMMA ApplyStep ==
    ASSUME TeamInv, TeamAssumption, NEW s \in Syncs,
           \/ revoke_github_memberships_without_identity(s)
           \/ synchronize_github_memberships(s) \/ onboard_pending_user_from_external_group(s)
    PROVE  /\ TeamInv'
           /\ \A m \in members' : m \notin members /\ m.group # None => IsCurrent(m)
<1> DEFINE c == sync[s]
           g == CHOOSE x \in Mapped(c) : TRUE
<1>1. UNCHANGED << linkGen, linkGens, class, mapping, mapGens, teamClock, teams >> /\ SyncEnds(s)
    BY DEF revoke_github_memberships_without_identity, synchronize_github_memberships,
           onboard_pending_user_from_external_group, SyncKeeps
<1>2. /\ \A t \in Syncs : SyncHolds(sync[t])'
      /\ sync' \in [Syncs -> {NoSync} \cup Directory \cup Revoking \cup Reading \cup Listing
                              \cup Applying]
    BY <1>1, CallEnds
<1>3. SyncHolds(c)
    BY DEF TeamInv
<1>4. student' \in AccountRows
  <2>1. student.rev + 1 \in Nat /\ student \in AccountRows
      BY DEF TeamInv, TeamTypeOK, AccountRows
  <2>2. [student EXCEPT !.role = "student", !.rev = @ + 1] \in AccountRows
      BY <2>1 DEF AccountRows
  <2> QED
      BY <2>2 DEF revoke_github_memberships_without_identity, synchronize_github_memberships,
                  onboard_pending_user_from_external_group, TeamInv, TeamTypeOK
<1>5. \A m \in members' : m \in members \/ (IsCurrent(m) /\ m \in Memberships /\ linkGen # None)
  <2>1. CASE revoke_github_memberships_without_identity(s)
      BY <2>1 DEF revoke_github_memberships_without_identity
  <2>2. CASE synchronize_github_memberships(s)
    <3>1. c \in Applying
        BY <2>2, StageOfSync DEF TeamInv, synchronize_github_memberships
    <3> QED
        BY <1>3, <2>2, <3>1, DesiredIsCurrent DEF synchronize_github_memberships
  <2>3. CASE onboard_pending_user_from_external_group(s) /\ members' # members
    <3>1. c \in Applying /\ c.user.role = "pending"
        BY <2>3, StageOfSync DEF TeamInv, onboard_pending_user_from_external_group
    <3>2. /\ Unchanged(c)
          /\ members' = members \cup {[class |-> c.maps[g].class, group |-> g]}
        BY <2>3 DEF onboard_pending_user_from_external_group
    <3>3. Mapped(c) # {} /\ \A x \in Mapped(c) : c.classes[c.maps[x].class].active
        BY <1>3, <3>1 DEF SyncHolds, OnboardingHolds
    <3>4. g \in Mapped(c)
        BY <3>3
    <3> HIDE DEF g
    <3> QED
        BY <1>3, <3>1, <3>2, <3>3, <3>4, UnchangedIsCurrent
  <2> QED
      BY <2>1, <2>2, <2>3
<1>6. members' \in SUBSET Memberships
    BY <1>5 DEF TeamInv, TeamTypeOK
<1>7. UnlinkedHasNoTeam'
    BY <1>1, <1>5 DEF TeamInv, UnlinkedHasNoTeam, FromGitHub
<1>8. TeamInv'
    BY <1>1, <1>2, <1>4, <1>6, <1>7 DEF TeamInv, TeamTypeOK
<1> QED
    BY <1>5, <1>8

\* A step that grants nothing by a team.
GrantsNothing == \A m \in members' : m \notin members => m.group = None

LEMMA TeamStep ==
    ASSUME TeamInv, TeamAssumption, [TeamNext]_teamVars
    PROVE  /\ TeamInv'
           /\ \A m \in members' : m \notin members /\ m.group # None => IsCurrent(m)
<1>1. CASE UNCHANGED teamVars
  <2>1. UNCHANGED << student, linkGen, linkGens, class, mapping, mapGens, members, sync, teamClock, teams >>
      BY <1>1 DEF teamVars, teamState
  <2>2. \A s \in Syncs : SyncHolds(sync[s])'
      BY <2>1, CallsAreKept, TeamAssumption DEF TeamInv, TeamTypeOK, TeamAssumption
  <2> QED
      BY <2>1, <2>2 DEF TeamInv, TeamTypeOK, UnlinkedHasNoTeam, FromGitHub
<1>2. ASSUME NEW g \in Groups, delete_mapping(g) \/ \E k \in Classes : save_mapping(g, k)
      PROVE  TeamInv' /\ members' = members
    BY <1>2, MappingStep DEF delete_mapping, save_mapping
<1>3. ASSUME NEW k \in Classes, save_team_class(k) \/ save_team_membership(k)
      PROVE  TeamInv' /\ GrantsNothing
    BY <1>3, TeacherStep DEF save_team_class, save_team_membership, GrantsNothing
<1>4. ASSUME save_student \/ link_github \/ unlink_github
      PROVE  TeamInv' /\ members' \subseteq members
    BY <1>4, OwnerStep DEF save_student, link_github, unlink_github, Unlinked
<1>5. ASSUME ChangeTeams \/ TeamTick
      PROVE  TeamInv' /\ members' = members
    BY <1>5, TimeStep DEF ChangeTeams, TeamTick
<1>6. ASSUME NEW s \in Syncs,
             \/ reconcile(s) \/ read_complete_memberships(s) \/ validate_snapshot(s)
             \/ \E g \in Groups : read_external_group_mapping(s, g)
      PROVE  TeamInv' /\ members' = members
    BY <1>6, AskStep DEF reconcile, read_complete_memberships, validate_snapshot,
                         read_external_group_mapping
<1>7. ASSUME NEW s \in Syncs, read_classes(s) \/ read_memberships(s)
      PROVE  TeamInv' /\ members' = members
    BY <1>7, ListStep DEF read_classes, read_memberships
<1>8. CASE TeamNext
    BY <1>2, <1>3, <1>4, <1>5, <1>6, <1>7, <1>8, ApplyStep DEF TeamNext, GrantsNothing
<1> QED
    BY <1>1, <1>8

LEMMA TeamStart ==
    ASSUME TeamInit, TeamAssumption
    PROVE  TeamInv
<1>1. TeamTypeOK
    BY DEF TeamInit, TeamTypeOK, TeamAssumption, AccountRows, ClassRows, SeenMappings, HasLast
<1>2. \A s \in Syncs : SyncHolds(sync[s])
    BY DEF TeamInit, SyncHolds, NoSync, Reading, Listing, Applying
<1>3. UnlinkedHasNoTeam
    BY DEF TeamInit, UnlinkedHasNoTeam, FromGitHub
<1> QED
    BY <1>1, <1>2, <1>3 DEF TeamInv

\* The memberships that an account has from GitHub follow its link, its teams and
\* the mappings as they are when the transaction runs, whatever was edited, unlinked,
\* linked again or moved between teams while GitHub was being asked.
THEOREM TeamsFollowGitHubAlways == TeamSpec => TeamsFollowGitHub
<1>1. TeamInit => TeamInv
    BY TeamStart, TeamAssumption
<1>2. TeamInv /\ [TeamNext]_teamVars => TeamInv'
    BY TeamStep, TeamAssumption
<1>3. TeamInv /\ [TeamNext]_teamVars =>
        [\A m \in members' : m \notin members /\ m.group # None =>
           /\ class[m.class].active
           /\ mapping[m.group] # None /\ mapping[m.group].class = m.class
           /\ \E t \in linkGen..teamClock : t + MaxAge > teamClock /\ m.group \in teams[t]]_teamVars
    BY TeamStep, TeamAssumption DEF IsCurrent
<1>4. TeamInv => UnlinkedHasNoTeam
    BY DEF TeamInv
<1> QED
    BY <1>1, <1>2, <1>3, <1>4, PTL DEF TeamSpec, TeamsFollowGitHub, GrantsAreCurrent

-----------------------------------------------------------------------------
(***************************************************************************)
(* The token of the GitHub App (AppTokens)                                 *)
(***************************************************************************)

Refreshing == {"lock", "request", "check", "exchange", "verify", "drop", "rollback", "own"}
Removing == {"removeLock", "claim", "unlink"}
Exchanged == {"verify", "drop", "rollback", "own"}

\* Where a thread holds the refresh lock of its runtime.
InRefreshLock == (Refreshing \ {"lock"}) \cup {"claim", "unlink"}

Tokens == [id : Nat, by : Runtimes \cup {None}, expires : Nat] \cup {None}
Expiries == Nat \cup {token.expires : token \in Tokens}
RuntimeFields == [stop : BOOLEAN, owned : Tokens, expires : Expiries, refreshLock : Threads \cup {None}]
Counters == {"idle", "join", "wait", "release"} \cup Refreshing \cup Removing
Purposes == {"start", "once", "loop", "stop", "startFailed", "reaper"}
ThreadStates == [pc : Counters, op : Purposes \cup {None}, new : Tokens]

By(token, p) == token # None /\ token.by = p

TokenTypeOK ==
    /\ tokenFile \in Tokens /\ spare \in Tokens
    /\ processLock \in [owner : Runtimes \cup {None}, depth : Nat]
    /\ processLock.owner # None => processLock.depth >= 1
    /\ runtime \in [Runtimes -> RuntimeFields]
    /\ at \in [Runtimes -> [Threads -> ThreadStates]]
    /\ appClock \in Nat /\ tokens \in Nat
    /\ \A p \in Runtimes :
        /\ runtime[p].owned # None => runtime[p].owned.by = p
        /\ \A a \in Threads : at[p][a].new # None => at[p][a].new.by = p

\* One thread of a runtime at a time is refreshing or removing its token, and none
\* refreshes it once a shutdown is complete.
ThreadsHold(p) ==
    LET main == at[p]["main"]
        loop == at[p]["loop"]
        reaper == at[p]["reaper"] IN
    /\ main.pc \in {"idle", "join", "release"} \cup Refreshing \cup Removing
    /\ main.pc \in Refreshing =>
          /\ main.op \in {"start", "once"} /\ ~runtime[p].stop
          /\ main.op = "once" => runtime[p].owned = None
    /\ main.pc \in {"join", "release"} \cup Removing =>
          main.op \in {"stop", "startFailed"} /\ runtime[p].stop
    /\ main.pc \notin {"idle", "join"} => loop.pc = "idle"
    /\ loop.pc \in {"idle", "wait"} \cup Refreshing \cup Removing
    /\ loop.pc # "idle" => loop.op = "loop"
    /\ reaper.pc \in {"idle", "join", "release"} \cup Removing
    /\ reaper.pc # "idle" => reaper.op = "reaper" /\ runtime[p].stop /\ main.pc = "idle"
    /\ reaper.pc \notin {"idle", "join"} => loop.pc = "idle"
    /\ p \in ended => runtime[p].stop /\ loop.pc = "idle"

\* The refresh lock is held inside the file lock, and the file lock from the start of
\* the loop to the shutdown.
LocksHold(p) ==
    /\ \A a \in Threads : runtime[p].refreshLock = a <=> at[p][a].pc \in InRefreshLock
    /\ runtime[p].refreshLock # None => processLock.owner = p
    /\ at[p]["loop"].pc # "idle" =>
          /\ processLock.owner = p
          /\ runtime[p].refreshLock # None => processLock.depth >= 2

\* Where a runtime's own token may be, as long as nothing it could not undo was reported.
TokenHolds(p) ==
    LET owned == runtime[p].owned IN
    /\ processLock.owner # p => ~By(tokenFile, p) /\ ~By(spare, p)
    /\ (\A a \in Threads : at[p][a].pc \notin Exchanged) =>
          (By(tokenFile, p) => tokenFile = owned) /\ ~By(spare, p)
    /\ \A a \in Threads :
        /\ at[p][a].pc \in Exchanged => tokenFile = at[p][a].new /\ (By(spare, p) => spare = owned)
        /\ at[p][a].pc = "own" => spare = None
        /\ at[p][a].pc = "unlink" => tokenFile = None
        /\ at[p][a].pc = "release" => ~By(tokenFile, p)
    /\ p \in ended => ~By(tokenFile, p)
    /\ at[p]["loop"].pc # "idle" =>
          IF at[p]["loop"].pc \in Exchanged THEN spare \in {None, owned}
          ELSE tokenFile \in {None, owned}

RuntimeHolds(p) ==
    /\ ThreadsHold(p)
    /\ LocksHold(p)
    /\ p \notin reported => TokenHolds(p)

AppInv == TokenTypeOK /\ \A p \in Runtimes : RuntimeHolds(p)

-----------------------------------------------------------------------------
(* What one runtime's step leaves to the others.                           *)

\* A runtime that does not hold the file lock touches neither name, and one that does
\* brings no other runtime's token back.
LEMMA OthersHold ==
    ASSUME AppInv, TokenTypeOK', NEW p \in Runtimes, RuntimeHolds(p)',
           \A q \in Runtimes \ {p} :
              /\ at'[q] = at[q] /\ runtime'[q] = runtime[q]
              /\ q \in ended' <=> q \in ended
              /\ q \in reported' <=> q \in reported,
           processLock' = processLock \/ {processLock.owner, processLock'.owner} \subseteq {None, p},
           processLock.owner # p => UNCHANGED << tokenFile, spare >>,
           \A q \in Runtimes \ {p} :
              By(tokenFile, q)' \/ By(spare, q)' => By(tokenFile, q) \/ By(spare, q)
    PROVE  AppInv'
<1> SUFFICES ASSUME NEW q \in Runtimes \ {p} PROVE RuntimeHolds(q)'
    BY DEF AppInv
<1>1. ThreadsHold(q) /\ LocksHold(q) /\ None # p /\ None # q /\ None \notin Threads
    BY AppAssumption DEF AppInv, RuntimeHolds
<1>2. ThreadsHold(q)'
    BY <1>1 DEF ThreadsHold
<1>3. LocksHold(q)'
    BY <1>1 DEF LocksHold
<1>4. ASSUME q \notin reported' PROVE TokenHolds(q)'
  <2>1. TokenHolds(q)
    BY <1>4 DEF AppInv, RuntimeHolds
  <2>2. CASE processLock.owner = q
    BY <1>1, <2>1, <2>2 DEF TokenHolds, By
  <2>3. CASE processLock.owner # q
    <3>1. processLock'.owner # q /\ ~By(tokenFile, q)' /\ ~By(spare, q)'
      BY <1>1, <2>1, <2>3 DEF TokenHolds
    <3>2. /\ \A a \in Threads : at'[q][a].pc \notin InRefreshLock
          /\ at'[q]["loop"].pc = "idle"
      BY <1>1, <2>3 DEF LocksHold
    <3> QED
      BY <3>1, <3>2 DEF TokenHolds, Exchanged, InRefreshLock, Refreshing
  <2> QED
    BY <2>2, <2>3
<1> QED
    BY <1>2, <1>3, <1>4 DEF RuntimeHolds

LEMMA ThreadMoved ==
    ASSUME TokenTypeOK, NEW p \in Runtimes, NEW a \in Threads, NEW s \in ThreadStates,
           at' = [at EXCEPT ![p][a] = s], s.new # None => s.new.by = p
    PROVE  /\ at' \in [Runtimes -> [Threads -> ThreadStates]]
           /\ at'[p][a] = s /\ \A b \in Threads \ {a} : at'[p][b] = at[p][b]
           /\ \A q \in Runtimes \ {p} : at'[q] = at[q]
           /\ \A q \in Runtimes : \A b \in Threads :
                at'[q][b].new # None => at'[q][b].new.by = q
<1>1. at[p] \in [Threads -> ThreadStates] /\ at \in [Runtimes -> [Threads -> ThreadStates]]
    BY DEF TokenTypeOK
<1>2. at' \in [Runtimes -> [Threads -> ThreadStates]] /\ at'[p][a] = s
    BY <1>1
<1>3. \A b \in Threads \ {a} : at'[p][b] = at[p][b]
    BY <1>1
<1>4. \A q \in Runtimes \ {p} : at'[q] = at[q]
    BY <1>1
<1> QED
    BY <1>2, <1>3, <1>4 DEF TokenTypeOK

LEMMA ThreadWent ==
    ASSUME TokenTypeOK, NEW p \in Runtimes, NEW a \in Threads, NEW pc \in Counters,
           Goes(p, a, pc)
    PROVE  \E s \in ThreadStates :
              /\ at' = [at EXCEPT ![p][a] = s]
              /\ s.pc = pc /\ s.op = at[p][a].op /\ s.new = at[p][a].new
<1> DEFINE s == [at[p][a] EXCEPT !.pc = pc]
<1>1. at[p][a] \in ThreadStates
    BY DEF TokenTypeOK
<1>2. s \in ThreadStates /\ s.pc = pc /\ s.op = at[p][a].op /\ s.new = at[p][a].new
    BY <1>1 DEF ThreadStates
<1>3. at' = [at EXCEPT ![p][a] = s]
    BY DEF Goes
<1> QED
    BY <1>2, <1>3

LEMMA RestingIsAState == Resting \in ThreadStates /\ Resting.new = None
<1>1. None \in Tokens /\ None \in Purposes \cup {None} /\ "idle" \in Counters
    BY DEF Tokens, Counters
<1> QED
    BY <1>1 DEF Resting, ThreadStates

\* The runtime of one process changes.
LEMMA RuntimeChanged ==
    ASSUME TokenTypeOK, NEW p \in Runtimes, NEW rt \in RuntimeFields,
           runtime' = [runtime EXCEPT ![p] = rt], rt.owned # None => rt.owned.by = p
    PROVE  /\ runtime' \in [Runtimes -> RuntimeFields] /\ runtime'[p] = rt
           /\ \A q \in Runtimes \ {p} : runtime'[q] = runtime[q]
           /\ \A q \in Runtimes : runtime'[q].owned # None => runtime'[q].owned.by = q
<1>1. runtime \in [Runtimes -> RuntimeFields]
      /\ \A q \in Runtimes : runtime[q].owned # None => runtime[q].owned.by = q
    BY DEF TokenTypeOK
<1>2. runtime' \in [Runtimes -> RuntimeFields] /\ runtime'[p] = rt
    BY <1>1
<1>3. \A q \in Runtimes \ {p} : runtime'[q] = runtime[q]
    BY <1>1
<1>4. ASSUME NEW q \in Runtimes, runtime'[q].owned # None PROVE runtime'[q].owned.by = q
    BY <1>1, <1>2, <1>3, <1>4
<1> QED
    BY <1>2, <1>3, <1>4

\* One thread of one runtime moves.
LEMMA StepHolds ==
    ASSUME AppInv, NEW p \in Runtimes, NEW a \in Threads,
           NEW s \in ThreadStates, s.new # None => s.new.by = p,
           NEW rt \in RuntimeFields, rt.owned # None => rt.owned.by = p,
           at' = [at EXCEPT ![p][a] = s], runtime' = [runtime EXCEPT ![p] = rt],
           tokenFile' \in Tokens, spare' \in Tokens, appClock' \in Nat, tokens' \in Nat,
           processLock' \in [owner : Runtimes \cup {None}, depth : Nat],
           processLock'.owner # None => processLock'.depth >= 1
    PROVE  /\ TokenTypeOK'
           /\ at'[p][a] = s /\ \A b \in Threads \ {a} : at'[p][b] = at[p][b]
           /\ runtime'[p] = rt
           /\ \A q \in Runtimes \ {p} : at'[q] = at[q] /\ runtime'[q] = runtime[q]
<1>1. /\ at' \in [Runtimes -> [Threads -> ThreadStates]]
      /\ at'[p][a] = s /\ \A b \in Threads \ {a} : at'[p][b] = at[p][b]
      /\ \A q \in Runtimes \ {p} : at'[q] = at[q]
      /\ \A q \in Runtimes : \A b \in Threads :
           at'[q][b].new # None => at'[q][b].new.by = q
    BY ThreadMoved DEF AppInv
<1>2. /\ runtime' \in [Runtimes -> RuntimeFields] /\ runtime'[p] = rt
      /\ \A q \in Runtimes \ {p} : runtime'[q] = runtime[q]
      /\ \A q \in Runtimes : runtime'[q].owned # None => runtime'[q].owned.by = q
    BY RuntimeChanged DEF AppInv
<1> QED
    BY <1>1, <1>2 DEF TokenTypeOK

LEMMA Now ==
    ASSUME AppInv, NEW p \in Runtimes
    PROVE  /\ ThreadsHold(p) /\ LocksHold(p) /\ (p \notin reported => TokenHolds(p))
           /\ runtime[p] \in RuntimeFields
           /\ runtime[p].owned # None => runtime[p].owned.by = p
           /\ runtime = [runtime EXCEPT ![p] = runtime[p]]
           /\ \A a \in Threads :
                at[p][a] \in ThreadStates /\ (at[p][a].new # None => at[p][a].new.by = p)
           /\ tokenFile \in Tokens /\ spare \in Tokens /\ appClock \in Nat /\ tokens \in Nat
           /\ processLock \in [owner : Runtimes \cup {None}, depth : Nat]
           /\ processLock.owner # None => processLock.depth >= 1
           /\ None # p /\ None \notin Threads
<1>1. runtime \in [Runtimes -> RuntimeFields]
    BY DEF AppInv, TokenTypeOK
<1>2. runtime = [runtime EXCEPT ![p] = runtime[p]]
    BY <1>1
<1> QED
    BY <1>1, <1>2, AppAssumption DEF AppInv, RuntimeHolds, TokenTypeOK

\* The file lock is taken and given back one level at a time.
LEMMA LockTaken ==
    ASSUME AppInv, NEW p \in Runtimes, Acquirable(p), Acquire(p)
    PROVE  /\ processLock' \in [owner : Runtimes \cup {None}, depth : Nat]
           /\ processLock'.depth >= 1 /\ processLock'.owner = p
           /\ processLock.owner = p => processLock'.depth >= 2
           /\ {processLock.owner, processLock'.owner} \subseteq {None, p}
    BY AppAssumption DEF AppInv, TokenTypeOK, Acquirable, Acquire

LEMMA LockReleased ==
    ASSUME AppInv, NEW p \in Runtimes, Release(p)
    PROVE  /\ processLock' \in [owner : Runtimes \cup {None}, depth : Nat]
           /\ processLock'.owner # None => processLock'.depth >= 1
           /\ processLock.owner = p /\ processLock.depth >= 2 => processLock'.owner = p
           /\ processLock.owner # p => processLock' = processLock
           /\ processLock.owner = p => processLock'.owner \in {None, p}
           /\ processLock' = processLock \/ {processLock.owner, processLock'.owner} \subseteq {None, p}
<1>1. /\ processLock \in [owner : Runtimes \cup {None}, depth : Nat]
      /\ processLock.owner # None => processLock.depth >= 1
      /\ None # p
    BY AppAssumption DEF AppInv, TokenTypeOK
<1>2. CASE processLock.owner # p
    BY <1>1, <1>2 DEF Release
<1>3. CASE processLock.owner = p /\ processLock.depth = 1
  <2>1. processLock' = [owner |-> None, depth |-> 0]
    BY <1>3 DEF Release
  <2> QED
    BY <1>1, <1>3, <2>1
<1>4. CASE processLock.owner = p /\ processLock.depth # 1
  <2>1. processLock' = [processLock EXCEPT !.depth = @ - 1]
    BY <1>4 DEF Release
  <2>2. processLock.depth \in Nat /\ processLock.depth >= 2
    BY <1>1, <1>4
  <2> QED
    BY <1>1, <1>4, <2>1, <2>2
<1> QED
    BY <1>2, <1>3, <1>4

-----------------------------------------------------------------------------
(* The callers.                                                            *)

\* A step outside the locks that leaves the files alone.
LEMMA CallerHolds ==
    ASSUME AppInv, NEW p \in Runtimes, NEW a \in Threads,
           NEW s \in ThreadStates, s.new # None => s.new.by = p,
           NEW rt \in RuntimeFields, rt.owned = runtime[p].owned,
           rt.refreshLock = runtime[p].refreshLock,
           at' = [at EXCEPT ![p][a] = s], runtime' = [runtime EXCEPT ![p] = rt],
           UNCHANGED <<tokenFile, spare, processLock, appClock, tokens, ended, reported>>,
           {at[p][a].pc, s.pc} \cap InRefreshLock = {}, s.pc # "release",
           a = "loop" => at[p][a].pc # "idle",
           /\ at'[p][a] = s /\ \A b \in Threads \ {a} : at'[p][b] = at[p][b]
           /\ runtime'[p] = rt
           => ThreadsHold(p)'
    PROVE  AppInv'
<1>1. /\ ThreadsHold(p) /\ LocksHold(p) /\ (p \notin reported => TokenHolds(p))
      /\ runtime[p].owned # None => runtime[p].owned.by = p
      /\ "loop" \in Threads
    BY Now DEF Threads
<1>2. /\ TokenTypeOK'
      /\ at'[p][a] = s /\ \A b \in Threads \ {a} : at'[p][b] = at[p][b]
      /\ runtime'[p] = rt
      /\ \A q \in Runtimes \ {p} : at'[q] = at[q] /\ runtime'[q] = runtime[q]
    BY <1>1, StepHolds DEF AppInv, TokenTypeOK
<1>3. ThreadsHold(p)'
    BY <1>2
<1>4. LocksHold(p)'
    BY <1>1, <1>2 DEF LocksHold
<1>5. p \notin reported' => TokenHolds(p)'
    BY <1>1, <1>2, ZenonT(60) DEF TokenHolds, By, InRefreshLock, Exchanged, Refreshing
<1> QED
    BY <1>2, <1>3, <1>4, <1>5, OthersHold DEF RuntimeHolds, By

LEMMA CallersHold ==
    ASSUME AppInv, NEW p \in Runtimes,
           \/ start(p) \/ refresh_once(p) \/ stop(p) \/ stop_joined(p) \/ finish_shutdown(p)
           \/ run_wakes(p)
    PROVE  AppInv'
<1>1. /\ TokenTypeOK /\ ThreadsHold(p) /\ LocksHold(p) /\ (p \notin reported => TokenHolds(p))
      /\ runtime[p] \in RuntimeFields /\ runtime = [runtime EXCEPT ![p] = runtime[p]]
      /\ \A a \in Threads :
           at[p][a] \in ThreadStates /\ (at[p][a].new # None => at[p][a].new.by = p)
    BY Now DEF AppInv
<1>2. \A op \in Purposes : \A pc \in Counters :
        [pc |-> pc, op |-> op, new |-> None] \in ThreadStates
    BY DEF ThreadStates, Tokens
<1> USE DEF Threads
<1>3. CASE start(p) \/ refresh_once(p)
  <2>1. PICK op \in {"start", "once"} :
          /\ at' = [at EXCEPT ![p]["main"] = [pc |-> "lock", op |-> op, new |-> None]]
          /\ op = "once" => runtime[p] = NewRuntime
    BY <1>3 DEF start, refresh_once
  <2>2. PICK s \in ThreadStates :
          s.pc = "lock" /\ s.op = op /\ s.new = None /\ at' = [at EXCEPT ![p]["main"] = s]
    BY <1>2, <2>1 DEF Counters, Purposes, Refreshing
  <2>3. /\ ~runtime[p].stop /\ at[p]["loop"].pc = "idle" /\ at[p]["main"].pc = "idle"
        /\ op = "once" => runtime[p].owned = None
        /\ UNCHANGED <<tokenFile, spare, processLock, runtime, appClock, tokens, ended, reported>>
    BY <1>3, <2>1 DEF start, refresh_once, NewRuntime, LifecycleFree
  <2>4. /\ at'[p]["main"] = s /\ \A b \in Threads \ {"main"} : at'[p][b] = at[p][b]
        => ThreadsHold(p)'
    BY <1>1, <2>2, <2>3 DEF ThreadsHold, Refreshing, Removing
  <2>5. {at[p]["main"].pc, s.pc} \cap InRefreshLock = {} /\ s.pc # "release"
    BY <2>2, <2>3 DEF InRefreshLock, Refreshing
  <2>6. /\ runtime' = [runtime EXCEPT ![p] = runtime[p]]
        /\ runtime[p].owned # None => runtime[p].owned.by = p
    BY <1>1, <2>3, Now
  <2> QED
    BY <1>1, <2>2, <2>3, <2>4, <2>5, <2>6, CallerHolds
<1>4. CASE stop(p)
  <2> DEFINE rt == [runtime[p] EXCEPT !.stop = TRUE]
  <2>1. PICK s \in ThreadStates :
          s.pc = "join" /\ s.op = "stop" /\ s.new = None /\ at' = [at EXCEPT ![p]["main"] = s]
    BY <1>2, <1>4 DEF stop, Counters, Purposes
  <2>2. /\ runtime' = [runtime EXCEPT ![p] = rt]
        /\ at[p]["main"].pc = "idle" /\ at[p]["reaper"].pc = "idle"
        /\ UNCHANGED <<tokenFile, spare, processLock, appClock, tokens, ended, reported>>
    BY <1>1, <1>4 DEF stop, LifecycleFree, TokenTypeOK
  <2>3. /\ rt \in RuntimeFields /\ rt.stop /\ rt.owned = runtime[p].owned
        /\ rt.refreshLock = runtime[p].refreshLock
    BY <1>1 DEF RuntimeFields
  <2> HIDE DEF rt
  <2>4. /\ at'[p]["main"] = s /\ \A b \in Threads \ {"main"} : at'[p][b] = at[p][b]
        /\ runtime'[p] = rt
        => ThreadsHold(p)'
    BY <1>1, <2>1, <2>2, <2>3 DEF ThreadsHold, Refreshing, Removing
  <2> QED
    BY <1>1, <2>1, <2>2, <2>3, <2>4, CallerHolds DEF InRefreshLock, Refreshing
<1>5. ASSUME NEW a \in {"main", "reaper"}, at[p][a].pc = "join",
             at[p]["loop"].pc = "idle", a = "reaper" => at[p]["main"].pc = "idle",
             Goes(p, a, "removeLock"),
             UNCHANGED <<tokenFile, spare, processLock, runtime, appClock, tokens, ended, reported>>
      PROVE  AppInv'
  <2>1. PICK s \in ThreadStates :
          /\ at' = [at EXCEPT ![p][a] = s]
          /\ s.pc = "removeLock" /\ s.op = at[p][a].op /\ s.new = at[p][a].new
    <3>1. a \in Threads /\ "removeLock" \in Counters
      BY DEF Counters, Removing
    <3> QED
      BY <1>1, <1>5, <3>1, ThreadWent
  <2>2. /\ at'[p][a] = s /\ \A b \in Threads \ {a} : at'[p][b] = at[p][b]
        => ThreadsHold(p)'
    BY <1>1, <1>5, <2>1 DEF ThreadsHold, Refreshing, Removing
  <2>3. {at[p][a].pc, s.pc} \cap InRefreshLock = {} /\ s.pc # "release" /\ a # "loop"
    BY <1>5, <2>1 DEF InRefreshLock, Refreshing
  <2>4. /\ runtime' = [runtime EXCEPT ![p] = runtime[p]] /\ runtime[p] \in RuntimeFields
        /\ (s.new # None => s.new.by = p) /\ a \in Threads
    BY <1>1, <1>5, <2>1
  <2>5. UNCHANGED <<tokenFile, spare, processLock, appClock, tokens, ended, reported>>
    BY <1>5
  <2> QED
    BY <2>1, <2>2, <2>3, <2>4, <2>5, CallerHolds
<1>6. CASE stop_joined(p)
  <2>1. CASE at[p]["loop"].pc = "idle" /\ Goes(p, "main", "removeLock")
    BY <1>5, <1>6, <2>1 DEF stop_joined
  <2>2. CASE at[p]["loop"].pc # "idle"
    <3> DEFINE w == [pc |-> "join", op |-> "reaper", new |-> None]
    <3>1. /\ at[p]["main"].pc = "join"
          /\ at' = [at EXCEPT ![p]["main"] = Resting, ![p]["reaper"] = w]
          /\ UNCHANGED <<tokenFile, spare, processLock, runtime, appClock, tokens, ended, reported>>
      BY <1>6, <2>2 DEF stop_joined
    <3>2. w \in ThreadStates /\ Resting \in ThreadStates /\ w.new = None /\ Resting.new = None
          /\ Resting.pc = "idle" /\ w.pc = "join" /\ w.op = "reaper"
      BY <1>2, RestingIsAState DEF Counters, Purposes, Resting
    <3> HIDE DEF w
    <3>3. /\ at' \in [Runtimes -> [Threads -> ThreadStates]]
          /\ at'[p]["main"] = Resting /\ at'[p]["reaper"] = w /\ at'[p]["loop"] = at[p]["loop"]
          /\ \A q \in Runtimes \ {p} : at'[q] = at[q]
      BY <1>1, <3>1, <3>2 DEF TokenTypeOK
    <3>4. TokenTypeOK'
      BY <1>1, <3>1, <3>2, <3>3 DEF TokenTypeOK
    <3>5. ThreadsHold(p)'
      BY <1>1, <3>1, <3>2, <3>3 DEF ThreadsHold, Refreshing, Removing
    <3>6. LocksHold(p)'
      BY <1>1, <3>1, <3>2, <3>3 DEF LocksHold, InRefreshLock, Refreshing
    <3>7. p \notin reported' => TokenHolds(p)'
      BY <1>1, <3>1, <3>2, <3>3 DEF TokenHolds, Exchanged, By
    <3> QED
      BY <3>1, <3>3, <3>4, <3>5, <3>6, <3>7, OthersHold DEF RuntimeHolds, By
  <2> QED
    BY <1>6, <2>1, <2>2 DEF stop_joined
<1>7. CASE finish_shutdown(p)
    BY <1>5, <1>7 DEF finish_shutdown
<1>8. CASE run_wakes(p)
  <2>1. PICK s \in ThreadStates :
          /\ at' = [at EXCEPT ![p]["loop"] = s] /\ (s.new # None => s.new.by = p)
          /\ s.pc \in {"idle", "lock"} /\ (s.pc # "idle" => s.op = at[p]["loop"].op)
          /\ s.pc = "lock" => ~runtime[p].stop
    <3>1. CASE Ended(p, "loop")
      BY <3>1, RestingIsAState DEF Ended, Resting
    <3>2. CASE Goes(p, "loop", "lock") /\ ~runtime[p].stop
      <4>1. "loop" \in Threads /\ "lock" \in Counters
        BY DEF Counters, Refreshing
      <4>2. PICK s \in ThreadStates :
              /\ at' = [at EXCEPT ![p]["loop"] = s]
              /\ s.pc = "lock" /\ s.op = at[p]["loop"].op /\ s.new = at[p]["loop"].new
        BY <1>1, <3>2, <4>1, ThreadWent
      <4> QED
        BY <1>1, <3>2, <4>2
    <3> QED
      BY <1>8, <3>1, <3>2 DEF run_wakes
  <2>2. /\ at[p]["loop"].pc = "wait"
        /\ UNCHANGED <<tokenFile, spare, processLock, runtime, appClock, tokens, ended, reported>>
    BY <1>8 DEF run_wakes
  <2>3. /\ at'[p]["loop"] = s /\ \A b \in Threads \ {"loop"} : at'[p][b] = at[p][b]
        => ThreadsHold(p)'
    BY <1>1, <2>1, <2>2 DEF ThreadsHold, Refreshing, Removing
  <2>4. {at[p]["loop"].pc, s.pc} \cap InRefreshLock = {} /\ s.pc # "release"
    BY <2>1, <2>2 DEF InRefreshLock, Refreshing
  <2>5. runtime' = [runtime EXCEPT ![p] = runtime[p]]
    BY <1>1, <2>2
  <2> QED
    BY <1>1, <2>1, <2>2, <2>3, <2>4, <2>5, CallerHolds
<1> QED
    BY <1>3, <1>4, <1>6, <1>7, <1>8

-----------------------------------------------------------------------------
(* Refreshing.                                                             *)

LEMMA RefreshFailed ==
    ASSUME AppInv, NEW p \in Runtimes, NEW a \in Threads, at[p][a].pc \in Refreshing,
           at[p][a].pc = "lock" => processLock.owner # p,
           RefreshFails(p, a),
           tokenFile' \in Tokens, spare' \in Tokens, tokens' \in Nat, UNCHANGED <<appClock, ended>>,
           \A q \in Runtimes \ {p} : q \in reported' <=> q \in reported,
           processLock.owner # p => UNCHANGED << tokenFile, spare >>,
           \A q \in Runtimes \ {p} :
              By(tokenFile, q)' \/ By(spare, q)' => By(tokenFile, q) \/ By(spare, q),
           p \notin reported' =>
              /\ p \notin reported
              /\ (By(tokenFile, p)' => tokenFile' = runtime[p].owned) /\ ~By(spare, p)'
              /\ at[p]["loop"].pc # "idle" => tokenFile' \in {None, runtime[p].owned}
    PROVE  AppInv'
<1> USE DEF Threads
<1>1. /\ ThreadsHold(p) /\ LocksHold(p) /\ (p \notin reported => TokenHolds(p))
      /\ runtime[p] \in RuntimeFields /\ (runtime[p].owned # None => runtime[p].owned.by = p)
      /\ processLock \in [owner : Runtimes \cup {None}, depth : Nat]
      /\ processLock.owner # None => processLock.depth >= 1
      /\ None # p /\ None \notin Threads /\ appClock' \in Nat
    BY Now
<1>2. a \in {"main", "loop"} /\ at[p]["reaper"].pc \notin Removing \cup {"release"}
      /\ (a = "main" => at[p]["loop"].pc = "idle" /\ at[p]["main"].op \in {"start", "once"})
      /\ (a = "loop" => at[p]["loop"].op = "loop" /\ at[p]["main"].pc \in {"idle", "join"})
      /\ p \notin ended
    BY <1>1 DEF ThreadsHold, Refreshing, Removing
<1>3. PICK s \in ThreadStates :
        /\ at' = [at EXCEPT ![p][a] = s] /\ s.new = None
        /\ at[p][a].op = "start" => s.pc = "removeLock" /\ s.op = "startFailed"
        /\ at[p][a].op = "once" => s.pc = "idle"
        /\ at[p][a].op = "loop" => s.pc \in {"wait", "removeLock"} /\ s.op = "loop"
  <2>1. \A op \in Purposes : \A pc \in Counters :
          [pc |-> pc, op |-> op, new |-> None] \in ThreadStates
    BY DEF ThreadStates, Tokens
  <2>2. /\ {"wait", "removeLock"} \subseteq Counters /\ {"startFailed", "loop"} \subseteq Purposes
    BY DEF Counters, Removing, Purposes
  <2>3. CASE at[p][a].op = "start"
    BY <2>1, <2>2, <2>3 DEF RefreshFails, AfterFailure, OpOf
  <2>4. CASE at[p][a].op = "once"
    BY <2>4, RestingIsAState DEF RefreshFails, AfterFailure, OpOf, Resting
  <2>5. CASE at[p][a].op = "loop"
    <3>1. PICK pc \in {"wait", "removeLock"} :
            at' = [at EXCEPT ![p][a] = [pc |-> pc, op |-> "loop", new |-> None]]
      BY <2>5 DEF RefreshFails, AfterFailure, OpOf
    <3> QED
      BY <2>1, <2>2, <2>5, <3>1
  <2> QED
    BY <1>2, <2>3, <2>4, <2>5
<1>4. PICK rt \in RuntimeFields :
        /\ runtime' = [runtime EXCEPT ![p] = rt] /\ rt.refreshLock = None
        /\ rt.owned = runtime[p].owned
        /\ at[p][a].op = "start" => rt.stop
        /\ at[p][a].op # "start" => rt.stop = runtime[p].stop
  <2> DEFINE w == [runtime[p] EXCEPT !.refreshLock = None, !.stop = @ \/ at[p][a].op = "start"]
  <2>1. w \in RuntimeFields /\ w.refreshLock = None /\ w.owned = runtime[p].owned
        /\ w.stop = (runtime[p].stop \/ at[p][a].op = "start")
    BY <1>1 DEF RuntimeFields
  <2>2. runtime' = [runtime EXCEPT ![p] = w]
    BY DEF RefreshFails, OpOf
  <2> QED
    BY <1>1, <2>1, <2>2 DEF RuntimeFields
<1>5. /\ at[p][a].op = "start" => processLock' = processLock
      /\ at[p][a].op # "start" => Release(p)
    BY DEF RefreshFails, OpOf
<1>6. /\ processLock' \in [owner : Runtimes \cup {None}, depth : Nat]
      /\ processLock'.owner # None => processLock'.depth >= 1
      /\ processLock' = processLock \/ {processLock.owner, processLock'.owner} \subseteq {None, p}
      /\ processLock.owner # p => processLock' = processLock
    BY <1>1, <1>5, LockReleased
<1>7. /\ TokenTypeOK'
      /\ at'[p][a] = s /\ \A b \in Threads \ {a} : at'[p][b] = at[p][b]
      /\ runtime'[p] = rt
      /\ \A q \in Runtimes \ {p} : at'[q] = at[q] /\ runtime'[q] = runtime[q]
  <2>1. (s.new # None => s.new.by = p) /\ (rt.owned # None => rt.owned.by = p)
    BY <1>1, <1>3, <1>4
  <2>2. appClock' \in Nat
    BY <1>1
  <2> HIDE DEF Threads
  <2> QED
    BY <1>3, <1>4, <1>6, <2>1, <2>2, StepHolds
<1>8. ThreadsHold(p)'
    BY <1>1, <1>2, <1>3, <1>4, <1>7 DEF ThreadsHold, Refreshing, Removing
<1>9. \A b \in Threads : at'[p][b].pc \notin InRefreshLock
  <2>1. s.pc \notin InRefreshLock
    BY <1>2, <1>3 DEF InRefreshLock, Refreshing
  <2>2. ASSUME NEW b \in Threads \ {a} PROVE at[p][b].pc \notin InRefreshLock
    BY <1>1 DEF LocksHold, InRefreshLock
  <2> QED
    BY <1>7, <2>1, <2>2
<1>10. a = "loop" => processLock'.owner = p
  <2>1. a = "loop" => processLock.owner = p /\ at[p][a].pc \in InRefreshLock
    BY <1>1 DEF LocksHold, InRefreshLock, Refreshing
  <2>2. a = "loop" => processLock.depth >= 2
    BY <1>1, <2>1 DEF LocksHold, Refreshing
  <2> QED
    BY <1>2, <1>5, <2>1, <2>2, LockReleased
<1>11. LocksHold(p)'
    BY <1>1, <1>2, <1>4, <1>7, <1>9, <1>10 DEF LocksHold
<1>12. ASSUME p \notin reported' PROVE TokenHolds(p)'
  <2>1. processLock'.owner # p => ~By(tokenFile, p)' /\ ~By(spare, p)'
    <3>1. CASE processLock.owner # p
      BY <1>6, <1>12, <3>1, <1>1 DEF TokenHolds, By
    <3>2. CASE processLock.owner = p /\ at[p][a].op = "once"
      <4>1. runtime[p].owned = None
        BY <1>1, <1>2, <3>2 DEF ThreadsHold
      <4> QED
        BY <1>12, <4>1 DEF By
    <3>3. CASE processLock.owner = p /\ at[p][a].op # "once"
      BY <1>2, <1>5, <1>10, <3>3
    <3> QED
      BY <3>1, <3>2, <3>3
  <2>2. \A b \in Threads : at'[p][b].pc \notin Exchanged \cup {"unlink", "release"}
    BY <1>2, <1>3, <1>7, <1>9, <1>1 DEF Exchanged, InRefreshLock, Refreshing, ThreadsHold
  <2>3. at'[p]["loop"].pc # "idle" => tokenFile' \in {None, runtime[p].owned}
    BY <1>2, <1>7, <1>12 DEF Refreshing
  <2>4. p \notin ended'
    BY <1>2
  <2>5. /\ By(tokenFile, p)' => tokenFile' = runtime'[p].owned
        /\ ~By(spare, p)' /\ runtime'[p].owned = runtime[p].owned /\ "loop" \in Threads
    BY <1>4, <1>7, <1>12
  <2> HIDE DEF Threads
  <2> QED
    BY <2>1, <2>2, <2>3, <2>4, <2>5 DEF TokenHolds, Exchanged
<1> QED
    BY <1>6, <1>7, <1>8, <1>11, <1>12, OthersHold DEF RuntimeHolds

\* A refresh goes on, inside both locks.
LEMMA RefreshGoesOn ==
    ASSUME AppInv, NEW p \in Runtimes, NEW a \in Threads, at[p][a].pc \in Refreshing,
           NEW s \in ThreadStates, s.pc \in Refreshing \ {"lock"}, s.op = at[p][a].op,
           s.new # None => s.new.by = p,
           NEW rt \in RuntimeFields, rt.owned = runtime[p].owned, rt.stop = runtime[p].stop,
           rt.refreshLock = a,
           runtime[p].refreshLock = None \/ runtime[p].refreshLock = a,
           at' = [at EXCEPT ![p][a] = s], runtime' = [runtime EXCEPT ![p] = rt],
           tokenFile' \in Tokens, spare' \in Tokens, appClock' \in Nat, tokens' \in Nat,
           UNCHANGED <<ended, reported>>,
           processLock' \in [owner : Runtimes \cup {None}, depth : Nat],
           processLock'.owner = p, processLock'.depth >= 1,
           processLock.owner \in {None, p},
           at[p]["loop"].pc # "idle" => processLock'.depth >= 2,
           processLock.owner # p => UNCHANGED << tokenFile, spare >>,
           \A q \in Runtimes \ {p} :
              By(tokenFile, q)' \/ By(spare, q)' => By(tokenFile, q) \/ By(spare, q),
           s.pc \notin Exchanged =>
              at[p][a].pc \notin Exchanged /\ UNCHANGED <<tokenFile, spare>>,
           p \notin reported /\ s.pc \in Exchanged =>
              /\ tokenFile' = s.new /\ (By(spare, p)' => spare' = runtime[p].owned)
              /\ s.pc = "own" => spare' = None
              /\ at[p]["loop"].pc # "idle" => spare' \in {None, runtime[p].owned}
    PROVE  AppInv'
<1>1. /\ ThreadsHold(p) /\ LocksHold(p) /\ (p \notin reported => TokenHolds(p))
      /\ runtime[p].owned # None => runtime[p].owned.by = p
      /\ None # p /\ None \notin Threads
    BY Now
<1>2. /\ a \in {"main", "loop"} /\ at[p]["reaper"].pc \notin Removing \cup {"release"}
      /\ (a = "main" => at[p]["loop"].pc = "idle" /\ at[p]["main"].op \in {"start", "once"})
      /\ (a = "loop" => at[p]["loop"].op = "loop" /\ at[p]["main"].pc \in {"idle", "join"})
      /\ p \notin ended /\ "loop" \in Threads /\ (a = "loop" <=> at[p]["loop"].pc # "idle")
    BY <1>1 DEF ThreadsHold, Refreshing, Removing, Threads
<1>3. /\ TokenTypeOK'
      /\ at'[p][a] = s /\ \A b \in Threads \ {a} : at'[p][b] = at[p][b]
      /\ runtime'[p] = rt
      /\ \A q \in Runtimes \ {p} : at'[q] = at[q] /\ runtime'[q] = runtime[q]
  <2>1. (rt.owned # None => rt.owned.by = p) /\ (processLock'.owner # None => processLock'.depth >= 1)
    BY <1>1
  <2>2. TokenTypeOK'
    BY <2>1, StepHolds
  <2>3. at'[p][a] = s /\ \A b \in Threads \ {a} : at'[p][b] = at[p][b]
    BY DEF AppInv, TokenTypeOK
  <2>4. runtime'[p] = rt
    BY DEF AppInv, TokenTypeOK
  <2>5. \A q \in Runtimes \ {p} : at'[q] = at[q] /\ runtime'[q] = runtime[q]
    BY <2>1, StepHolds
  <2> QED
    BY <2>2, <2>3, <2>4, <2>5
<1>4. ThreadsHold(p)'
    BY <1>1, <1>2, <1>3 DEF ThreadsHold, Refreshing, Removing, Threads
<1>5. ASSUME NEW b \in Threads \ {a} PROVE at'[p][b].pc \notin InRefreshLock
    BY <1>1, <1>3, <1>5 DEF LocksHold
<1>6. s.pc \in InRefreshLock
    BY DEF InRefreshLock
<1>7. LocksHold(p)'
    BY <1>1, <1>2, <1>3, <1>5, <1>6 DEF LocksHold
<1>8. ASSUME p \notin reported' PROVE TokenHolds(p)'
  <2>1. p \notin reported /\ TokenHolds(p)
    BY <1>1, <1>8
  <2>2. \A b \in Threads \ {a} : at'[p][b].pc \notin Exchanged \cup {"unlink", "release", "own"}
    BY <1>2, <1>3, <1>5, <1>1 DEF Exchanged, InRefreshLock, Refreshing, ThreadsHold, Threads
  <2>3. s.pc \notin {"unlink", "release", "idle"}
    BY DEF Refreshing
  <2>4. CASE s.pc \in Exchanged
    <3>1. (\E b \in Threads : at'[p][b].pc \in Exchanged) /\ processLock'.owner = p
      BY <1>3, <2>4
    <3>2. IF at'[p]["loop"].pc \in Exchanged THEN spare' \in {None, runtime[p].owned}
          ELSE at'[p]["loop"].pc = "idle"
      BY <1>2, <1>3, <2>1, <2>2, <2>3, <2>4
    <3>3. \A b \in Threads :
            /\ at'[p][b].pc \in Exchanged =>
                  tokenFile' = at'[p][b].new /\ (By(spare, p)' => spare' = runtime'[p].owned)
            /\ at'[p][b].pc = "own" => spare' = None
            /\ at'[p][b].pc \notin {"unlink", "release"}
      BY <1>3, <2>1, <2>2, <2>3, <2>4
    <3> QED
      BY <1>2, <1>3, <3>1, <3>2, <3>3 DEF TokenHolds
  <2>5. CASE s.pc \notin Exchanged
    <3>1. at[p][a].pc \notin Exchanged /\ \A b \in Threads : at[p][b].pc \notin Exchanged
      BY <1>3, <2>2, <2>5
    <3>2. \A b \in Threads : at'[p][b].pc \notin Exchanged \cup {"unlink", "release", "own"}
      BY <1>3, <2>2, <2>3, <2>5 DEF Exchanged
    <3>3. at'[p]["loop"].pc # "idle" => at[p]["loop"].pc # "idle"
      BY <1>2, <1>3 DEF Refreshing
    <3> QED
      BY <1>2, <1>3, <2>1, <2>5, <3>1, <3>2, <3>3 DEF TokenHolds, By
  <2> QED
    BY <2>4, <2>5
<1> QED
    BY <1>3, <1>4, <1>7, <1>8, OthersHold DEF RuntimeHolds

LEMMA refresh_lockHolds ==
    ASSUME AppInv, NEW p \in Runtimes, NEW a \in Threads, refresh_lock(p, a)
    PROVE  AppInv'
<1>1. /\ at[p][a].pc = "lock" /\ runtime[p].refreshLock = None
      /\ UNCHANGED <<tokenFile, spare, appClock, tokens, ended, reported>>
      /\ at[p][a].pc \in Refreshing /\ at[p][a].pc \notin Exchanged
    BY DEF refresh_lock, Refreshing, Exchanged
<1>2. /\ ThreadsHold(p) /\ LocksHold(p) /\ (p \notin reported => TokenHolds(p)) /\ TokenTypeOK
      /\ runtime[p] \in RuntimeFields
      /\ at[p][a] \in ThreadStates /\ (at[p][a].new # None => at[p][a].new.by = p)
      /\ tokenFile \in Tokens /\ spare \in Tokens /\ appClock \in Nat /\ tokens \in Nat
      /\ None # p /\ None \notin Threads
    BY Now DEF AppInv
<1>3. CASE ~Acquirable(p) /\ RefreshFails(p, a)
  <2>1. processLock.owner \notin {None, p}
    BY <1>3 DEF Acquirable
  <2>2. p \notin reported => ~By(tokenFile, p) /\ ~By(spare, p) /\ at[p]["loop"].pc = "idle"
    BY <1>2, <2>1 DEF TokenHolds, LocksHold
  <2> QED
    BY <1>1, <1>2, <1>3, <2>1, <2>2, RefreshFailed DEF By
<1>4. CASE Acquirable(p) /\ Acquire(p) /\ runtime' = [runtime EXCEPT ![p].refreshLock = a]
           /\ Goes(p, a, "request")
  <2>1. "request" \in Counters /\ "request" \in Refreshing \ {"lock"} /\ "request" \notin Exchanged
    BY DEF Counters, Refreshing, Exchanged
  <2>2. PICK s \in ThreadStates :
          /\ at' = [at EXCEPT ![p][a] = s]
          /\ s.pc = "request" /\ s.op = at[p][a].op /\ s.new = at[p][a].new
    BY <1>2, <1>4, <2>1, ThreadWent
  <2>3. PICK rt \in RuntimeFields :
          /\ runtime' = [runtime EXCEPT ![p] = rt] /\ rt.refreshLock = a
          /\ rt.owned = runtime[p].owned /\ rt.stop = runtime[p].stop
    <3> DEFINE w == [runtime[p] EXCEPT !.refreshLock = a]
    <3>1. w \in RuntimeFields /\ w.refreshLock = a /\ w.owned = runtime[p].owned
          /\ w.stop = runtime[p].stop
      BY <1>2 DEF RuntimeFields
    <3>2. runtime' = [runtime EXCEPT ![p] = w]
      BY <1>4
    <3> QED
      BY <3>1, <3>2
  <2>4. /\ processLock' \in [owner : Runtimes \cup {None}, depth : Nat]
        /\ processLock'.depth >= 1 /\ processLock'.owner = p
        /\ processLock.owner = p => processLock'.depth >= 2
        /\ processLock.owner \in {None, p}
    BY <1>4, LockTaken DEF Acquirable
  <2>5. at[p]["loop"].pc # "idle" => processLock'.depth >= 2
    BY <1>1, <1>2, <2>4 DEF LocksHold
  <2> QED
    BY <1>1, <1>2, <2>1, <2>2, <2>3, <2>4, <2>5, RefreshGoesOn, ZenonT(60) DEF By
<1> QED
    BY <1>3, <1>4 DEF refresh_lock

\* A thread that refreshes holds both locks and is alone.
LEMMA Inside ==
    ASSUME AppInv, NEW p \in Runtimes, NEW a \in Threads, at[p][a].pc \in Refreshing \ {"lock"}
    PROVE  /\ runtime[p].refreshLock = a /\ processLock.owner = p /\ p \notin ended
           /\ processLock \in [owner : Runtimes \cup {None}, depth : Nat]
           /\ processLock.depth >= 1
           /\ at[p]["loop"].pc # "idle" => processLock.depth >= 2
           /\ \A b \in Threads \ {a} : at[p][b].pc \notin InRefreshLock \cup {"release"}
           /\ p \notin reported /\ at[p][a].pc \notin Exchanged =>
                 /\ (By(tokenFile, p) => tokenFile = runtime[p].owned) /\ ~By(spare, p)
                 /\ at[p]["loop"].pc # "idle" => tokenFile \in {None, runtime[p].owned}
           /\ p \notin reported /\ at[p][a].pc \in Exchanged =>
                 /\ tokenFile = at[p][a].new /\ (By(spare, p) => spare = runtime[p].owned)
                 /\ at[p][a].pc = "own" => spare = None
                 /\ at[p]["loop"].pc # "idle" => spare \in {None, runtime[p].owned}
<1>1. /\ ThreadsHold(p) /\ LocksHold(p) /\ (p \notin reported => TokenHolds(p))
      /\ processLock \in [owner : Runtimes \cup {None}, depth : Nat]
      /\ processLock.owner # None => processLock.depth >= 1
      /\ None # p /\ None \notin Threads
    BY Now
<1>2. at[p][a].pc \in InRefreshLock
    BY DEF InRefreshLock
<1>3. runtime[p].refreshLock = a /\ runtime[p].refreshLock # None /\ processLock.owner = p
    BY <1>1, <1>2 DEF LocksHold
<1>4. at[p]["loop"].pc # "idle" => processLock.depth >= 2
    BY <1>1, <1>3 DEF LocksHold
<1>5. /\ a \in {"main", "loop"} /\ at[p]["reaper"].pc \notin {"release"} /\ p \notin ended
      /\ (a = "main" => at[p]["loop"].pc = "idle")
      /\ (a = "loop" => at[p]["main"].pc \in {"idle", "join"})
      /\ (a = "loop" <=> at[p]["loop"].pc # "idle")
    BY <1>1 DEF ThreadsHold, Refreshing, Removing, Threads
<1>6. ASSUME NEW b \in Threads \ {a} PROVE at[p][b].pc \notin InRefreshLock \cup {"release"}
  <2>1. at[p][b].pc \notin InRefreshLock
    BY <1>1, <1>3 DEF LocksHold
  <2>2. at[p][b].pc # "release"
    BY <1>5 DEF Threads
  <2> QED
    BY <2>1, <2>2
<1>7. \A b \in Threads \ {a} : at[p][b].pc \notin Exchanged
    BY <1>6 DEF InRefreshLock, Exchanged, Refreshing
<1>8. p \notin reported /\ at[p][a].pc \notin Exchanged =>
        /\ (By(tokenFile, p) => tokenFile = runtime[p].owned) /\ ~By(spare, p)
        /\ at[p]["loop"].pc # "idle" => tokenFile \in {None, runtime[p].owned}
    BY <1>1, <1>5, <1>7 DEF TokenHolds, Threads
<1>9. p \notin reported /\ at[p][a].pc \in Exchanged =>
        /\ tokenFile = at[p][a].new /\ (By(spare, p) => spare = runtime[p].owned)
        /\ at[p][a].pc = "own" => spare = None
        /\ at[p]["loop"].pc # "idle" => spare \in {None, runtime[p].owned}
    BY <1>1, <1>5, <1>7 DEF TokenHolds, Threads
<1> QED
    BY <1>1, <1>3, <1>4, <1>5, <1>6, <1>8, <1>9

\* A step inside both locks that changes the thread and the files only.
LEMMA InsideGoesOn ==
    ASSUME AppInv, NEW p \in Runtimes, NEW a \in Threads, at[p][a].pc \in Refreshing \ {"lock"},
           NEW s \in ThreadStates, s.pc \in Refreshing \ {"lock"}, s.op = at[p][a].op,
           s.new # None => s.new.by = p, at' = [at EXCEPT ![p][a] = s],
           UNCHANGED <<runtime, processLock, appClock, ended, reported>>,
           tokenFile' \in Tokens, spare' \in Tokens, tokens' \in Nat,
           \A q \in Runtimes \ {p} :
              By(tokenFile, q)' \/ By(spare, q)' => By(tokenFile, q) \/ By(spare, q),
           s.pc \notin Exchanged =>
              at[p][a].pc \notin Exchanged /\ UNCHANGED <<tokenFile, spare>>,
           p \notin reported /\ s.pc \in Exchanged =>
              /\ tokenFile' = s.new /\ (By(spare, p)' => spare' = runtime[p].owned)
              /\ s.pc = "own" => spare' = None
              /\ at[p]["loop"].pc # "idle" => spare' \in {None, runtime[p].owned}
    PROVE  AppInv'
<1>1. /\ runtime[p] \in RuntimeFields /\ runtime = [runtime EXCEPT ![p] = runtime[p]]
      /\ appClock \in Nat /\ None # p
    BY Now
<1>2. /\ runtime[p].refreshLock = a /\ processLock.owner = p
      /\ processLock \in [owner : Runtimes \cup {None}, depth : Nat]
      /\ processLock.depth >= 1
      /\ at[p]["loop"].pc # "idle" => processLock.depth >= 2
    BY Inside
<1>3. /\ runtime' = [runtime EXCEPT ![p] = runtime[p]] /\ appClock' \in Nat
      /\ processLock' \in [owner : Runtimes \cup {None}, depth : Nat]
      /\ processLock'.owner = p /\ processLock'.depth >= 1 /\ processLock.owner \in {None, p}
      /\ at[p]["loop"].pc # "idle" => processLock'.depth >= 2
      /\ UNCHANGED <<ended, reported>> /\ at[p][a].pc \in Refreshing
    BY <1>1, <1>2
<1> QED
    BY <1>1, <1>2, <1>3, RefreshGoesOn

\* A failure inside both locks, before anything was published.
LEMMA InsideFails ==
    ASSUME AppInv, NEW p \in Runtimes, NEW a \in Threads,
           at[p][a].pc \in {"request", "check", "exchange"}, RefreshFails(p, a),
           UNCHANGED <<tokenFile, spare, appClock, tokens, ended, reported>>
    PROVE  AppInv'
<1>1. at[p][a].pc \in Refreshing \ {"lock"} /\ at[p][a].pc \notin Exchanged
    BY DEF Refreshing, Exchanged
<1>2. /\ p \notin reported =>
           /\ (By(tokenFile, p) => tokenFile = runtime[p].owned) /\ ~By(spare, p)
           /\ at[p]["loop"].pc # "idle" => tokenFile \in {None, runtime[p].owned}
    BY <1>1, Inside
<1>3. tokenFile \in Tokens /\ spare \in Tokens /\ tokens \in Nat
    BY Now
<1> QED
    BY <1>1, <1>2, <1>3, RefreshFailed DEF By

LEMMA request_tokenHolds ==
    ASSUME AppInv, NEW p \in Runtimes, NEW a \in Threads, request_token(p, a)
    PROVE  AppInv'
<1>1. /\ at[p][a].pc = "request" /\ UNCHANGED <<tokenFile, spare, appClock, ended, reported>>
      /\ at[p][a].pc \in Refreshing \ {"lock"} /\ at[p][a].pc \notin Exchanged
    BY DEF request_token, Refreshing, Exchanged
<1>2. CASE RefreshFails(p, a) /\ UNCHANGED tokens
    BY <1>1, <1>2, InsideFails
<1>3. ASSUME tokens' = tokens + 1, UNCHANGED <<runtime, processLock>>,
             at' = [at EXCEPT ![p][a].pc = "check",
                              ![p][a].new = [id |-> tokens + 1, by |-> p,
                                             expires |-> appClock + TokenLife]]
      PROVE  AppInv'
  <2> DEFINE new == [id |-> tokens + 1, by |-> p, expires |-> appClock + TokenLife]
             s == [at[p][a] EXCEPT !.pc = "check", !.new = new]
  <2>1. /\ at[p][a] \in ThreadStates /\ tokens \in Nat /\ appClock \in Nat
        /\ tokenFile \in Tokens /\ spare \in Tokens /\ TokenTypeOK
    BY Now DEF AppInv
  <2>2. new \in Tokens /\ new.by = p /\ "check" \in Counters
    BY <2>1, AppAssumption DEF Tokens, Counters, Refreshing
  <2> HIDE DEF new
  <2>3. s \in ThreadStates /\ s.pc = "check" /\ s.op = at[p][a].op /\ s.new = new
    BY <2>1, <2>2 DEF ThreadStates
  <2>4. at' = [at EXCEPT ![p][a] = s]
    BY <1>3, <2>1 DEF TokenTypeOK, new
  <2>5. s.pc \in Refreshing \ {"lock"} /\ s.pc \notin Exchanged
    BY <2>3 DEF Refreshing, Exchanged
  <2> HIDE DEF s
  <2>6. /\ s.new # None => s.new.by = p
        /\ tokens' \in Nat /\ tokenFile' \in Tokens /\ spare' \in Tokens
        /\ UNCHANGED <<runtime, processLock, appClock, ended, reported>>
        /\ UNCHANGED <<tokenFile, spare>>
    BY <1>1, <1>3, <2>1, <2>2, <2>3
  <2>7. \A q \in Runtimes \ {p} :
          By(tokenFile, q)' \/ By(spare, q)' => By(tokenFile, q) \/ By(spare, q)
    BY <1>1 DEF By
  <2> QED
    BY <1>1, <2>3, <2>4, <2>5, <2>6, <2>7, InsideGoesOn
<1> QED
    BY <1>2, <1>3 DEF request_token

LEMMA check_stopHolds ==
    ASSUME AppInv, NEW p \in Runtimes, NEW a \in Threads, check_stop(p, a)
    PROVE  AppInv'
<1>1. /\ at[p][a].pc = "check" /\ UNCHANGED <<tokenFile, spare, appClock, tokens, ended, reported>>
      /\ at[p][a].pc \in Refreshing \ {"lock"} /\ at[p][a].pc \notin Exchanged
    BY DEF check_stop, Refreshing, Exchanged
<1>2. CASE RefreshFails(p, a)
    BY <1>1, <1>2, InsideFails
<1>3. CASE Goes(p, a, "exchange") /\ UNCHANGED <<runtime, processLock>>
  <2>1. /\ TokenTypeOK /\ (at[p][a].new # None => at[p][a].new.by = p)
        /\ tokenFile \in Tokens /\ spare \in Tokens /\ tokens \in Nat
        /\ "exchange" \in Counters /\ "exchange" \in Refreshing \ {"lock"} /\ "exchange" \notin Exchanged
    BY Now DEF AppInv, Counters, Refreshing, Exchanged
  <2>2. PICK s \in ThreadStates :
          /\ at' = [at EXCEPT ![p][a] = s]
          /\ s.pc = "exchange" /\ s.op = at[p][a].op /\ s.new = at[p][a].new
    BY <1>3, <2>1, ThreadWent
  <2> QED
    BY <1>1, <1>3, <2>1, <2>2, InsideGoesOn DEF By
<1> QED
    BY <1>2, <1>3 DEF check_stop

LEMMA exchange_namesHolds ==
    ASSUME AppInv, NEW p \in Runtimes, NEW a \in Threads, exchange_names(p, a)
    PROVE  AppInv'
<1>1. /\ at[p][a].pc = "exchange" /\ UNCHANGED <<appClock, tokens, ended, reported>>
      /\ at[p][a].pc \in Refreshing \ {"lock"} /\ at[p][a].pc \notin Exchanged
    BY DEF exchange_names, Refreshing, Exchanged
<1>2. CASE RefreshFails(p, a) /\ UNCHANGED <<tokenFile, spare>>
    BY <1>1, <1>2, InsideFails
<1>3. CASE /\ tokenFile' = at[p][a].new /\ spare' = tokenFile
           /\ Goes(p, a, "verify") /\ UNCHANGED <<runtime, processLock>>
  <2>1. /\ TokenTypeOK /\ at[p][a] \in ThreadStates
        /\ (at[p][a].new # None => at[p][a].new.by = p) /\ at[p][a].new \in Tokens
        /\ tokenFile \in Tokens /\ tokens \in Nat
        /\ "verify" \in Counters /\ "verify" \in Refreshing \ {"lock"}
    BY Now DEF AppInv, Counters, Refreshing, ThreadStates
  <2>2. PICK s \in ThreadStates :
          /\ at' = [at EXCEPT ![p][a] = s]
          /\ s.pc = "verify" /\ s.op = at[p][a].op /\ s.new = at[p][a].new
    BY <1>3, <2>1, ThreadWent
  <2>3. p \notin reported =>
           /\ (By(tokenFile, p) => tokenFile = runtime[p].owned)
           /\ at[p]["loop"].pc # "idle" => tokenFile \in {None, runtime[p].owned}
    BY <1>1, Inside
  <2>4. \A q \in Runtimes \ {p} :
          By(tokenFile, q)' \/ By(spare, q)' => By(tokenFile, q) \/ By(spare, q)
    BY <1>3, <2>1 DEF By
  <2>5. By(spare, p)' => By(tokenFile, p)
    BY <1>3 DEF By
  <2>6. s.pc \in Exchanged /\ s.pc # "own"
    BY <2>2 DEF Exchanged
  <2> QED
    BY <1>1, <1>3, <2>1, <2>2, <2>3, <2>4, <2>5, <2>6, InsideGoesOn
<1> QED
    BY <1>2, <1>3 DEF exchange_names

LEMMA verify_publishedHolds ==
    ASSUME AppInv, NEW p \in Runtimes, NEW a \in Threads, verify_published(p, a)
    PROVE  AppInv'
<1>1. PICK pc \in {"drop", "rollback", "own"} :
        /\ at[p][a].pc \in {"verify", "drop"} /\ Goes(p, a, pc)
        /\ UNCHANGED <<tokenFile, processLock, runtime, appClock, tokens, ended, reported>>
        /\ IF pc = "own" THEN spare' = None ELSE spare' = spare
    BY DEF verify_published
<1>2. /\ TokenTypeOK /\ at[p][a] \in ThreadStates
      /\ (at[p][a].new # None => at[p][a].new.by = p)
      /\ tokenFile \in Tokens /\ spare \in Tokens /\ tokens \in Nat /\ None \in Tokens
    BY Now DEF AppInv, Tokens
<1>3. /\ at[p][a].pc \in Refreshing \ {"lock"} /\ at[p][a].pc \in Exchanged
      /\ pc \in Counters /\ pc \in Refreshing \ {"lock"} /\ pc \in Exchanged
    BY <1>1 DEF Refreshing, Exchanged, Counters
<1>4. PICK s \in ThreadStates :
        /\ at' = [at EXCEPT ![p][a] = s]
        /\ s.pc = pc /\ s.op = at[p][a].op /\ s.new = at[p][a].new
    BY <1>1, <1>2, <1>3, ThreadWent
<1>5. p \notin reported =>
        /\ tokenFile = at[p][a].new /\ (By(spare, p) => spare = runtime[p].owned)
        /\ at[p]["loop"].pc # "idle" => spare \in {None, runtime[p].owned}
    BY <1>3, Inside
<1>6. \A q \in Runtimes :
        By(tokenFile, q)' \/ By(spare, q)' => By(tokenFile, q) \/ By(spare, q)
    BY <1>1 DEF By
<1>7. spare' \in Tokens /\ spare' \in {None, spare} /\ (pc = "own" => spare' = None)
    BY <1>1, <1>2
<1>8. By(spare, p)' => By(spare, p) /\ spare' = spare
    BY <1>7 DEF By
<1> QED
    BY <1>1, <1>2, <1>3, <1>4, <1>5, <1>6, <1>7, <1>8, InsideGoesOn

LEMMA rollbackHolds ==
    ASSUME AppInv, NEW p \in Runtimes, NEW a \in Threads, rollback(p, a)
    PROVE  AppInv'
<1>1. /\ at[p][a].pc = "rollback" /\ RefreshFails(p, a) /\ UNCHANGED <<appClock, tokens, ended>>
      /\ at[p][a].pc \in Refreshing \ {"lock"} /\ at[p][a].pc \in Exchanged
    BY DEF rollback, Refreshing, Exchanged
<1>2. tokenFile \in Tokens /\ spare \in Tokens /\ tokens \in Nat /\ None \in Tokens
    BY Now DEF Tokens
<1>3. /\ processLock.owner = p
      /\ p \notin reported =>
           /\ By(spare, p) => spare = runtime[p].owned
           /\ at[p]["loop"].pc # "idle" => spare \in {None, runtime[p].owned}
    BY <1>1, Inside
<1>4. CASE tokenFile' = spare /\ spare' = None /\ UNCHANGED reported
    BY <1>1, <1>2, <1>3, <1>4, RefreshFailed DEF By
<1>5. CASE reported' = reported \cup {p} /\ UNCHANGED <<tokenFile, spare>>
    BY <1>1, <1>2, <1>3, <1>5, RefreshFailed DEF By
<1> QED
    BY <1>4, <1>5 DEF rollback

\* The end of a refresh: what the runtime owns is what the file has.
LEMMA OwnHolds ==
    ASSUME AppInv, TokenTypeOK', NEW p \in Runtimes, NEW a \in Threads, at[p][a].pc = "own",
           \A q \in Runtimes \ {p} : at'[q] = at[q] /\ runtime'[q] = runtime[q],
           UNCHANGED <<spare, ended, reported>>, tokenFile' = tokenFile \/ ~By(tokenFile, p)',
           \A q \in Runtimes \ {p} : By(tokenFile, q)' => By(tokenFile, q),
           processLock' = processLock \/ {processLock.owner, processLock'.owner} \subseteq {None, p},
           runtime'[p].refreshLock = None, ThreadsHold(p)',
           \A b \in Threads : at'[p][b].pc \notin InRefreshLock \cup {"release"},
           at'[p]["loop"].pc # "idle" =>
              processLock'.owner = p /\ tokenFile' = tokenFile /\ runtime'[p].owned = at[p][a].new,
           at'[p]["loop"].pc = "idle" =>
              \/ ~By(tokenFile, p)'
              \/ processLock'.owner = p /\ tokenFile' = tokenFile /\ runtime'[p].owned = at[p][a].new
    PROVE  AppInv'
<1>1. /\ at[p][a].pc \in Refreshing \ {"lock"} /\ at[p][a].pc \in Exchanged
      /\ None # p /\ None \notin Threads
    BY Now DEF Refreshing, Exchanged
<1>2. /\ processLock.owner = p /\ p \notin ended
      /\ p \notin reported => tokenFile = at[p][a].new /\ spare = None
    BY <1>1, Inside
<1>3. LocksHold(p)'
    BY <1>1 DEF LocksHold
<1>4. ASSUME p \notin reported' PROVE TokenHolds(p)'
  <2>1. tokenFile = at[p][a].new /\ spare' = None /\ ~By(spare, p)'
    BY <1>2, <1>4 DEF By
  <2>2. \A b \in Threads : at'[p][b].pc \notin Exchanged \cup {"own", "unlink", "release"}
    BY DEF InRefreshLock, Exchanged, Refreshing
  <2>3. "loop" \in Threads
    BY DEF Threads
  <2> QED
    BY <1>2, <2>1, <2>2, <2>3 DEF TokenHolds
<1>5. \A q \in Runtimes \ {p} :
        By(tokenFile, q)' \/ By(spare, q)' => By(tokenFile, q) \/ By(spare, q)
    BY DEF By
<1> QED
    BY <1>2, <1>3, <1>4, <1>5, OthersHold DEF RuntimeHolds

LEMMA own_tokenHolds ==
    ASSUME AppInv, NEW p \in Runtimes, NEW a \in Threads, own_token(p, a)
    PROVE  AppInv'
<1> DEFINE new == at[p][a].new
           owning == [runtime[p] EXCEPT !.owned = new, !.expires = new.expires,
                                        !.refreshLock = None]
<1>1. /\ at[p][a].pc = "own" /\ UNCHANGED <<spare, appClock, tokens, ended, reported>>
      /\ at[p][a].pc \in Refreshing \ {"lock"} /\ at[p][a].pc \in Exchanged
    BY DEF own_token, Refreshing, Exchanged
<1>2. /\ ThreadsHold(p) /\ TokenTypeOK
      /\ runtime[p] \in RuntimeFields
      /\ at[p][a] \in ThreadStates /\ (new # None => new.by = p)
      /\ tokenFile \in Tokens /\ spare \in Tokens /\ appClock \in Nat /\ tokens \in Nat
      /\ None # p /\ None \notin Threads
    BY Now DEF AppInv
<1>3. /\ processLock.owner = p /\ p \notin ended
      /\ processLock \in [owner : Runtimes \cup {None}, depth : Nat]
      /\ processLock.depth >= 1
      /\ at[p]["loop"].pc # "idle" => processLock.depth >= 2
      /\ \A b \in Threads \ {a} : at[p][b].pc \notin InRefreshLock \cup {"release"}
    BY <1>1, Inside
<1>4. /\ a \in {"main", "loop"} /\ (at[p][a].op = "loop" <=> a = "loop")
      /\ (a = "main" => at[p]["loop"].pc = "idle" /\ at[p]["reaper"].pc = "idle" /\ ~runtime[p].stop)
      /\ (a = "loop" => at[p]["main"].pc \in {"idle", "join"} /\ at[p]["loop"].pc # "idle")
    BY <1>1, <1>2 DEF ThreadsHold, Refreshing, Removing, Threads
<1>5. /\ owning \in RuntimeFields /\ owning.owned = new /\ owning.refreshLock = None
      /\ owning.stop = runtime[p].stop
      /\ [owning EXCEPT !.stop = TRUE] \in RuntimeFields
      /\ [owning EXCEPT !.stop = TRUE].stop = TRUE
      /\ [owning EXCEPT !.stop = TRUE].owned = new
      /\ [owning EXCEPT !.stop = TRUE].refreshLock = None
  <2>1. new \in Tokens /\ new.expires \in Expiries
    BY <1>2 DEF ThreadStates, Expiries
  <2>2. owning \in RuntimeFields /\ owning.owned = new /\ owning.refreshLock = None
        /\ owning.stop = runtime[p].stop
    BY <1>2, <2>1 DEF RuntimeFields
  <2> HIDE DEF new, owning
  <2> QED
    BY <2>2 DEF RuntimeFields
<1>6. \A op \in Purposes : \A pc \in Counters :
        [pc |-> pc, op |-> op, new |-> None] \in ThreadStates
    BY DEF ThreadStates, Tokens
<1> HIDE DEF owning
<1>7. ASSUME a = "main", runtime' = [runtime EXCEPT ![p] = owning],
             at' = [at EXCEPT ![p]["main"] = Resting,
                              ![p]["loop"] = [pc |-> "wait", op |-> "loop", new |-> None]],
             UNCHANGED <<tokenFile, processLock>>
      PROVE  AppInv'
  <2> DEFINE w == [pc |-> "wait", op |-> "loop", new |-> None]
  <2>1. /\ w \in ThreadStates /\ w.new = None /\ w.pc = "wait" /\ w.op = "loop"
        /\ Resting \in ThreadStates /\ Resting.new = None /\ Resting.pc = "idle"
    BY <1>6, RestingIsAState DEF Counters, Purposes, Resting
  <2> HIDE DEF w
  <2>2. /\ at' \in [Runtimes -> [Threads -> ThreadStates]]
        /\ at'[p]["main"] = Resting /\ at'[p]["loop"] = w /\ at'[p]["reaper"] = at[p]["reaper"]
        /\ \A q \in Runtimes \ {p} : at'[q] = at[q]
    BY <1>2, <1>7, <2>1 DEF TokenTypeOK, Threads, w
  <2>3. /\ runtime' \in [Runtimes -> RuntimeFields] /\ runtime'[p] = owning
        /\ \A q \in Runtimes \ {p} : runtime'[q] = runtime[q]
    BY <1>2, <1>5, <1>7 DEF TokenTypeOK
  <2>4. TokenTypeOK'
    BY <1>1, <1>2, <1>5, <1>7, <2>1, <2>2, <2>3 DEF TokenTypeOK, Threads
  <2>5. ThreadsHold(p)'
    BY <1>1, <1>2, <1>3, <1>4, <1>5, <1>7, <2>1, <2>2, <2>3 DEF ThreadsHold, Refreshing, Removing
  <2>6. \A b \in Threads : at'[p][b].pc \notin InRefreshLock \cup {"release"}
    BY <1>4, <1>7, <2>1, <2>2 DEF InRefreshLock, Refreshing, Threads
  <2> QED
    BY <1>1, <1>2, <1>3, <1>5, <1>7, <2>1, <2>2, <2>3, <2>4, <2>5, <2>6, OwnHolds DEF By
<1>8. ASSUME NEW s \in ThreadStates, s.new = None, s.pc \notin InRefreshLock \cup {"release"},
             at' = [at EXCEPT ![p][a] = s],
             NEW rt \in RuntimeFields, rt.refreshLock = None, rt.owned # None => rt.owned.by = p,
             runtime' = [runtime EXCEPT ![p] = rt],
             tokenFile' \in Tokens, tokenFile' = tokenFile \/ ~By(tokenFile, p)',
             \A q \in Runtimes \ {p} : By(tokenFile, q)' => By(tokenFile, q),
             processLock' = processLock \/ Release(p),
             at'[p][a] = s /\ (\A b \in Threads \ {a} : at'[p][b] = at[p][b]) /\ runtime'[p] = rt =>
                /\ ThreadsHold(p)'
                /\ at'[p]["loop"].pc # "idle" =>
                      processLock'.owner = p /\ tokenFile' = tokenFile /\ rt.owned = new
                /\ at'[p]["loop"].pc = "idle" =>
                      \/ ~By(tokenFile, p)'
                      \/ processLock'.owner = p /\ tokenFile' = tokenFile /\ rt.owned = new
      PROVE  AppInv'
  <2>1. /\ processLock' \in [owner : Runtimes \cup {None}, depth : Nat]
        /\ processLock'.owner # None => processLock'.depth >= 1
        /\ processLock' = processLock \/ {processLock.owner, processLock'.owner} \subseteq {None, p}
    BY <1>3, <1>8, LockReleased
  <2>2. TokenTypeOK'
    BY <1>1, <1>2, <1>8, <2>1, StepHolds
  <2>3. at'[p][a] = s /\ \A b \in Threads \ {a} : at'[p][b] = at[p][b]
    BY <1>2, <1>8 DEF TokenTypeOK
  <2>4. runtime'[p] = rt
    BY <1>2, <1>8 DEF TokenTypeOK
  <2>5. \A q \in Runtimes \ {p} : at'[q] = at[q] /\ runtime'[q] = runtime[q]
    BY <1>2, <1>8 DEF TokenTypeOK
  <2>6. \A b \in Threads : at'[p][b].pc \notin InRefreshLock \cup {"release"}
    BY <1>3, <1>8, <2>3
  <2> QED
    BY <1>1, <1>8, <2>1, <2>2, <2>3, <2>4, <2>5, <2>6, OwnHolds
<1>9. ASSUME a = "main", runtime' = [runtime EXCEPT ![p] = [owning EXCEPT !.stop = TRUE]],
             at' = [at EXCEPT ![p]["main"] = [pc |-> "removeLock", op |-> "startFailed", new |-> None]],
             UNCHANGED <<tokenFile, processLock>>
      PROVE  AppInv'
  <2>1. PICK s \in ThreadStates :
          /\ at' = [at EXCEPT ![p][a] = s] /\ s.new = None
          /\ s.pc = "removeLock" /\ s.op = "startFailed"
    <3>1. "removeLock" \in Counters /\ "startFailed" \in Purposes
      BY DEF Counters, Purposes, Removing
    <3>2. [pc |-> "removeLock", op |-> "startFailed", new |-> None] \in ThreadStates
      BY <1>6, <3>1
    <3> QED
      BY <1>9, <3>2
  <2>2. PICK rt \in RuntimeFields :
          /\ runtime' = [runtime EXCEPT ![p] = rt] /\ rt.refreshLock = None /\ rt.owned = new
          /\ rt.stop
    BY <1>5, <1>9
  <2>3. /\ at'[p][a] = s /\ \A b \in Threads \ {a} : at'[p][b] = at[p][b]
        /\ runtime'[p] = rt
        => ThreadsHold(p)' /\ at'[p]["loop"].pc = "idle"
    BY <1>1, <1>2, <1>3, <1>4, <1>9, <2>1, <2>2 DEF ThreadsHold, Refreshing, Removing, Threads
  <2>4. s.pc \notin InRefreshLock \cup {"release"}
    BY <2>1 DEF InRefreshLock, Refreshing
  <2>5. /\ tokenFile' \in Tokens /\ tokenFile' = tokenFile /\ processLock' = processLock
        /\ \A q \in Runtimes \ {p} : By(tokenFile, q)' => By(tokenFile, q)
        /\ processLock'.owner = p
    BY <1>2, <1>3, <1>9 DEF By
  <2>6. rt.owned # None => rt.owned.by = p
    BY <1>2, <2>2
  <2> QED
    BY <1>8, <2>1, <2>2, <2>3, <2>4, <2>5, <2>6
<1>10. ASSUME a = "main", runtime' = [runtime EXCEPT ![p] = NewRuntime],
              tokenFile' = Orphaned(tokenFile, p), Ended(p, a), Release(p)
       PROVE  AppInv'
  <2>1. /\ Resting \in ThreadStates /\ Resting.new = None /\ Resting.pc = "idle"
        /\ at' = [at EXCEPT ![p][a] = Resting]
    BY <1>10, RestingIsAState DEF Ended, Resting
  <2>2. /\ NewRuntime \in RuntimeFields /\ NewRuntime.refreshLock = None
        /\ NewRuntime.owned = None
    BY DEF NewRuntime, RuntimeFields, Expiries, Tokens
  <2>3. /\ tokenFile' \in Tokens /\ ~By(tokenFile, p)'
        /\ \A q \in Runtimes : By(tokenFile, q)' => By(tokenFile, q)
    BY <1>2, <1>10, AppAssumption DEF Orphaned, Tokens, By
  <2>4. /\ at'[p][a] = Resting /\ \A b \in Threads \ {a} : at'[p][b] = at[p][b]
        /\ runtime'[p] = NewRuntime
        => ThreadsHold(p)' /\ at'[p]["loop"].pc = "idle"
    BY <1>1, <1>2, <1>3, <1>4, <1>10, <2>1, <2>2 DEF ThreadsHold, Refreshing, Removing, Threads
  <2>5. Resting.pc \notin InRefreshLock \cup {"release"}
    BY <2>1 DEF InRefreshLock, Refreshing
  <2> QED
    BY <1>8, <1>10, <2>1, <2>2, <2>3, <2>4, <2>5
<1>11. ASSUME a = "loop", runtime' = [runtime EXCEPT ![p] = owning],
              at' = [at EXCEPT ![p]["loop"] = [@ EXCEPT !.pc = "wait", !.new = None]],
              Release(p), UNCHANGED tokenFile
       PROVE  AppInv'
  <2>1. PICK s \in ThreadStates :
          /\ at' = [at EXCEPT ![p][a] = s] /\ s.new = None
          /\ s.pc = "wait" /\ s.op = at[p][a].op
    <3> DEFINE w == [at[p][a] EXCEPT !.pc = "wait", !.new = None]
    <3>1. w \in ThreadStates /\ w.new = None /\ w.pc = "wait" /\ w.op = at[p][a].op
      BY <1>2 DEF ThreadStates, Counters, Tokens
    <3>2. at' = [at EXCEPT ![p][a] = w]
      BY <1>2, <1>11
    <3> QED
      BY <3>1, <3>2
  <2>2. processLock'.owner = p
    BY <1>3, <1>4, <1>11, LockReleased
  <2>3. /\ at'[p][a] = s /\ \A b \in Threads \ {a} : at'[p][b] = at[p][b]
        /\ runtime'[p] = owning
        => ThreadsHold(p)' /\ at'[p]["loop"].pc # "idle"
    BY <1>1, <1>2, <1>3, <1>4, <1>5, <1>11, <2>1 DEF ThreadsHold, Refreshing, Removing, Threads
  <2>4. s.pc \notin InRefreshLock \cup {"release"}
    BY <2>1 DEF InRefreshLock, Refreshing
  <2>5. /\ tokenFile' \in Tokens /\ tokenFile' = tokenFile
        /\ \A q \in Runtimes \ {p} : By(tokenFile, q)' => By(tokenFile, q)
    BY <1>2, <1>11 DEF By
  <2>6. owning.owned # None => owning.owned.by = p
    BY <1>2, <1>5
  <2> QED
    BY <1>5, <1>8, <1>11, <2>1, <2>2, <2>3, <2>4, <2>5, <2>6
<1> QED
    BY <1>4, <1>2, <1>7, <1>9, <1>10, <1>11 DEF own_token, OpOf, owning

-----------------------------------------------------------------------------
(* Removing.                                                               *)

LEMMA remove_lockHolds ==
    ASSUME AppInv, NEW p \in Runtimes, NEW a \in Threads, remove_lock(p, a)
    PROVE  AppInv'
<1>1. /\ at[p][a].pc = "removeLock" /\ runtime[p].refreshLock = None
      /\ UNCHANGED <<tokenFile, spare, appClock, tokens, ended, reported>>
    BY DEF remove_lock
<1>2. /\ ThreadsHold(p) /\ LocksHold(p) /\ (p \notin reported => TokenHolds(p)) /\ TokenTypeOK
      /\ runtime[p] \in RuntimeFields /\ runtime = [runtime EXCEPT ![p] = runtime[p]]
      /\ at[p][a] \in ThreadStates /\ (at[p][a].new # None => at[p][a].new.by = p)
      /\ tokenFile \in Tokens /\ spare \in Tokens /\ appClock \in Nat /\ tokens \in Nat
      /\ None # p /\ None \notin Threads
    BY Now DEF AppInv
<1>3. /\ \A b \in Threads \ {a} : at[p][b].pc # "release"
      /\ a = "main" => at[p]["loop"].pc = "idle" /\ at[p]["reaper"].pc = "idle"
      /\ a = "reaper" => at[p]["loop"].pc = "idle" /\ at[p]["main"].pc = "idle"
      /\ a = "loop" => {at[p]["main"].pc, at[p]["reaper"].pc} \subseteq {"idle", "join"}
      /\ a \in {"main", "loop", "reaper"} /\ "loop" \in Threads
    BY <1>1, <1>2 DEF ThreadsHold, Removing, Threads, Refreshing
<1>4. CASE ~Acquirable(p) /\ Ended(p, a) /\ UNCHANGED <<runtime, processLock>>
  <2>1. processLock.owner \notin {None, p} /\ at[p]["loop"].pc = "idle"
    BY <1>2, <1>4 DEF Acquirable, LocksHold
  <2>2. /\ Resting \in ThreadStates /\ Resting.new = None /\ Resting.pc = "idle"
        /\ at' = [at EXCEPT ![p][a] = Resting]
    BY <1>4, RestingIsAState DEF Ended, Resting
  <2>3. at'[p][a] = Resting /\ (\A b \in Threads \ {a} : at'[p][b] = at[p][b]) => ThreadsHold(p)'
    BY <1>1, <1>2, <1>3, <1>4, <2>1, <2>2 DEF ThreadsHold, Refreshing, Removing, Threads
  <2>4. {at[p][a].pc, Resting.pc} \cap InRefreshLock = {} /\ Resting.pc # "release"
    BY <1>1, <2>2 DEF InRefreshLock, Refreshing
  <2>5. /\ UNCHANGED <<tokenFile, spare, processLock, appClock, tokens, ended, reported>>
        /\ runtime' = [runtime EXCEPT ![p] = runtime[p]] /\ (a = "loop" => at[p][a].pc # "idle")
    BY <1>1, <1>2, <1>4
  <2> QED
    BY <1>2, <2>2, <2>3, <2>4, <2>5, CallerHolds
<1>5. CASE Acquirable(p) /\ Acquire(p) /\ runtime' = [runtime EXCEPT ![p].refreshLock = a]
           /\ Goes(p, a, "claim")
  <2>1. "claim" \in Counters
    BY DEF Counters, Removing
  <2>2. PICK s \in ThreadStates :
          /\ at' = [at EXCEPT ![p][a] = s]
          /\ s.pc = "claim" /\ s.op = at[p][a].op /\ s.new = at[p][a].new
    BY <1>2, <1>5, <2>1, ThreadWent
  <2>3. PICK rt \in RuntimeFields :
          /\ runtime' = [runtime EXCEPT ![p] = rt] /\ rt.refreshLock = a
          /\ rt.owned = runtime[p].owned /\ rt.stop = runtime[p].stop
    <3> DEFINE w == [runtime[p] EXCEPT !.refreshLock = a]
    <3>1. w \in RuntimeFields /\ w.refreshLock = a /\ w.owned = runtime[p].owned
          /\ w.stop = runtime[p].stop
      BY <1>2 DEF RuntimeFields
    <3>2. runtime' = [runtime EXCEPT ![p] = w]
      BY <1>5
    <3> QED
      BY <3>1, <3>2
  <2>4. /\ processLock' \in [owner : Runtimes \cup {None}, depth : Nat]
        /\ processLock'.depth >= 1 /\ processLock'.owner = p
        /\ processLock.owner = p => processLock'.depth >= 2
        /\ {processLock.owner, processLock'.owner} \subseteq {None, p}
    BY <1>5, LockTaken
  <2>5. TokenTypeOK'
    <3>1. /\ s.new # None => s.new.by = p
          /\ rt.owned # None => rt.owned.by = p
          /\ tokenFile' \in Tokens /\ spare' \in Tokens /\ appClock' \in Nat /\ tokens' \in Nat
          /\ processLock'.owner # None => processLock'.depth >= 1
      BY <1>1, <1>2, <2>2, <2>3, <2>4, Now
    <3> QED
      BY <2>2, <2>3, <2>4, <3>1, StepHolds
  <2>6. at'[p][a] = s /\ \A b \in Threads \ {a} : at'[p][b] = at[p][b]
    BY <1>2, <2>2 DEF TokenTypeOK
  <2>7. runtime'[p] = rt
    BY <1>2, <2>3 DEF TokenTypeOK
  <2>8. \A q \in Runtimes \ {p} : at'[q] = at[q] /\ runtime'[q] = runtime[q]
    BY <1>2, <2>2, <2>3 DEF TokenTypeOK
  <2>9. ThreadsHold(p)'
    BY <1>1, <1>2, <1>3, <2>2, <2>3, <2>6, <2>7 DEF ThreadsHold, Refreshing, Removing, Threads
  <2>10. \A b \in Threads \ {a} : at'[p][b].pc \notin InRefreshLock
    BY <1>1, <1>2, <2>6 DEF LocksHold
  <2>11. at'[p]["loop"].pc # "idle" => at[p]["loop"].pc # "idle"
    BY <1>1, <1>3, <2>6
  <2>12. LocksHold(p)'
    BY <1>2, <1>3, <2>2, <2>3, <2>4, <2>6, <2>7, <2>10, <2>11 DEF LocksHold, InRefreshLock
  <2>13. \A b \in Threads : /\ at[p][b].pc \notin Exchanged /\ at'[p][b].pc \notin Exchanged
                             /\ at'[p][b].pc \notin {"own", "unlink", "release"}
    BY <1>1, <1>2, <1>3, <2>2, <2>6, <2>10 DEF InRefreshLock, Exchanged, Refreshing, LocksHold
  <2>14. p \notin reported' => TokenHolds(p)'
    BY <1>1, <1>2, <1>3, <2>3, <2>4, <2>7, <2>11, <2>13 DEF TokenHolds, By
  <2> QED
    BY <1>1, <2>4, <2>5, <2>8, <2>9, <2>12, <2>14, OthersHold DEF RuntimeHolds, By
<1> QED
    BY <1>4, <1>5 DEF remove_lock

\* A thread that removes holds both locks and is alone.
LEMMA InsideRemoval ==
    ASSUME AppInv, NEW p \in Runtimes, NEW a \in Threads, at[p][a].pc \in {"claim", "unlink"}
    PROVE  /\ runtime[p].refreshLock = a /\ processLock.owner = p
           /\ at[p]["loop"].pc # "idle" => processLock.depth >= 2
           /\ \A b \in Threads \ {a} : at[p][b].pc \notin InRefreshLock \cup {"release"}
           /\ \A b \in Threads : at[p][b].pc \notin Exchanged
           /\ p \notin reported =>
                 /\ (By(tokenFile, p) => tokenFile = runtime[p].owned) /\ ~By(spare, p)
                 /\ at[p]["loop"].pc # "idle" => tokenFile \in {None, runtime[p].owned}
                 /\ at[p][a].pc = "unlink" => tokenFile = None
<1>1. /\ ThreadsHold(p) /\ LocksHold(p) /\ (p \notin reported => TokenHolds(p))
      /\ None # p /\ None \notin Threads /\ "loop" \in Threads
    BY Now DEF Threads
<1>2. at[p][a].pc \in InRefreshLock /\ at[p][a].pc \notin Exchanged
    BY DEF InRefreshLock, Exchanged
<1>3. runtime[p].refreshLock = a /\ runtime[p].refreshLock # None /\ processLock.owner = p
    BY <1>1, <1>2 DEF LocksHold
<1>4. at[p]["loop"].pc # "idle" => processLock.depth >= 2
    BY <1>1, <1>3 DEF LocksHold
<1>5. ASSUME NEW b \in Threads \ {a} PROVE at[p][b].pc \notin InRefreshLock \cup {"release"}
  <2>1. at[p][b].pc \notin InRefreshLock
    BY <1>1, <1>3 DEF LocksHold
  <2>2. at[p][b].pc # "release"
    BY <1>1 DEF ThreadsHold, Threads, Refreshing, Removing
  <2> QED
    BY <2>1, <2>2
<1>6. \A b \in Threads : at[p][b].pc \notin Exchanged
    BY <1>2, <1>5 DEF InRefreshLock, Exchanged, Refreshing
<1>7. p \notin reported =>
        /\ (By(tokenFile, p) => tokenFile = runtime[p].owned) /\ ~By(spare, p)
        /\ at[p]["loop"].pc # "idle" => tokenFile \in {None, runtime[p].owned}
        /\ at[p][a].pc = "unlink" => tokenFile = None
    BY <1>1, <1>6 DEF TokenHolds
<1> QED
    BY <1>3, <1>4, <1>5, <1>6, <1>7

LEMMA RemovalEnds ==
    ASSUME AppInv, NEW p \in Runtimes, NEW a \in Threads, at[p][a].pc \in {"claim", "unlink"},
           NEW rt \in RuntimeFields, rt.stop = runtime[p].stop,
           rt.owned \in {None, runtime[p].owned}, RemoveEnds(p, a, rt),
           UNCHANGED <<tokenFile, spare, appClock, tokens, ended>>,
           \A q \in Runtimes \ {p} : q \in reported' <=> q \in reported,
           p \notin reported' =>
              /\ p \notin reported /\ ~By(tokenFile, p)
              /\ at[p]["loop"].pc # "idle" => tokenFile \in {None, rt.owned}
    PROVE  AppInv'
<1>1. /\ ThreadsHold(p) /\ LocksHold(p) /\ (p \notin reported => TokenHolds(p)) /\ TokenTypeOK
      /\ runtime[p] \in RuntimeFields /\ (runtime[p].owned # None => runtime[p].owned.by = p)
      /\ at[p][a] \in ThreadStates /\ (at[p][a].new # None => at[p][a].new.by = p)
      /\ tokenFile \in Tokens /\ spare \in Tokens /\ appClock \in Nat /\ tokens \in Nat
      /\ None # p /\ None \notin Threads
    BY Now DEF AppInv
<1>2. /\ runtime[p].refreshLock = a /\ processLock.owner = p
      /\ at[p]["loop"].pc # "idle" => processLock.depth >= 2
      /\ \A b \in Threads \ {a} : at[p][b].pc \notin InRefreshLock \cup {"release"}
      /\ p \notin reported => ~By(spare, p)
    BY InsideRemoval
<1>3. /\ a = "loop" <=> at[p][a].op = "loop" /\ at[p]["loop"].pc # "idle"
      /\ a # "loop" => at[p]["loop"].pc = "idle"
      /\ a \in {"main", "loop", "reaper"} /\ "loop" \in Threads
    BY <1>1 DEF ThreadsHold, Removing, Threads, Refreshing
<1>4. PICK s \in ThreadStates :
        /\ at' = [at EXCEPT ![p][a] = s]
        /\ s.pc = (IF at[p][a].op = "loop" THEN "wait" ELSE "release")
        /\ s.op = at[p][a].op /\ s.new = at[p][a].new
  <2>1. "wait" \in Counters /\ "release" \in Counters
    BY DEF Counters
  <2>2. CASE at[p][a].op = "loop"
    <3>1. Goes(p, a, "wait")
      BY <2>2 DEF RemoveEnds, OpOf
    <3> QED
      BY <1>1, <2>1, <2>2, <3>1, ThreadWent
  <2>3. CASE at[p][a].op # "loop"
    <3>1. Goes(p, a, "release")
      BY <2>3 DEF RemoveEnds, OpOf
    <3> QED
      BY <1>1, <2>1, <2>3, <3>1, ThreadWent
  <2> QED
    BY <2>2, <2>3
<1>5. PICK w \in RuntimeFields :
        /\ runtime' = [runtime EXCEPT ![p] = w] /\ w.refreshLock = None
        /\ w.owned = rt.owned /\ w.stop = runtime[p].stop
  <2> DEFINE v == [rt EXCEPT !.refreshLock = None]
  <2>1. v \in RuntimeFields /\ v.refreshLock = None /\ v.owned = rt.owned /\ v.stop = runtime[p].stop
    BY DEF RuntimeFields
  <2>2. runtime' = [runtime EXCEPT ![p] = v]
    BY DEF RemoveEnds
  <2> QED
    BY <2>1, <2>2
<1>6. /\ processLock' \in [owner : Runtimes \cup {None}, depth : Nat]
      /\ processLock'.owner # None => processLock'.depth >= 1
      /\ processLock.depth >= 2 => processLock'.owner = p
      /\ processLock' = processLock \/ {processLock.owner, processLock'.owner} \subseteq {None, p}
    BY <1>2, LockReleased DEF RemoveEnds
<1>7. TokenTypeOK'
  <2>1. /\ s.new # None => s.new.by = p
        /\ w.owned # None => w.owned.by = p
        /\ tokenFile' \in Tokens /\ spare' \in Tokens /\ appClock' \in Nat /\ tokens' \in Nat
    BY <1>1, <1>4, <1>5
  <2> QED
    BY <1>4, <1>5, <1>6, <2>1, StepHolds
<1>8. at'[p][a] = s /\ \A b \in Threads \ {a} : at'[p][b] = at[p][b]
    BY <1>1, <1>4 DEF TokenTypeOK
<1>9. runtime'[p] = w
    BY <1>1, <1>5 DEF TokenTypeOK
<1>10. \A q \in Runtimes \ {p} : at'[q] = at[q] /\ runtime'[q] = runtime[q]
    BY <1>1, <1>4, <1>5 DEF TokenTypeOK
<1>11. ThreadsHold(p)'
    BY <1>1, <1>3, <1>4, <1>5, <1>8, <1>9 DEF ThreadsHold, Refreshing, Removing, Threads
<1>12. \A b \in Threads : at'[p][b].pc \notin InRefreshLock
    BY <1>2, <1>4, <1>8 DEF InRefreshLock, Refreshing
<1>13. at'[p]["loop"].pc # "idle" => at[p]["loop"].pc # "idle"
    BY <1>3, <1>8
<1>14. LocksHold(p)'
    BY <1>1, <1>2, <1>5, <1>6, <1>9, <1>12, <1>13 DEF LocksHold
<1>15. ASSUME p \notin reported' PROVE TokenHolds(p)'
  <2>1. ~By(tokenFile, p)' /\ ~By(spare, p)'
    BY <1>2, <1>15 DEF By
  <2>2. \A b \in Threads : at'[p][b].pc \notin Exchanged \cup {"own", "unlink"}
    BY <1>12 DEF InRefreshLock, Exchanged, Refreshing
  <2>3. at'[p]["loop"].pc # "idle" => tokenFile' \in {None, runtime'[p].owned}
    BY <1>5, <1>9, <1>13, <1>15
  <2> QED
    BY <1>3, <2>1, <2>2, <2>3 DEF TokenHolds
<1> QED
    BY <1>2, <1>6, <1>7, <1>10, <1>11, <1>14, <1>15, OthersHold DEF RuntimeHolds, By

LEMMA claim_tokenHolds ==
    ASSUME AppInv, NEW p \in Runtimes, NEW a \in Threads, claim_token(p, a)
    PROVE  AppInv'
<1> DEFINE rt == runtime[p]
<1>1. at[p][a].pc = "claim" /\ UNCHANGED <<spare, appClock, tokens, ended>>
    BY DEF claim_token
<1>2. /\ ThreadsHold(p) /\ LocksHold(p) /\ (p \notin reported => TokenHolds(p)) /\ TokenTypeOK
      /\ rt \in RuntimeFields /\ runtime = [runtime EXCEPT ![p] = rt]
      /\ (rt.owned # None => rt.owned.by = p)
      /\ at[p][a] \in ThreadStates /\ (at[p][a].new # None => at[p][a].new.by = p)
      /\ tokenFile \in Tokens /\ spare \in Tokens /\ appClock \in Nat /\ tokens \in Nat
      /\ processLock \in [owner : Runtimes \cup {None}, depth : Nat]
      /\ processLock.owner # None => processLock.depth >= 1
      /\ None # p /\ None \notin Threads /\ None \in Tokens
    BY Now DEF AppInv, Tokens
<1>3. /\ rt.refreshLock = a /\ processLock.owner = p
      /\ \A b \in Threads \ {a} : at[p][b].pc \notin InRefreshLock \cup {"release"}
      /\ \A b \in Threads : at[p][b].pc \notin Exchanged
      /\ p \notin reported =>
            /\ (By(tokenFile, p) => tokenFile = rt.owned) /\ ~By(spare, p)
            /\ at[p]["loop"].pc # "idle" => tokenFile \in {None, rt.owned}
    BY <1>1, InsideRemoval
<1>4. CASE (rt.owned = None \/ tokenFile # rt.owned) /\ RemoveEnds(p, a, rt) /\ UNCHANGED <<tokenFile, reported>>
  <2>1. p \notin reported => ~By(tokenFile, p)
    BY <1>3, <1>4 DEF By
  <2> QED
    BY <1>1, <1>2, <1>3, <1>4, <2>1, RemovalEnds
<1>5. CASE reported' = reported \cup {p} /\ RemoveEnds(p, a, rt) /\ UNCHANGED tokenFile
    BY <1>1, <1>2, <1>5, RemovalEnds
<1>6. CASE tokenFile' = None /\ Goes(p, a, "unlink") /\ UNCHANGED <<reported, runtime, processLock>>
  <2>1. "unlink" \in Counters
    BY DEF Counters, Removing
  <2>2. PICK s \in ThreadStates :
          /\ at' = [at EXCEPT ![p][a] = s]
          /\ s.pc = "unlink" /\ s.op = at[p][a].op /\ s.new = at[p][a].new
    BY <1>2, <1>6, <2>1, ThreadWent
  <2>3. TokenTypeOK'
    <3>1. /\ s.new # None => s.new.by = p
          /\ runtime' = [runtime EXCEPT ![p] = rt]
          /\ tokenFile' \in Tokens /\ spare' \in Tokens /\ appClock' \in Nat /\ tokens' \in Nat
          /\ processLock' \in [owner : Runtimes \cup {None}, depth : Nat]
          /\ processLock'.owner # None => processLock'.depth >= 1
      BY <1>1, <1>2, <1>6, <2>2
    <3> QED
      BY <1>2, <2>2, <3>1, StepHolds
  <2>4. at'[p][a] = s /\ \A b \in Threads \ {a} : at'[p][b] = at[p][b]
    BY <1>2, <2>2 DEF TokenTypeOK
  <2>5. \A q \in Runtimes \ {p} : at'[q] = at[q] /\ runtime'[q] = runtime[q]
    BY <1>2, <1>6, <2>2 DEF TokenTypeOK
  <2>6. ThreadsHold(p)'
    BY <1>1, <1>2, <1>6, <2>2, <2>4 DEF ThreadsHold, Refreshing, Removing, Threads
  <2>7. at'[p]["loop"].pc # "idle" => at[p]["loop"].pc # "idle"
    BY <1>1, <2>4 DEF Threads
  <2>8. LocksHold(p)'
    BY <1>1, <1>2, <1>6, <2>2, <2>4, <2>7 DEF LocksHold, InRefreshLock
  <2>9. \A b \in Threads : at'[p][b].pc \notin Exchanged \cup {"own", "release"}
    BY <1>3, <2>2, <2>4 DEF InRefreshLock, Exchanged, Refreshing
  <2>10. p \notin reported' => TokenHolds(p)'
    BY <1>3, <1>6, <2>9, <1>1, <1>2 DEF TokenHolds, By, Threads
  <2>11. \A q \in Runtimes :
           By(tokenFile, q)' \/ By(spare, q)' => By(tokenFile, q) \/ By(spare, q)
    BY <1>1, <1>6 DEF By
  <2> QED
    BY <1>1, <1>3, <1>6, <2>3, <2>5, <2>6, <2>8, <2>10, <2>11, OthersHold DEF RuntimeHolds
<1> QED
    BY <1>4, <1>5, <1>6 DEF claim_token

LEMMA unlink_claimHolds ==
    ASSUME AppInv, NEW p \in Runtimes, NEW a \in Threads, unlink_claim(p, a)
    PROVE  AppInv'
<1> DEFINE rt == runtime[p]
           gone == [rt EXCEPT !.owned = None, !.expires = 0]
<1>1. at[p][a].pc = "unlink" /\ UNCHANGED <<tokenFile, spare, appClock, tokens, ended>>
    BY DEF unlink_claim
<1>2. rt \in RuntimeFields /\ gone \in RuntimeFields /\ gone.stop = rt.stop /\ gone.owned = None
  <2>1. rt \in RuntimeFields
    BY Now
  <2> QED
    BY <2>1 DEF RuntimeFields, Expiries, Tokens
<1>3. p \notin reported => tokenFile = None
    BY <1>1, InsideRemoval
<1>4. CASE RemoveEnds(p, a, gone) /\ UNCHANGED reported
    BY <1>1, <1>2, <1>3, <1>4, RemovalEnds DEF By
<1>5. CASE RemoveEnds(p, a, rt) /\ reported' = reported \cup {p}
    BY <1>1, <1>2, <1>5, RemovalEnds
<1> QED
    BY <1>4, <1>5 DEF unlink_claim

LEMMA release_runtimeHolds ==
    ASSUME AppInv, NEW p \in Runtimes, NEW a \in Threads, release_runtime(p, a)
    PROVE  AppInv'
<1>1. /\ at[p][a].pc = "release" /\ Ended(p, a) /\ Release(p) /\ ended' = ended \cup {p}
      /\ UNCHANGED <<tokenFile, spare, runtime, appClock, tokens, reported>>
    BY DEF release_runtime
<1>2. /\ ThreadsHold(p) /\ LocksHold(p) /\ (p \notin reported => TokenHolds(p)) /\ TokenTypeOK
      /\ runtime[p] \in RuntimeFields /\ runtime = [runtime EXCEPT ![p] = runtime[p]]
      /\ (runtime[p].owned # None => runtime[p].owned.by = p)
      /\ tokenFile \in Tokens /\ spare \in Tokens /\ appClock \in Nat /\ tokens \in Nat
      /\ None # p /\ None \notin Threads
    BY Now DEF AppInv
<1>3. /\ at[p]["loop"].pc = "idle" /\ runtime[p].stop
      /\ \A b \in Threads \ {a} : at[p][b].pc = "idle"
      /\ a \in {"main", "reaper"} /\ "loop" \in Threads
    BY <1>1, <1>2 DEF ThreadsHold, Refreshing, Removing, Threads
<1>4. /\ Resting \in ThreadStates /\ Resting.new = None /\ Resting.pc = "idle"
      /\ at' = [at EXCEPT ![p][a] = Resting]
    BY <1>1, RestingIsAState DEF Ended, Resting
<1>5. /\ processLock' \in [owner : Runtimes \cup {None}, depth : Nat]
      /\ processLock'.owner # None => processLock'.depth >= 1
      /\ processLock' = processLock \/ {processLock.owner, processLock'.owner} \subseteq {None, p}
    BY <1>1, LockReleased
<1>6. TokenTypeOK'
  <2>1. /\ Resting.new # None => Resting.new.by = p
        /\ runtime' = [runtime EXCEPT ![p] = runtime[p]]
        /\ tokenFile' \in Tokens /\ spare' \in Tokens /\ appClock' \in Nat /\ tokens' \in Nat
    BY <1>1, <1>2, <1>4
  <2> QED
    BY <1>2, <1>4, <1>5, <2>1, StepHolds
<1>7. \A b \in Threads : at'[p][b].pc = "idle"
  <2>1. at'[p][a] = Resting /\ \A b \in Threads \ {a} : at'[p][b] = at[p][b]
    BY <1>2, <1>4 DEF TokenTypeOK
  <2> QED
    BY <1>3, <1>4, <2>1
<1>8. \A q \in Runtimes \ {p} : at'[q] = at[q] /\ runtime'[q] = runtime[q]
    BY <1>1, <1>2, <1>4 DEF TokenTypeOK
<1>9. ThreadsHold(p)'
    BY <1>1, <1>2, <1>3, <1>7 DEF ThreadsHold, Refreshing, Removing, Threads
<1>10. runtime[p].refreshLock = None
  <2>1. \A b \in Threads : at[p][b].pc \notin InRefreshLock
    BY <1>1, <1>3 DEF InRefreshLock, Refreshing
  <2>2. runtime[p].refreshLock \in Threads \cup {None}
    BY <1>2 DEF RuntimeFields
  <2> QED
    BY <1>2, <2>1, <2>2 DEF LocksHold
<1>11. LocksHold(p)'
  <2>1. \A b \in Threads : at'[p][b].pc \notin InRefreshLock
    BY <1>7 DEF InRefreshLock, Refreshing
  <2> QED
    BY <1>1, <1>2, <1>3, <1>7, <1>10, <2>1 DEF LocksHold
<1>12. p \notin reported' => TokenHolds(p)'
  <2>1. \A b \in Threads : at[p][b].pc \notin Exchanged
    BY <1>1, <1>3 DEF Exchanged
  <2>2. p \notin reported => ~By(tokenFile, p) /\ ~By(spare, p)
    BY <1>1, <1>2, <2>1 DEF TokenHolds
  <2> QED
    BY <1>1, <1>3, <1>7, <2>2 DEF TokenHolds, Exchanged, By
<1> QED
    BY <1>1, <1>5, <1>6, <1>8, <1>9, <1>11, <1>12, OthersHold DEF RuntimeHolds, By

-----------------------------------------------------------------------------
(* Crashes and time.                                                       *)

LEMMA AppCrashHolds ==
    ASSUME AppInv, NEW p \in Runtimes, AppCrash(p)
    PROVE  AppInv'
<1>1. /\ runtime' = [runtime EXCEPT ![p] = NewRuntime] /\ at' = [at EXCEPT ![p] = AtRest]
      /\ processLock' = IF processLock.owner = p THEN [owner |-> None, depth |-> 0] ELSE processLock
      /\ spare' = IF processLock.owner = p THEN None ELSE Orphaned(spare, p)
      /\ tokenFile' = Orphaned(tokenFile, p)
      /\ ended' = ended \ {p} /\ reported' = reported \ {p} /\ UNCHANGED <<appClock, tokens>>
    BY DEF AppCrash
<1>2. TokenTypeOK /\ None # p
    BY Now DEF AppInv
<1>3. /\ NewRuntime \in RuntimeFields /\ NewRuntime.refreshLock = None /\ NewRuntime.owned = None
      /\ AtRest \in [Threads -> ThreadStates]
      /\ \A a \in Threads : AtRest[a].pc = "idle" /\ AtRest[a].new = None
    BY RestingIsAState DEF NewRuntime, RuntimeFields, Expiries, Tokens, AtRest, Resting
<1>4. /\ runtime' \in [Runtimes -> RuntimeFields] /\ at' \in [Runtimes -> [Threads -> ThreadStates]]
      /\ runtime'[p] = NewRuntime /\ at'[p] = AtRest
      /\ \A q \in Runtimes \ {p} : at'[q] = at[q] /\ runtime'[q] = runtime[q]
    BY <1>1, <1>2, <1>3 DEF TokenTypeOK
<1>5. ASSUME NEW token \in Tokens
      PROVE  /\ Orphaned(token, p) \in Tokens /\ ~By(Orphaned(token, p), p)
             /\ ~By(token, p) => Orphaned(token, p) = token
             /\ \A q \in Runtimes : By(Orphaned(token, p), q) => By(token, q)
    BY AppAssumption DEF Orphaned, Tokens, By
<1>6. /\ tokenFile' \in Tokens /\ spare' \in Tokens /\ ~By(tokenFile, p)' /\ ~By(spare, p)'
      /\ ~By(tokenFile, p) => tokenFile' = tokenFile
      /\ processLock.owner # p /\ ~By(spare, p) => spare' = spare
      /\ processLock.owner # p => spare' = Orphaned(spare, p)
      /\ \A q \in Runtimes : (By(tokenFile, q)' => By(tokenFile, q)) /\ (By(spare, q)' => By(spare, q))
  <2>1. tokenFile \in Tokens /\ spare \in Tokens /\ None \in Tokens
    BY <1>2 DEF TokenTypeOK, Tokens
  <2> QED
    BY <1>1, <1>5, <2>1 DEF By
<1>7. /\ processLock' \in [owner : Runtimes \cup {None}, depth : Nat]
      /\ processLock'.owner # None => processLock'.depth >= 1
      /\ processLock'.owner # p
      /\ \A q \in Runtimes \ {p} :
            IF processLock.owner = q THEN processLock' = processLock ELSE processLock'.owner # q
    BY <1>1, <1>2, AppAssumption DEF TokenTypeOK
<1>8. TokenTypeOK'
    BY <1>1, <1>2, <1>3, <1>4, <1>6, <1>7 DEF TokenTypeOK
<1>9. RuntimeHolds(p)'
  <2>1. ThreadsHold(p)'
    BY <1>1, <1>3, <1>4 DEF ThreadsHold, Refreshing, Removing, Threads
  <2>2. LocksHold(p)'
    BY <1>3, <1>4, AppAssumption DEF LocksHold, InRefreshLock, Refreshing, Threads
  <2>3. TokenHolds(p)'
    BY <1>3, <1>4, <1>6 DEF TokenHolds, Exchanged, Threads
  <2> QED
    BY <2>1, <2>2, <2>3 DEF RuntimeHolds
<1>10. ASSUME NEW q \in Runtimes \ {p} PROVE RuntimeHolds(q)'
  <2>1. /\ ThreadsHold(q) /\ LocksHold(q) /\ (q \notin reported => TokenHolds(q))
        /\ runtime[q].owned # None => runtime[q].owned.by = q
        /\ \A a \in Threads : at[q][a].new # None => at[q][a].new.by = q
        /\ None \notin Threads /\ q # p
    BY Now
  <2>2. /\ at'[q] = at[q] /\ runtime'[q] = runtime[q]
        /\ q \in ended' <=> q \in ended
        /\ q \in reported' <=> q \in reported
    BY <1>1, <1>4
  <2>3. ThreadsHold(q)'
    BY <2>1, <2>2 DEF ThreadsHold
  <2>4. processLock.owner = q => processLock' = processLock /\ processLock.owner # p
    BY <1>7, <2>1
  <2>5. LocksHold(q)'
    BY <2>1, <2>2, <2>4 DEF LocksHold
  <2>6. ASSUME q \notin reported' PROVE TokenHolds(q)'
    <3>1. TokenHolds(q)
      BY <2>1, <2>2, <2>6
    <3>2. CASE processLock.owner # q
      <4>1. /\ processLock'.owner # q /\ ~By(tokenFile, q)' /\ ~By(spare, q)'
        BY <1>6, <1>7, <3>1, <3>2 DEF TokenHolds
      <4>2. /\ \A a \in Threads : at'[q][a].pc \notin InRefreshLock
            /\ at'[q]["loop"].pc = "idle"
        BY <2>1, <2>2, <3>2 DEF LocksHold
      <4> QED
        BY <4>1, <4>2 DEF TokenHolds, Exchanged, InRefreshLock, Refreshing
    <3>3. CASE processLock.owner = q
      <4>1. \A token : token = None \/ token = runtime[q].owned \/ By(token, q) => ~By(token, p)
        BY <2>1 DEF By
      <4>2. tokenFile = None \/ tokenFile = runtime[q].owned \/ By(tokenFile, q) => tokenFile' = tokenFile
        BY <1>6, <4>1
      <4>3. spare = None \/ spare = runtime[q].owned \/ By(spare, q) => spare' = spare
        BY <1>6, <2>4, <3>3, <4>1
      <4>4. ASSUME NEW a \in Threads, at[q][a].pc \in Exchanged PROVE tokenFile' = tokenFile
        <5>1. tokenFile = at[q][a].new
          BY <3>1, <4>4 DEF TokenHolds
        <5>2. tokenFile = None \/ By(tokenFile, q)
          BY <2>1, <5>1 DEF By
        <5> QED
          BY <4>2, <5>2
      <4>5. (By(tokenFile, q)' => By(tokenFile, q)) /\ (By(spare, q)' => By(spare, q))
        BY <1>6
      <4>6. \A a \in Threads :
              /\ at'[q][a].pc \in Exchanged =>
                    tokenFile' = at'[q][a].new /\ (By(spare, q)' => spare' = runtime'[q].owned)
              /\ at'[q][a].pc = "own" => spare' = None
              /\ at'[q][a].pc = "unlink" => tokenFile' = None
              /\ at'[q][a].pc = "release" => ~By(tokenFile, q)'
        BY <2>2, <3>1, <4>2, <4>3, <4>4, <4>5 DEF TokenHolds
      <4>7. (\A a \in Threads : at'[q][a].pc \notin Exchanged) =>
              (By(tokenFile, q)' => tokenFile' = runtime'[q].owned) /\ ~By(spare, q)'
        BY <2>2, <3>1, <4>2, <4>5 DEF TokenHolds
      <4>8. at'[q]["loop"].pc # "idle" =>
              IF at'[q]["loop"].pc \in Exchanged THEN spare' \in {None, runtime'[q].owned}
              ELSE tokenFile' \in {None, runtime'[q].owned}
        BY <2>2, <3>1, <4>2, <4>3 DEF TokenHolds
      <4>9. processLock'.owner = q /\ (q \in ended' => ~By(tokenFile, q)')
        BY <2>2, <2>4, <3>1, <3>3, <4>5 DEF TokenHolds
      <4> QED
        BY <4>6, <4>7, <4>8, <4>9 DEF TokenHolds
    <3> QED
      BY <3>2, <3>3
  <2> QED
    BY <2>3, <2>5, <2>6 DEF RuntimeHolds
<1> QED
    BY <1>8, <1>9, <1>10 DEF AppInv

LEMMA ClockHolds ==
    ASSUME AppInv, UNCHANGED <<tokenFile, spare, processLock, runtime, at, tokens, ended, reported>>,
           appClock' \in Nat
    PROVE  AppInv'
<1>1. TokenTypeOK'
    BY DEF AppInv, TokenTypeOK
<1>2. ASSUME NEW p \in Runtimes PROVE RuntimeHolds(p)'
  <2>1. ThreadsHold(p) /\ LocksHold(p) /\ (p \notin reported => TokenHolds(p))
    BY Now
  <2>2. ThreadsHold(p)' /\ LocksHold(p)'
    BY <2>1 DEF ThreadsHold, LocksHold
  <2>3. p \notin reported' => TokenHolds(p)'
    BY <2>1 DEF TokenHolds, By
  <2> QED
    BY <2>2, <2>3 DEF RuntimeHolds
<1> QED
    BY <1>1, <1>2 DEF AppInv

LEMMA AppInitHolds == AppInit => AppInv
<1> SUFFICES ASSUME AppInit PROVE AppInv
    OBVIOUS
<1>1. /\ NewRuntime \in RuntimeFields /\ NewRuntime.refreshLock = None /\ NewRuntime.owned = None
      /\ AtRest \in [Threads -> ThreadStates] /\ None \in Tokens
      /\ \A a \in Threads : AtRest[a].pc = "idle" /\ AtRest[a].new = None
    BY RestingIsAState DEF NewRuntime, RuntimeFields, Expiries, Tokens, AtRest, Resting
<1>2. TokenTypeOK
    BY <1>1 DEF AppInit, TokenTypeOK
<1>3. ASSUME NEW p \in Runtimes PROVE RuntimeHolds(p)
  <2>1. at[p] = AtRest /\ runtime[p] = NewRuntime /\ tokenFile = None /\ spare = None /\ ended = {}
    BY DEF AppInit
  <2>2. ThreadsHold(p)
    BY <1>1, <2>1 DEF ThreadsHold, Refreshing, Removing, Threads
  <2>3. LocksHold(p)
    BY <1>1, <2>1, AppAssumption DEF LocksHold, InRefreshLock, Refreshing, Threads
  <2>4. TokenHolds(p)
    BY <1>1, <2>1 DEF TokenHolds, Exchanged, Threads, By
  <2> QED
    BY <2>2, <2>3, <2>4 DEF RuntimeHolds
<1> QED
    BY <1>2, <1>3 DEF AppInv

LEMMA AppNextHolds == AppInv /\ [AppNext]_appVars => AppInv'
<1> SUFFICES ASSUME AppInv, [AppNext]_appVars PROVE AppInv'
    OBVIOUS
<1>1. appClock \in Nat
    BY DEF AppInv, TokenTypeOK
<1>2. CASE UNCHANGED appVars
    BY <1>1, <1>2, ClockHolds DEF appVars, appState
<1>3. CASE AppTick
    BY <1>1, <1>3, ClockHolds DEF AppTick
<1>4. ASSUME NEW p \in Runtimes, worker_returns(p) PROVE AppInv'
    BY <1>1, <1>4, ClockHolds DEF worker_returns
<1>5. ASSUME NEW p \in Runtimes, NEW a \in Threads,
             \/ refresh_lock(p, a) \/ request_token(p, a) \/ check_stop(p, a)
             \/ exchange_names(p, a) \/ verify_published(p, a) \/ rollback(p, a)
             \/ own_token(p, a)
             \/ remove_lock(p, a) \/ claim_token(p, a) \/ unlink_claim(p, a)
             \/ release_runtime(p, a)
      PROVE  AppInv'
    BY <1>5, refresh_lockHolds, request_tokenHolds, check_stopHolds, exchange_namesHolds,
       verify_publishedHolds, rollbackHolds, own_tokenHolds, remove_lockHolds, claim_tokenHolds,
       unlink_claimHolds, release_runtimeHolds
<1> QED
    BY <1>2, <1>3, <1>4, <1>5, CallersHold, AppCrashHolds DEF AppNext

LEMMA EndedAreRuntimes == ended \subseteq Runtimes /\ [AppNext]_appVars => (ended \subseteq Runtimes)'
<1> SUFFICES ASSUME ended \subseteq Runtimes, [AppNext]_appVars PROVE ended' \subseteq Runtimes
    OBVIOUS
<1>1. CASE UNCHANGED appVars \/ AppTick
    BY <1>1 DEF appVars, appState, AppTick
<1>2. ASSUME NEW p \in Runtimes,
             \/ start(p) \/ refresh_once(p) \/ stop(p) \/ stop_joined(p) \/ finish_shutdown(p)
             \/ run_wakes(p) \/ worker_returns(p) \/ AppCrash(p)
      PROVE  ended' \subseteq Runtimes
    BY <1>2 DEF start, refresh_once, stop, stop_joined, finish_shutdown, run_wakes, worker_returns,
       AppCrash
<1>3. ASSUME NEW p \in Runtimes, NEW a \in Threads,
             \/ refresh_lock(p, a) \/ request_token(p, a) \/ check_stop(p, a)
             \/ exchange_names(p, a) \/ verify_published(p, a) \/ rollback(p, a)
             \/ own_token(p, a)
             \/ remove_lock(p, a) \/ claim_token(p, a) \/ unlink_claim(p, a)
             \/ release_runtime(p, a)
      PROVE  ended' \subseteq Runtimes
    BY <1>3 DEF refresh_lock, request_token, check_stop, exchange_names, verify_published, rollback,
       own_token, remove_lock, claim_token, unlink_claim, release_runtime
<1> QED
    BY <1>1, <1>2, <1>3 DEF AppNext

\* The token file is its runtime's from the start to the end: no token of a runtime is in it
\* after its shutdown, and what a running one serves is what it will remove, for any number of
\* processes, overlapping shutdowns, failing calls and crashes (TokenFileIsOwned).
THEOREM TokenFileIsOwnedAlways == AppSpec => []TokenFileIsOwned
<1>1. AppInv /\ ended \subseteq Runtimes => TokenFileIsOwned
  <2> SUFFICES ASSUME AppInv, ended \subseteq Runtimes PROVE TokenFileIsOwned
      OBVIOUS
  <2>1. ASSUME NEW p \in ended \ reported PROVE tokenFile = None \/ tokenFile.by # p
      BY <2>1 DEF AppInv, RuntimeHolds, TokenHolds, By
  <2>2. ASSUME NEW p \in Runtimes \ reported, at[p]["loop"].pc = "wait"
        PROVE  tokenFile \in {None, runtime[p].owned}
      BY <2>2 DEF AppInv, RuntimeHolds, TokenHolds, Exchanged
  <2> QED
      BY <2>1, <2>2 DEF TokenFileIsOwned, ShutdownLeavesNoToken, ServedTokenIsOwned
<1>2. AppInit => ended \subseteq Runtimes
    BY DEF AppInit
<1> QED
    BY <1>1, <1>2, AppInitHolds, AppNextHolds, EndedAreRuntimes, PTL DEF AppSpec

===============================================================================
