--------------------------- MODULE TeamMemberships ---------------------------
(***************************************************************************)
(* The classes one account is in because of its GitHub teams               *)
(* (thebitlab_github_team_mapping.py and the transactions it uses of       *)
(* thebitlab_identity_sqlite.py).  An administrator maps teams to classes; *)
(* reconciling the account asks GitHub for its teams, reads the mappings   *)
(* and the classes, and applies the result in one transaction that checks  *)
(* everything it was computed from.  Meanwhile the GitHub account may be   *)
(* unlinked and linked again, and teams, mappings and classes may change.  *)
(*                                                                         *)
(* The account's link is a single row; AccountLinks details the linking.   *)
(***************************************************************************)
EXTENDS Naturals, FiniteSets, FiniteSetsExt, Faults

CONSTANTS
    Groups,         \* GitHub teams, numbers: the order of provider_key
    Classes,        \* classes
    Syncs,          \* threads that reconcile
    MaxAge,         \* max_snapshot_age
    MaxTeamClock,   \* bound on the clock
    MaxEdits        \* bound on the changes by administrators, teachers and GitHub

ASSUME TeamAssumption ==
    /\ Groups \in SUBSET Nat /\ IsFiniteSet(Groups)
    /\ MaxTeamClock \in Nat
    /\ None \notin Nat

VARIABLES
    student,        \* the account: role, revision and activity
    linkGen,        \* generation of its GitHub link, or None
    linkGens,       \* generations used by the links so far
    class,          \* classes: activity and revision
    mapping,        \* external_group_mappings of each team, or None
    mapGens,        \* external_group_mapping_generations of each team
    members,        \* class_memberships of the account, of role student
    sync,           \* the call of each thread
    teamClock,      \* the clock
    edits,          \* changes so far
    teams           \* at GitHub: the teams of the account at each instant

teamState == << student, linkGen, linkGens, class, mapping, mapGens, members, sync,
                teamClock, edits, teams >>
teamVars == << teamState, faults >>

NoSync == [pc |-> "idle"]

TeamInit ==
    /\ student = [role |-> "pending", rev |-> 0, active |-> TRUE]
    /\ linkGen = None /\ linkGens = {}
    /\ class = [k \in Classes |-> [active |-> TRUE, rev |-> 0]]
    /\ mapping = [g \in Groups |-> None] /\ mapGens = [g \in Groups |-> {}]
    /\ members = {}
    /\ sync = [s \in Syncs |-> NoSync]
    /\ teamClock = 0 /\ edits = 0
    /\ teams = [t \in 0..MaxTeamClock |-> Groups]
    /\ faults = 0

\* class_memberships: primary key (user, class, role).
FromGitHub == {m \in members : m.group # None}
Manual == {m.class : m \in members \ FromGitHub}

-----------------------------------------------------------------------------
(* The administrators, the teachers, the owner of the account and GitHub.  *)

Edit == edits < MaxEdits /\ edits' = edits + 1

\* _next_generation: the clock, or the next instant after the previous one.
NextGeneration(past) == IF past # {} /\ Max(past) >= teamClock THEN Max(past) + 1 ELSE teamClock

\* _reserve_external_group_mapping_generation: later than every one reserved before.
Reserve(g, created) ==
    /\ \A past \in mapGens[g] : created > past
    /\ mapGens' = [mapGens EXCEPT ![g] = @ \cup {created}]

\* The transaction of an administrator: the class is active and the mapping is the
\* one that was read.  A mapping keeps its class and its generation.
save_external_group_mapping_for_admin(g, k, old) ==
    LET created == NextGeneration(mapGens[g]) IN
    /\ class[k].active /\ mapping[g] = old
    /\ \/ /\ old = None
          /\ mapping' = [mapping EXCEPT ![g] = [class |-> k, created |-> created, updated |-> created]]
          /\ Reserve(g, created)
       \/ /\ old # None /\ old.class = k
          /\ mapping' = [mapping EXCEPT ![g].updated = NextGeneration({@})]
          /\ UNCHANGED mapGens

delete_external_group_mapping_for_admin(g, old) ==
    /\ old # None /\ mapping[g] = old /\ class[old.class].active
    /\ mapping' = [mapping EXCEPT ![g] = None]

\* GitHubTeamClassMappingService.save_mapping: its reads and its transaction are one
\* step, for the transaction compares all that was read.
save_mapping(g, k) ==
    /\ Edit
    /\ save_external_group_mapping_for_admin(g, k, mapping[g])
    /\ NoFault
    /\ UNCHANGED <<student, linkGen, linkGens, class, members, sync, teamClock, teams>>

delete_mapping(g) ==
    /\ Edit
    /\ mapping[g] # None
    /\ delete_external_group_mapping_for_admin(g, mapping[g])
    /\ NoFault
    /\ UNCHANGED <<student, linkGen, linkGens, class, mapGens, members, sync, teamClock, teams>>

save_team_class(k) ==
    /\ Edit
    /\ \E on \in BOOLEAN : class' = [class EXCEPT ![k] = [active |-> on, rev |-> @.rev + 1]]
    /\ NoFault
    /\ UNCHANGED <<student, linkGen, linkGens, mapping, mapGens, members, sync, teamClock, teams>>

\* save_membership and delete_membership of a teacher: a membership of no team.
save_team_membership(k) ==
    /\ Edit
    /\ members' = {m \in members : m.class # k} \cup
                  (IF k \in Manual THEN {} ELSE {[class |-> k, group |-> None]})
    /\ NoFault
    /\ UNCHANGED <<student, linkGen, linkGens, class, mapping, mapGens, sync, teamClock, teams>>

save_student ==
    /\ Edit
    /\ \E r \in {"student", "pending"}, on \in BOOLEAN :
          student' = [role |-> r, rev |-> student.rev + 1, active |-> on]
    /\ NoFault
    /\ UNCHANGED <<linkGen, linkGens, class, mapping, mapGens, members, sync, teamClock, teams>>

\* link_external_identity_for_active_session: a generation not used before.
link_github ==
    LET new == NextGeneration(linkGens) IN
    /\ Edit /\ linkGen = None /\ student.active
    /\ linkGen' = new /\ linkGens' = linkGens \cup {new}
    /\ NoFault
    /\ UNCHANGED <<student, class, mapping, mapGens, members, sync, teamClock, teams>>

\* What unlink_external_identity_for_active_session leaves of the memberships.
Unlinked == members \ FromGitHub

unlink_github ==
    /\ Edit /\ linkGen # None /\ student.active
    /\ linkGen' = None
    /\ members' = Unlinked
    /\ NoFault
    /\ UNCHANGED <<student, linkGens, class, mapping, mapGens, sync, teamClock, teams>>

\* The organization moves the account between its teams, from the next instant on.
ChangeTeams ==
    /\ Edit
    /\ \E now \in SUBSET Groups :
         teams' = [t \in DOMAIN teams |-> IF t <= teamClock THEN teams[t] ELSE now]
    /\ NoFault
    /\ UNCHANGED <<student, linkGen, linkGens, class, mapping, mapGens, members, sync, teamClock>>

TeamTick ==
    /\ teamClock < MaxTeamClock
    /\ teamClock' = teamClock + 1
    /\ NoFault
    /\ UNCHANGED <<student, linkGen, linkGens, class, mapping, mapGens, members, sync, edits, teams>>

-----------------------------------------------------------------------------
(* GitHubPendingOnboardingService and GitHubMembershipSyncService.         *)

SyncEnds(s) == sync' = [sync EXCEPT ![s] = NoSync]
SyncKeeps == UNCHANGED <<linkGen, linkGens, class, mapping, mapGens, teamClock, edits, teams>>

\* reconcile reads the account and its GitHub link.
reconcile(s) ==
    /\ sync[s] = NoSync /\ student.active
    /\ \/ /\ linkGen # None
          /\ sync' = [sync EXCEPT ![s] = [pc |-> "directory", user |-> student, gen |-> linkGen]]
       \/ /\ linkGen = None /\ student.role = "student"
          /\ sync' = [sync EXCEPT ![s] = [pc |-> "revoke", user |-> student, rows |-> members]]
    /\ NoFault
    /\ SyncKeeps /\ UNCHANGED <<student, members>>

\* revoke_github_memberships_without_identity.
revoke_github_memberships_without_identity(s) ==
    LET c == sync[s] IN
    /\ c.pc = "revoke"
    /\ members' = IF student = c.user /\ linkGen = None /\ members = c.rows
                  THEN members \ FromGitHub ELSE members
    /\ SyncEnds(s)
    /\ NoFault
    /\ SyncKeeps /\ UNCHANGED student

\* read_complete_memberships: the teams GitHub knows at the instant it stamps, or
\* a failure.
read_complete_memberships(s) ==
    LET c == sync[s] IN
    /\ c.pc = "directory"
    /\ \/ SyncEnds(s)
       \/ sync' = [sync EXCEPT ![s] = [pc |-> "snapshot", user |-> c.user, gen |-> c.gen,
                     at |-> teamClock, teams |-> teams[teamClock], todo |-> teams[teamClock],
                     maps |-> [g \in Groups |-> None]]]
    /\ NoFault
    /\ SyncKeeps /\ UNCHANGED <<student, members>>

\* The snapshot is not too old; checked by the service, and again by the
\* transaction.
Fresh(at) == at + MaxAge > teamClock

\* The service also refuses a snapshot from before the link.
validate_snapshot(s) ==
    /\ sync[s].pc = "snapshot"
    /\ IF Fresh(sync[s].at) /\ sync[s].at >= sync[s].gen
       THEN sync' = [sync EXCEPT ![s].pc = "mappings"]
       ELSE SyncEnds(s)
    /\ NoFault
    /\ SyncKeeps /\ UNCHANGED <<student, members>>

\* read_external_group_mapping of one team of the snapshot.
read_external_group_mapping(s, g) ==
    LET c == sync[s] IN
    /\ c.pc = "mappings" /\ g \in c.todo
    /\ sync' = [sync EXCEPT ![s].maps[g] = mapping[g], ![s].todo = @ \ {g}]
    /\ NoFault
    /\ SyncKeeps /\ UNCHANGED <<student, members>>

Mapped(c) == {g \in Groups : c.maps[g] # None}

\* read_class of every mapping, then list_user_memberships.  A pending account is
\* onboarded only into an active class by the only mapped team it is in.
read_classes(s) ==
    LET c == sync[s] IN
    /\ c.pc = "mappings" /\ c.todo = {}
    /\ IF \/ c.user.role = "student"
          \/ Cardinality(Mapped(c)) = 1 /\ \A g \in Mapped(c) : class[c.maps[g].class].active
       THEN sync' = [sync EXCEPT ![s] = [pc |-> "rows", user |-> c.user, gen |-> c.gen,
                        at |-> c.at, teams |-> c.teams, maps |-> c.maps, classes |-> class]]
       ELSE SyncEnds(s)
    /\ NoFault
    /\ SyncKeeps /\ UNCHANGED <<student, members>>

read_memberships(s) ==
    LET c == sync[s] IN
    /\ c.pc = "rows"
    /\ sync' = [sync EXCEPT ![s] = [pc |-> "apply", user |-> c.user, gen |-> c.gen,
                   at |-> c.at, teams |-> c.teams, maps |-> c.maps, classes |-> c.classes,
                   rows |-> members]]
    /\ NoFault
    /\ SyncKeeps /\ UNCHANGED <<student, members>>

\* The memberships of the snapshot: in each active class without a manual
\* membership, by the first team that maps to it.
Desired(c) ==
    LET manual == {m.class : m \in {x \in c.rows : x.group = None}}
        open == {k \in Classes : k \notin manual /\ c.classes[k].active} IN
    {[class |-> k, group |-> Min({g \in Mapped(c) : c.maps[g].class = k})] :
        k \in {k \in open : \E g \in Mapped(c) : c.maps[g].class = k}}

\* Mutant of SameClasses: a class that was closed in between is not noticed.
MutSameClasses(c) == TRUE

\* What synchronize_github_memberships compares in its transaction.
SameMappings(c) == \A g \in c.teams : mapping[g] = c.maps[g]
SameClasses(c) == \A g \in Mapped(c) : class[c.maps[g].class] = c.classes[c.maps[g].class]
Unchanged(c) ==
    /\ Fresh(c.at)
    /\ student = c.user /\ linkGen = c.gen
    /\ SameMappings(c) /\ SameClasses(c)

synchronize_github_memberships(s) ==
    LET c == sync[s] IN
    /\ c.pc = "apply" /\ c.user.role = "student"
    /\ IF Unchanged(c) /\ members = c.rows
       THEN members' = (members \ FromGitHub) \cup Desired(c)
       ELSE UNCHANGED members
    /\ SyncEnds(s)
    /\ NoFault
    /\ SyncKeeps /\ UNCHANGED student

\* onboard_pending_user_from_external_group: promotes the account and inserts the
\* membership, or neither.
onboard_pending_user_from_external_group(s) ==
    LET c == sync[s]
        g == CHOOSE x \in Mapped(c) : TRUE
        k == c.maps[g].class IN
    /\ c.pc = "apply" /\ c.user.role = "pending"
    /\ IF Unchanged(c) /\ \A m \in members : m.class # k
       THEN /\ student' = [student EXCEPT !.role = "student", !.rev = @ + 1]
            /\ members' = members \cup {[class |-> k, group |-> g]}
       ELSE UNCHANGED <<student, members>>
    /\ SyncEnds(s)
    /\ NoFault
    /\ SyncKeeps

TeamNext ==
    \/ \E g \in Groups : delete_mapping(g) \/ \E k \in Classes : save_mapping(g, k)
    \/ \E k \in Classes : save_team_class(k) \/ save_team_membership(k)
    \/ save_student \/ link_github \/ unlink_github \/ ChangeTeams \/ TeamTick
    \/ \E s \in Syncs :
         \/ reconcile(s)
         \/ revoke_github_memberships_without_identity(s)
         \/ read_complete_memberships(s) \/ validate_snapshot(s)
         \/ \E g \in Groups : read_external_group_mapping(s, g)
         \/ read_classes(s) \/ read_memberships(s)
         \/ synchronize_github_memberships(s)
         \/ onboard_pending_user_from_external_group(s)

TeamSpec == TeamInit /\ [][TeamNext]_teamVars

-----------------------------------------------------------------------------

\* An account without a GitHub link has no membership of a team, whatever was
\* being reconciled when it was unlinked.
UnlinkedHasNoTeam == linkGen = None => FromGitHub = {}

\* A membership is granted for a team the account was in less than MaxAge ago and
\* since its present link was made, by a mapping that stands, into an active class:
\* nothing that changed during the questions to GitHub is granted from.
GrantsAreCurrent ==
    [][\A m \in members' : m \notin members /\ m.group # None =>
         /\ class[m.class].active
         /\ mapping[m.group] # None /\ mapping[m.group].class = m.class
         /\ \E t \in linkGen..teamClock : t + MaxAge > teamClock /\ m.group \in teams[t]]_teamVars

\* Both together: the memberships from GitHub follow the link, the teams and the
\* mappings as they are, never as they were when the questions were asked.
TeamsFollowGitHub == []UnlinkedHasNoTeam /\ GrantsAreCurrent

=============================================================================
