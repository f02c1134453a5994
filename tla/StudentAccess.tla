----------------------------- MODULE StudentAccess -----------------------------
(***************************************************************************)
(* Whose work an assignment's target is.  An account is bound once to an    *)
(* educational subject; an assignment names its targets by subject or, when *)
(* it predates the subjects, by a student identifier of its class that an   *)
(* alias leads to a subject.  A student's request reads one snapshot of the *)
(* account, the binding, the classes and the aliases, and decides with it   *)
(* which target is the student's; a dashboard reads one of the actor and of *)
(* the student asked for.  Accounts, classes, memberships and bindings      *)
(* change between those reads, and the adoption of a historical root gives  *)
(* every target of every assignment its subject.                            *)
(***************************************************************************)
EXTENDS Faults, FiniteSets

CONSTANTS
    People,         \* accounts
    ClassIds,       \* classes
    LegacyIds,      \* student identifiers of the old assignments
    Subjects,       \* educational subjects
    Works,          \* assignments
    Rows,           \* targets of an assignment
    MaxAccessEdit   \* bound on changes of the identity rows

\* Identifiers and rows are values of their own, never the absent one.
ASSUME AccessAssumption ==
    /\ None \notin Subjects
    /\ None \notin [user : People, active : BOOLEAN, revision : Nat]

VARIABLES
    people,         \* account -> [role, active, updated]
    open,           \* classes that are active
    enrolled,       \* memberships: << account, class, role >>
    bound,          \* subject -> [user, active, revision], or None
    alias,          \* << class, identifier >> -> subject, or None
    works,          \* assignment -> [class, rows], or None once deleted
    visit,          \* the request: [pc, kind, user, ...]
    given,          \* << assignment, target, account >> ever served
    shown,          \* the dashboard the last step answered with, or None
    accessEdits     \* changes so far

accessState == << people, open, enrolled, bound, alias, works, visit, given, shown,
                  accessEdits >>
accessVars == << accessState, faults >>

rows == << people, open, enrolled, bound, alias, accessEdits >>

Idle == [pc |-> "idle", kind |-> None, user |-> None, scope |-> None, row |-> None, asked |-> None]

\* A root before its adoption: accounts and classes, no subject; the old
\* assignments name their targets by student identifier.
AccessInit ==
    /\ people = [u \in People |-> [role |-> "student", active |-> TRUE, updated |-> 0]]
    /\ open = ClassIds
    /\ enrolled \in {m \in SUBSET (People \X ClassIds \X {"student"}) : \A u \in People : \E c \in ClassIds : << u, c, "student" >> \in m}
    /\ bound = [s \in Subjects |-> None]
    /\ alias = [k \in ClassIds \X LegacyIds |-> None]
    /\ works \in [Works -> {[class |-> c, rows |-> [t \in Rows |-> [legacy |-> f[t], subject |-> None]]] :
                              c \in ClassIds, f \in {g \in [Rows -> LegacyIds] : \A x, y \in Rows : g[x] = g[y] => x = y}}]
    /\ visit = Idle
    /\ given = {}
    /\ shown = None
    /\ accessEdits = 0
    /\ faults = 0

---------------------------------------------------------------------------
(* The rows of the identity storage.                                       *)

Student(u) == people[u].active /\ people[u].role = "student"

Enrolled(u, c) == c \in open /\ << u, c, "student" >> \in enrolled

Edits ==
    /\ accessEdits < MaxAccessEdit
    /\ accessEdits' = accessEdits + 1
    /\ shown' = None
    /\ NoFault
    /\ UNCHANGED << works, visit, given >>

save_user(u) ==
    /\ \E r \in {"student", "teacher"}, a \in BOOLEAN :
          people' = [people EXCEPT ![u] = [role |-> r, active |-> a, updated |-> @.updated + 1]]
    /\ Edits
    /\ UNCHANGED << open, enrolled, bound, alias >>

save_class(c) ==
    /\ open' = IF c \in open THEN open \ {c} ELSE open \cup {c}
    /\ Edits
    /\ UNCHANGED << people, enrolled, bound, alias >>

save_membership(u, c) ==
    /\ enrolled' = enrolled \cup {<< u, c, people[u].role >>}
    /\ Edits
    /\ UNCHANGED << people, open, bound, alias >>

delete_membership(row) ==
    /\ enrolled' = enrolled \ {row}
    /\ Edits
    /\ UNCHANGED << people, open, bound, alias >>

\* The rows of a new binding and of its aliases: the keys are free, the owner
\* is an active student enrolled in the class of every alias.
MayBind(u, s, keys) ==
    /\ Student(u)
    /\ bound[s] = None
    /\ \A x \in Subjects : bound[x] # None => bound[x].user # u
    /\ \A k \in keys : Enrolled(u, k[1]) /\ alias[k] = None

create_student_subject_binding(u, s, keys) ==
    /\ MayBind(u, s, keys)
    /\ bound' = [bound EXCEPT ![s] = [user |-> u, active |-> TRUE, revision |-> 1]]
    /\ alias' = [k \in DOMAIN alias |-> IF k \in keys THEN s ELSE alias[k]]
    /\ Edits
    /\ UNCHANGED << people, open, enrolled >>

\* Only the flag and the revision of a binding change; it is activated again
\* only for an active student.
save_student_subject_binding(s) ==
    /\ bound[s] # None
    /\ ~bound[s].active => Student(bound[s].user)
    /\ bound' = [bound EXCEPT ![s].active = ~@, ![s].revision = @ + 1]
    /\ Edits
    /\ UNCHANGED << people, open, enrolled, alias >>

save_legacy_subject_alias(s, k) ==
    /\ bound[s] # None
    /\ bound[s].active
    /\ Student(bound[s].user) /\ Enrolled(bound[s].user, k[1])
    /\ alias[k] = None
    /\ alias' = [alias EXCEPT ![k] = s]
    /\ Edits
    /\ UNCHANGED << people, open, enrolled, bound >>

\* The assignment is deleted (AssignmentDeletion).
delete_work(w) ==
    /\ works[w] # None
    /\ works' = [works EXCEPT ![w] = None]
    /\ shown' = None
    /\ NoFault
    /\ UNCHANGED << rows, visit, given >>

---------------------------------------------------------------------------
(* What a snapshot says.                                                   *)

\* read_student_binding_snapshot: the rows of one account in one transaction.
Snapshot(p, o, m, b, a, u) ==
    [account |-> p[u],
     bindings |-> {s \in Subjects : b[s] # None /\ b[s].user = u},
     active |-> {s \in Subjects : b[s] # None /\ b[s].active},
     memberships |-> {row \in m : row[1] = u},
     classes |-> {c \in o : \E row \in m : row[1] = u /\ row[2] = c},
     aliases |-> {<< k, a[k] >> : k \in {x \in DOMAIN a : a[x] # None /\ b[a[x]].user = u}}]

\* resolve_student_identity: one active binding, student memberships only,
\* and all of them in active classes.
Resolves(snapshot) ==
    /\ snapshot.account.active /\ snapshot.account.role = "student"
    /\ Cardinality(snapshot.bindings) = 1
    /\ snapshot.bindings \subseteq snapshot.active
    /\ \A row \in snapshot.memberships : row[3] = "student" /\ row[2] \in snapshot.classes

\* The capability of one request.
Scope(snapshot) ==
    [subject |-> CHOOSE s \in snapshot.bindings : TRUE,
     classes |-> snapshot.classes,
     aliases |-> snapshot.aliases]

\* Mutant of alias_subjects: an identifier of another class leads there too.
MutAliasSubjects(aliases, class, legacy) ==
    {x[2] : x \in {y \in aliases : y[1][2] = legacy}}

\* The subjects an identifier of a class leads to.
alias_subjects(aliases, class, legacy) ==
    {x[2] : x \in {y \in aliases : y[1] = << class, legacy >>}}

Doubled(record) ==
    \E x, y \in Rows : x # y /\ record.rows[x].subject # None /\ record.rows[x].subject = record.rows[y].subject

Canonical(scope, record) == {t \in Rows : record.rows[t].subject = scope.subject}

ByAlias(scope, record) ==
    {t \in Rows : record.rows[t].subject = None
                  /\ alias_subjects(scope.aliases, record.class, record.rows[t].legacy) = {scope.subject}}

\* resolve_assignment_target: a target with the subject wins over a target
\* whose identifier leads to it.
Verdict(scope, record) ==
    IF record.class \notin scope.classes THEN "class_mismatch"
    ELSE IF Doubled(record) THEN "duplicate"
    ELSE IF Canonical(scope, record) # {} THEN "ok"
    ELSE IF Cardinality(ByAlias(scope, record)) > 1 THEN "legacy_ambiguous"
    ELSE IF ByAlias(scope, record) = {} THEN "target_missing"
    ELSE "ok"

Target(scope, record) ==
    CHOOSE t \in Rows : t \in (IF Canonical(scope, record) # {} THEN Canonical(scope, record)
                               ELSE ByAlias(scope, record))

---------------------------------------------------------------------------
(* A student's request.                                                    *)

Keeps == shown' = None /\ NoFault /\ UNCHANGED << rows, works >>

Ends == visit' = Idle

\* (What the request asks for plays no part before it has its scope.)
authenticate_bearer(u) ==
    /\ visit = Idle
    /\ Student(u)
    /\ visit' = [Idle EXCEPT !.pc = "bearer", !.kind = "work", !.user = u]
    /\ Keeps
    /\ UNCHANGED given

\* One snapshot, read once, or 403.
authorize_student_request ==
    LET snapshot == Snapshot(people, open, enrolled, bound, alias, visit.user) IN
    /\ visit.pc = "bearer" /\ visit.kind = "work"
    /\ IF Resolves(snapshot) /\ snapshot.memberships # {}
       THEN visit' = [visit EXCEPT !.pc = "scope", !.scope = Scope(snapshot)]
       ELSE Ends
    /\ Keeps
    /\ UNCHANGED given

\* The listing: assignments that are not the student's are left out, any
\* other denial refuses the whole list.
visible_assignments ==
    LET stored == {w \in Works : works[w] # None}
        mine == {w \in stored : Verdict(visit.scope, works[w]) = "ok"}
    IN
    /\ visit.pc = "scope"
    /\ given' = IF \A w \in stored : Verdict(visit.scope, works[w]) \in {"ok", "class_mismatch", "target_missing"}
                THEN given \cup {<< w, Target(visit.scope, works[w]), visit.user >> : w \in mine}
                ELSE given
    /\ Ends
    /\ Keeps

\* The assignment named by the request, or 403.
authorized_assignment(w, kind) ==
    /\ visit.pc = "scope"
    /\ IF works[w] = None THEN Ends
       ELSE IF Verdict(visit.scope, works[w]) # "ok" THEN Ends
       ELSE visit' = [visit EXCEPT !.pc = "authorized", !.kind = kind, !.asked = w,
                                   !.row = Target(visit.scope, works[w])]
    /\ Keeps
    /\ UNCHANGED given

\* Help reads the record again under the assignment's lock.
record_authorized_help ==
    LET w == visit.asked IN
    /\ visit.pc = "authorized" /\ visit.kind = "help"
    /\ given' = IF works[w] = None THEN given
                ELSE IF Verdict(visit.scope, works[w]) # "ok" THEN given
                ELSE given \cup {<< w, Target(visit.scope, works[w]), visit.user >>}
    /\ Ends
    /\ Keeps

\* The final attempt is chosen on the copy the request was authorized with.
select_authorized_final ==
    /\ visit.pc = "authorized" /\ visit.kind = "final"
    /\ given' = given \cup {<< visit.asked, visit.row, visit.user >>}
    /\ Ends
    /\ Keeps

\* A delivery authenticates, reads a snapshot and resolves anew under the
\* assignment's lock; the subject must still be the request's.
dispatch_student_delivery(w) ==
    LET snapshot == Snapshot(people, open, enrolled, bound, alias, visit.user) IN
    /\ visit.pc = "scope"
    /\ given' = IF works[w] = None \/ ~Student(visit.user) THEN given
                ELSE IF ~Resolves(snapshot) \/ snapshot.memberships = {} THEN given
                ELSE IF Scope(snapshot).subject = visit.scope.subject /\ Verdict(Scope(snapshot), works[w]) = "ok"
                THEN given \cup {<< w, Target(Scope(snapshot), works[w]), visit.user >>}
                ELSE given
    /\ Ends
    /\ Keeps

---------------------------------------------------------------------------
(* The dashboard.                                                          *)

\* The session of a browser: the account as it is now.
authorize_application(u) ==
    /\ visit = Idle
    /\ people[u].active
    /\ \E x \in IF people[u].role = "student" THEN {u} ELSE People :
          visit' = [Idle EXCEPT !.pc = "bearer", !.kind = "dashboard", !.user = u, !.asked = x, !.scope = people[u]]
    /\ Keeps
    /\ UNCHANGED given

\* The classes of an account in a role.
ClassesOf(u, role) == {c \in open : << u, c, role >> \in enrolled}

\* read_dashboard_authorization_snapshot: the actor must be as the session
\* saw it; its classes are the ones of its present role.
ActorClasses(u) == ClassesOf(u, people[u].role)

authorize_student_dashboard ==
    LET u == visit.user
        x == visit.asked
        visible == ActorClasses(u) \cap ClassesOf(x, "student")
    IN
    /\ visit.pc = "bearer" /\ visit.kind = "dashboard"
    /\ shown' = IF people[u] = visit.scope /\ people[u].active /\ Student(x) /\ visible # {}
                THEN [actor |-> u, role |-> people[u].role, student |-> x, classes |-> visible]
                ELSE None
    /\ Ends
    /\ NoFault
    /\ UNCHANGED << rows, works, given >>

---------------------------------------------------------------------------
(* The adoption of a historical root, on a copy nobody serves.             *)

\* migrate_legacy_assignment_targets: every identifier leads to one subject,
\* and no subject has two targets.
Migrated(record, a) ==
    [record EXCEPT !.rows = [t \in Rows |->
        IF record.rows[t].subject # None THEN record.rows[t]
        ELSE [record.rows[t] EXCEPT !.subject = a[<< record.class, record.rows[t].legacy >>]]]]

\* The mapping the teacher wrote covers the active students, each with an own
\* subject; every account resolves, and every target is its owner's before
\* and after.
rehearse(owner, mapping) ==
    LET students == {u \in People : Student(u)}
        b == [s \in Subjects |-> IF owner[s] = None THEN None ELSE [user |-> owner[s], active |-> TRUE, revision |-> 1]]
        a == [k \in DOMAIN alias |-> mapping[k]]
        seen == [u \in students |-> Snapshot(people, open, enrolled, b, a, u)]
        stored == {w \in Works : works[w] # None}
    IN
    /\ visit = Idle
    /\ \A s \in Subjects : bound[s] = None
    /\ \A s \in Subjects : owner[s] # None => owner[s] \in students
    /\ \A u \in students : Cardinality({s \in Subjects : owner[s] = u}) = 1
    /\ \A k \in DOMAIN a : a[k] # None => owner[a[k]] # None /\ Enrolled(owner[a[k]], k[1])
    /\ \A u \in students : Resolves(seen[u])
    /\ \A w \in stored :
          LET after == Migrated(works[w], a) IN
          /\ \A t \in Rows : after.rows[t].subject # None
          /\ ~Doubled(after)
          /\ \A t \in Rows :
                LET s == after.rows[t].subject IN
                /\ owner[s] # None
                /\ Verdict(Scope(seen[owner[s]]), works[w]) = "ok"
                /\ Verdict(Scope(seen[owner[s]]), after) = "ok"
    /\ bound' = b
    /\ alias' = a
    /\ works' = [w \in Works |-> IF works[w] = None THEN None ELSE Migrated(works[w], a)]
    /\ NoFault
    /\ shown' = None
    /\ UNCHANGED << people, open, enrolled, visit, given, accessEdits >>

AccessNext ==
    \/ \E u \in People : save_user(u)
    \/ \E c \in ClassIds : save_class(c)
    \/ \E u \in People, c \in ClassIds : save_membership(u, c)
    \/ \E row \in enrolled : delete_membership(row)
    \/ \E u \in People, s \in Subjects, keys \in SUBSET (ClassIds \X LegacyIds) :
          create_student_subject_binding(u, s, keys)
    \/ \E s \in Subjects : save_student_subject_binding(s)
    \/ \E s \in Subjects, k \in ClassIds \X LegacyIds : save_legacy_subject_alias(s, k)
    \/ \E w \in Works : delete_work(w) \/ dispatch_student_delivery(w)
    \/ \E w \in Works, kind \in {"help", "final"} : authorized_assignment(w, kind)
    \/ \E u \in People : authenticate_bearer(u) \/ authorize_application(u)
    \/ authorize_student_request \/ visible_assignments
    \/ record_authorized_help \/ select_authorized_final
    \/ authorize_student_dashboard
    \/ \E owner \in [Subjects -> People \cup {None}], mapping \in [ClassIds \X LegacyIds -> Subjects \cup {None}] :
          rehearse(owner, mapping)

AccessSpec == AccessInit /\ [][AccessNext]_accessVars

---------------------------------------------------------------------------
\* A target of an assignment is served to one account only, whichever accounts,
\* classes, bindings and aliases changed in between, whichever snapshot each
\* request decided with, and across the adoption that gives it a subject.
OneStudentPerTarget ==
    \A x, y \in given : x[1] = y[1] /\ x[2] = y[2] => x[3] = y[3]

\* And nobody is shown a student, or a delivery, that is not theirs: a
\* dashboard shows a student only in classes that the reader attends in the
\* role the account has now, so that a teacher sees no student of a class where
\* only an older membership as a student is left.
AccessIsOwn ==
    [][/\ OneStudentPerTarget'
       /\ shown' # None =>
             /\ people[shown'.actor].active
             /\ \A c \in shown'.classes :
                   << shown'.actor, c, people[shown'.actor].role >> \in enrolled]_accessVars

=============================================================================
