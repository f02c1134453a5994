------------------------------- MODULE Scaffold -------------------------------
(***************************************************************************)
(* Distribution of an activity into the students' repositories.  A run      *)
(* plans the targets and then creates or updates one scaffold after the     *)
(* other: the activity file, the public assets, the starter source.  A      *)
(* manifest kept beside the repository holds the digest of every asset the  *)
(* teacher copied, so that a later run can tell a file that is still intact *)
(* from one the student has changed.  A run may fail or be killed anywhere; *)
(* students work between runs.  File names are compared as they are: the    *)
(* portable aliases of a name are not modelled.                             *)
(***************************************************************************)
EXTENDS Faults, Sequences

CONSTANTS
    Repositories,   \* student repositories, in the order of the target list
    Assets,         \* file names an activity may publish
    SourceName,     \* the source file of the scaffold, possibly an asset too
    MaxRevision,    \* bound on revisions of the activity
    MaxEdits,       \* bound on the students' edits
    ScaffoldFaults  \* bound on failed and killed runs

VARIABLES
    activity,       \* [revision, public]: the teacher's bundle
    files,          \* files[r][p]: [by, revision], by "nobody" when absent
    prepared,       \* prepared[r]: the directory holds activity.json
    manifest,       \* manifest[r]: revision copied to each asset (0: not managed), or None
    job,            \* the run in progress
    edits           \* edits so far

scaffoldState == << activity, files, prepared, manifest, job, edits >>
scaffoldVars == << scaffoldState, faults >>

FileNames == Assets \cup {SourceName}

Absent == [by |-> "nobody", revision |-> 0]
Mine == [by |-> "student", revision |-> 0]
Starter == [by |-> "starter", revision |-> 0]
Copy(k) == [by |-> "teacher", revision |-> k]

Idle == [pc |-> "idle", todo |-> << >>, force |-> FALSE, overwriteSource |-> FALSE, managed |-> None]

ScaffoldInit ==
    /\ activity \in {[revision |-> 1, public |-> Assets]}
    /\ files = [r \in {Repositories[i] : i \in DOMAIN Repositories} |-> [p \in FileNames |-> Absent]]
    /\ prepared = [r \in DOMAIN files |-> FALSE]
    /\ manifest = [r \in DOMAIN files |-> None]
    /\ job = Idle
    /\ edits = 0
    /\ faults = 0

\* The directory of the consegna exists and is not empty.
Existing(r) == prepared[r] \/ \E p \in FileNames : files[r][p] # Absent

Public == activity.public

Target == Head(job.todo)

Goto(pc) == job' = [job EXCEPT !.pc = pc]

\* The manifest's digest is the digest of this file.
Intact(file, k) == k # 0 /\ file = Copy(k)

---------------------------------------------------------------------------
\* The teacher revises the bundle: new contents, other public assets.
revise(public) ==
    /\ job = Idle
    /\ activity.revision < MaxRevision
    /\ activity' = [revision |-> activity.revision + 1, public |-> public]
    /\ NoFault
    /\ UNCHANGED << files, prepared, manifest, job, edits >>

\* A student changes, adds or deletes a file of the scaffold.
edit(r, p, file) ==
    /\ job = Idle
    /\ prepared[r]
    /\ edits < MaxEdits
    /\ edits' = edits + 1
    /\ file # files[r][p]
    /\ files' = [files EXCEPT ![r][p] = file]
    /\ NoFault
    /\ UNCHANGED << activity, prepared, manifest, job >>

---------------------------------------------------------------------------
\* The run.

\* The plan: without --force no target may hold the consegna already.
build_assignment_plan(force, overwriteSource) ==
    /\ job = Idle
    /\ force \/ \A r \in DOMAIN files : ~Existing(r)
    /\ job' = [Idle EXCEPT !.pc = "check", !.todo = Repositories, !.force = force,
                           !.overwriteSource = overwriteSource]
    /\ NoFault
    /\ UNCHANGED << activity, files, prepared, manifest, edits >>

\* A file of the student where a new asset goes, which nothing copied there.
Occupied(r, managed) ==
    \E p \in Public \ {SourceName} : files[r][p] # Absent /\ managed[p] = 0

\* What refuses a target: a scaffold without --force, one without a manifest,
\* an occupied name.
Refused(r) ==
    \/ Existing(r) /\ ~job.force
    \/ Existing(r) /\ manifest[r] = None
    \/ Occupied(r, IF job.force /\ manifest[r] # None THEN manifest[r] ELSE [p \in FileNames |-> 0])

load_managed_assets ==
    /\ job.pc = "check"
    /\ \/ ~Refused(Target)
          /\ job' = [job EXCEPT !.pc = "remove",
                                !.managed = IF job.force /\ manifest[Target] # None
                                            THEN manifest[Target] ELSE [p \in FileNames |-> 0]]
       \/ Refused(Target) /\ job' = Idle
    /\ NoFault
    /\ UNCHANGED << activity, files, prepared, manifest, edits >>

\* Assets that are no longer public leave the scaffold if they are intact.
Stale(r) == {p \in FileNames \ (Public \cup {SourceName}) : Intact(files[r][p], job.managed[p])}

\* A run breaks off: what it did so far stays.
Broken == job' = Idle /\ Fault(ScaffoldFaults)

Put(r, names, file) == [files EXCEPT ![r] = [p \in FileNames |-> IF p \in names THEN file ELSE @[p]]]

\* Mutant of remove_stale_managed_assets: the digest is not compared.
MutRemoveStale ==
    /\ job.pc = "remove"
    /\ LET stale == {p \in FileNames \ (Public \cup {SourceName}) : job.managed[p] # 0} IN
           files' = Put(Target, stale, Absent)
    /\ job' = [job EXCEPT !.pc = "activity",
                          !.managed = [p \in FileNames |-> IF p \in Public THEN @[p] ELSE 0]]
    /\ NoFault
    /\ UNCHANGED << activity, prepared, manifest, edits >>

\* Every asset that is not public any more also leaves the manifest.
remove_stale_managed_assets ==
    /\ job.pc = "remove"
    /\ \/ /\ files' = Put(Target, Stale(Target), Absent)
          /\ job' = [job EXCEPT !.pc = "activity",
                                !.managed = [p \in FileNames |-> IF p \in Public THEN @[p] ELSE 0]]
          /\ NoFault
       \/ \E done \in SUBSET Stale(Target) : files' = Put(Target, done, Absent) /\ Broken
    /\ UNCHANGED << activity, prepared, manifest, edits >>

write_activity ==
    /\ job.pc = "activity"
    /\ \/ prepared' = [prepared EXCEPT ![Target] = TRUE] /\ Goto("copy") /\ NoFault
       \/ Broken /\ UNCHANGED prepared
    /\ UNCHANGED << activity, files, manifest, edits >>

\* The public assets to copy: absent, intact, or the source when it is to be
\* overwritten.  A file the student changed is passed over.
ToCopy(r) ==
    {p \in Public :
        \/ files[r][p] = Absent
        \/ Intact(files[r][p], job.managed[p])
        \/ p = SourceName /\ job.overwriteSource}

copy_student_assets ==
    /\ job.pc = "copy"
    /\ LET copied == ToCopy(Target) IN
       \/ /\ files' = Put(Target, copied, Copy(activity.revision))
          /\ job' = [job EXCEPT !.pc = "manifest",
                                !.managed = [p \in FileNames |-> IF p \in copied THEN activity.revision ELSE @[p]]]
          /\ NoFault
       \/ \E done \in SUBSET copied : files' = Put(Target, done, Copy(activity.revision)) /\ Broken
    /\ UNCHANGED << activity, prepared, manifest, edits >>

write_managed_assets ==
    /\ job.pc = "manifest"
    /\ \/ manifest' = [manifest EXCEPT ![Target] = job.managed] /\ Goto("source") /\ NoFault
       \/ Broken /\ UNCHANGED manifest
    /\ UNCHANGED << activity, files, prepared, edits >>

\* The starter source, unless an asset is the source; then the next target.
starter_source ==
    /\ job.pc = "source"
    /\ LET write == SourceName \notin Public /\ (job.overwriteSource \/ files[Target][SourceName] = Absent) IN
       \/ /\ files' = IF write THEN Put(Target, {SourceName}, Starter) ELSE files
          /\ job' = IF Len(job.todo) = 1 THEN Idle
                    ELSE [job EXCEPT !.pc = "check", !.todo = Tail(@), !.managed = None]
          /\ NoFault
       \/ Broken /\ UNCHANGED files
    /\ UNCHANGED << activity, prepared, manifest, edits >>

ScaffoldNext ==
    \/ \E public \in SUBSET Assets : revise(public)
    \/ \E r \in DOMAIN files, p \in FileNames, file \in {Absent, Mine} : edit(r, p, file)
    \/ \E force, overwriteSource \in BOOLEAN : build_assignment_plan(force, overwriteSource)
    \/ load_managed_assets
    \/ remove_stale_managed_assets
    \/ write_activity
    \/ copy_student_assets
    \/ write_managed_assets
    \/ starter_source

ScaffoldSpec == ScaffoldInit /\ [][ScaffoldNext]_scaffoldVars

---------------------------------------------------------------------------
\* A distribution never overwrites or deletes what the student wrote, however
\* many runs were forced, broken off and repeated before; the one exception
\* is the source when the teacher asked to overwrite it.
StudentWorkSurvives ==
    [][job # Idle =>
         \A r \in DOMAIN files, p \in FileNames :
            files[r][p] = Mine => files'[r][p] = Mine \/ (p = SourceName /\ job.overwriteSource)]_scaffoldVars

=============================================================================
