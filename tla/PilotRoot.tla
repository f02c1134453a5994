------------------------------- MODULE PilotRoot -------------------------------
(***************************************************************************)
(* The commands on the pilot's data root: bootstrap of a demo root, backup, *)
(* restore, and for a historical root the rehearsal on an offline copy and  *)
(* the adoption of its result.  Each command is a process of its own, which *)
(* may be killed; the root's lock, outside the root, keeps a running server *)
(* out.  A tree is its identity database and its other files, each at a     *)
(* version; a copy goes file by file.  What the validations look at inside  *)
(* a file is left out: they fail on a tree that is not whole.               *)
(***************************************************************************)
EXTENDS Faults

CONSTANTS
    Commands,       \* processes that run a command
    MaxWrites,      \* bound on writes of the server and on the historical root
    PilotFaults     \* bound on failed validations and killed processes

\* No command has the name that stands for nobody holding the lock.
ASSUME PilotAssumption == None \notin Commands

VARIABLES
    root,           \* the data root: a tree, or None when there is no directory
    rootLock,       \* who holds the root's lock, or None
    command,        \* command[p]: [pc, existed, tree, seen]
    backup,         \* a published backup, or None
    restored,       \* the target of a restore, or None
    source,         \* the historical root
    bundle,         \* the published rehearsal: [preupgrade, candidate], or None
    adopted,        \* the root adopted from it, or None
    past,           \* trees the data root has held
    sourcePast,     \* trees the historical root has held
    writes          \* writes so far

pilotState == << root, rootLock, command, backup, restored, source, bundle, adopted, past,
                 sourcePast, writes >>
pilotVars == << pilotState, faults >>

\* Nothing written (0), a marker or none, a schema of the identity database.
Empty == [marker |-> FALSE, db |-> 0, files |-> 0, schema |-> 12]

NoCommand == [pc |-> "idle", existed |-> FALSE, tree |-> Empty, seen |-> Empty]

PilotInit ==
    /\ root = None
    /\ rootLock = None
    /\ command = [p \in Commands |-> NoCommand]
    /\ backup = None /\ restored = None
    /\ source = [marker |-> FALSE, db |-> 1, files |-> 1, schema |-> 11]
    /\ bundle = None /\ adopted = None
    /\ past = {} /\ sourcePast = {[marker |-> FALSE, db |-> 1, files |-> 1, schema |-> 11]}
    /\ writes = 1
    /\ faults = 0

In(p, pc) == command[p].pc = pc
Next1(p, pc) == command' = [command EXCEPT ![p].pc = pc]
Over(p) == command' = [command EXCEPT ![p] = NoCommand]
ReleasesRoot(p) == rootLock' = IF rootLock = p THEN None ELSE rootLock

Whole(tree) == tree # None => tree.marker /\ tree.db # 0 /\ tree.files # 0

---------------------------------------------------------------------------
(* bootstrap.                                                              *)

\* root.exists(), remembered for the cleanup, then mkdir(exist_ok=True).
bootstrap(p) ==
    /\ In(p, "idle")
    /\ command' = [command EXCEPT ![p] = [NoCommand EXCEPT !.pc = "mkdir", !.existed = (root # None)]]
    /\ NoFault
    /\ UNCHANGED << root, rootLock, backup, restored, source, bundle, adopted, past, sourcePast, writes >>

\* _stopped_root_lock: a root in use refuses the command.
take_root(p) ==
    /\ In(p, "mkdir")
    /\ LET found == IF root = None THEN Empty ELSE root IN
       /\ root' = found
       /\ \/ /\ rootLock # None
             /\ Next1(p, IF command[p].existed THEN "idle" ELSE "rmtree")
             /\ UNCHANGED rootLock
          \/ /\ rootLock = None /\ found = Empty
             /\ rootLock' = p
             /\ command' = [command EXCEPT ![p].pc = "fill", ![p].existed = FALSE]
          \/ /\ rootLock = None /\ found # Empty
             /\ UNCHANGED rootLock
             /\ Next1(p, IF found.marker \/ command[p].existed THEN "idle" ELSE "rmtree")
    /\ NoFault
    /\ UNCHANGED << backup, restored, source, bundle, adopted, past, sourcePast, writes >>

\* The files, the identity database, the marker, the validation.
fill_root(p) ==
    /\ In(p, "fill") /\ root # None
    /\ \/ /\ root.files = 0 /\ root' = [root EXCEPT !.files = 1]
          /\ UNCHANGED << rootLock, command, past >>
       \/ /\ root.files # 0 /\ root.db = 0 /\ root' = [root EXCEPT !.db = 1]
          /\ UNCHANGED << rootLock, command, past >>
       \/ /\ root.db # 0 /\ ~root.marker /\ root' = [root EXCEPT !.marker = TRUE]
          /\ past' = past \cup {root'}
          /\ UNCHANGED << rootLock, command >>
       \/ /\ root.marker
          /\ ReleasesRoot(p) /\ Over(p)
          /\ UNCHANGED << root, past >>
    /\ NoFault
    /\ UNCHANGED << backup, restored, source, bundle, adopted, sourcePast, writes >>

\* A step fails, for any reason or because the directory is gone: the lock is
\* left before the cleanup.
fill_fails(p) ==
    /\ In(p, "fill")
    /\ IF root = None THEN NoFault ELSE Fault(PilotFaults)
    /\ ReleasesRoot(p)
    /\ Next1(p, "rmtree")
    /\ UNCHANGED << root, backup, restored, source, bundle, adopted, past, sourcePast, writes >>

\* shutil.rmtree of the root by the command that failed.
rmtree(p) ==
    /\ In(p, "rmtree")
    /\ root' = None
    /\ Over(p)
    /\ NoFault
    /\ UNCHANGED << rootLock, backup, restored, source, bundle, adopted, past, sourcePast, writes >>

---------------------------------------------------------------------------
(* The server on the root.                                                 *)

serve(p) ==
    /\ In(p, "idle") /\ rootLock = None /\ root # None /\ root.marker
    /\ rootLock' = p
    /\ Next1(p, "serving")
    /\ NoFault
    /\ UNCHANGED << root, backup, restored, source, bundle, adopted, past, sourcePast, writes >>

\* A request writes a document, or the identity database.
server_writes(p, part) ==
    /\ In(p, "serving") /\ root # None /\ writes < MaxWrites
    /\ writes' = writes + 1
    /\ root' = [root EXCEPT ![part] = writes + 1]
    /\ past' = past \cup {root'}
    /\ NoFault
    /\ UNCHANGED << rootLock, command, backup, restored, source, bundle, adopted, sourcePast >>

server_stops(p) ==
    /\ In(p, "serving")
    /\ ReleasesRoot(p) /\ Over(p)
    /\ NoFault
    /\ UNCHANGED << root, backup, restored, source, bundle, adopted, past, sourcePast, writes >>

---------------------------------------------------------------------------
(* create_backup and restore_backup.                                       *)

\* Mutant of create_backup: the root is copied while a server may run.
MutCreateBackup(p) ==
    /\ In(p, "idle") /\ backup = None
    /\ root # None /\ root.marker
    /\ command' = [command EXCEPT ![p] = [NoCommand EXCEPT !.pc = "copy db"]]
    /\ NoFault
    /\ UNCHANGED << root, rootLock, backup, restored, source, bundle, adopted, past, sourcePast, writes >>

\* The output is new, the root is locked and valid.
create_backup(p) ==
    /\ In(p, "idle") /\ backup = None
    /\ rootLock = None /\ root # None /\ root.marker
    /\ rootLock' = p
    /\ command' = [command EXCEPT ![p] = [NoCommand EXCEPT !.pc = "copy db"]]
    /\ NoFault
    /\ UNCHANGED << root, backup, restored, source, bundle, adopted, past, sourcePast, writes >>

\* The files listed at the start are there no more.
Gone == root = None \/ (root # None /\ (root.db = 0 \/ root.files = 0))

\* The database through SQLite's backup, then the files; a file that is gone fails.
copy_payload(p) ==
    /\ \/ In(p, "copy db") /\ ~Gone
          /\ command' = [command EXCEPT ![p].tree = [root EXCEPT !.files = 0], ![p].pc = "copy files"]
          /\ UNCHANGED rootLock
       \/ In(p, "copy files") /\ ~Gone
          /\ command' = [command EXCEPT ![p].tree.files = root.files, ![p].pc = "publish"]
          /\ UNCHANGED rootLock
       \/ command[p].pc \in {"copy db", "copy files"} /\ Gone /\ Over(p) /\ ReleasesRoot(p)
    /\ NoFault
    /\ UNCHANGED << root, backup, restored, source, bundle, adopted, past, sourcePast, writes >>

\* The staging directory, its manifest written, takes the output's name.
publish_backup(p) ==
    /\ In(p, "publish")
    /\ backup' = IF backup = None THEN command[p].tree ELSE backup
    /\ Over(p) /\ ReleasesRoot(p)
    /\ NoFault
    /\ UNCHANGED << root, restored, source, bundle, adopted, past, sourcePast, writes >>

\* Every file of the payload has the digest of the manifest, and no other is there.
validated_backup == backup # None

\* The verified payload goes to a staging root, which is validated and started
\* once before it takes the target's name.
restore_backup(p) ==
    /\ \/ /\ In(p, "idle") /\ validated_backup /\ restored = None
          /\ command' = [command EXCEPT ![p] = [NoCommand EXCEPT !.pc = "restore db"]]
          /\ UNCHANGED restored
       \/ /\ In(p, "restore db")
          /\ command' = [command EXCEPT ![p].tree = [backup EXCEPT !.files = 0], ![p].pc = "restore files"]
          /\ UNCHANGED restored
       \/ /\ In(p, "restore files")
          /\ command' = [command EXCEPT ![p].tree = backup, ![p].pc = "restored"]
          /\ UNCHANGED restored
       \/ /\ In(p, "restored")
          /\ restored' = IF restored = None THEN command[p].tree ELSE restored
          /\ Over(p)
    /\ NoFault
    /\ UNCHANGED << root, rootLock, backup, source, bundle, adopted, past, sourcePast, writes >>

---------------------------------------------------------------------------
(* rehearse and adopt.                                                     *)

\* Something still writes on the copy that was attested to be offline.
source_changes(part) ==
    /\ writes < MaxWrites
    /\ writes' = writes + 1
    /\ source' = [source EXCEPT ![part] = writes + 1]
    /\ sourcePast' = sourcePast \cup {source'}
    /\ NoFault
    /\ UNCHANGED << root, rootLock, command, backup, restored, bundle, adopted, past >>

\* An inventory of the source, a copy of it, and both compared again, file by
\* file: a source that changed while it was copied ends the rehearsal.
rehearse(p) ==
    /\ \/ /\ In(p, "idle") /\ bundle = None
          /\ command' = [command EXCEPT ![p] = [NoCommand EXCEPT !.pc = "i1"]]
       \/ /\ In(p, "i1") /\ command' = [command EXCEPT ![p].seen = [source EXCEPT !.files = 0], ![p].pc = "i2"]
       \/ /\ In(p, "i2") /\ command' = [command EXCEPT ![p].seen.files = source.files, ![p].pc = "c1"]
       \/ /\ In(p, "c1") /\ command' = [command EXCEPT ![p].tree = [source EXCEPT !.files = 0], ![p].pc = "c2"]
       \/ /\ In(p, "c2") /\ command' = [command EXCEPT ![p].tree.files = source.files, ![p].pc = "v1"]
       \/ /\ In(p, "v1")
          /\ IF command[p].tree = command[p].seen /\ source.db = command[p].seen.db
             THEN Next1(p, "v2") ELSE Over(p)
       \/ /\ In(p, "v2")
          /\ IF source.files = command[p].seen.files THEN Next1(p, "migrate") ELSE Over(p)
    /\ NoFault
    /\ UNCHANGED << root, rootLock, backup, restored, source, bundle, adopted, past, sourcePast, writes >>

\* The candidate is migrated and both trees are published with their report.
publish_bundle(p) ==
    /\ In(p, "migrate")
    /\ \/ /\ bundle = None
          /\ bundle' = [preupgrade |-> command[p].tree, candidate |-> [command[p].tree EXCEPT !.schema = 12]]
          /\ NoFault
       \/ (bundle = None => Fault(PilotFaults)) /\ (bundle # None => NoFault) /\ UNCHANGED bundle
    /\ Over(p)
    /\ UNCHANGED << root, rootLock, backup, restored, source, adopted, past, sourcePast, writes >>

\* The candidate is copied beside the target, marked, validated and renamed.
adopt(p) ==
    /\ In(p, "idle") /\ bundle # None /\ adopted = None
    /\ \/ NoFault /\ adopted' = [bundle.candidate EXCEPT !.marker = TRUE]
       \/ Fault(PilotFaults) /\ UNCHANGED adopted
    /\ UNCHANGED << root, rootLock, command, backup, restored, source, bundle, past, sourcePast, writes >>

\* A command is killed: its staging directory stays, its lock is free.
kill_command(p) ==
    /\ command[p].pc # "idle"
    /\ Fault(PilotFaults)
    /\ ReleasesRoot(p) /\ Over(p)
    /\ UNCHANGED << root, backup, restored, source, bundle, adopted, past, sourcePast, writes >>

PilotNext ==
    \/ \E p \in Commands :
          \/ bootstrap(p) \/ take_root(p) \/ fill_root(p) \/ fill_fails(p) \/ rmtree(p)
          \/ serve(p) \/ server_stops(p)
          \/ \E part \in {"db", "files"} : server_writes(p, part)
          \/ create_backup(p) \/ copy_payload(p) \/ publish_backup(p) \/ restore_backup(p)
          \/ rehearse(p) \/ publish_bundle(p) \/ adopt(p)
          \/ kill_command(p)
    \/ \E part \in {"db", "files"} : source_changes(part)

PilotSpec == PilotInit /\ [][PilotNext]_pilotVars

---------------------------------------------------------------------------
\* What a backup, a restore, a rehearsal or an adoption publishes is one state
\* its root was in, whole: never the database of one moment with the files of
\* another, whoever wrote in the meantime and wherever a command was killed.
PublishedIsAState ==
    /\ backup # None => backup \in past
    /\ restored # None => restored = backup
    /\ bundle # None => bundle.preupgrade \in sourcePast
    /\ adopted # None => [adopted EXCEPT !.marker = FALSE, !.schema = 11] \in sourcePast

=============================================================================
