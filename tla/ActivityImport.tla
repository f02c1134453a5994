---------------------------- MODULE ActivityImport ----------------------------
(***************************************************************************)
(* Importing activities from a public course: the previews and the         *)
(* publication of scripts/course_activity_import.py, and the revision      *)
(* registry of scripts/activity_revision_registry.py.                      *)
(*                                                                         *)
(* A source is one commit of one repository; it gives every activity it    *)
(* selects a content of its own, so a revision is the activity, the source *)
(* and the package (a directory of revisions/) that holds its files.       *)
(* Acquiring the files over the network is external: a preview starts with *)
(* the files in memory.                                                    *)
(***************************************************************************)
EXTENDS Faults, FiniteSets

CONSTANTS
    Activities,     \* activity ids
    Sources,        \* commits a teacher may import from
    RepositoryOf,   \* the repository of each commit
    Tokens,         \* preview tokens: each is issued once
    Slots,          \* _SLOTS, the requests served at a time
    MAX_PREVIEWS,   \* previews kept at a time
    MaxPackage,     \* bound on the packages written
    ImportFaults    \* bound on the failures

\* No slot has the name that stands for nobody holding the course lock.
ASSUME ImportAssumption == None \notin Slots

VARIABLES
    registry,       \* directory of registry.txt
    packages,       \* directory revisions/: the revisions whose files it holds
    localDrafts,    \* activities that also exist as a local draft
    edited,         \* revisions whose files were changed by hand
    previews,       \* _PREVIEWS, in memory
    issued,         \* tokens given out
    slot,           \* what each slot is doing
    courseLock      \* slot holding course_storage_lock, or None

importState == << registry, packages, localDrafts, edited, previews, issued, slot,
                  courseLock >>
importVars == << importState, faults >>

Revision == [id : Activities, source : Sources, package : 1 .. MaxPackage]

\* The registry before the first import.
EmptyRegistry == [active |-> [a \in Activities |-> None], history |-> {}, operations |-> {}]

IdleSlot == [pc |-> "idle"]

ImportInit ==
    /\ registry = OnDisk(EmptyRegistry)
    /\ packages = OnDisk({})
    /\ localDrafts = {} /\ edited = {}
    /\ previews = [t \in Tokens |-> None]
    /\ issued = {}
    /\ slot = [s \in Slots |-> IdleSlot]
    /\ courseLock = None
    /\ faults = 0

-----------------------------------------------------------------------------

\* revisions.verify: the files are there, with the digests of the registry.
Verified(r) == r \in packages.now /\ r \notin edited

\* _comparison of a selected activity with the registry snapshot, with the
\* local catalog (the drafts; the active revision is in the snapshot) and with
\* the files of the revision it would supersede.
Comparison(snap, local, source, a) ==
    LET previous == snap.active[a] IN
    CASE a \in local -> "conflict"
      [] previous = None -> "new"
      [] RepositoryOf[previous.source] # RepositoryOf[source] -> "conflict"
      [] ~Verified(previous) -> "conflict"
      [] OTHER -> IF previous.source = source THEN "unchanged" ELSE "update"

\* preview, up to the snapshots of the registry and of the local catalog, taken
\* under the course lock.
preview(s, source, ids) ==
    /\ slot[s].pc = "idle" /\ courseLock = None
    /\ slot' = [slot EXCEPT ![s] = [pc |-> "compare", source |-> source, ids |-> ids,
                                    snapshot |-> registry.now, local |-> localDrafts]]
    /\ NoFault
    /\ UNCHANGED <<registry, packages, localDrafts, edited, previews, issued, courseLock>>

\* The rest of preview, without the lock: the comparison reads the files that
\* are on disk by now.  A full table of previews refuses the request.
preview_compare(s) ==
    LET p == slot[s]
        Open == {t \in Tokens : previews[t] # None} IN
    /\ p.pc = "compare"
    /\ slot' = [slot EXCEPT ![s] = IdleSlot]
    /\ \/ /\ Cardinality(Open) < MAX_PREVIEWS
          /\ \E t \in Tokens \ issued :
              /\ issued' = issued \cup {t}
              /\ previews' = [previews EXCEPT ![t] =
                    [source |-> p.source, snapshot |-> p.snapshot,
                     status |-> [a \in p.ids |-> Comparison(p.snapshot, p.local, p.source, a)]]]
       \/ /\ Cardinality(Open) >= MAX_PREVIEWS \/ issued = Tokens
          /\ UNCHANGED <<issued, previews>>
    /\ NoFault
    /\ UNCHANGED <<registry, packages, localDrafts, edited, courseLock>>

\* handle's "discard", and _prune of a preview that expired.
discard(t) ==
    /\ previews[t] # None
    /\ previews' = [previews EXCEPT ![t] = None]
    /\ NoFault
    /\ UNCHANGED <<registry, packages, localDrafts, edited, issued, slot, courseLock>>

\* The answer publish gives before it changes anything, or "go".
PublishVerdict(t) ==
    LET b == previews[t] IN
    CASE t \in registry.now.operations -> "already_applied"
      [] b = None -> "expired"
      [] \E a \in DOMAIN b.status : b.status[a] = "conflict" -> "conflict"
      [] registry.now # b.snapshot -> "changed"
      [] \E a \in DOMAIN b.status :
            Comparison(registry.now, localDrafts, b.source, a) # b.status[a] -> "changed"
      [] OTHER -> "go"

\* publish under course_storage_lock, up to the rename of the new package: the
\* revisions to activate, and the registry that will name them.
publish(s, t) ==
    LET verdict == PublishVerdict(t)
        b == previews[t]
        changed == {a \in DOMAIN b.status : b.status[a] # "unchanged"}
        number == 1 + Cardinality({r.package : r \in packages.now})
        added == {[id |-> a, source |-> b.source, package |-> number] : a \in changed}
        new == [active |-> [a \in Activities |->
                              IF a \in changed
                              THEN [id |-> a, source |-> b.source, package |-> number]
                              ELSE registry.now.active[a]],
                history |-> registry.now.history \cup added,
                operations |-> registry.now.operations \cup {t}] IN
    /\ slot[s].pc = "idle" /\ courseLock = None /\ t \in issued
    /\ \/ /\ verdict = "go"
          /\ changed # {} => number <= MaxPackage
          /\ courseLock' = s
          /\ slot' = [slot EXCEPT ![s] =
                        [pc |-> IF changed = {} THEN "replace" ELSE "syncPackage",
                         token |-> t, registry |-> new]]
          /\ packages' = IF changed = {} THEN packages
                         ELSE Changed(packages, packages.now \cup added)
       \/ /\ verdict = "already_applied"
          /\ UNCHANGED <<courseLock, slot, packages>>
    /\ NoFault
    /\ UNCHANGED <<registry, localDrafts, edited, previews, issued>>

\* The request ends: the lock and the slot are free.
LeaveImport(s) ==
    /\ courseLock' = None
    /\ slot' = [slot EXCEPT ![s] = IdleSlot]

\* Mutant of publish_sync_package: the registry is written without the sync.
MutPublishSyncPackage(s) ==
    /\ slot[s].pc = "syncPackage"
    /\ NoFault
    /\ slot' = [slot EXCEPT ![s].pc = "replace"]
    /\ UNCHANGED <<registry, packages, localDrafts, edited, previews, issued, courseLock>>

\* sync_directory of revisions/, before the registry may name the package.
publish_sync_package(s) ==
    /\ slot[s].pc = "syncPackage"
    /\ \/ /\ NoFault
          /\ packages' = Synced(packages)
          /\ slot' = [slot EXCEPT ![s].pc = "replace"]
          /\ UNCHANGED courseLock
       \/ /\ Fault(ImportFaults)
          /\ LeaveImport(s)
          /\ UNCHANGED packages
    /\ UNCHANGED <<registry, localDrafts, edited, previews, issued>>

\* revisions.write: os.replace of the registry, the commit point.
write(s) ==
    /\ slot[s].pc = "replace"
    /\ \/ /\ NoFault
          /\ registry' = Changed(registry, slot[s].registry)
          /\ slot' = [slot EXCEPT ![s].pc = "syncRegistry"]
          /\ UNCHANGED courseLock
       \/ /\ Fault(ImportFaults)
          /\ LeaveImport(s)
          /\ UNCHANGED registry
    /\ UNCHANGED <<packages, localDrafts, edited, previews, issued>>

\* The sync that ends revisions.write, then the preview is dropped and the
\* result answered.  When the sync raises the preview stays: a retry finds its
\* token among the registry's operations.
publish_finish(s) ==
    /\ slot[s].pc = "syncRegistry"
    /\ \/ /\ NoFault
          /\ registry' = Synced(registry)
          /\ previews' = [previews EXCEPT ![slot[s].token] = None]
       \/ /\ Fault(ImportFaults)
          /\ UNCHANGED <<registry, previews>>
    /\ LeaveImport(s)
    /\ UNCHANGED <<packages, localDrafts, edited, issued>>

\* A local draft takes an id (save_activity), a file of a revision is edited.
LocalChange ==
    /\ courseLock = None
    /\ \/ \E a \in Activities \ localDrafts : localDrafts' = localDrafts \cup {a} /\ UNCHANGED edited
       \/ \E r \in packages.now \ edited : edited' = edited \cup {r} /\ UNCHANGED localDrafts
    /\ NoFault
    /\ UNCHANGED <<registry, packages, previews, issued, slot, courseLock>>

\* The server stops, or its machine loses power, and starts again: previews
\* and slots are gone, the directories hold what was on disk.
ImportRestart ==
    /\ \/ UNCHANGED <<registry, packages>>
       \/ /\ \E c \in registry.after : registry' = OnDisk(c)
          /\ \E c \in packages.after : packages' = OnDisk(c)
    /\ previews' = [t \in Tokens |-> None]
    /\ slot' = [s \in Slots |-> IdleSlot]
    /\ courseLock' = None
    /\ Fault(ImportFaults)
    /\ UNCHANGED <<localDrafts, edited, issued>>

ImportNext ==
    \/ \E s \in Slots :
        \/ \E source \in Sources, ids \in SUBSET Activities \ {{}} : preview(s, source, ids)
        \/ preview_compare(s)
        \/ \E t \in Tokens : publish(s, t)
        \/ publish_sync_package(s)
        \/ write(s)
        \/ publish_finish(s)
    \/ \E t \in Tokens : discard(t)
    \/ LocalChange
    \/ ImportRestart

ImportSpec == ImportInit /\ [][ImportNext]_importVars

-----------------------------------------------------------------------------

\* Whatever a power loss leaves, the registry names no revision whose files
\* are missing: the package is on disk before the registry can name it, so a
\* reader of the catalog, of an assignment or of the history always finds it
\* (publish syncs revisions/ before revisions.write replaces the registry).
HistoryIsOnDisk ==
    \A c \in registry.after, p \in packages.after :
        /\ c.history \subseteq p
        /\ \A a \in Activities : c.active[a] # None => c.active[a] \in c.history

=============================================================================
