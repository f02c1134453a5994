------------------------------- MODULE Delivery -------------------------------
(***************************************************************************)
(* Delivering a student's sources to the teacher's server: the outbox of   *)
(* scripts/student_delivery_client.py, the HTTP routes of                  *)
(* scripts/course_board_server.py (dispatch_student_delivery) and the      *)
(* receipts of scripts/student_delivery_store.py, for one assignment and   *)
(* one student, so for one directory on each side.                         *)
(*                                                                         *)
(* A package is its attempt id and the contract it was made under: equal   *)
(* packages have equal digests, and new_attempt_id never repeats, so the   *)
(* sources themselves need no value.  A contract stands for the pair of    *)
(* digests, which cover the assignment record and therefore its deadline.  *)
(* Authentication, which the context loader repeats, is module TuiPairing. *)
(*                                                                         *)
(* Faults (a failed fsync, a crash, a power loss, a lost answer, an early  *)
(* timeout) may happen at any step, MaxFaults times in a behaviour.        *)
(***************************************************************************)
EXTENDS Naturals, FiniteSets, Faults

CONSTANTS
    Contracts,      \* contracts the teacher may give the assignment
    MaxId,          \* bound on the attempt ids generated
    Delivered,      \* attempts received and confirmed at the start
    Workers,        \* threads of the server
    Routes,         \* the POST routes in use: a subset of {"deliver", "final"}
    MAX_ATTEMPTS,   \* quota of receipts, and of archived packages
    ClientPowerLoss, \* whether the student's machine may lose power
    MaxRevision,    \* bound on the expected revisions clients ask with
    MaxFaults       \* bound on the faults of a behaviour

\* new_attempt_id takes them from the clock: each is new.
AttemptIds == 1 .. MaxId

Package == [id : AttemptIds, contract : Contracts]

\* _receipt refuses any other sequence.
Receipt == [pkg : Package, sequence : 1 .. MAX_ATTEMPTS]

Marker == [id : AttemptIds, revision : Nat]

Slot == [pkg : Package, receipt : Receipt \cup {None}]

DeliverRequest == [route : {"deliver"}, pkg : Package, live : BOOLEAN]

FinalRequest == [route : {"final"}, id : AttemptIds, expected : Nat]

ASSUME DeliveryAssumption ==
    /\ MAX_ATTEMPTS \in Nat \ {0}
    /\ MaxId \in Nat
    /\ Delivered \in 0 .. MaxId /\ Delivered <= MAX_ATTEMPTS
    /\ MaxRevision \in Nat
    /\ MaxFaults \in Nat
    /\ Routes \subseteq {"deliver", "final"}
    /\ ClientPowerLoss \in BOOLEAN
    /\ None \notin Workers
    /\ None \notin Package \cup Receipt \cup Marker \cup Slot
    /\ None \notin DeliverRequest \cup FinalRequest

VARIABLES
    contract,   \* the assignment's current contract
    closed,     \* contracts whose deadline, closes_at, has passed
    archive,    \* directory of archived contracts (teacher-delivery-grading)
    store,      \* directory of the receipts and of final.json
    holder,     \* worker inside the lifecycle and partition locks, or None
    work,       \* what each worker is doing
    net,        \* requests under way to the server
    known,      \* contract in the manifest the client loaded last
    box,        \* the client's directory: active slot and archived packages
    client,     \* where the client is in send_assignment
    lastId,     \* the attempt id generated last
    \* History variables, read by no action:
    answered,   \* receipts and markers the server has answered with
    sent,       \* packages the client has sent
    confirmed   \* packages whose receipt the client has saved

serverVars == <<contract, closed, archive, store, holder, work, answered>>

clientVars == <<known, box, client, lastId, sent, confirmed>>

vars == <<serverVars, clientVars, net, faults>>

Idle == [pc |-> "idle", req |-> None, new |-> None]

Resting == [pc |-> "idle", pkg |-> None, receipt |-> None]

StoreContent == [receipts : SUBSET Receipt, final : Marker \cup {None}]

BoxContent == [slot : Slot \cup {None}, archived : SUBSET Package]

IsDirectory(d, Content) ==
    /\ d.now \in Content
    /\ d.now \in d.after
    /\ \A c \in d.after : c \in Content

TypeOK ==
    /\ contract \in Contracts /\ closed \subseteq Contracts
    /\ IsDirectory(archive, SUBSET Contracts)
    /\ IsDirectory(store, StoreContent)
    /\ IsDirectory(box, BoxContent)
    /\ holder \in Workers \cup {None}
    /\ \A w \in Workers :
        /\ work[w].pc \in {"idle", "wait", "load", "archived", "rearchived",
                           "prepare", "decide", "publish", "sync", "resync", "reply"}
        /\ work[w].req \in DeliverRequest \cup FinalRequest \cup {None}
        /\ work[w].new \in Receipt \cup Marker \cup {None}
    /\ net \subseteq DeliverRequest \cup FinalRequest
    /\ known \in Contracts
    /\ client.pc \in {"idle", "archive", "archiveSync", "snapshot", "slotSync",
                      "send", "wait", "save", "saveSync"}
    /\ client.pkg \in Package \cup {None} /\ client.receipt \in Receipt \cup {None}
    /\ lastId \in 0 .. MaxId
    /\ faults \in 0 .. MaxFaults

\* The receipts of the first n attempts, all under contract c.
FirstReceipts(n, c) ==
    {[pkg |-> [id |-> i, contract |-> c], sequence |-> i] : i \in 1 .. n}

\* The client's slot after delivering n attempts under contract c.
SlotAfter(n, c) ==
    IF n = 0 THEN None
    ELSE LET pkg == [id |-> n, contract |-> c] IN
         [pkg |-> pkg, receipt |-> [pkg |-> pkg, sequence |-> n]]

Init ==
    /\ contract \in Contracts
    /\ closed = {}
    /\ archive = OnDisk(IF Delivered = 0 THEN {} ELSE {contract})
    /\ store = OnDisk([receipts |-> FirstReceipts(Delivered, contract), final |-> None])
    /\ holder = None
    /\ work = [w \in Workers |-> Idle]
    /\ net = {}
    /\ known = contract
    /\ box = OnDisk([slot |-> SlotAfter(Delivered, contract), archived |-> {}])
    /\ client = Resting
    /\ lastId = Delivered
    /\ faults = 0
    /\ answered = FirstReceipts(Delivered, contract)
    /\ sent = {r.pkg : r \in answered}
    /\ confirmed = sent

-----------------------------------------------------------------------------
(***************************************************************************)
(* The server                                                              *)
(***************************************************************************)

At(w, label) == work[w].pc = label

Goto(w, label) == work' = [work EXCEPT ![w].pc = label]

\* The handler leaves the locks with a record to answer with, or an error (None).
Leave(w, record) ==
    /\ work' = [work EXCEPT ![w].pc = "reply", ![w].new = record]
    /\ holder' = None

Accept(w, m) ==
    /\ At(w, "idle")
    /\ m \in net
    /\ net' = net \ {m}
    /\ work' = [work EXCEPT ![w] = [pc |-> "wait", req |-> m, new |-> None]]
    /\ UNCHANGED <<contract, closed, archive, store, holder, answered, clientVars>>
    /\ NoFault

\* course_storage_lock and assignment_operation_lock, which every writer of the
\* assignment takes too, then report_history_lock: held until the handler leaves.
Acquire(w) ==
    /\ At(w, "wait")
    /\ holder = None
    /\ holder' = w
    /\ Goto(w, "load")
    /\ UNCHANGED <<contract, closed, archive, store, answered, clientVars, net>>
    /\ NoFault

\* context_loader: a POST of a package first archives the current revision of
\* the contract, an exclusive write, or finds it there.  The loader runs again
\* before and inside the partition's lock; the contract cannot have changed.
Load(w) ==
    /\ At(w, "load")
    /\ IF work[w].req.route = "final"
       THEN Goto(w, "prepare") /\ UNCHANGED archive
       ELSE IF contract \in archive.now
       THEN Goto(w, "rearchived") /\ UNCHANGED archive
       ELSE /\ archive' = Changed(archive, archive.now \cup {contract})
            /\ Goto(w, "archived")
    /\ UNCHANGED <<contract, closed, store, holder, answered, clientVars, net>>
    /\ NoFault

SyncArchive(w) ==
    /\ At(w, "archived") \/ At(w, "rearchived")
    /\ archive' = Synced(archive)
    /\ Goto(w, "prepare")
    /\ UNCHANGED <<contract, closed, store, holder, answered, clientVars, net>>
    /\ NoFault

\* A failed sync takes the new file back, not one that was there before.
SyncArchiveFails(w) ==
    /\ At(w, "archived") \/ At(w, "rearchived")
    /\ archive' = IF At(w, "archived") THEN Changed(archive, archive.now \ {contract})
                  ELSE archive
    /\ Leave(w, None)
    /\ UNCHANGED <<contract, closed, store, answered, clientVars, net>>
    /\ Fault(MaxFaults)

\* _prepare_directory
Prepare(w) ==
    /\ At(w, "prepare")
    /\ store' = Synced(store)
    /\ Goto(w, "decide")
    /\ UNCHANGED <<contract, closed, archive, holder, answered, clientVars, net>>
    /\ NoFault

PrepareFails(w) ==
    /\ At(w, "prepare")
    /\ Leave(w, None)
    /\ UNCHANGED <<contract, closed, archive, store, answered, clientVars, net>>
    /\ Fault(MaxFaults)

\* The receipts of an attempt: one file, so at most one.
ReceiptsOf(id) == {r \in store.now.receipts : r.pkg.id = id}

\* A decision: the record to write, the one to answer again, or an error.
Decision(verdict, record) == [verdict |-> verdict, record |-> record]

\* Mutant of ReceiveDecision: the deadline and the contract come first.
MutReceiveDecision(pkg) ==
    LET old == ReceiptsOf(pkg.id)
        count == Cardinality(store.now.receipts)
    IN
    IF contract \in closed \/ pkg.contract # contract \/ count >= MAX_ATTEMPTS
    THEN Decision("error", None)
    ELSE IF old # {} THEN Decision("again", CHOOSE r \in old : TRUE)
    ELSE Decision("write", [pkg |-> pkg, sequence |-> count + 1])

\* receive: an attempt already received is answered again whatever the deadline,
\* the contract and the quota are now.
ReceiveDecision(pkg) ==
    LET old == ReceiptsOf(pkg.id)
        count == Cardinality(store.now.receipts)
    IN
    IF old # {} THEN
        LET r == CHOOSE r \in old : TRUE IN
        IF r.pkg = pkg THEN Decision("again", r) ELSE Decision("error", None)
    ELSE IF contract \in closed \/ pkg.contract # contract \/ count >= MAX_ATTEMPTS
    THEN Decision("error", None)
    ELSE Decision("write", [pkg |-> pkg, sequence |-> count + 1])

Revision == IF store.now.final = None THEN 0 ELSE store.now.final.revision

\* Mutant of FinalDecision: the revision is not compared with the expected one.
MutFinalDecision(id, expected) ==
    IF ReceiptsOf(id) = {} \/ contract \in closed THEN Decision("error", None)
    ELSE Decision("write", [id |-> id, revision |-> expected + 1])

\* select_final: compare and set on the revision, but the same selection again
\* gives the marker already written.
FinalDecision(id, expected) ==
    LET receipts == ReceiptsOf(id)
        old == store.now.final
    IN
    IF receipts = {} THEN Decision("error", None)
    ELSE IF old # None /\ Revision = expected + 1 /\ old.id = id
    THEN Decision("again", old)
    ELSE IF \/ Revision # expected
            \/ contract \in closed
            \/ \E r \in receipts : r.pkg.contract # contract
    THEN Decision("error", None)
    ELSE Decision("write", [id |-> id, revision |-> Revision + 1])

Decide(w) ==
    LET m == work[w].req
        d == IF m.route = "deliver" THEN ReceiveDecision(m.pkg)
             ELSE FinalDecision(m.id, m.expected)
    IN
    /\ At(w, "decide")
    /\ IF d.verdict = "error" THEN Leave(w, None)
       ELSE /\ work' = [work EXCEPT
                ![w].pc = IF d.verdict = "write" THEN "publish" ELSE "resync",
                ![w].new = d.record]
            /\ UNCHANGED holder
    /\ UNCHANGED <<contract, closed, archive, store, answered, clientVars, net>>
    /\ NoFault

\* write_json_exclusive of a receipt, write_json_atomic of final.json: the file
\* is there for every reader.
Publish(w) ==
    LET new == work[w].new
        content == store.now
    IN
    /\ At(w, "publish")
    /\ store' = Changed(store,
        IF work[w].req.route = "deliver"
        THEN [content EXCEPT !.receipts = @ \cup {new}]
        ELSE [content EXCEPT !.final = new])
    /\ Goto(w, "sync")
    /\ UNCHANGED <<contract, closed, archive, holder, answered, clientVars, net>>
    /\ NoFault

\* Mutant of SyncStore: the record is answered without the sync.
MutSyncStore(w) ==
    /\ At(w, "sync") \/ At(w, "resync")
    /\ Leave(w, work[w].new)
    /\ UNCHANGED <<contract, closed, archive, store, answered, clientVars, net>>
    /\ NoFault

SyncStore(w) ==
    /\ At(w, "sync") \/ At(w, "resync")
    /\ store' = Synced(store)
    /\ Leave(w, work[w].new)
    /\ UNCHANGED <<contract, closed, archive, answered, clientVars, net>>
    /\ NoFault

\* A failed sync takes a new receipt back, but neither one that was there before
\* nor a replaced final.json.
SyncStoreFails(w) ==
    LET content == store.now IN
    /\ At(w, "sync") \/ At(w, "resync")
    /\ store' = IF At(w, "sync") /\ work[w].req.route = "deliver"
                THEN Changed(store, [content EXCEPT !.receipts = @ \ {work[w].new}])
                ELSE store
    /\ Leave(w, None)
    /\ UNCHANGED <<contract, closed, archive, answered, clientVars, net>>
    /\ Fault(MaxFaults)

\* Whether the client still waits for the answer to the request of w.
Awaited(w) == work[w].req.route = "deliver" /\ work[w].req.live

\* The answer, after the locks.  Of a receipt the client keeps only one that
\* names its own attempt and digest; anything else is an error to it.
Reply(w) ==
    LET record == work[w].new IN
    /\ At(w, "reply")
    /\ work' = [work EXCEPT ![w] = Idle]
    /\ answered' = IF record = None THEN answered ELSE answered \cup {record}
    /\ client' = IF ~Awaited(w) THEN client
                 ELSE IF record = None \/ record.pkg # client.pkg THEN Resting
                 ELSE [client EXCEPT !.pc = "save", !.receipt = record]
    /\ UNCHANGED <<contract, closed, archive, store, holder, net,
                   known, box, lastId, sent, confirmed>>
    /\ NoFault

\* The connection breaks while the answer is on its way.
ReplyLost(w) ==
    /\ At(w, "reply")
    /\ work' = [work EXCEPT ![w] = Idle]
    /\ answered' = IF work[w].new = None THEN answered ELSE answered \cup {work[w].new}
    /\ client' = IF Awaited(w) THEN Resting ELSE client
    /\ UNCHANGED <<contract, closed, archive, store, holder, net,
                   known, box, lastId, sent, confirmed>>
    /\ Fault(MaxFaults)

\* The server process ends: its locks go with it, and the files stay as they
\* are, or as a power loss leaves them.
ServerStops(s, a) ==
    /\ work' = [w \in Workers |-> Idle]
    /\ holder' = None
    /\ store' = s
    /\ archive' = a
    /\ UNCHANGED <<contract, closed, answered, clientVars, net>>
    /\ Fault(MaxFaults)

ServerCrash == holder # None /\ ServerStops(store, archive)

ServerPowerLoss ==
    \E s \in store.after, a \in archive.after : ServerStops(OnDisk(s), OnDisk(a))

\* The teacher edits the assignment or its activity, under the same locks.
EditAssignment(c) ==
    /\ holder = None
    /\ c # contract
    /\ contract' = c
    /\ UNCHANGED <<closed, archive, store, holder, work, answered, clientVars, net>>
    /\ NoFault

DeadlinePasses(c) ==
    /\ c \notin closed
    /\ closed' = closed \cup {c}
    /\ UNCHANGED <<contract, archive, store, holder, work, answered, clientVars, net>>
    /\ NoFault

ServerStep(w) ==
    \/ \E m \in net : Accept(w, m)
    \/ Acquire(w) \/ Load(w) \/ SyncArchive(w) \/ Prepare(w) \/ Decide(w)
    \/ Publish(w) \/ SyncStore(w) \/ Reply(w)

ServerFault(w) ==
    SyncArchiveFails(w) \/ PrepareFails(w) \/ SyncStoreFails(w) \/ ReplyLost(w)

-----------------------------------------------------------------------------
(***************************************************************************)
(* The client: send_assignment, under the lock of its directory            *)
(***************************************************************************)

\* The client no longer waits: what it sent goes on without it.
Forget ==
    /\ net' = {IF m.route = "deliver" THEN [m EXCEPT !.live = FALSE] ELSE m : m \in net}
    /\ work' = [w \in Workers |->
                   IF ~At(w, "idle") /\ Awaited(w)
                   THEN [work[w] EXCEPT !.req.live = FALSE] ELSE work[w]]

ClientOnly == UNCHANGED <<serverVars, net>>

\* enrich_payload: a new manifest.
Refresh ==
    /\ client.pc = "idle"
    /\ known # contract
    /\ known' = contract
    /\ ClientOnly
    /\ UNCHANGED <<box, client, lastId, sent, confirmed>>
    /\ NoFault

\* Nothing waits for a receipt: the next call makes a new snapshot.
SlotIsFree == box.now.slot = None \/ box.now.slot.receipt # None

\* "i" of the menu: send again what has no receipt, else make a new snapshot
\* (MaxId bounds them).
Send ==
    /\ client.pc = "idle"
    /\ IF SlotIsFree
       THEN lastId < MaxId /\ client' = [client EXCEPT !.pc = "snapshot"]
       ELSE client' = [client EXCEPT !.pc = "send", !.pkg = box.now.slot.pkg]
    /\ ClientOnly
    /\ UNCHANGED <<known, box, lastId, sent, confirmed>>
    /\ NoFault

\* "n" of the menu: a package without receipt is archived first, up to a quota.
SendNew ==
    /\ client.pc = "idle"
    /\ ~SlotIsFree
    /\ lastId < MaxId
    /\ Cardinality(box.now.archived) < MAX_ATTEMPTS
    /\ client' = [client EXCEPT !.pc = "archive", !.pkg = box.now.slot.pkg]
    /\ ClientOnly
    /\ UNCHANGED <<known, box, lastId, sent, confirmed>>
    /\ NoFault

\* Mutant of ArchivePackage: the package without receipt is dropped.
MutArchivePackage ==
    /\ client.pc = "archive"
    /\ client' = [client EXCEPT !.pc = "snapshot"]
    /\ ClientOnly
    /\ UNCHANGED <<known, box, lastId, sent, confirmed>>
    /\ NoFault

\* write_json_exclusive of the archived package; one left by an earlier, broken
\* call is the same package and is kept.
ArchivePackage ==
    /\ client.pc = "archive"
    /\ IF client.pkg \in box.now.archived
       THEN /\ client' = [client EXCEPT !.pc = "snapshot"]
            /\ UNCHANGED box
       ELSE /\ box' = Changed(box, [box.now EXCEPT !.archived = @ \cup {client.pkg}])
            /\ client' = [client EXCEPT !.pc = "archiveSync"]
    /\ ClientOnly
    /\ UNCHANGED <<known, lastId, sent, confirmed>>
    /\ NoFault

SyncArchived ==
    /\ client.pc = "archiveSync"
    /\ box' = Synced(box)
    /\ client' = [client EXCEPT !.pc = "snapshot"]
    /\ ClientOnly
    /\ UNCHANGED <<known, lastId, sent, confirmed>>
    /\ NoFault

SyncArchivedFails ==
    /\ client.pc = "archiveSync"
    /\ box' = Changed(box, [box.now EXCEPT !.archived = @ \ {client.pkg}])
    /\ client' = Resting
    /\ ClientOnly
    /\ UNCHANGED <<known, lastId, sent, confirmed>>
    /\ Fault(MaxFaults)

\* snapshot_package, under the contract the client knows, replaces the slot.
Snapshot ==
    LET pkg == [id |-> lastId + 1, contract |-> known] IN
    /\ client.pc = "snapshot"
    /\ lastId' = lastId + 1
    /\ box' = Changed(box, [box.now EXCEPT !.slot = [pkg |-> pkg, receipt |-> None]])
    /\ client' = [pc |-> "slotSync", pkg |-> pkg, receipt |-> None]
    /\ ClientOnly
    /\ UNCHANGED <<known, sent, confirmed>>
    /\ NoFault

\* The sync at the end of write_json_atomic, which leaves the new slot in place
\* also when it fails.
SyncSlot ==
    /\ client.pc \in {"slotSync", "saveSync"}
    /\ box' = Synced(box)
    /\ client' = IF client.pc = "slotSync" THEN [client EXCEPT !.pc = "send"] ELSE Resting
    /\ ClientOnly
    /\ UNCHANGED <<known, lastId, sent, confirmed>>
    /\ NoFault

SyncSlotFails ==
    /\ client.pc \in {"slotSync", "saveSync"}
    /\ client' = Resting
    /\ ClientOnly
    /\ UNCHANGED <<known, box, lastId, sent, confirmed>>
    /\ Fault(MaxFaults)

Transmit ==
    /\ client.pc = "send"
    /\ "deliver" \in Routes
    /\ net' = net \cup {[route |-> "deliver", pkg |-> client.pkg, live |-> TRUE]}
    /\ client' = [client EXCEPT !.pc = "wait"]
    /\ sent' = sent \cup {client.pkg}
    /\ UNCHANGED <<serverVars, known, box, lastId, confirmed>>
    /\ NoFault

\* The request or its handler is gone without an answer, or is only too slow.
InFlight ==
    \/ \E m \in net : m.route = "deliver" /\ m.live
    \/ \E w \in Workers : ~At(w, "idle") /\ Awaited(w)

Timeout ==
    /\ client.pc = "wait"
    /\ IF InFlight THEN Fault(MaxFaults) ELSE NoFault
    /\ client' = Resting
    /\ Forget
    /\ UNCHANGED <<contract, closed, archive, store, holder, answered,
                   known, box, lastId, sent, confirmed>>

SaveReceipt ==
    /\ client.pc = "save"
    /\ box' = Changed(box, [box.now EXCEPT !.slot =
                               [pkg |-> client.pkg, receipt |-> client.receipt]])
    /\ client' = [client EXCEPT !.pc = "saveSync"]
    /\ confirmed' = confirmed \cup {client.pkg}
    /\ ClientOnly
    /\ UNCHANGED <<known, lastId, sent>>
    /\ NoFault

\* The terminal is closed or killed in the middle of a call, or its machine
\* loses power.
ClientStops(b) ==
    /\ client' = Resting
    /\ box' = b
    /\ Forget
    /\ UNCHANGED <<contract, closed, archive, store, holder, answered,
                   known, lastId, sent, confirmed>>
    /\ Fault(MaxFaults)

ClientCrash == client.pc # "idle" /\ ClientStops(box)

ClientLosesPower == ClientPowerLoss /\ \E b \in box.after : ClientStops(OnDisk(b))

\* "t": some terminal of the student selects the final attempt, expecting the
\* revision it saw last, however old.
SelectFinal(id, expected) ==
    /\ "final" \in Routes
    /\ id \in 1 .. lastId
    /\ \A m \in net : m.route # "final"
    /\ net' = net \cup {[route |-> "final", id |-> id, expected |-> expected]}
    /\ UNCHANGED <<serverVars, clientVars>>
    /\ NoFault

RequestLost(m) ==
    /\ m \in net
    /\ net' = net \ {m}
    /\ UNCHANGED <<serverVars, clientVars>>
    /\ Fault(MaxFaults)

ClientStep ==
    \/ Send \/ ArchivePackage \/ SyncArchived \/ Snapshot
    \/ SyncSlot \/ Transmit \/ SaveReceipt \/ Timeout

Next ==
    \/ \E w \in Workers : ServerStep(w) \/ ServerFault(w)
    \/ ServerCrash \/ ServerPowerLoss
    \/ \E c \in Contracts : EditAssignment(c) \/ DeadlinePasses(c)
    \/ Refresh \/ SendNew \/ ClientStep
    \/ SyncArchivedFails \/ SyncSlotFails \/ ClientCrash \/ ClientLosesPower
    \/ \E id \in AttemptIds, n \in 0 .. MaxRevision : SelectFinal(id, n)
    \/ \E m \in net : RequestLost(m)

Spec == Init /\ [][Next]_vars

\* The server's threads run, the lock is granted to one that waits again and
\* again, and the student sends again ("i") while there is no receipt.
Fairness ==
    /\ \A w \in Workers : WF_vars(ServerStep(w)) /\ SF_vars(Acquire(w))
    /\ WF_vars(ClientStep)

FairSpec == Spec /\ Fairness

-----------------------------------------------------------------------------
(***************************************************************************)
(* Properties                                                              *)
(***************************************************************************)

\* The receipts are numbered 1, 2, ... without gaps or repetitions, and one
\* attempt has one receipt, in the directory as it is and as any power loss may
\* leave it: otherwise _history raises for ever and nothing is delivered again.
HistoryIsReadable ==
    \A c \in store.after :
        /\ {r.sequence : r \in c.receipts} = 1 .. Cardinality(c.receipts)
        /\ Cardinality({r.pkg.id : r \in c.receipts}) = Cardinality(c.receipts)

\* A receipt the server answered with, and the one a client has saved, is on
\* disk unchanged whatever faults come after (receive syncs before it returns,
\* also when it repeats an old answer).
AnsweredIsDurable ==
    \A c \in store.after :
        /\ \A r \in answered : r \in Receipt => r \in c.receipts
        /\ \A b \in box.after :
            (b.slot # None /\ b.slot.receipt # None) => b.slot.receipt \in c.receipts

\* A package that was sent and has no saved receipt is still in the client's
\* slot or archive, so it can be sent again (send_assignment archives before it
\* replaces the slot).  What every process sees: after a crash of any process,
\* not after a power loss of the client.
UnconfirmedIsKept ==
    \A pkg \in sent \ confirmed :
        \/ box.now.slot # None /\ box.now.slot.pkg = pkg
        \/ pkg \in box.now.archived

\* The revision of the contract a receipt was made under is archived, on disk
\* as well: a received attempt can always be graded with its own tests
\* (dispatch_student_delivery archives it before the receipt is written).
ReceiptHasRevision ==
    \A c \in store.after, k \in archive.after :
        \A r \in c.receipts : r.pkg.contract \in k

\* What a receipt stands for: a history that can be read, an answer that is on
\* disk, and the contract to grade the attempt with.
ReceiptsAreSound == TypeOK /\ HistoryIsReadable /\ AnsweredIsDurable /\ ReceiptHasRevision

\* Nothing is lost on either side of a delivery.
DeliveriesAreKept == ReceiptsAreSound /\ UnconfirmedIsKept

\* final.json names a received attempt, also after a power loss: _final would
\* refuse anything else.
FinalIsReceived ==
    \A c \in store.after :
        c.final # None => \E r \in c.receipts : r.pkg.id = c.final.id

\* Two answered selections with one revision are the same selection, and no
\* answered revision is lost: compare and set on expected_revision.
FinalsAreOrdered ==
    LET finals == {m \in answered : m \in Marker} IN
    /\ \A m1, m2 \in finals : m1.revision = m2.revision => m1 = m2
    /\ \A m \in finals, c \in store.after :
        /\ c.final # None
        /\ c.final.revision >= m.revision
        /\ c.final.revision = m.revision => c.final = m

\* The final selection is of a received attempt, and the last one answered.
FinalSelectionIsSound == FinalIsReceived /\ FinalsAreOrdered

\* If the server holds the receipt of the package in the slot, the client gets
\* it in the end, whatever becomes of the deadline and the contract, unless the
\* student archives the package or a power loss takes the receipt before it was
\* ever answered: a lost answer is recovered by sending again.
StoredIsConfirmed ==
    \A id \in AttemptIds :
        LET Waiting == ~SlotIsFree /\ box.now.slot.pkg.id = id
            Stored == ReceiptsOf(id) # {}
        IN (Waiting /\ Stored) ~> (~Waiting \/ ~Stored)

=============================================================================
