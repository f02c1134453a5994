--------------------------- MODULE DeliveryProofs ---------------------------
(***************************************************************************)
(* Proofs about the delivery of students' work: the receipts the server     *)
(* answers with, the final selection, and the delivery the terminal keeps   *)
(* until it is confirmed.  The inductive invariant comes first, part by     *)
(* part, then one lemma for each action of the server, of the client and of their*)
(* environment.                                                             *)
(***************************************************************************)
EXTENDS Delivery, FiniteSetTheorems, TLAPS

-----------------------------------------------------------------------------
(***************************************************************************)
(* The server, its store and its workers (Delivery)                         *)
(***************************************************************************)

-----------------------------------------------------------------------------
(***************************************************************************)
(* Types                                                                   *)
(***************************************************************************)

Requested == DeliverRequest \cup FinalRequest

Held == {"load", "archived", "rearchived", "prepare", "decide", "publish", "sync", "resync"}

WorkType == [pc : {"idle", "wait", "reply"} \cup Held, req : Requested \cup {None},
             new : Receipt \cup Marker \cup {None}]

ClientStages == {"idle", "archive", "archiveSync", "snapshot", "slotSync", "send", "wait",
                 "save", "saveSync"}

ClientType == [pc : ClientStages, pkg : Package \cup {None}, receipt : Receipt \cup {None}]

\* A record belongs to the route of its request.
JobTyped(j) ==
    /\ j.pc # "idle" => j.req # None
    /\ j.req # None /\ j.new # None =>
          j.new \in IF j.req.route = "deliver" THEN Receipt ELSE Marker
    /\ j.pc \in {"publish", "sync", "resync"} => j.new # None
    /\ j.pc \in {"archived", "rearchived"} => j.req.route = "deliver"

DeliveryTypeOK ==
    /\ contract \in Contracts /\ closed \subseteq Contracts
    /\ IsDirectory(archive, SUBSET Contracts)
    /\ IsDirectory(store, StoreContent)
    /\ IsDirectory(box, BoxContent)
    /\ holder \in Workers \cup {None}
    /\ work \in [Workers -> WorkType] /\ \A w \in Workers : JobTyped(work[w])
    /\ net \subseteq Requested
    /\ known \in Contracts
    /\ client \in ClientType
    /\ client.pc \notin {"idle", "snapshot"} => client.pkg # None
    /\ client.pc = "save" => client.receipt # None
    /\ client.pc \in {"archive", "archiveSync", "snapshot"} => lastId < MaxId
    /\ lastId \in 0 .. MaxId
    /\ faults \in 0 .. MaxFaults
    /\ answered \subseteq Receipt \cup Marker
    /\ sent \subseteq Package /\ confirmed \subseteq Package

-----------------------------------------------------------------------------
(***************************************************************************)
(* The server                                                              *)
(***************************************************************************)

\* One content of the store: a history that can be read, and a final attempt that is in it.
ContentOK(c) ==
    /\ IsFiniteSet(c.receipts)
    /\ {r.sequence : r \in c.receipts} = 1 .. Cardinality(c.receipts)
    /\ \A r, s \in c.receipts : r.pkg.id = s.pkg.id => r = s
    /\ c.final # None => \E r \in c.receipts : r.pkg.id = c.final.id

\* What an answer with record x promises of content c.
Keeps(c, x) ==
    /\ x \in Receipt => x \in c.receipts
    /\ x \in Marker =>
          /\ c.final # None /\ c.final.revision >= x.revision
          /\ c.final.revision = x.revision => c.final = x

\* Records the server has answered with, or is about to.
Given == answered \cup {work[w].new : w \in {v \in Workers : At(v, "reply")}}

AnswersHold ==
    /\ \A x \in Given, c \in store.after : Keeps(c, x)
    /\ \A m1, m2 \in Given : m1 \in Marker /\ m2 \in Marker /\ m1.revision = m2.revision => m1 = m2

StoreHolds ==
    /\ \A c \in store.after : ContentOK(c)
    /\ \A c \in store.after, k \in archive.after : \A r \in c.receipts : r.pkg.contract \in k

\* What the worker inside the locks has seen and done, at each of its steps.
HolderKnows(j) ==
    /\ j.pc = "archived" =>
          \A c \in store.after : \A r \in c.receipts : r.pkg.contract # contract
    /\ j.pc \in {"archived", "rearchived"} => contract \in archive.now
    /\ j.pc \in {"prepare", "decide", "publish", "sync", "resync"} /\ j.req.route = "deliver" =>
          \A k \in archive.after : contract \in k
    /\ j.pc \in {"decide", "publish", "resync"} => store.after = {store.now}
    /\ j.pc = "publish" /\ j.req.route = "deliver" =>
          /\ j.new.pkg.contract = contract /\ ReceiptsOf(j.new.pkg.id) = {}
          /\ j.new.sequence = Cardinality(store.now.receipts) + 1
    /\ j.pc = "publish" /\ j.req.route = "final" =>
          j.new.revision = Revision + 1 /\ ReceiptsOf(j.new.id) # {}
    /\ j.pc \in {"sync", "resync"} /\ j.req.route = "deliver" => j.new \in store.now.receipts
    /\ j.pc = "sync" /\ j.req.route = "deliver" =>
          [store.now EXCEPT !.receipts = @ \ {j.new}] \in store.after
    /\ j.pc \in {"sync", "resync"} /\ j.req.route = "final" => j.new = store.now.final

WorkersHold == \A w \in Workers : work[w].pc \in Held => holder = w /\ HolderKnows(work[w])

ServerInv == StoreHolds /\ AnswersHold /\ WorkersHold

-----------------------------------------------------------------------------
(***************************************************************************)
(* The client                                                              *)
(***************************************************************************)

\* A receipt on the client's side is one the server has answered with.
ReceiptsWereAnswered ==
    /\ \A b \in box.after : b.slot # None /\ b.slot.receipt # None => b.slot.receipt \in answered
    /\ client.pc = "save" => client.receipt \in answered

DeliveryInv == DeliveryTypeOK /\ ServerInv /\ ReceiptsWereAnswered

\* The request whose answer the client waits for is one, and of its package.
LiveIn(m) == m.route = "deliver" /\ m.live

OneIsAwaited ==
    /\ \A m \in net : LiveIn(m) =>
          /\ client.pc = "wait" /\ m.pkg = client.pkg
          /\ \A w \in Workers : At(w, "idle") \/ ~Awaited(w)
    /\ \A w \in Workers : ~At(w, "idle") /\ Awaited(w) =>
          /\ client.pc = "wait"
          /\ \A v \in Workers \ {w} : At(v, "idle") \/ ~Awaited(v)

\* The package of the call is in the slot; before the slot is replaced it is archived.
SlotHolds ==
    /\ box.now.slot # None /\ box.now.slot.receipt # None => box.now.slot.pkg \in confirmed
    /\ client.pc \notin {"idle", "snapshot"} => box.now.slot # None /\ box.now.slot.pkg = client.pkg
    /\ client.pc = "archiveSync" => client.pkg \in box.now.archived
    /\ client.pc = "snapshot" => SlotIsFree \/ box.now.slot.pkg \in box.now.archived

KeptInv == DeliveryInv /\ OneIsAwaited /\ SlotHolds /\ UnconfirmedIsKept

-----------------------------------------------------------------------------
(***************************************************************************)
(* Lemmas about the operators                                              *)
(***************************************************************************)

\* The records of the two routes are told apart.
LEMMA RecordsDiffer ==
    /\ \A x \in Receipt : x \notin Marker /\ x # None
    /\ \A x \in Marker : x \notin Receipt /\ x # None
    /\ \A m \in DeliverRequest : m.route = "deliver" /\ m # None /\ m.pkg \in Package
    /\ \A m \in FinalRequest : m.route = "final" /\ m # None /\ m.id \in AttemptIds
<1>1. \A x \in Receipt : DOMAIN x = {"pkg", "sequence"}
    BY DEF Receipt
<1>2. \A x \in Marker : DOMAIN x = {"id", "revision"}
    BY DEF Marker
<1>3. {"pkg", "sequence"} # {"id", "revision"}
    OBVIOUS
<1> QED
    BY <1>1, <1>2, <1>3, DeliveryAssumption DEF DeliverRequest, FinalRequest

LEMMA NoneIsKept == \A c : Keeps(c, None)
    BY DeliveryAssumption DEF Keeps

LEMMA ContentTypes ==
    ASSUME NEW c \in StoreContent, ContentOK(c)
    PROVE  Cardinality(c.receipts) \in Nat /\ c.receipts \subseteq Receipt
    BY FS_CardinalityType DEF ContentOK, StoreContent

\* A receipt with the next number, of an attempt that has none.
LEMMA ReceiptAdded ==
    ASSUME NEW c \in StoreContent, ContentOK(c), NEW r \in Receipt,
           r.sequence = Cardinality(c.receipts) + 1,
           \A s \in c.receipts : s.pkg.id # r.pkg.id
    PROVE  /\ [c EXCEPT !.receipts = @ \cup {r}] \in StoreContent
           /\ ContentOK([c EXCEPT !.receipts = @ \cup {r}])
<1> DEFINE S == c.receipts
           T == S \cup {r}
           n == Cardinality(S)
           d == [c EXCEPT !.receipts = @ \cup {r}]
<1>1. d.receipts = T /\ d.final = c.final /\ d \in StoreContent
    BY DEF StoreContent
<1>2. IsFiniteSet(S) /\ n \in Nat /\ r \notin S
    BY ContentTypes DEF ContentOK
<1>3. IsFiniteSet(T) /\ Cardinality(T) = n + 1
    BY <1>2, FS_AddElement
<1>4. {s.sequence : s \in T} = 1 .. n + 1
  <2>1. {s.sequence : s \in T} = {s.sequence : s \in S} \cup {n + 1}
    OBVIOUS
  <2>2. {s.sequence : s \in S} = 1 .. n
    BY DEF ContentOK
  <2> HIDE DEF n, S, T
  <2>3. (1 .. n) \cup {n + 1} = 1 .. n + 1
    BY <1>2
  <2> QED
    BY <2>1, <2>2, <2>3
<1>5. \A s, t \in T : s.pkg.id = t.pkg.id => s = t
    BY DEF ContentOK
<1>6. c.final # None => \E s \in T : s.pkg.id = c.final.id
    BY DEF ContentOK
<1> HIDE DEF d
<1>7. ContentOK(d)
    BY <1>1, <1>3, <1>4, <1>5, <1>6 DEF ContentOK
<1> QED
    BY <1>1, <1>7 DEF d

\* Before a step of the server nobody but the worker inside the locks is at work there.
LEMMA OnlyTheHolder ==
    ASSUME DeliveryInv, NEW w \in Workers, work[w].pc \in Held
    PROVE  /\ holder = w /\ HolderKnows(work[w])
           /\ \A v \in Workers \ {w} : work[v].pc \notin Held
    BY DEF DeliveryInv, ServerInv, WorkersHold

LEMMA NobodyHolds ==
    ASSUME DeliveryInv, holder = None
    PROVE  \A w \in Workers : work[w].pc \notin Held
    BY DeliveryAssumption DEF DeliveryInv, ServerInv, WorkersHold

LEMMA FaultsStay ==
    ASSUME DeliveryTypeOK, Fault(MaxFaults) \/ NoFault
    PROVE  faults' \in 0 .. MaxFaults
    BY DeliveryAssumption DEF DeliveryTypeOK, Fault, NoFault

LEMMA StoreStays ==
    ASSUME DeliveryInv, UNCHANGED << archive, store >>
    PROVE  /\ StoreHolds'
           /\ \A x \in Given, c \in store'.after : Keeps(c, x)
           /\ IsDirectory(archive, SUBSET Contracts)' /\ IsDirectory(store, StoreContent)'
    BY DEF DeliveryInv, ServerInv, StoreHolds, AnswersHold, DeliveryTypeOK, IsDirectory, ContentOK

LEMMA KnowledgeStays ==
    ASSUME NEW j, HolderKnows(j), UNCHANGED << contract, archive, store >>
    PROVE  HolderKnows(j)'
    BY DEF HolderKnows, ReceiptsOf, Revision

\* A step of one handler: what has to be shown of the files, and of its new state.
LEMMA HandlerSteps ==
    ASSUME DeliveryInv, NEW w \in Workers, NEW j \in WorkType, JobTyped(j),
           work' = [work EXCEPT ![w] = j],
           UNCHANGED << contract, closed, answered, clientVars >>,
           net' \subseteq net, holder' \in Workers \cup {None}, faults' \in 0 .. MaxFaults,
           IsDirectory(archive, SUBSET Contracts)', IsDirectory(store, StoreContent)',
           StoreHolds',
           \A x \in Given, c \in store'.after : Keeps(c, x),
           \A v \in Workers \ {w} : work[v].pc \in Held =>
               holder' = v /\ UNCHANGED << archive, store >>,
           j.pc \in Held => holder' = w /\ HolderKnows(j)',
           j.pc = "reply" =>
               /\ \A c \in store'.after : Keeps(c, j.new)
               /\ j.new \in Marker => j.new = store'.now.final
    PROVE  DeliveryInv'
<1>1. /\ work' \in [Workers -> WorkType] /\ work'[w] = j
      /\ \A v \in Workers \ {w} : work'[v] = work[v]
    BY DEF DeliveryInv, DeliveryTypeOK
<1>2. UNCHANGED << known, box, client, lastId, sent, confirmed >>
    BY DEF clientVars
<1>3. DeliveryTypeOK'
  <2>1. \A v \in Workers : JobTyped(work[v])'
    BY <1>1 DEF DeliveryInv, DeliveryTypeOK, JobTyped
  <2>2. IsDirectory(box, BoxContent)'
    BY <1>2 DEF DeliveryInv, DeliveryTypeOK, IsDirectory
  <2> QED
    BY <1>1, <1>2, <2>1, <2>2 DEF DeliveryInv, DeliveryTypeOK
<1>4. ReceiptsWereAnswered'
    BY <1>2 DEF DeliveryInv, ReceiptsWereAnswered
<1>5. WorkersHold'
  <2> SUFFICES ASSUME NEW v \in Workers, work'[v].pc \in Held
               PROVE  (holder = v /\ HolderKnows(work[v]))'
    BY DEF WorkersHold
  <2>1. CASE v = w
    BY <1>1, <2>1
  <2>2. CASE v # w
    <3>1. holder' = v /\ UNCHANGED << archive, store, contract >> /\ work'[v] = work[v]
          /\ HolderKnows(work[v])
      BY <1>1, <2>2 DEF DeliveryInv, ServerInv, WorkersHold
    <3>2. HolderKnows(work[v])'
      BY <3>1, KnowledgeStays
    <3> QED
      BY <3>1, <3>2
  <2> QED
    BY <2>1, <2>2
<1>6. \A x \in Given' : x \in Given \/ (j.pc = "reply" /\ x = j.new)
    BY <1>1 DEF Given, At
<1>7. \A x \in Given', c \in store'.after : Keeps(c, x)
    BY <1>6
<1>8. ASSUME NEW m1 \in Given', NEW m2 \in Given', m1 \in Marker, m2 \in Marker,
             m1.revision = m2.revision
      PROVE  m1 = m2
  <2>1. CASE m1 \in Given /\ m2 \in Given
    BY <1>8, <2>1 DEF DeliveryInv, ServerInv, AnswersHold
  <2>2. store'.now \in store'.after
    BY DEF IsDirectory
  <2>3. Keeps(store'.now, m1) /\ Keeps(store'.now, m2)
    BY <1>7, <1>8, <2>2
  <2>4. CASE m1 \notin Given \/ m2 \notin Given
    <3>1. m1 = store'.now.final \/ m2 = store'.now.final
      BY <1>6, <1>8, <2>4
    <3> QED
      BY <1>8, <2>3, <3>1 DEF Keeps
  <2> QED
    BY <2>1, <2>4
<1>9. AnswersHold'
  <2>1. (\A x \in Given, c \in store.after : Keeps(c, x))'
    BY <1>7 DEF Keeps
  <2> QED
    BY <1>8, <2>1 DEF AnswersHold
<1> QED
    BY <1>3, <1>4, <1>5, <1>9 DEF DeliveryInv, ServerInv

-----------------------------------------------------------------------------
(***************************************************************************)
(* The steps of the server                                                 *)
(***************************************************************************)

\* The job of a worker, and what it has become.
LEMMA JobMoves ==
    ASSUME DeliveryTypeOK, NEW w \in Workers, NEW l, Goto(w, l), l \in {"wait", "reply"} \cup Held
    PROVE  \E j \in WorkType :
             /\ JobTyped(work[w]) /\ work' = [work EXCEPT ![w] = j]
             /\ j.pc = l /\ j.req = work[w].req /\ j.new = work[w].new
<1> DEFINE j == [work[w] EXCEPT !.pc = l]
<1>1. /\ j \in WorkType /\ j.pc = l /\ j.req = work[w].req /\ j.new = work[w].new
      /\ JobTyped(work[w]) /\ work' = [work EXCEPT ![w] = j]
    BY DEF DeliveryTypeOK, WorkType, Goto
<1> QED
    BY <1>1

LEMMA JobLeaves ==
    ASSUME DeliveryTypeOK, NEW w \in Workers, NEW x \in Receipt \cup Marker \cup {None}, Leave(w, x)
    PROVE  \E j \in WorkType :
             /\ JobTyped(work[w]) /\ work' = [work EXCEPT ![w] = j] /\ holder' = None
             /\ j.pc = "reply" /\ j.req = work[w].req /\ j.new = x
<1> DEFINE j == [work[w] EXCEPT !.pc = "reply", !.new = x]
<1>1. /\ j \in WorkType /\ j.pc = "reply" /\ j.req = work[w].req /\ j.new = x
      /\ JobTyped(work[w]) /\ work' = [work EXCEPT ![w] = j] /\ holder' = None
    BY DEF DeliveryTypeOK, WorkType, Leave
<1> QED
    BY <1>1

\* A handler leaves with an error: whatever it did to the files must be safe.
LEMMA ErrorKeepsInv ==
    ASSUME DeliveryInv, NEW w \in Workers, work[w].pc \in Held, Leave(w, None),
           UNCHANGED << contract, closed, answered, clientVars, net >>, Fault(MaxFaults) \/ NoFault,
           IsDirectory(archive, SUBSET Contracts)', IsDirectory(store, StoreContent)',
           StoreHolds', \A x \in Given, c \in store'.after : Keeps(c, x)
    PROVE  DeliveryInv'
<1>1. PICK j \in WorkType :
         /\ JobTyped(work[w]) /\ work' = [work EXCEPT ![w] = j] /\ holder' = None
         /\ j.pc = "reply" /\ j.req = work[w].req /\ j.new = None
    BY JobLeaves DEF DeliveryInv
<1>2. JobTyped(j)
    BY <1>1 DEF JobTyped, Held
<1>3. /\ \A v \in Workers \ {w} : work[v].pc \notin Held
      /\ faults' \in 0 .. MaxFaults
    BY OnlyTheHolder, FaultsStay DEF DeliveryInv
<1>4. /\ \A c \in store'.after : Keeps(c, j.new)
      /\ j.new \notin Marker
    BY <1>1, NoneIsKept, DeliveryAssumption
<1>5. j.pc \notin Held
    BY <1>1 DEF Held
<1> QED
    BY <1>1, <1>2, <1>3, <1>4, <1>5, HandlerSteps

LEMMA AcceptKeepsInv ==
    ASSUME DeliveryInv, NEW w \in Workers, NEW m \in net, Accept(w, m)
    PROVE  DeliveryInv'
<1> DEFINE j == [pc |-> "wait", req |-> m, new |-> None]
<1>1. m \in Requested /\ m # None
    BY RecordsDiffer DEF DeliveryInv, DeliveryTypeOK, Requested
<1>2. j \in WorkType /\ JobTyped(j) /\ j.pc \notin Held /\ j.pc # "reply"
    BY <1>1 DEF WorkType, JobTyped, Held
<1>3. /\ UNCHANGED << contract, closed, archive, store, holder, answered, clientVars >>
      /\ work' = [work EXCEPT ![w] = j] /\ net' \subseteq net
    BY DEF Accept
<1>4. /\ holder \in Workers \cup {None} /\ faults' \in 0 .. MaxFaults
      /\ \A v \in Workers : work[v].pc \in Held => holder = v
    BY FaultsStay DEF DeliveryInv, DeliveryTypeOK, ServerInv, WorkersHold, Accept
<1> HIDE DEF j
<1> QED
    BY <1>2, <1>3, <1>4, StoreStays, HandlerSteps

LEMMA AcquireKeepsInv ==
    ASSUME DeliveryInv, NEW w \in Workers, Acquire(w)
    PROVE  DeliveryInv'
<1>1. /\ UNCHANGED << contract, closed, archive, store, answered, clientVars, net >>
      /\ holder = None /\ holder' = w /\ Goto(w, "load") /\ work[w].pc = "wait"
    BY DEF Acquire, At
<1>2. PICK j \in WorkType :
         /\ JobTyped(work[w]) /\ work' = [work EXCEPT ![w] = j]
         /\ j.pc = "load" /\ j.req = work[w].req /\ j.new = work[w].new
    BY <1>1, JobMoves DEF DeliveryInv, Held
<1>3. JobTyped(j) /\ HolderKnows(j)'
    BY <1>1, <1>2 DEF JobTyped, HolderKnows
<1>4. /\ faults' \in 0 .. MaxFaults
      /\ \A v \in Workers : work[v].pc \notin Held
    BY <1>1, FaultsStay, NobodyHolds DEF DeliveryInv, Acquire
<1> QED
    BY <1>1, <1>2, <1>3, <1>4, StoreStays, HandlerSteps

LEMMA LoadKeepsInv ==
    ASSUME DeliveryInv, NEW w \in Workers, Load(w)
    PROVE  DeliveryInv'
<1>1. /\ UNCHANGED << contract, closed, store, holder, answered, clientVars, net >>
      /\ work[w].pc = "load"
    BY DEF Load, At
<1>2. /\ holder = w /\ holder \in Workers \cup {None} /\ faults' \in 0 .. MaxFaults
      /\ \A v \in Workers \ {w} : work[v].pc \notin Held
    BY <1>1, FaultsStay, OnlyTheHolder DEF DeliveryInv, DeliveryTypeOK, Held, Load
<1>3. /\ IsDirectory(archive, SUBSET Contracts) /\ contract \in Contracts /\ StoreHolds
      /\ \A x \in Given, c \in store.after : Keeps(c, x)
    BY DEF DeliveryInv, DeliveryTypeOK, ServerInv, AnswersHold
<1>4. ASSUME NEW l \in {"prepare", "rearchived"}, Goto(w, l), UNCHANGED archive,
             l = "prepare" => work[w].req.route = "final",
             l = "rearchived" => work[w].req.route # "final" /\ contract \in archive.now
      PROVE  DeliveryInv'
  <2>1. PICK j \in WorkType :
         /\ JobTyped(work[w]) /\ work' = [work EXCEPT ![w] = j]
         /\ j.pc = l /\ j.req = work[w].req /\ j.new = work[w].new
    BY <1>4, JobMoves DEF DeliveryInv, Held
  <2>2. work[w].req \in Requested
    BY <1>1, <2>1 DEF JobTyped, WorkType, DeliveryInv, DeliveryTypeOK
  <2>3. JobTyped(j) /\ HolderKnows(j)'
    BY <1>1, <1>4, <2>1, <2>2, RecordsDiffer DEF JobTyped, HolderKnows, Requested
  <2>4. j.pc # "reply"
    BY <1>4, <2>1
  <2> QED
    BY <1>1, <1>2, <1>4, <2>1, <2>3, <2>4, StoreStays, HandlerSteps
<1>5. ASSUME Goto(w, "archived"), work[w].req.route # "final", contract \notin archive.now,
             archive' = Changed(archive, archive.now \cup {contract})
      PROVE  DeliveryInv'
  <2>1. PICK j \in WorkType :
         /\ JobTyped(work[w]) /\ work' = [work EXCEPT ![w] = j]
         /\ j.pc = "archived" /\ j.req = work[w].req /\ j.new = work[w].new
    BY <1>5, JobMoves DEF DeliveryInv, Held
  <2>2. work[w].req \in Requested
    BY <1>1, <2>1 DEF JobTyped, WorkType, DeliveryInv, DeliveryTypeOK
  <2>3. /\ archive'.now = archive.now \cup {contract}
        /\ archive'.after = archive.after \cup {archive.now \cup {contract}}
    BY <1>5 DEF Changed
  <2>4. IsDirectory(archive, SUBSET Contracts)' /\ IsDirectory(store, StoreContent)'
    BY <1>1, <1>3, <2>3 DEF IsDirectory, DeliveryInv, DeliveryTypeOK
  <2>5. \A c \in store.after : \A r \in c.receipts : r.pkg.contract \in archive.now
    BY <1>3 DEF StoreHolds, IsDirectory
  <2>6. StoreHolds'
    BY <1>1, <1>3, <2>3, <2>5 DEF StoreHolds, ContentOK
  <2>9. work[w].req.route = "deliver"
    BY <1>5, <2>2, RecordsDiffer DEF Requested
  <2>10. \A c \in store'.after : \A r \in c.receipts : r.pkg.contract # contract'
    BY <1>1, <1>5, <2>5
  <2>7. JobTyped(j) /\ HolderKnows(j)'
    BY <1>1, <2>1, <2>3, <2>9, <2>10 DEF JobTyped, HolderKnows
  <2>8. j.pc # "reply"
    BY <2>1
  <2> QED
    BY <1>1, <1>2, <1>3, <2>1, <2>4, <2>6, <2>7, <2>8, HandlerSteps
<1> QED
    BY <1>4, <1>5 DEF Load

LEMMA SyncArchiveKeepsInv ==
    ASSUME DeliveryInv, NEW w \in Workers, SyncArchive(w)
    PROVE  DeliveryInv'
<1>1. /\ UNCHANGED << contract, closed, store, holder, answered, clientVars, net >>
      /\ work[w].pc \in {"archived", "rearchived"} /\ Goto(w, "prepare")
      /\ archive'.now = archive.now /\ archive'.after = {archive.now}
    BY DEF SyncArchive, At, Synced, OnDisk
<1>2. /\ holder = w /\ HolderKnows(work[w]) /\ holder \in Workers \cup {None}
      /\ faults' \in 0 .. MaxFaults
      /\ \A v \in Workers \ {w} : work[v].pc \notin Held
    BY <1>1, FaultsStay, OnlyTheHolder DEF DeliveryInv, DeliveryTypeOK, Held, SyncArchive
<1>3. PICK j \in WorkType :
         /\ JobTyped(work[w]) /\ work' = [work EXCEPT ![w] = j]
         /\ j.pc = "prepare" /\ j.req = work[w].req /\ j.new = work[w].new
    BY <1>1, JobMoves DEF DeliveryInv, Held
<1>4. /\ IsDirectory(archive, SUBSET Contracts) /\ IsDirectory(store, StoreContent) /\ StoreHolds
      /\ \A x \in Given, c \in store.after : Keeps(c, x)
    BY DEF DeliveryInv, DeliveryTypeOK, ServerInv, AnswersHold
<1>5. IsDirectory(archive, SUBSET Contracts)' /\ IsDirectory(store, StoreContent)' /\ StoreHolds'
    BY <1>1, <1>4 DEF IsDirectory, StoreHolds, ContentOK
<1>6. JobTyped(j) /\ HolderKnows(j)'
    BY <1>1, <1>2, <1>3 DEF JobTyped, HolderKnows
<1> QED
    BY <1>1, <1>2, <1>3, <1>4, <1>5, <1>6, HandlerSteps

LEMMA SyncArchiveFailsKeepsInv ==
    ASSUME DeliveryInv, NEW w \in Workers, SyncArchiveFails(w)
    PROVE  DeliveryInv'
<1>1. /\ UNCHANGED << contract, closed, store, answered, clientVars, net >> /\ Fault(MaxFaults)
      /\ work[w].pc \in {"archived", "rearchived"} /\ Leave(w, None) /\ work[w].pc \in Held
    BY DEF SyncArchiveFails, At, Held
<1>2. HolderKnows(work[w])
    BY <1>1, OnlyTheHolder
<1>3. /\ IsDirectory(archive, SUBSET Contracts) /\ IsDirectory(store, StoreContent) /\ StoreHolds
      /\ \A x \in Given, c \in store.after : Keeps(c, x)
    BY DEF DeliveryInv, DeliveryTypeOK, ServerInv, AnswersHold
<1>4. CASE work[w].pc = "archived"
  <2>1. /\ archive'.now = archive.now \ {contract}
        /\ archive'.after = archive.after \cup {archive.now \ {contract}}
    BY <1>4 DEF SyncArchiveFails, At, Changed
  <2>2. \A c \in store.after : \A r \in c.receipts : r.pkg.contract \in archive.now \ {contract}
    BY <1>2, <1>3, <1>4 DEF HolderKnows, StoreHolds, IsDirectory
  <2>3. IsDirectory(archive, SUBSET Contracts)' /\ IsDirectory(store, StoreContent)' /\ StoreHolds'
    BY <1>1, <1>3, <2>1, <2>2 DEF IsDirectory, StoreHolds, ContentOK
  <2> QED
    BY <1>1, <1>3, <2>3, ErrorKeepsInv
<1>5. CASE work[w].pc # "archived"
  <2>1. archive' = archive
    BY <1>5 DEF SyncArchiveFails, At
  <2> QED
    BY <1>1, <2>1, StoreStays, ErrorKeepsInv
<1> QED
    BY <1>4, <1>5

LEMMA PrepareKeepsInv ==
    ASSUME DeliveryInv, NEW w \in Workers, Prepare(w)
    PROVE  DeliveryInv'
<1>1. /\ UNCHANGED << contract, closed, archive, holder, answered, clientVars, net >>
      /\ work[w].pc = "prepare" /\ Goto(w, "decide")
      /\ store'.now = store.now /\ store'.after = {store.now}
    BY DEF Prepare, At, Synced, OnDisk
<1>2. /\ holder = w /\ HolderKnows(work[w]) /\ holder \in Workers \cup {None}
      /\ faults' \in 0 .. MaxFaults
      /\ \A v \in Workers \ {w} : work[v].pc \notin Held
    BY <1>1, FaultsStay, OnlyTheHolder DEF DeliveryInv, DeliveryTypeOK, Held, Prepare
<1>3. PICK j \in WorkType :
         /\ JobTyped(work[w]) /\ work' = [work EXCEPT ![w] = j]
         /\ j.pc = "decide" /\ j.req = work[w].req /\ j.new = work[w].new
    BY <1>1, JobMoves DEF DeliveryInv, Held
<1>4. /\ IsDirectory(archive, SUBSET Contracts) /\ IsDirectory(store, StoreContent) /\ StoreHolds
      /\ \A x \in Given, c \in store.after : Keeps(c, x)
    BY DEF DeliveryInv, DeliveryTypeOK, ServerInv, AnswersHold
<1>5. IsDirectory(archive, SUBSET Contracts)' /\ IsDirectory(store, StoreContent)' /\ StoreHolds'
      /\ \A x \in Given, c \in store'.after : Keeps(c, x)
    BY <1>1, <1>4 DEF IsDirectory, StoreHolds, ContentOK
<1>6. JobTyped(j) /\ HolderKnows(j)'
    BY <1>1, <1>2, <1>3 DEF JobTyped, HolderKnows
<1> QED
    BY <1>1, <1>2, <1>3, <1>5, <1>6, HandlerSteps

LEMMA PrepareFailsKeepsInv ==
    ASSUME DeliveryInv, NEW w \in Workers, PrepareFails(w)
    PROVE  DeliveryInv'
    BY StoreStays, ErrorKeepsInv DEF PrepareFails, At, Held

\* What is decided about a package, under the lock.
LEMMA ReceiveDecides ==
    ASSUME NEW pkg \in Package, store.now \in StoreContent, ContentOK(store.now)
    PROVE  LET d == ReceiveDecision(pkg) IN
           /\ d.verdict \in {"error", "again", "write"}
           /\ d.verdict = "again" => d.record \in store.now.receipts /\ d.record \in Receipt
           /\ d.verdict = "write" =>
                /\ d.record \in Receipt /\ d.record.pkg.contract = contract
                /\ ReceiptsOf(d.record.pkg.id) = {}
                /\ d.record.sequence = Cardinality(store.now.receipts) + 1
<1> DEFINE old == ReceiptsOf(pkg.id)
           r == CHOOSE r \in old : TRUE
           count == Cardinality(store.now.receipts)
           new == [pkg |-> pkg, sequence |-> count + 1]
           d == ReceiveDecision(pkg)
<1>1. count \in Nat /\ store.now.receipts \subseteq Receipt /\ old \subseteq store.now.receipts
    BY ContentTypes DEF ReceiptsOf
<1>2. CASE old # {}
  <2>1. r \in old
    BY <1>2
  <2> HIDE DEF r
  <2>2. d = Decision("again", r) \/ d = Decision("error", None)
    BY <1>2 DEF ReceiveDecision, r
  <2> QED
    BY <1>1, <2>1, <2>2 DEF Decision
<1>3. CASE old = {} /\ (contract \in closed \/ pkg.contract # contract \/ count >= MAX_ATTEMPTS)
  <2>1. d = Decision("error", None)
    BY <1>3 DEF ReceiveDecision
  <2> QED
    BY <2>1 DEF Decision
<1>4. CASE old = {} /\ ~(contract \in closed \/ pkg.contract # contract \/ count >= MAX_ATTEMPTS)
  <2>1. d = Decision("write", new)
    BY <1>4 DEF ReceiveDecision
  <2>2. pkg.contract = contract /\ count + 1 \in 1 .. MAX_ATTEMPTS
    BY <1>1, <1>4, DeliveryAssumption
  <2>3. new \in Receipt /\ new.pkg = pkg /\ new.sequence = count + 1
    BY <2>2 DEF Receipt
  <2> QED
    BY <1>4, <2>1, <2>2, <2>3 DEF Decision
<1> QED
    BY <1>2, <1>3, <1>4

\* What is decided about a selection of the final attempt.
LEMMA FinalDecides ==
    ASSUME NEW id \in AttemptIds, NEW expected \in Nat, store.now \in StoreContent
    PROVE  LET d == FinalDecision(id, expected) IN
           /\ d.verdict \in {"error", "again", "write"}
           /\ d.verdict = "again" => d.record = store.now.final /\ d.record \in Marker
           /\ d.verdict = "write" =>
                /\ d.record \in Marker /\ d.record.revision = Revision + 1
                /\ ReceiptsOf(d.record.id) # {}
<1> DEFINE d == FinalDecision(id, expected)
           new == [id |-> id, revision |-> Revision + 1]
<1>1. store.now.final \in Marker \cup {None} /\ Revision \in Nat
    BY DEF StoreContent, Revision, Marker
<1>2. new \in Marker /\ new.revision = Revision + 1 /\ new.id = id
    BY <1>1 DEF Marker
<1>3. \/ d = Decision("error", None)
      \/ d = Decision("again", store.now.final) /\ store.now.final # None
      \/ d = Decision("write", new) /\ ReceiptsOf(id) # {}
    BY DEF FinalDecision
<1> QED
    BY <1>1, <1>2, <1>3 DEF Decision

LEMMA DecideKeepsInv ==
    ASSUME DeliveryInv, NEW w \in Workers, Decide(w)
    PROVE  DeliveryInv'
<1> DEFINE m == work[w].req
           d == IF m.route = "deliver" THEN ReceiveDecision(m.pkg)
                ELSE FinalDecision(m.id, m.expected)
<1>1. /\ UNCHANGED << contract, closed, archive, store, answered, clientVars, net >>
      /\ work[w].pc = "decide" /\ NoFault
    BY DEF Decide, At
<1>2. /\ holder = w /\ HolderKnows(work[w]) /\ holder \in Workers \cup {None}
      /\ faults' \in 0 .. MaxFaults /\ work[w].pc \in Held
      /\ \A v \in Workers \ {w} : work[v].pc \notin Held
    BY <1>1, FaultsStay, OnlyTheHolder DEF DeliveryInv, DeliveryTypeOK, Held
<1>3. /\ work \in [Workers -> WorkType] /\ work[w] \in WorkType /\ JobTyped(work[w])
      /\ m \in Requested /\ store.now \in StoreContent /\ ContentOK(store.now)
    BY <1>1 DEF DeliveryInv, DeliveryTypeOK, JobTyped, WorkType, IsDirectory, ServerInv, StoreHolds
<1>4. \/ m.route = "deliver" /\ m.pkg \in Package
      \/ m.route = "final" /\ m.id \in AttemptIds /\ m.expected \in Nat
    BY <1>3, RecordsDiffer DEF Requested, FinalRequest
<1>5. CASE d.verdict = "error"
  <2>1. Leave(w, None)
    BY <1>5 DEF Decide
  <2> QED
    BY <1>1, <1>2, <2>1, StoreStays, ErrorKeepsInv
<1>6. ASSUME NEW pc \in {"publish", "resync"}, NEW new \in Receipt \cup Marker,
             work' = [work EXCEPT ![w].pc = pc, ![w].new = new], holder' = holder,
             m.route = "deliver" => new \in Receipt,
             m.route = "final" => new \in Marker,
             pc = "resync" => IF m.route = "deliver" THEN new \in store.now.receipts
                              ELSE new = store.now.final,
             pc = "publish" =>
                IF m.route = "deliver"
                THEN /\ new.pkg.contract = contract /\ ReceiptsOf(new.pkg.id) = {}
                     /\ new.sequence = Cardinality(store.now.receipts) + 1
                ELSE new.revision = Revision + 1 /\ ReceiptsOf(new.id) # {}
      PROVE  DeliveryInv'
  <2> DEFINE k == [work[w] EXCEPT !.pc = pc, !.new = new]
  <2>0. k \in WorkType
    BY <1>3, <1>6 DEF WorkType, Held
  <2>1. PICK j \in WorkType : j = k
    BY <2>0
  <2>2. /\ work' = [work EXCEPT ![w] = j] /\ j.pc = pc /\ j.new = new /\ j.req = m
    BY <1>3, <1>6, <2>1 DEF WorkType
  <2>7. new # None
    BY <1>6, DeliveryAssumption
  <2>8. m # None /\ new \in IF m.route = "deliver" THEN Receipt ELSE Marker
    BY <1>3, <1>4, <1>6, RecordsDiffer DEF Requested
  <2>3. JobTyped(j)
    BY <1>6, <2>2, <2>7, <2>8 DEF JobTyped
  <2>4. HolderKnows(j)
    BY <1>1, <1>2, <1>4, <1>6, <2>2 DEF HolderKnows
  <2>5. HolderKnows(j)'
    BY <1>1, <2>4, KnowledgeStays
  <2>6. j.pc # "reply"
    BY <2>2
  <2> QED
    BY <1>1, <1>2, <1>6, <2>2, <2>3, <2>5, <2>6, StoreStays, HandlerSteps
<1>7. CASE d.verdict \in {"again", "write"}
  <2> DEFINE pc == IF d.verdict = "write" THEN "publish" ELSE "resync"
  <2>1. work' = [work EXCEPT ![w].pc = pc, ![w].new = d.record] /\ holder' = holder
    BY <1>7 DEF Decide
  <2>2. CASE m.route = "deliver"
    <3>1. d = ReceiveDecision(m.pkg) /\ m.pkg \in Package
      BY <1>4, <2>2
    <3> HIDE DEF d
    <3> QED
      BY <1>3, <1>6, <1>7, <2>1, <2>2, <3>1, ReceiveDecides
  <2>3. CASE m.route = "final"
    <3>1. d = FinalDecision(m.id, m.expected) /\ m.id \in AttemptIds /\ m.expected \in Nat
      BY <1>4, <2>3
    <3> HIDE DEF d
    <3> QED
      BY <1>3, <1>6, <1>7, <2>1, <2>3, <3>1, FinalDecides
  <2> QED
    BY <1>4, <2>2, <2>3
<1>8. d.verdict \in {"error", "again", "write"}
    BY <1>3, <1>4, ReceiveDecides, FinalDecides
<1> QED
    BY <1>5, <1>7, <1>8

\* The new record is in place: a receipt with the next number, or a later final attempt.
LEMMA PublishKeepsInv ==
    ASSUME DeliveryInv, NEW w \in Workers, Publish(w)
    PROVE  DeliveryInv'
<1> DEFINE s == store.now
<1>1. /\ UNCHANGED << contract, closed, archive, holder, answered, clientVars, net >>
      /\ work[w].pc = "publish" /\ Goto(w, "sync") /\ NoFault
    BY DEF Publish, At
<1>2. /\ holder = w /\ HolderKnows(work[w]) /\ holder \in Workers \cup {None}
      /\ faults' \in 0 .. MaxFaults
      /\ \A v \in Workers \ {w} : work[v].pc \notin Held
    BY <1>1, FaultsStay, OnlyTheHolder DEF DeliveryInv, DeliveryTypeOK, Held
<1>3. PICK j \in WorkType :
         /\ JobTyped(work[w]) /\ work' = [work EXCEPT ![w] = j]
         /\ j.pc = "sync" /\ j.req = work[w].req /\ j.new = work[w].new
    BY <1>1, JobMoves DEF DeliveryInv, Held
<1>4. /\ IsDirectory(archive, SUBSET Contracts) /\ IsDirectory(store, StoreContent) /\ StoreHolds
      /\ \A x \in Given, c \in store.after : Keeps(c, x)
      /\ s \in StoreContent /\ ContentOK(s) /\ s \in store.after /\ store.after = {s}
    BY <1>1, <1>2 DEF DeliveryInv, DeliveryTypeOK, ServerInv, AnswersHold, StoreHolds, IsDirectory, HolderKnows
<1>5. JobTyped(j) /\ j.pc # "reply" /\ j.new # None /\ j.req \in Requested
    BY <1>1, <1>3 DEF JobTyped, WorkType
<1>6. \A k \in archive.after : j.req.route = "deliver" => contract \in k
    BY <1>1, <1>2, <1>3 DEF HolderKnows
<1>7. CASE j.req.route = "deliver"
  <2> DEFINE c == [s EXCEPT !.receipts = @ \cup {j.new}]
  <2>1. /\ j.new \in Receipt /\ j.new.pkg.contract = contract
        /\ j.new.sequence = Cardinality(s.receipts) + 1
        /\ \A r \in s.receipts : r.pkg.id # j.new.pkg.id
    BY <1>1, <1>2, <1>3, <1>5, <1>7 DEF HolderKnows, JobTyped, ReceiptsOf
  <2>2. c \in StoreContent /\ ContentOK(c)
    BY <1>4, <2>1, ReceiptAdded
  <2>3. c.receipts = s.receipts \cup {j.new} /\ c.final = s.final
    BY <1>4 DEF StoreContent
  <2>4. store' = Changed(store, c)
    BY <1>3, <1>7 DEF Publish
  <2>5. [c EXCEPT !.receipts = @ \ {j.new}] = s
    <3>1. (s.receipts \cup {j.new}) \ {j.new} = s.receipts
      BY <2>1
    <3>2. [c EXCEPT !.receipts = @ \ {j.new}] = [s EXCEPT !.receipts = c.receipts \ {j.new}]
      BY <1>4 DEF StoreContent
    <3>3. [s EXCEPT !.receipts = s.receipts] = s
      BY <1>4 DEF StoreContent
    <3> HIDE DEF c, s
    <3> QED
      BY <2>3, <3>1, <3>2, <3>3
  <2> HIDE DEF c
  <2>6. store'.now = c /\ store'.after = store.after \cup {c}
    BY <2>4 DEF Changed
  <2>7. IsDirectory(archive, SUBSET Contracts)' /\ IsDirectory(store, StoreContent)'
    BY <1>1, <1>4, <2>2, <2>6 DEF IsDirectory
  <2>12. \A d \in store'.after : ContentOK(d) /\ (d = c \/ d \in store.after)
    BY <1>4, <2>2, <2>6 DEF StoreHolds
  <2>13. \A d \in store'.after, k \in archive'.after : \A r \in d.receipts : r.pkg.contract \in k
    BY <1>1, <1>4, <1>6, <1>7, <2>1, <2>3, <2>12 DEF StoreHolds
  <2>8. StoreHolds'
    BY <2>12, <2>13 DEF StoreHolds, ContentOK
  <2>9. \A x \in Given, d \in store'.after : Keeps(d, x)
    BY <1>4, <2>3, <2>6 DEF Keeps
  <2>10. [c EXCEPT !.receipts = @ \ {j.new}] \in store'.after
    BY <1>4, <2>5, <2>6
  <2>11. HolderKnows(j)'
    BY <1>1, <1>3, <1>6, <1>7, <2>3, <2>6, <2>10 DEF HolderKnows
  <2> QED
    BY <1>1, <1>2, <1>3, <1>5, <2>7, <2>8, <2>9, <2>11, HandlerSteps
<1>8. CASE j.req.route = "final"
  <2> DEFINE c == [s EXCEPT !.final = j.new]
  <2>1. /\ j.new \in Marker /\ j.new.revision = Revision + 1
        /\ \E r \in s.receipts : r.pkg.id = j.new.id
    BY <1>1, <1>2, <1>3, <1>5, <1>8 DEF HolderKnows, JobTyped, ReceiptsOf
  <2>2. c \in StoreContent /\ c.final = j.new /\ c.receipts = s.receipts
    BY <1>4, <2>1 DEF StoreContent
  <2>3. store' = Changed(store, c)
    BY <1>3, <1>8 DEF Publish
  <2> HIDE DEF c
  <2>4. ContentOK(c)
    BY <1>4, <2>1, <2>2 DEF ContentOK
  <2>5. store'.now = c /\ store'.after = store.after \cup {c}
    BY <2>3 DEF Changed
  <2>6. IsDirectory(archive, SUBSET Contracts)' /\ IsDirectory(store, StoreContent)'
    BY <1>1, <1>4, <2>2, <2>5 DEF IsDirectory
  <2>7. StoreHolds'
    BY <1>1, <1>4, <2>2, <2>4, <2>5 DEF StoreHolds, ContentOK
  <2>8. ASSUME NEW x \in Given PROVE Keeps(c, x)
    <3>1. Keeps(s, x) /\ (x \in Marker => x.revision \in Nat)
      BY <1>4 DEF Marker
    <3>2. x \in Receipt => x \in c.receipts
      BY <2>2, <3>1 DEF Keeps
    <3>3. x \in Marker => s.final \in Marker /\ s.final # None /\ s.final.revision >= x.revision
      BY <1>4, <3>1 DEF Keeps, StoreContent
    <3>4. x \in Marker => c.final.revision > x.revision
      BY <2>1, <2>2, <3>1, <3>3 DEF Revision, Marker
    <3> QED
      BY <1>5, <2>2, <3>1, <3>2, <3>4, <2>1 DEF Keeps, Marker
  <2>9. \A x \in Given, d \in store'.after : Keeps(d, x)
    BY <1>4, <2>5, <2>8
  <2>10. HolderKnows(j)'
    BY <1>1, <1>3, <1>8, <2>2, <2>5 DEF HolderKnows
  <2> QED
    BY <1>1, <1>2, <1>3, <1>5, <2>6, <2>7, <2>9, <2>10, HandlerSteps
<1> QED
    BY <1>5, <1>7, <1>8, RecordsDiffer DEF Requested

\* The record is on disk, and with it everything that was answered.
LEMMA SyncStoreKeepsInv ==
    ASSUME DeliveryInv, NEW w \in Workers, SyncStore(w)
    PROVE  DeliveryInv'
<1>1. /\ UNCHANGED << contract, closed, archive, answered, clientVars, net >>
      /\ work[w].pc \in {"sync", "resync"} /\ Leave(w, work[w].new) /\ NoFault
      /\ store'.now = store.now /\ store'.after = {store.now}
    BY DEF SyncStore, At, Synced, OnDisk
<1>2. /\ HolderKnows(work[w]) /\ faults' \in 0 .. MaxFaults
      /\ \A v \in Workers \ {w} : work[v].pc \notin Held
    BY <1>1, FaultsStay, OnlyTheHolder DEF DeliveryInv, Held
<1>3. work[w].new \in Receipt \cup Marker \cup {None}
    BY DEF DeliveryInv, DeliveryTypeOK, WorkType
<1>4. PICK j \in WorkType :
         /\ JobTyped(work[w]) /\ work' = [work EXCEPT ![w] = j] /\ holder' = None
         /\ j.pc = "reply" /\ j.req = work[w].req /\ j.new = work[w].new
    BY <1>1, <1>3, JobLeaves DEF DeliveryInv
<1>5. /\ IsDirectory(archive, SUBSET Contracts) /\ IsDirectory(store, StoreContent) /\ StoreHolds
      /\ \A x \in Given, c \in store.after : Keeps(c, x)
    BY DEF DeliveryInv, DeliveryTypeOK, ServerInv, AnswersHold
<1>6. IsDirectory(archive, SUBSET Contracts)' /\ IsDirectory(store, StoreContent)' /\ StoreHolds'
      /\ \A x \in Given, c \in store'.after : Keeps(c, x)
    BY <1>1, <1>5 DEF IsDirectory, StoreHolds, ContentOK
<1>7. JobTyped(j) /\ j.pc \notin Held /\ j.req \in Requested /\ j.new # None
    BY <1>1, <1>4 DEF JobTyped, Held, WorkType
<1>8. CASE j.req.route = "deliver"
  <2>1. j.new \in store.now.receipts /\ j.new \in Receipt
    BY <1>1, <1>2, <1>4, <1>7, <1>8 DEF HolderKnows, JobTyped
  <2>2. j.new \notin Marker
    BY <2>1, RecordsDiffer
  <2>3. \A c \in store'.after : Keeps(c, j.new)
    BY <1>1, <2>1, <2>2 DEF Keeps
  <2> QED
    BY <1>1, <1>2, <1>4, <1>6, <1>7, <2>2, <2>3, HandlerSteps
<1>9. CASE j.req.route = "final"
  <2>1. j.new = store.now.final /\ j.new \in Marker
    BY <1>1, <1>2, <1>4, <1>7, <1>9 DEF HolderKnows, JobTyped
  <2>2. j.new \notin Receipt
    BY <2>1, RecordsDiffer
  <2>3. \A c \in store'.after : Keeps(c, j.new)
    BY <1>1, <1>7, <2>1, <2>2 DEF Keeps, Marker
  <2> QED
    BY <1>1, <1>2, <1>4, <1>6, <1>7, <2>1, <2>3, HandlerSteps
<1> QED
    BY <1>7, <1>8, <1>9, RecordsDiffer DEF Requested

LEMMA SyncStoreFailsKeepsInv ==
    ASSUME DeliveryInv, NEW w \in Workers, SyncStoreFails(w)
    PROVE  DeliveryInv'
<1> DEFINE c == [store.now EXCEPT !.receipts = @ \ {work[w].new}]
<1>1. /\ UNCHANGED << contract, closed, archive, answered, clientVars, net >> /\ Fault(MaxFaults)
      /\ work[w].pc \in {"sync", "resync"} /\ Leave(w, None) /\ work[w].pc \in Held
    BY DEF SyncStoreFails, At, Held
<1>2. HolderKnows(work[w])
    BY <1>1, OnlyTheHolder
<1>3. CASE store' = store
    BY <1>1, <1>3, StoreStays, ErrorKeepsInv
<1>4. CASE work[w].pc = "sync" /\ work[w].req.route = "deliver" /\ store' = Changed(store, c)
  <2>1. c \in store.after
    BY <1>2, <1>4 DEF HolderKnows
  <2> HIDE DEF c
  <2>2. store'.now = c /\ store'.after = store.after
    BY <1>4, <2>1 DEF Changed
  <2>3. /\ IsDirectory(archive, SUBSET Contracts) /\ IsDirectory(store, StoreContent) /\ StoreHolds
        /\ \A x \in Given, d \in store.after : Keeps(d, x)
    BY DEF DeliveryInv, DeliveryTypeOK, ServerInv, AnswersHold
  <2>4. IsDirectory(archive, SUBSET Contracts)' /\ IsDirectory(store, StoreContent)' /\ StoreHolds'
    BY <1>1, <2>1, <2>2, <2>3 DEF IsDirectory, StoreHolds, ContentOK
  <2> QED
    BY <1>1, <2>2, <2>3, <2>4, ErrorKeepsInv
<1> QED
    BY <1>3, <1>4 DEF SyncStoreFails, At

\* The server's part when an answer goes out, or is lost on its way.
LEMMA AnswerKeepsServer ==
    ASSUME DeliveryInv, NEW w \in Workers, work[w].pc = "reply", work' = [work EXCEPT ![w] = Idle],
           answered' = IF work[w].new = None THEN answered ELSE answered \cup {work[w].new},
           UNCHANGED << contract, archive, store, holder >>
    PROVE  /\ ServerInv' /\ answered \subseteq answered'
           /\ work' \in [Workers -> WorkType] /\ \A v \in Workers : JobTyped(work'[v])
           /\ answered' \subseteq Receipt \cup Marker
<1>1. /\ Idle \in WorkType /\ JobTyped(Idle) /\ Idle.pc = "idle"
    BY DEF Idle, WorkType, JobTyped
<1> HIDE DEF Idle
<1>2. /\ work' \in [Workers -> WorkType] /\ work'[w] = Idle
      /\ \A v \in Workers \ {w} : work'[v] = work[v]
      /\ work[w].new \in Receipt \cup Marker \cup {None}
    BY <1>1 DEF DeliveryInv, DeliveryTypeOK, WorkType
<1>3. \A v \in Workers : JobTyped(work'[v])
    BY <1>1, <1>2 DEF DeliveryInv, DeliveryTypeOK
<1>4. answered \subseteq answered' /\ answered' \subseteq Receipt \cup Marker
    BY <1>2 DEF DeliveryInv, DeliveryTypeOK
<1>5. Given' \subseteq Given
  <2>1. work[w].new \in Given
    BY DEF Given, At
  <2>2. answered' \subseteq Given
    BY <2>1 DEF Given
  <2>3. \A v \in Workers : work'[v].pc = "reply" => work'[v].new \in Given
    BY <1>1, <1>2 DEF Given, At
  <2> QED
    BY <2>2, <2>3 DEF Given, At
<1>6. AnswersHold'
  <2>1. \A x \in Given', c \in store.after : Keeps(c, x)
    BY <1>5 DEF DeliveryInv, ServerInv, AnswersHold
  <2>2. \A m1, m2 \in Given' : m1 \in Marker /\ m2 \in Marker /\ m1.revision = m2.revision => m1 = m2
    BY <1>5 DEF DeliveryInv, ServerInv, AnswersHold
  <2> QED
    BY <2>1, <2>2 DEF AnswersHold, Keeps
<1>7. StoreHolds'
    BY StoreStays
<1>8. WorkersHold'
  <2> SUFFICES ASSUME NEW v \in Workers, work'[v].pc \in Held
               PROVE  (holder = v /\ HolderKnows(work[v]))'
    BY DEF WorkersHold
  <2>1. work'[v] = work[v] /\ holder = v /\ HolderKnows(work[v])
    BY <1>1, <1>2 DEF DeliveryInv, ServerInv, WorkersHold, Held
  <2>2. HolderKnows(work[v])'
    BY <2>1, KnowledgeStays
  <2> QED
    BY <2>1, <2>2
<1> QED
    BY <1>2, <1>3, <1>4, <1>6, <1>7, <1>8 DEF ServerInv

LEMMA RepliesKeepInv ==
    ASSUME DeliveryInv, NEW w \in Workers, Reply(w) \/ ReplyLost(w)
    PROVE  DeliveryInv'
<1> DEFINE record == work[w].new
<1>1. /\ work[w].pc = "reply" /\ work' = [work EXCEPT ![w] = Idle]
      /\ answered' = IF work[w].new = None THEN answered ELSE answered \cup {work[w].new}
      /\ UNCHANGED << contract, closed, archive, store, holder, net, known, box, lastId, sent, confirmed >>
    BY DEF Reply, ReplyLost, At
<1>2. /\ ServerInv' /\ answered \subseteq answered'
      /\ work' \in [Workers -> WorkType] /\ \A v \in Workers : JobTyped(work'[v])
      /\ answered' \subseteq Receipt \cup Marker
    BY <1>1, AnswerKeepsServer
<1>3. faults' \in 0 .. MaxFaults
    BY FaultsStay DEF Reply, ReplyLost, DeliveryInv
<1>4. \/ client' = client \/ client' = Resting
      \/ /\ client' = [client EXCEPT !.pc = "save", !.receipt = record]
         /\ record # None /\ record.pkg = client.pkg /\ work[w].req.route = "deliver"
    BY DEF Reply, ReplyLost, Awaited
<1>5. /\ client' \in ClientType
      /\ client'.pc \notin {"idle", "snapshot"} => client'.pkg # None
      /\ client'.pc = "save" => client'.receipt # None /\ client'.receipt \in answered'
      /\ client'.pc \in {"archive", "archiveSync", "snapshot"} => lastId < MaxId
  <2>1. CASE client' = client
    BY <1>2, <2>1 DEF DeliveryInv, DeliveryTypeOK, ReceiptsWereAnswered
  <2>2. CASE client' = Resting
    BY <2>2 DEF Resting, ClientType, ClientStages
  <2>3. CASE /\ client' = [client EXCEPT !.pc = "save", !.receipt = record]
             /\ record # None /\ record.pkg = client.pkg /\ work[w].req.route = "deliver"
    <3>1. work[w] \in WorkType /\ JobTyped(work[w]) /\ client \in ClientType
      BY DEF DeliveryInv, DeliveryTypeOK
    <3>2. record \in Receipt /\ client.pkg \in Package /\ client.pkg # None
      BY <1>1, <2>3, <3>1, DeliveryAssumption DEF JobTyped, Receipt
    <3>3. record \in answered'
      BY <1>1, <2>3
    <3> HIDE DEF record
    <3>4. /\ client' \in ClientType /\ client'.pc = "save" /\ client'.receipt = record
          /\ client'.pkg = client.pkg
      BY <2>3, <3>1, <3>2 DEF ClientType, ClientStages
    <3> QED
      BY <2>3, <3>2, <3>3, <3>4
  <2> QED
    BY <1>4, <2>1, <2>2, <2>3
<1>6. DeliveryTypeOK'
  <2>1. IsDirectory(archive, SUBSET Contracts)' /\ IsDirectory(store, StoreContent)'
        /\ IsDirectory(box, BoxContent)'
    BY <1>1 DEF DeliveryInv, DeliveryTypeOK, IsDirectory
  <2>2. (\A v \in Workers : JobTyped(work[v]))'
    BY <1>2 DEF JobTyped
  <2> QED
    BY <1>1, <1>2, <1>3, <1>5, <2>1, <2>2 DEF DeliveryInv, DeliveryTypeOK
<1>7. ReceiptsWereAnswered'
    BY <1>1, <1>2, <1>5 DEF DeliveryInv, ReceiptsWereAnswered
<1> QED
    BY <1>2, <1>6, <1>7 DEF DeliveryInv

\* The process ends: the files are one of the contents that the disk may hold.
LEMMA ServerStopsKeepsInv ==
    ASSUME DeliveryInv, ServerCrash \/ ServerPowerLoss
    PROVE  DeliveryInv'
<1>1. /\ work' = [w \in Workers |-> Idle] /\ holder' = None
      /\ UNCHANGED << contract, closed, answered, clientVars, net >> /\ Fault(MaxFaults)
    BY DEF ServerCrash, ServerPowerLoss, ServerStops
<1>2. /\ IsDirectory(archive, SUBSET Contracts) /\ IsDirectory(store, StoreContent)
      /\ IsDirectory(box, BoxContent)
    BY DEF DeliveryInv, DeliveryTypeOK
<1>3. /\ IsDirectory(archive, SUBSET Contracts)' /\ IsDirectory(store, StoreContent)'
      /\ store'.after \subseteq store.after /\ archive'.after \subseteq archive.after
  <2>1. CASE ServerCrash
    BY <1>2, <2>1 DEF ServerCrash, ServerStops, IsDirectory
  <2>2. CASE ServerPowerLoss
    <3>1. PICK s \in store.after, a \in archive.after : store' = OnDisk(s) /\ archive' = OnDisk(a)
      BY <2>2 DEF ServerPowerLoss, ServerStops
    <3> QED
      BY <1>2, <3>1 DEF OnDisk, IsDirectory
  <2> QED
    BY <2>1, <2>2
<1>4. /\ Idle \in WorkType /\ JobTyped(Idle) /\ Idle.pc = "idle"
    BY DEF Idle, WorkType, JobTyped
<1> HIDE DEF Idle
<1>5. /\ work' \in [Workers -> WorkType]
      /\ \A w \in Workers : work'[w] = Idle
    BY <1>1, <1>4
<1>6. UNCHANGED << known, box, client, lastId, sent, confirmed >>
    BY <1>1 DEF clientVars
<1>7. DeliveryTypeOK'
  <2>1. (\A v \in Workers : JobTyped(work[v]))'
    BY <1>4, <1>5 DEF JobTyped
  <2>2. IsDirectory(box, BoxContent)'
    BY <1>2, <1>6 DEF IsDirectory
  <2>3. faults' \in 0 .. MaxFaults
    BY <1>1, FaultsStay DEF DeliveryInv
  <2> QED
    BY <1>1, <1>3, <1>5, <1>6, <2>1, <2>2, <2>3 DEF DeliveryInv, DeliveryTypeOK
<1>8. WorkersHold'
    BY <1>4, <1>5 DEF WorkersHold, Held
<1>9. StoreHolds'
    BY <1>3 DEF DeliveryInv, ServerInv, StoreHolds, ContentOK
<1>10. Given' \subseteq Given
    BY <1>1, <1>4, <1>5 DEF Given, At
<1>11. AnswersHold'
  <2>1. \A x \in Given', c \in store'.after : Keeps(c, x)
    BY <1>3, <1>10 DEF DeliveryInv, ServerInv, AnswersHold
  <2>2. \A m1, m2 \in Given' : m1 \in Marker /\ m2 \in Marker /\ m1.revision = m2.revision => m1 = m2
    BY <1>10 DEF DeliveryInv, ServerInv, AnswersHold
  <2> QED
    BY <2>1, <2>2 DEF AnswersHold, Keeps
<1>12. ReceiptsWereAnswered'
    BY <1>1, <1>6 DEF DeliveryInv, ReceiptsWereAnswered
<1> QED
    BY <1>7, <1>8, <1>9, <1>11, <1>12 DEF DeliveryInv, ServerInv

\* A step that leaves the server's files, answers and jobs alone, but for what
\* the client still waits for.
LEMMA ServerStays ==
    ASSUME DeliveryInv, UNCHANGED << archive, store, holder, answered >>,
           contract' = contract \/ (holder = None /\ contract' \in Contracts),
           work' \in [Workers -> WorkType],
           \A w \in Workers :
               /\ work'[w].pc = work[w].pc /\ work'[w].new = work[w].new
               /\ (work'[w].req = None) <=> (work[w].req = None)
               /\ work[w].req # None => work'[w].req.route = work[w].req.route
    PROVE  ServerInv' /\ \A w \in Workers : JobTyped(work'[w])
<1>1. \A w \in Workers : JobTyped(work'[w])
  <2> SUFFICES ASSUME NEW w \in Workers PROVE JobTyped(work'[w])
    OBVIOUS
  <2>1. JobTyped(work[w]) /\ (work[w].pc = "idle" \/ work[w].req # None)
    BY DEF DeliveryInv, DeliveryTypeOK, JobTyped
  <2> QED
    BY <2>1 DEF JobTyped
<1>2. WorkersHold'
  <2> SUFFICES ASSUME NEW w \in Workers, work'[w].pc \in Held
               PROVE  (holder = w /\ HolderKnows(work[w]))'
    BY DEF WorkersHold
  <2>1. /\ work[w].pc \in Held /\ holder = w /\ HolderKnows(work[w]) /\ contract' = contract
        /\ work'[w].req.route = work[w].req.route
    <3>1. work[w].pc \in Held /\ holder = w /\ HolderKnows(work[w])
      BY DEF DeliveryInv, ServerInv, WorkersHold
    <3>2. JobTyped(work[w])
      BY DEF DeliveryInv, DeliveryTypeOK
    <3> QED
      BY <3>1, <3>2, DeliveryAssumption DEF JobTyped, Held
  <2>2. PICK j : j = work[w]
    OBVIOUS
  <2>3. PICK k : k = work'[w]
    OBVIOUS
  <2>4. HolderKnows(j)'
    BY <2>1, <2>2, KnowledgeStays
  <2>5. k.pc = j.pc /\ k.new = j.new /\ k.req.route = j.req.route
    BY <2>1, <2>2, <2>3
  <2>6. HolderKnows(k)'
    BY <2>4, <2>5 DEF HolderKnows
  <2> QED
    BY <2>1, <2>3, <2>6
<1>3. StoreHolds'
    BY StoreStays
<1>4. Given' = Given
    BY DEF Given, At
<1>5. AnswersHold'
  <2>1. \A x \in Given', c \in store.after : Keeps(c, x)
    BY <1>4 DEF DeliveryInv, ServerInv, AnswersHold
  <2>2. \A m1, m2 \in Given' : m1 \in Marker /\ m2 \in Marker /\ m1.revision = m2.revision => m1 = m2
    BY <1>4 DEF DeliveryInv, ServerInv, AnswersHold
  <2> QED
    BY <2>1, <2>2 DEF AnswersHold, Keeps
<1> QED
    BY <1>1, <1>2, <1>3, <1>5 DEF ServerInv

-----------------------------------------------------------------------------
(***************************************************************************)
(* The steps of the teacher and of the client                              *)
(***************************************************************************)

LEMMA TeacherKeepsInv ==
    ASSUME DeliveryInv, NEW c \in Contracts, EditAssignment(c) \/ DeadlinePasses(c)
    PROVE  DeliveryInv'
<1>1. /\ UNCHANGED << archive, store, holder, work, answered, clientVars, net >> /\ NoFault
      /\ contract' = contract \/ (holder = None /\ contract' = c)
      /\ closed' \subseteq closed \cup {c}
    BY DEF EditAssignment, DeadlinePasses
<1>2. ServerInv' /\ \A w \in Workers : JobTyped(work'[w])
  <2>1. work' \in [Workers -> WorkType]
    BY <1>1 DEF DeliveryInv, DeliveryTypeOK
  <2> QED
    BY <1>1, <2>1, ServerStays
<1>3. UNCHANGED << known, box, client, lastId, sent, confirmed >> /\ faults' \in 0 .. MaxFaults
    BY <1>1, FaultsStay DEF clientVars, DeliveryInv
<1>4. DeliveryTypeOK'
    BY <1>1, <1>3 DEF DeliveryInv, DeliveryTypeOK, IsDirectory, JobTyped
<1>5. ReceiptsWereAnswered'
    BY <1>1, <1>3 DEF DeliveryInv, ReceiptsWereAnswered
<1> QED
    BY <1>2, <1>4, <1>5 DEF DeliveryInv

\* What the client no longer waits for goes on as it was.
LEMMA ForgetIsQuiet ==
    ASSUME DeliveryInv, Forget
    PROVE  /\ net' \subseteq Requested /\ work' \in [Workers -> WorkType]
           /\ \A w \in Workers :
               /\ work'[w].pc = work[w].pc /\ work'[w].new = work[w].new
               /\ (work'[w].req = None) <=> (work[w].req = None)
               /\ work[w].req # None => work'[w].req.route = work[w].req.route
<1>1. \A m \in DeliverRequest : /\ [m EXCEPT !.live = FALSE] \in DeliverRequest
                                /\ [m EXCEPT !.live = FALSE].route = "deliver"
    BY DEF DeliverRequest
<1>2. net \subseteq Requested /\ work \in [Workers -> WorkType]
    BY DEF DeliveryInv, DeliveryTypeOK
<1>3. net' \subseteq Requested
  <2> SUFFICES ASSUME NEW m \in net
               PROVE  (IF m.route = "deliver" THEN [m EXCEPT !.live = FALSE] ELSE m) \in Requested
    BY DEF Forget
  <2>1. CASE m \in DeliverRequest
    BY <1>1, <2>1, RecordsDiffer DEF Requested
  <2>2. CASE m \in FinalRequest
    BY <2>2, RecordsDiffer DEF Requested
  <2> QED
    BY <1>2, <2>1, <2>2 DEF Requested
<1>4. ASSUME NEW w \in Workers
      PROVE  /\ work'[w] \in WorkType /\ work'[w].pc = work[w].pc /\ work'[w].new = work[w].new
             /\ (work'[w].req = None) <=> (work[w].req = None)
             /\ work[w].req # None => work'[w].req.route = work[w].req.route
  <2>1. JobTyped(work[w]) /\ work[w] \in WorkType
    BY <1>2 DEF DeliveryInv, DeliveryTypeOK
  <2>2. CASE At(w, "idle") \/ ~Awaited(w)
    <3>1. work'[w] = work[w]
      BY <2>2 DEF Forget
    <3> QED
      BY <2>1, <3>1
  <2>3. CASE ~At(w, "idle") /\ Awaited(w)
    <3> DEFINE q == [work[w].req EXCEPT !.live = FALSE]
    <3>1. work[w].req \in DeliverRequest
      BY <2>1, <2>3, RecordsDiffer DEF JobTyped, At, Awaited, WorkType, Requested
    <3>2. q \in DeliverRequest /\ q.route = "deliver"
      BY <1>1, <3>1
    <3>3. work'[w] = [work[w] EXCEPT !.req = q]
      BY <2>3 DEF Forget
    <3> HIDE DEF q
    <3> QED
      BY <2>1, <3>1, <3>2, <3>3, RecordsDiffer DEF WorkType, Requested
  <2> QED
    BY <2>2, <2>3
<1>5. work' \in [Workers -> WorkType]
    BY <1>4 DEF Forget
<1> QED
    BY <1>3, <1>4, <1>5

LEMMA ClientMoves ==
    ASSUME DeliveryInv, UNCHANGED << contract, closed, archive, store, holder, answered >>,
           (UNCHANGED work /\ net' \subseteq Requested) \/ Forget,
           Fault(MaxFaults) \/ NoFault, known' \in Contracts, IsDirectory(box, BoxContent)',
           lastId' \in 0 .. MaxId, client' \in ClientType,
           client'.pc \notin {"idle", "snapshot"} => client'.pkg # None,
           client'.pc = "save" => client'.receipt # None,
           client'.pc \in {"archive", "archiveSync", "snapshot"} => lastId' < MaxId,
           sent' \subseteq Package, confirmed' \subseteq Package,
           ReceiptsWereAnswered'
    PROVE  DeliveryInv'
<1>1. /\ net' \subseteq Requested /\ work' \in [Workers -> WorkType]
      /\ \A w \in Workers :
            /\ work'[w].pc = work[w].pc /\ work'[w].new = work[w].new
            /\ (work'[w].req = None) <=> (work[w].req = None)
            /\ work[w].req # None => work'[w].req.route = work[w].req.route
    BY ForgetIsQuiet DEF DeliveryInv, DeliveryTypeOK
<1>2. ServerInv' /\ \A w \in Workers : JobTyped(work'[w])
    BY <1>1, ServerStays
<1>3. DeliveryTypeOK'
  <2>1. IsDirectory(archive, SUBSET Contracts)' /\ IsDirectory(store, StoreContent)'
    BY StoreStays
  <2>2. (\A w \in Workers : JobTyped(work[w]))'
    BY <1>2 DEF JobTyped
  <2>3. faults' \in 0 .. MaxFaults
    BY FaultsStay DEF DeliveryInv
  <2> QED
    BY <1>1, <2>1, <2>2, <2>3 DEF DeliveryInv, DeliveryTypeOK
<1> QED
    BY <1>2, <1>3 DEF DeliveryInv

\* The client's directory: nothing changes, a sync, or a new content.
LEMMA BoxMoves ==
    ASSUME DeliveryInv, answered' = answered,
           client'.pc # "save" \/ UNCHANGED client,
           \/ UNCHANGED box
           \/ box' = Synced(box)
           \/ \E b \in box.after : box' = OnDisk(b)
           \/ \E c \in BoxContent :
                /\ box' = Changed(box, c)
                /\ c.slot # None /\ c.slot.receipt # None => c.slot.receipt \in answered
    PROVE  IsDirectory(box, BoxContent)' /\ ReceiptsWereAnswered'
<1>1. IsDirectory(box, BoxContent)
    BY DEF DeliveryInv, DeliveryTypeOK
<1>2. \A b \in box.after : b.slot # None /\ b.slot.receipt # None => b.slot.receipt \in answered
    BY DEF DeliveryInv, ReceiptsWereAnswered
<1>3. client'.pc = "save" => client'.receipt \in answered
    BY DEF DeliveryInv, ReceiptsWereAnswered
<1>4. CASE UNCHANGED box
    BY <1>1, <1>2, <1>3, <1>4 DEF IsDirectory, ReceiptsWereAnswered
<1>5. CASE box' = Synced(box)
    BY <1>1, <1>2, <1>3, <1>5 DEF IsDirectory, ReceiptsWereAnswered, Synced, OnDisk
<1>6. CASE \E b \in box.after : box' = OnDisk(b)
    BY <1>1, <1>2, <1>3, <1>6 DEF IsDirectory, ReceiptsWereAnswered, OnDisk
<1>7. CASE \E c \in BoxContent :
              /\ box' = Changed(box, c)
              /\ c.slot # None /\ c.slot.receipt # None => c.slot.receipt \in answered
  <2>1. PICK c \in BoxContent :
           /\ box' = Changed(box, c)
           /\ c.slot # None /\ c.slot.receipt # None => c.slot.receipt \in answered
    BY <1>7
  <2>2. box'.now = c /\ box'.after = box.after \cup {c}
    BY <2>1 DEF Changed
  <2> QED
    BY <1>1, <1>2, <1>3, <2>1, <2>2 DEF IsDirectory, ReceiptsWereAnswered
<1> QED
    BY <1>4, <1>5, <1>6, <1>7

\* The steps of the client that touch nothing but where it is.
LEMMA ClientTurnsKeepInv ==
    ASSUME DeliveryInv, Refresh \/ Send \/ SendNew \/ SyncSlot \/ SyncSlotFails \/ SyncArchived
    PROVE  DeliveryInv'
<1>1. /\ UNCHANGED << contract, closed, archive, store, holder, work, answered, net, lastId, sent, confirmed >>
      /\ Fault(MaxFaults) \/ NoFault
      /\ known' = known \/ known' = contract
      /\ UNCHANGED box \/ box' = Synced(box)
    BY DEF Refresh, Send, SendNew, SyncSlot, SyncSlotFails, SyncArchived, ClientOnly, serverVars
<1>2. /\ box.now \in BoxContent /\ client \in ClientType /\ known \in Contracts /\ contract \in Contracts
      /\ net \subseteq Requested /\ lastId \in 0 .. MaxId
      /\ sent \subseteq Package /\ confirmed \subseteq Package
      /\ client.pc \notin {"idle", "snapshot"} => client.pkg # None
      /\ client.pc \in {"archive", "archiveSync", "snapshot"} => lastId < MaxId
      /\ client.pc = "save" => client.receipt # None
    BY DEF DeliveryInv, DeliveryTypeOK, IsDirectory
<1>3. ~SlotIsFree => box.now.slot.pkg \in Package /\ box.now.slot.pkg # None
    BY <1>2, DeliveryAssumption DEF SlotIsFree, BoxContent, Slot
<1>4. /\ client' \in ClientType /\ (client'.pc # "save" \/ UNCHANGED client)
      /\ client'.pc \notin {"idle", "snapshot"} => client'.pkg # None
      /\ client'.pc \in {"archive", "archiveSync", "snapshot"} => lastId < MaxId
      /\ client'.pc = "save" => client'.receipt # None
  <2>1. CASE client' = client
    BY <1>2, <2>1
  <2>2. CASE client' = Resting
    BY <2>2 DEF Resting, ClientType, ClientStages
  <2>3. CASE Send
    BY <1>2, <1>3, <2>3 DEF Send, ClientType, ClientStages
  <2>4. CASE SendNew
    BY <1>2, <1>3, <2>4 DEF SendNew, ClientType, ClientStages
  <2>5. CASE SyncSlot
    BY <1>2, <2>2, <2>5 DEF SyncSlot, ClientType, ClientStages
  <2>6. CASE SyncArchived
    BY <1>2, <2>6 DEF SyncArchived, ClientType, ClientStages
  <2> QED
    BY <2>1, <2>2, <2>3, <2>4, <2>5, <2>6 DEF Refresh, SyncSlotFails
<1>5. IsDirectory(box, BoxContent)' /\ ReceiptsWereAnswered'
    BY <1>1, <1>4, BoxMoves
<1> QED
    BY <1>1, <1>2, <1>4, <1>5, ClientMoves

LEMMA ArchiveKeepsInv ==
    ASSUME DeliveryInv, ArchivePackage \/ SyncArchivedFails
    PROVE  DeliveryInv'
<1>1. /\ UNCHANGED << contract, closed, archive, store, holder, work, answered, net, known, lastId,
                      sent, confirmed >>
      /\ (Fault(MaxFaults) \/ NoFault) /\ client.pc \in {"archive", "archiveSync"}
    BY DEF ArchivePackage, SyncArchivedFails, ClientOnly, serverVars
<1>2. /\ box.now \in BoxContent /\ box.now \in box.after /\ client \in ClientType /\ known \in Contracts
      /\ net \subseteq Requested /\ lastId \in 0 .. MaxId
      /\ sent \subseteq Package /\ confirmed \subseteq Package
      /\ client.pkg \in Package /\ client.pkg # None /\ lastId < MaxId
    BY <1>1 DEF DeliveryInv, DeliveryTypeOK, IsDirectory, ClientType
<1>3. /\ client' \in ClientType /\ client'.pc # "save"
      /\ client'.pc \notin {"idle", "snapshot"} => client'.pkg # None
      /\ client'.pc \in {"archive", "archiveSync", "snapshot"} => lastId < MaxId
  <2>1. CASE client' = Resting
    BY <2>1 DEF Resting, ClientType, ClientStages
  <2>2. CASE ArchivePackage
    BY <1>2, <2>2 DEF ArchivePackage, ClientType, ClientStages
  <2> QED
    BY <2>1, <2>2 DEF SyncArchivedFails
<1>4. \/ UNCHANGED box
      \/ \E c \in BoxContent :
            /\ box' = Changed(box, c)
            /\ c.slot # None /\ c.slot.receipt # None => c.slot.receipt \in answered
  <2> DEFINE c == [box.now EXCEPT !.archived = @ \cup {client.pkg}]
             d == [box.now EXCEPT !.archived = @ \ {client.pkg}]
  <2>1. /\ c \in BoxContent /\ c.slot = box.now.slot
        /\ d \in BoxContent /\ d.slot = box.now.slot
    BY <1>2 DEF BoxContent
  <2>2. box.now.slot # None /\ box.now.slot.receipt # None => box.now.slot.receipt \in answered
    BY <1>2 DEF DeliveryInv, ReceiptsWereAnswered
  <2>3. UNCHANGED box \/ box' = Changed(box, c) \/ box' = Changed(box, d)
    BY DEF ArchivePackage, SyncArchivedFails
  <2> HIDE DEF c, d
  <2> QED
    BY <2>1, <2>2, <2>3
<1>5. IsDirectory(box, BoxContent)' /\ ReceiptsWereAnswered'
    BY <1>1, <1>3, <1>4, BoxMoves
<1> QED
    BY <1>1, <1>2, <1>3, <1>5, ClientMoves

LEMMA SnapshotKeepsInv ==
    ASSUME DeliveryInv, Snapshot
    PROVE  DeliveryInv'
<1> DEFINE pkg == [id |-> lastId + 1, contract |-> known]
           s == [pkg |-> pkg, receipt |-> None]
           c == [box.now EXCEPT !.slot = s]
<1>1. /\ UNCHANGED << contract, closed, archive, store, holder, work, answered, net, known, sent, confirmed >>
      /\ NoFault /\ client.pc = "snapshot" /\ lastId' = lastId + 1
      /\ box' = Changed(box, c) /\ client' = [pc |-> "slotSync", pkg |-> pkg, receipt |-> None]
    BY DEF Snapshot, ClientOnly, serverVars
<1>2. /\ box.now \in BoxContent /\ known \in Contracts /\ net \subseteq Requested
      /\ sent \subseteq Package /\ confirmed \subseteq Package
      /\ lastId \in 0 .. MaxId /\ lastId < MaxId /\ MaxId \in Nat
    BY <1>1, DeliveryAssumption DEF DeliveryInv, DeliveryTypeOK, IsDirectory
<1>3. pkg \in Package /\ pkg # None /\ lastId + 1 \in 0 .. MaxId
    BY <1>2, DeliveryAssumption DEF Package, AttemptIds
<1> HIDE DEF pkg
<1>4. c \in BoxContent /\ c.slot = s /\ s.receipt = None
    BY <1>2, <1>3 DEF BoxContent, Slot
<1> HIDE DEF c
<1>5. /\ client' \in ClientType /\ client'.pc = "slotSync" /\ client'.pkg # None
    BY <1>1, <1>3 DEF ClientType, ClientStages
<1>6. IsDirectory(box, BoxContent)' /\ ReceiptsWereAnswered'
    BY <1>1, <1>4, <1>5, BoxMoves
<1> QED
    BY <1>1, <1>2, <1>3, <1>5, <1>6, ClientMoves

LEMMA TransmitKeepsInv ==
    ASSUME DeliveryInv, Transmit
    PROVE  DeliveryInv'
<1> DEFINE m == [route |-> "deliver", pkg |-> client.pkg, live |-> TRUE]
<1>1. /\ UNCHANGED << contract, closed, archive, store, holder, work, answered, known, box, lastId, confirmed >>
      /\ NoFault /\ client.pc = "send" /\ client' = [client EXCEPT !.pc = "wait"]
      /\ net' = net \cup {m} /\ sent' = sent \cup {client.pkg}
    BY DEF Transmit, serverVars
<1>2. /\ known \in Contracts /\ net \subseteq Requested /\ lastId \in 0 .. MaxId
      /\ sent \subseteq Package /\ confirmed \subseteq Package
      /\ client \in ClientType /\ client.pkg \in Package /\ client.pkg # None
    BY <1>1 DEF DeliveryInv, DeliveryTypeOK, ClientType
<1>3. m \in Requested
    BY <1>2 DEF Requested, DeliverRequest
<1>4. client' \in ClientType /\ client'.pc = "wait" /\ client'.pkg # None
    BY <1>1, <1>2 DEF ClientType, ClientStages
<1>5. IsDirectory(box, BoxContent)' /\ ReceiptsWereAnswered'
    BY <1>1, <1>4, BoxMoves
<1> QED
    BY <1>1, <1>2, <1>3, <1>4, <1>5, ClientMoves

LEMMA SaveReceiptKeepsInv ==
    ASSUME DeliveryInv, SaveReceipt
    PROVE  DeliveryInv'
<1> DEFINE s == [pkg |-> client.pkg, receipt |-> client.receipt]
           c == [box.now EXCEPT !.slot = s]
<1>1. /\ UNCHANGED << contract, closed, archive, store, holder, work, answered, net, known, lastId, sent >>
      /\ NoFault /\ client.pc = "save" /\ client' = [client EXCEPT !.pc = "saveSync"]
      /\ box' = Changed(box, c) /\ confirmed' = confirmed \cup {client.pkg}
    BY DEF SaveReceipt, ClientOnly, serverVars
<1>2. /\ box.now \in BoxContent /\ known \in Contracts /\ net \subseteq Requested
      /\ sent \subseteq Package /\ confirmed \subseteq Package /\ lastId \in 0 .. MaxId
      /\ client \in ClientType /\ client.pkg \in Package /\ client.pkg # None
      /\ client.receipt \in Receipt /\ client.receipt \in answered
    BY <1>1 DEF DeliveryInv, DeliveryTypeOK, IsDirectory, ClientType, ReceiptsWereAnswered
<1>3. c \in BoxContent /\ c.slot = s /\ s.receipt = client.receipt
    BY <1>2 DEF BoxContent, Slot
<1> HIDE DEF c
<1>4. client' \in ClientType /\ client'.pc = "saveSync" /\ client'.pkg # None
    BY <1>1, <1>2 DEF ClientType, ClientStages
<1>5. IsDirectory(box, BoxContent)' /\ ReceiptsWereAnswered'
    BY <1>1, <1>2, <1>3, <1>4, BoxMoves
<1> QED
    BY <1>1, <1>2, <1>4, <1>5, ClientMoves

\* The client gives up, or stops: its directory is one that the disk may hold.
LEMMA GivingUpKeepsInv ==
    ASSUME DeliveryInv, Timeout \/ ClientCrash \/ ClientLosesPower
    PROVE  DeliveryInv'
<1>1. /\ UNCHANGED << contract, closed, archive, store, holder, answered, known, lastId, sent, confirmed >>
      /\ client' = Resting /\ Forget /\ (Fault(MaxFaults) \/ NoFault)
      /\ UNCHANGED box \/ \E b \in box.after : box' = OnDisk(b)
    BY DEF Timeout, ClientCrash, ClientLosesPower, ClientStops
<1>2. /\ client' \in ClientType /\ client'.pc = "idle"
    BY <1>1 DEF Resting, ClientType, ClientStages
<1>3. IsDirectory(box, BoxContent)' /\ ReceiptsWereAnswered'
    BY <1>1, <1>2, BoxMoves
<1>4. known \in Contracts /\ lastId \in 0 .. MaxId /\ sent \subseteq Package /\ confirmed \subseteq Package
    BY DEF DeliveryInv, DeliveryTypeOK
<1> QED
    BY <1>1, <1>2, <1>3, <1>4, ClientMoves

\* A selection sets out, or a request is lost.
LEMMA RequestsKeepInv ==
    ASSUME DeliveryInv,
           \/ \E id \in AttemptIds, n \in 0 .. MaxRevision : SelectFinal(id, n)
           \/ \E m \in net : RequestLost(m)
    PROVE  DeliveryInv'
<1>1. /\ UNCHANGED << contract, closed, archive, store, holder, work, answered, clientVars >>
      /\ Fault(MaxFaults) \/ NoFault
    BY DEF SelectFinal, RequestLost, serverVars
<1>2. UNCHANGED << known, box, client, lastId, sent, confirmed >>
    BY <1>1 DEF clientVars
<1>3. net' \subseteq Requested
  <2>1. \A id \in AttemptIds, n \in 0 .. MaxRevision :
           [route |-> "final", id |-> id, expected |-> n] \in Requested
    BY DeliveryAssumption DEF Requested, FinalRequest
  <2> QED
    BY <2>1 DEF SelectFinal, RequestLost, DeliveryInv, DeliveryTypeOK
<1>4. IsDirectory(box, BoxContent)' /\ ReceiptsWereAnswered'
    BY <1>1, <1>2, BoxMoves
<1> QED
    BY <1>1, <1>2, <1>3, <1>4, ClientMoves DEF DeliveryInv, DeliveryTypeOK

-----------------------------------------------------------------------------
(***************************************************************************)
(* Receipts and the final selection, always                                *)
(***************************************************************************)

\* The receipts of the attempts delivered before the behaviour begins.
LEMMA FirstReceiptsAreSound ==
    ASSUME NEW n \in Nat, n <= MaxId, n <= MAX_ATTEMPTS, NEW k \in Contracts
    PROVE  /\ FirstReceipts(n, k) \subseteq Receipt
           /\ ContentOK([receipts |-> FirstReceipts(n, k), final |-> None])
           /\ \A r \in FirstReceipts(n, k) : r.pkg.contract = k
<1> DEFINE S == FirstReceipts(n, k)
           f == [i \in 1 .. n |-> [pkg |-> [id |-> i, contract |-> k], sequence |-> i]]
<1>1. /\ S = {f[i] : i \in 1 .. n}
      /\ \A i \in 1 .. n : f[i].pkg.id = i /\ f[i].sequence = i /\ f[i].pkg.contract = k
    BY DEF FirstReceipts
<1>2. \A i \in 1 .. n : f[i] \in Receipt
    BY DeliveryAssumption DEF Receipt, Package, AttemptIds
<1>3. f \in [1 .. n -> S]
    BY <1>1
<1> HIDE DEF f
<1>4. \A i, j \in 1 .. n : f[i] = f[j] => i = j
    BY <1>1
<1>5. f \in Bijection(1 .. n, S)
    BY <1>1, <1>3, <1>4 DEF Bijection, Injection, Surjection, IsInjective
<1>6. IsFiniteSet(1 .. n) /\ Cardinality(1 .. n) = n
    BY FS_Interval
<1>7. IsFiniteSet(S) /\ Cardinality(S) = n
  <2>1. ExistsBijection(1 .. n, S)
    BY <1>5 DEF ExistsBijection
  <2> QED
    BY <1>6, <2>1, FS_Bijection
<1> HIDE DEF S
<1>8. {r.sequence : r \in S} = 1 .. n
    BY <1>1
<1>9. \A r, s \in S : r.pkg.id = s.pkg.id => r = s
    BY <1>1
<1>10. S \subseteq Receipt /\ \A r \in S : r.pkg.contract = k
    BY <1>1, <1>2
<1>11. ContentOK([receipts |-> S, final |-> None])
    BY <1>7, <1>8, <1>9 DEF ContentOK
<1> QED
    BY <1>10, <1>11 DEF S

LEMMA DeliveryBegins == Init => DeliveryInv
<1> SUFFICES ASSUME Init PROVE DeliveryInv
    OBVIOUS
<1> DEFINE S == FirstReceipts(Delivered, contract)
           c == [receipts |-> S, final |-> None]
           k == IF Delivered = 0 THEN {} ELSE {contract}
           b == [slot |-> SlotAfter(Delivered, contract), archived |-> {}]
<1>1. /\ Delivered \in Nat /\ Delivered \in 0 .. MaxId /\ Delivered <= MAX_ATTEMPTS
      /\ contract \in Contracts
    BY DeliveryAssumption DEF Init
<1>2. S \subseteq Receipt /\ ContentOK(c) /\ \A r \in S : r.pkg.contract = contract
    BY <1>1, FirstReceiptsAreSound
<1>3. c \in StoreContent /\ c.receipts = S /\ c.final = None
    BY <1>2 DEF StoreContent
<1>4. \A r \in S : r.pkg.contract \in k
    BY <1>1, <1>2 DEF FirstReceipts
<1>5. b \in BoxContent /\ (b.slot # None => b.slot.receipt \in S)
  <2>1. CASE Delivered = 0
    BY <2>1 DEF SlotAfter, BoxContent
  <2>2. CASE Delivered # 0
    <3> DEFINE p == [id |-> Delivered, contract |-> contract]
               r == [pkg |-> p, sequence |-> Delivered]
    <3>1. p \in Package /\ r \in S
      BY <1>1, <2>2 DEF Package, AttemptIds, FirstReceipts
    <3>2. SlotAfter(Delivered, contract) = [pkg |-> p, receipt |-> r]
      BY <2>2 DEF SlotAfter
    <3> HIDE DEF p, r
    <3> QED
      BY <1>2, <3>1, <3>2 DEF BoxContent, Slot
  <2> QED
    BY <2>1, <2>2
<1>6. store = OnDisk(c) /\ archive = OnDisk(k) /\ box = OnDisk(b) /\ answered = S
    BY DEF Init
<1>7. k \subseteq Contracts
    BY <1>1
<1> HIDE DEF S, c, k, b
<1>8. /\ store.now = c /\ store.after = {c} /\ archive.now = k /\ archive.after = {k}
      /\ box.now = b /\ box.after = {b}
    BY <1>6 DEF OnDisk
<1>9. IsDirectory(archive, SUBSET Contracts) /\ IsDirectory(store, StoreContent) /\ IsDirectory(box, BoxContent)
    BY <1>3, <1>5, <1>7, <1>8 DEF IsDirectory
<1>10. /\ Idle \in WorkType /\ JobTyped(Idle) /\ Idle.pc = "idle"
    BY DEF Idle, WorkType, JobTyped
<1>11. /\ Resting \in ClientType /\ Resting.pc = "idle"
    BY DEF Resting, ClientType, ClientStages
<1>12. /\ work = [w \in Workers |-> Idle] /\ client = Resting
       /\ holder = None /\ closed = {} /\ net = {} /\ known = contract /\ lastId = Delivered /\ faults = 0
       /\ sent = {r.pkg : r \in answered} /\ confirmed = sent
    BY DEF Init
<1> HIDE DEF Idle, Resting
<1>13. \A w \in Workers : work[w] = Idle
    BY <1>12
<1>14. sent \subseteq Package
    BY <1>2, <1>6, <1>12 DEF Receipt
<1>15. work \in [Workers -> WorkType]
    BY <1>10, <1>12
<1>16. DeliveryTypeOK
    BY <1>1, <1>2, <1>6, <1>9, <1>10, <1>11, <1>12, <1>13, <1>14, <1>15, DeliveryAssumption DEF DeliveryTypeOK
<1>17. StoreHolds
    BY <1>2, <1>3, <1>4, <1>8 DEF StoreHolds
<1>18. Given = S
    BY <1>6, <1>10, <1>13 DEF Given, At
<1>19. AnswersHold
  <2>1. \A x \in S : x \notin Marker
    BY <1>2, RecordsDiffer
  <2> QED
    BY <1>3, <1>8, <1>18, <2>1 DEF AnswersHold, Keeps
<1>20. WorkersHold
    BY <1>10, <1>13 DEF WorkersHold, Held
<1>21. ReceiptsWereAnswered
    BY <1>5, <1>6, <1>8, <1>11, <1>12 DEF ReceiptsWereAnswered
<1> QED
    BY <1>16, <1>17, <1>19, <1>20, <1>21 DEF DeliveryInv, ServerInv

LEMMA DeliveryStep == DeliveryInv /\ [Next]_vars => DeliveryInv'
<1> SUFFICES ASSUME DeliveryInv, [Next]_vars PROVE DeliveryInv'
    OBVIOUS
<1>1. CASE UNCHANGED vars
  <2>1. /\ UNCHANGED << contract, closed, archive, store, holder, answered, work, net, faults >>
        /\ UNCHANGED << known, box, client, lastId, sent, confirmed >>
    BY <1>1 DEF vars, serverVars, clientVars
  <2>2. NoFault /\ net' \subseteq Requested /\ IsDirectory(box, BoxContent)' /\ ReceiptsWereAnswered'
    BY <2>1, BoxMoves DEF NoFault, DeliveryInv, DeliveryTypeOK
  <2> QED
    BY <2>1, <2>2, ClientMoves DEF DeliveryInv, DeliveryTypeOK
<1>2. ASSUME NEW w \in Workers, ServerStep(w) \/ ServerFault(w) PROVE DeliveryInv'
    BY <1>2, AcceptKeepsInv, AcquireKeepsInv, LoadKeepsInv, SyncArchiveKeepsInv, PrepareKeepsInv,
       DecideKeepsInv, PublishKeepsInv, SyncStoreKeepsInv, RepliesKeepInv, SyncArchiveFailsKeepsInv,
       PrepareFailsKeepsInv, SyncStoreFailsKeepsInv DEF ServerStep, ServerFault
<1>3. CASE ClientStep
    BY <1>3, ClientTurnsKeepInv, ArchiveKeepsInv, SnapshotKeepsInv, TransmitKeepsInv, SaveReceiptKeepsInv,
       GivingUpKeepsInv DEF ClientStep
<1> QED
    BY <1>1, <1>2, <1>3, ServerStopsKeepsInv, TeacherKeepsInv, ClientTurnsKeepInv, ArchiveKeepsInv,
       GivingUpKeepsInv, RequestsKeepInv DEF Next

LEMMA DeliveryInvAlways == Spec => []DeliveryInv
    BY DeliveryBegins, DeliveryStep, PTL DEF Spec

LEMMA InvMeansSound == DeliveryInv => ReceiptsAreSound /\ FinalSelectionIsSound
<1> SUFFICES ASSUME DeliveryInv PROVE ReceiptsAreSound /\ FinalSelectionIsSound
    OBVIOUS
<1>1. /\ \A x \in Given, c \in store.after : Keeps(c, x)
      /\ \A c \in store.after : ContentOK(c)
      /\ answered \subseteq Given
    BY DEF DeliveryInv, ServerInv, AnswersHold, StoreHolds, Given
<1>2. TypeOK
    BY DEF DeliveryInv, DeliveryTypeOK, TypeOK, WorkType, ClientType, ClientStages, Requested, Held
<1>3. HistoryIsReadable
  <2> SUFFICES ASSUME NEW c \in store.after
               PROVE  /\ {r.sequence : r \in c.receipts} = 1 .. Cardinality(c.receipts)
                      /\ Cardinality({r.pkg.id : r \in c.receipts}) = Cardinality(c.receipts)
    BY DEF HistoryIsReadable
  <2> DEFINE S == c.receipts
             T == {r.pkg.id : r \in S}
             f == [r \in S |-> r.pkg.id]
  <2>1. IsFiniteSet(S) /\ \A r, s \in S : r.pkg.id = s.pkg.id => r = s
    BY <1>1 DEF ContentOK
  <2>2. f \in [S -> T] /\ \A t \in T : \E r \in S : f[r] = t
    OBVIOUS
  <2>3. \A r, s \in S : f[r] = f[s] => r = s
    BY <2>1
  <2>4. f \in Bijection(S, T)
    BY <2>2, <2>3 DEF Bijection, Injection, Surjection, IsInjective
  <2>5. ExistsBijection(S, T)
    BY <2>4 DEF ExistsBijection
  <2>6. Cardinality(T) = Cardinality(S)
    BY <2>1, <2>5, FS_Bijection
  <2> QED
    BY <1>1, <2>6 DEF ContentOK
<1>4. AnsweredIsDurable
    BY <1>1 DEF AnsweredIsDurable, Keeps, DeliveryInv, ReceiptsWereAnswered, DeliveryTypeOK, IsDirectory, BoxContent, Slot
<1>5. ReceiptHasRevision
    BY DEF ReceiptHasRevision, DeliveryInv, ServerInv, StoreHolds
<1>6. FinalIsReceived
    BY <1>1 DEF FinalIsReceived, ContentOK
<1>7. FinalsAreOrdered
    BY <1>1 DEF FinalsAreOrdered, Keeps, DeliveryInv, ServerInv, AnswersHold
<1> QED
    BY <1>2, <1>3, <1>4, <1>5, <1>6, <1>7 DEF ReceiptsAreSound, FinalSelectionIsSound

\* A receipt the server has answered with stays on its disk, the history can always be read and each
\* received attempt graded, whatever processes end, saves fail and answers get lost.
THEOREM ReceiptsAreSoundAlways == Spec => []ReceiptsAreSound
    BY DeliveryInvAlways, InvMeansSound, PTL

\* The final selection is of a received attempt and the last one answered (select_final).
THEOREM FinalSelectionIsSoundAlways == Spec => []FinalSelectionIsSound
    BY DeliveryInvAlways, InvMeansSound, PTL

-----------------------------------------------------------------------------
(***************************************************************************)
(* What the client has sent is kept, as long as its machine keeps power    *)
(***************************************************************************)

LiveJob(w) == ~At(w, "idle") /\ Awaited(w)

LEMMA FewerLive ==
    ASSUME OneIsAwaited, client'.pc = client.pc, client'.pkg = client.pkg,
           \A m \in net' : LiveIn(m) => m \in net,
           \A w \in Workers : LiveJob(w)' => LiveJob(w)
    PROVE  OneIsAwaited'
<1>1. \A m \in net' : LiveIn(m) => /\ client'.pc = "wait" /\ m.pkg = client'.pkg
                                   /\ \A w \in Workers : ~LiveJob(w)'
    BY DEF OneIsAwaited, LiveJob
<1>2. \A w \in Workers : LiveJob(w)' => /\ client'.pc = "wait"
                                        /\ \A v \in Workers \ {w} : ~LiveJob(v)'
    BY DEF OneIsAwaited, LiveJob
<1> QED
    BY <1>1, <1>2 DEF OneIsAwaited, LiveJob, LiveIn, At, Awaited

LEMMA NoneLive ==
    ASSUME \A m \in net' : ~LiveIn(m), \A w \in Workers : ~LiveJob(w)'
    PROVE  OneIsAwaited'
    BY DEF OneIsAwaited, LiveJob, LiveIn, At, Awaited

\* The directory stays, and the client stays within its call or leaves it.
LEMMA SlotStays ==
    ASSUME SlotHolds, UnconfirmedIsKept, UNCHANGED << box, sent, confirmed >>,
           \/ UNCHANGED client
           \/ client'.pc = "idle"
           \/ /\ client.pc \notin {"idle", "snapshot"} /\ client'.pc \notin {"archiveSync", "snapshot"}
              /\ client'.pkg = client.pkg
    PROVE  SlotHolds' /\ UnconfirmedIsKept'
    BY DEF SlotHolds, UnconfirmedIsKept, SlotIsFree

\* A handler's job goes on, or ends without an answer.
LEMMA HandlingKeeps ==
    ASSUME KeptInv, UNCHANGED clientVars, net' \subseteq net,
           \A v \in Workers :
               \/ work'[v].req = work[v].req /\ (work[v].pc = "idle" => work'[v].pc = "idle")
               \/ work'[v].pc = "idle"
    PROVE  OneIsAwaited' /\ SlotHolds' /\ UnconfirmedIsKept'
<1>1. UNCHANGED << box, client, sent, confirmed >>
    BY DEF clientVars
<1>2. \A v \in Workers : LiveJob(v)' => LiveJob(v)
    BY DEF LiveJob, At, Awaited
<1> QED
    BY <1>1, <1>2, FewerLive, SlotStays DEF KeptInv

LEMMA AcceptKeeps ==
    ASSUME KeptInv, NEW w \in Workers, NEW m \in net, Accept(w, m)
    PROVE  OneIsAwaited' /\ SlotHolds' /\ UnconfirmedIsKept'
<1>1. /\ work[w].pc = "idle" /\ net' = net \ {m} /\ UNCHANGED << box, client, sent, confirmed >>
      /\ work' = [work EXCEPT ![w] = [pc |-> "wait", req |-> m, new |-> None]]
    BY DEF Accept, At, clientVars
<1>2. work \in [Workers -> WorkType] /\ net \subseteq Requested
    BY DEF KeptInv, DeliveryInv, DeliveryTypeOK
<1>3. /\ \A v \in Workers \ {w} : LiveJob(v)' <=> LiveJob(v)
      /\ LiveJob(w)' <=> LiveIn(m)
    BY <1>1, <1>2 DEF LiveJob, LiveIn, At, Awaited
<1>4. CASE ~LiveIn(m)
    BY <1>1, <1>3, <1>4, FewerLive, SlotStays DEF KeptInv
<1>5. CASE LiveIn(m)
  <2>1. client.pc = "wait" /\ \A v \in Workers : ~LiveJob(v)
    BY <1>5 DEF KeptInv, OneIsAwaited, LiveJob
  <2>2. \A x \in net : LiveIn(x) => x = m
    <3>1. \A x \in net : LiveIn(x) => x.pkg = client.pkg /\ x \in DeliverRequest /\ x.live
      BY <1>2, RecordsDiffer DEF KeptInv, OneIsAwaited, LiveIn, Requested
    <3>2. \A x \in DeliverRequest : x.live => x = [route |-> "deliver", pkg |-> x.pkg, live |-> TRUE]
      BY DEF DeliverRequest
    <3> QED
      BY <1>5, <3>1, <3>2
  <2>3. \A x \in net' : ~LiveIn(x)
    BY <1>1, <2>2
  <2>4. \A v \in Workers \ {w} : ~LiveJob(v)'
    BY <1>3, <2>1
  <2>5. OneIsAwaited'
    BY <1>1, <2>1, <2>3, <2>4 DEF OneIsAwaited, LiveJob, LiveIn, At, Awaited
  <2> QED
    BY <1>1, <2>5, SlotStays DEF KeptInv
<1> QED
    BY <1>4, <1>5

LEMMA RepliesKeep ==
    ASSUME KeptInv, NEW w \in Workers, Reply(w) \/ ReplyLost(w)
    PROVE  OneIsAwaited' /\ SlotHolds' /\ UnconfirmedIsKept'
<1>1. /\ work[w].pc = "reply" /\ work' = [work EXCEPT ![w] = Idle] /\ Idle.pc = "idle"
      /\ UNCHANGED << net, box, sent, confirmed >>
    BY DEF Reply, ReplyLost, At, Idle
<1>2. work \in [Workers -> WorkType]
    BY DEF KeptInv, DeliveryInv, DeliveryTypeOK
<1>3. /\ \A v \in Workers \ {w} : LiveJob(v)' => LiveJob(v)
      /\ ~LiveJob(w)'
    BY <1>1, <1>2 DEF LiveJob, At, Awaited
<1>4. CASE ~Awaited(w)
  <2>1. UNCHANGED client
    BY <1>4 DEF Reply, ReplyLost
  <2> QED
    BY <1>1, <1>3, <2>1, FewerLive, SlotStays DEF KeptInv
<1>5. CASE Awaited(w)
  <2>1. /\ client.pc = "wait" /\ \A v \in Workers \ {w} : ~LiveJob(v)
        /\ \A m \in net : ~LiveIn(m)
    BY <1>1, <1>5 DEF KeptInv, OneIsAwaited, LiveJob, At
  <2>2. OneIsAwaited'
    BY <1>1, <1>3, <2>1, NoneLive
  <2>3. \/ client'.pc = "idle"
        \/ client'.pc = "save" /\ client'.pkg = client.pkg
    <3>1. client \in ClientType
      BY DEF KeptInv, DeliveryInv, DeliveryTypeOK
    <3>2. CASE client' = Resting
      BY <3>2 DEF Resting
    <3>3. ASSUME NEW r, client' = [client EXCEPT !.pc = "save", !.receipt = r]
          PROVE  client'.pc = "save" /\ client'.pkg = client.pkg
      BY <3>1, <3>3 DEF ClientType
    <3>4. CASE Reply(w)
      BY <1>5, <3>2, <3>3, <3>4 DEF Reply
    <3>5. CASE ReplyLost(w)
      BY <1>5, <3>2, <3>5 DEF ReplyLost
    <3> QED
      BY <3>4, <3>5
  <2> QED
    BY <1>1, <2>1, <2>2, <2>3, SlotStays DEF KeptInv
<1> QED
    BY <1>4, <1>5

LEMMA ServerKeeps ==
    ASSUME KeptInv,
           \/ \E w \in Workers : ServerStep(w) \/ ServerFault(w)
           \/ ServerCrash \/ ServerPowerLoss
           \/ \E c \in Contracts : EditAssignment(c) \/ DeadlinePasses(c)
    PROVE  OneIsAwaited' /\ SlotHolds' /\ UnconfirmedIsKept'
<1>1. work \in [Workers -> WorkType] /\ \A v \in Workers : work[v] \in WorkType
    BY DEF KeptInv, DeliveryInv, DeliveryTypeOK
<1>2. ASSUME NEW w \in Workers,
             \/ Acquire(w) \/ Load(w) \/ SyncArchive(w) \/ Prepare(w) \/ Publish(w)
      PROVE  OneIsAwaited' /\ SlotHolds' /\ UnconfirmedIsKept'
  <2>1. /\ UNCHANGED << clientVars, net >> /\ work[w].pc # "idle"
        /\ \E l \in Held : Goto(w, l)
    BY <1>2 DEF Acquire, Load, SyncArchive, Prepare, Publish, At, Held
  <2>2. \A v \in Workers : work'[v].req = work[v].req /\ (work[v].pc = "idle" => work'[v].pc = "idle")
    BY <1>1, <2>1 DEF Goto, WorkType
  <2> QED
    BY <2>1, <2>2, HandlingKeeps
<1>3. ASSUME NEW w \in Workers,
             \/ SyncArchiveFails(w) \/ PrepareFails(w) \/ Decide(w) \/ SyncStore(w) \/ SyncStoreFails(w)
      PROVE  OneIsAwaited' /\ SlotHolds' /\ UnconfirmedIsKept'
  <2>1. /\ UNCHANGED << clientVars, net >> /\ work[w].pc # "idle"
        /\ \E l, x : work' = [work EXCEPT ![w].pc = l, ![w].new = x]
    BY <1>3 DEF SyncArchiveFails, PrepareFails, Decide, SyncStore, SyncStoreFails, Leave, At
  <2>2. PICK l, x : work' = [work EXCEPT ![w] = [work[w] EXCEPT !.pc = l, !.new = x]]
    BY <1>1, <2>1
  <2>3. [work[w] EXCEPT !.pc = l, !.new = x].req = work[w].req
    BY <1>1 DEF WorkType
  <2>4. \A v \in Workers : work'[v].req = work[v].req /\ (work[v].pc = "idle" => work'[v].pc = "idle")
    BY <1>1, <2>1, <2>2, <2>3
  <2> QED
    BY <2>1, <2>4, HandlingKeeps
<1>4. CASE ServerCrash \/ ServerPowerLoss
  <2>1. UNCHANGED << clientVars, net >> /\ \A v \in Workers : work'[v].pc = "idle"
    BY <1>4 DEF ServerCrash, ServerPowerLoss, ServerStops, Idle
  <2> QED
    BY <2>1, HandlingKeeps
<1>5. ASSUME NEW c \in Contracts, EditAssignment(c) \/ DeadlinePasses(c)
      PROVE  OneIsAwaited' /\ SlotHolds' /\ UnconfirmedIsKept'
  <2>1. UNCHANGED << clientVars, net, work >>
    BY <1>5 DEF EditAssignment, DeadlinePasses
  <2> QED
    BY <2>1, HandlingKeeps
<1> QED
    BY <1>2, <1>3, <1>4, <1>5, AcceptKeeps, RepliesKeep DEF ServerStep, ServerFault

LEMMA NobodyAwaited ==
    ASSUME KeptInv, client.pc # "wait"
    PROVE  (\A m \in net : ~LiveIn(m)) /\ \A w \in Workers : ~LiveJob(w)
    BY DEF KeptInv, OneIsAwaited, LiveJob

\* A step of the client that sends nothing and waits for nothing.
LEMMA ClientKeepsAwaited ==
    ASSUME KeptInv, client.pc # "wait", UNCHANGED << net, work >>
    PROVE  OneIsAwaited'
<1>1. (\A m \in net' : ~LiveIn(m)) /\ \A w \in Workers : ~LiveJob(w)'
    BY NobodyAwaited DEF LiveJob, At, Awaited
<1> QED
    BY <1>1, NoneLive

\* A client that stops waiting leaves no request it waits for.
LEMMA ForgetLeavesNone ==
    ASSUME DeliveryInv, Forget
    PROVE  (\A m \in net' : ~LiveIn(m)) /\ \A w \in Workers : ~LiveJob(w)'
<1>1. \A m \in DeliverRequest : [m EXCEPT !.live = FALSE].live = FALSE
    BY DEF DeliverRequest
<1>2. net \subseteq Requested /\ work \in [Workers -> WorkType]
    BY DEF DeliveryInv, DeliveryTypeOK
<1>3. ASSUME NEW m \in net
      PROVE  ~LiveIn(IF m.route = "deliver" THEN [m EXCEPT !.live = FALSE] ELSE m)
  <2>1. m.route = "deliver" => m \in DeliverRequest
    BY <1>2, RecordsDiffer DEF Requested
  <2> QED
    BY <1>1, <2>1 DEF LiveIn
<1>4. ASSUME NEW w \in Workers PROVE ~LiveJob(w)'
  <2>1. CASE At(w, "idle") \/ ~Awaited(w)
    BY <2>1 DEF Forget, LiveJob, At, Awaited
  <2>2. CASE ~At(w, "idle") /\ Awaited(w)
    <3> DEFINE q == [work[w].req EXCEPT !.live = FALSE]
    <3>1. work[w].req \in DeliverRequest
      BY <1>2, <2>2, RecordsDiffer DEF DeliveryInv, DeliveryTypeOK, JobTyped, At, Awaited, WorkType, Requested
    <3>2. q.live = FALSE
      BY <1>1, <3>1
    <3>3. work'[w] = [work[w] EXCEPT !.req = q]
      BY <2>2 DEF Forget
    <3> HIDE DEF q
    <3>4. work'[w].req = q
      BY <1>2, <3>3 DEF WorkType
    <3> QED
      BY <3>2, <3>4 DEF LiveJob, Awaited
  <2> QED
    BY <2>1, <2>2
<1> QED
    BY <1>3, <1>4 DEF Forget

LEMMA ClientStepsKeep ==
    ASSUME KeptInv, Refresh \/ SendNew \/ ClientStep \/ SyncArchivedFails \/ SyncSlotFails \/ ClientCrash
    PROVE  OneIsAwaited' /\ SlotHolds' /\ UnconfirmedIsKept'
<1>0. /\ client \in ClientType /\ box.now \in BoxContent
    BY DEF KeptInv, DeliveryInv, DeliveryTypeOK, IsDirectory
<1>1. CASE Refresh
  <2>1. UNCHANGED << net, work, client, box, sent, confirmed >>
    BY <1>1 DEF Refresh, ClientOnly, serverVars
  <2> QED
    BY <2>1, FewerLive, SlotStays DEF KeptInv, LiveJob, At, Awaited
<1>2. CASE Send \/ SendNew
  <2>1. /\ UNCHANGED << net, work, box, sent, confirmed >> /\ client.pc # "wait"
        /\ \/ SlotIsFree /\ client'.pc = "snapshot"
           \/ /\ ~SlotIsFree /\ client'.pkg = box.now.slot.pkg
              /\ client'.pc \in {"send", "archive"}
    BY <1>0, <1>2 DEF Send, SendNew, ClientOnly, serverVars, ClientType
  <2>2. SlotHolds' /\ UnconfirmedIsKept'
    BY <2>1 DEF SlotHolds, UnconfirmedIsKept, SlotIsFree, KeptInv
  <2> QED
    BY <2>1, <2>2, ClientKeepsAwaited
<1>3. CASE ArchivePackage
  <2>1. UNCHANGED << net, work, sent, confirmed >> /\ client.pc = "archive" /\ client'.pkg = client.pkg
    BY <1>0, <1>3 DEF ArchivePackage, ClientOnly, serverVars, ClientType
  <2>2. box.now.slot # None /\ box.now.slot.pkg = client.pkg
    BY <2>1 DEF KeptInv, SlotHolds
  <2>3. CASE client.pkg \in box.now.archived
    <3>1. UNCHANGED box /\ client'.pc = "snapshot"
      BY <1>0, <1>3, <2>3 DEF ArchivePackage, ClientType
    <3>2. SlotHolds' /\ UnconfirmedIsKept'
      BY <2>1, <2>2, <2>3, <3>1 DEF SlotHolds, UnconfirmedIsKept, SlotIsFree, KeptInv
    <3> QED
      BY <2>1, <3>2, ClientKeepsAwaited
  <2>4. CASE client.pkg \notin box.now.archived
    <3>1. /\ box' = Changed(box, [box.now EXCEPT !.archived = @ \cup {client.pkg}])
          /\ client'.pc = "archiveSync"
      BY <1>0, <1>3, <2>4 DEF ArchivePackage, ClientType
    <3>2. box'.now.slot = box.now.slot /\ box'.now.archived = box.now.archived \cup {client.pkg}
      BY <1>0, <3>1 DEF Changed, BoxContent
    <3>3. SlotHolds' /\ UnconfirmedIsKept'
      BY <2>1, <2>2, <3>1, <3>2 DEF SlotHolds, UnconfirmedIsKept, SlotIsFree, KeptInv
    <3> QED
      BY <2>1, <3>3, ClientKeepsAwaited
  <2> QED
    BY <2>3, <2>4
<1>4. CASE SyncArchivedFails
  <2>1. /\ UNCHANGED << net, work, sent, confirmed >> /\ client.pc = "archiveSync" /\ client'.pc = "idle"
        /\ box' = Changed(box, [box.now EXCEPT !.archived = @ \ {client.pkg}])
    BY <1>4 DEF SyncArchivedFails, ClientOnly, serverVars, Resting
  <2>2. box'.now.slot = box.now.slot /\ box'.now.archived = box.now.archived \ {client.pkg}
    BY <1>0, <2>1 DEF Changed, BoxContent
  <2>3. box.now.slot # None /\ box.now.slot.pkg = client.pkg
    BY <2>1 DEF KeptInv, SlotHolds
  <2>4. SlotHolds' /\ UnconfirmedIsKept'
    BY <2>1, <2>2, <2>3 DEF SlotHolds, UnconfirmedIsKept, KeptInv
  <2> QED
    BY <2>1, <2>4, ClientKeepsAwaited
<1>5. ASSUME client.pc \in {"archiveSync", "slotSync", "saveSync"}, UNCHANGED << net, work, sent, confirmed >>,
             box'.now = box.now,
             \/ client'.pc = "idle"
             \/ client'.pkg = client.pkg /\ client'.pc = "send"
             \/ client'.pkg = client.pkg /\ client'.pc = "snapshot" /\ client.pc = "archiveSync"
      PROVE  OneIsAwaited' /\ SlotHolds' /\ UnconfirmedIsKept'
  <2>1. SlotHolds' /\ UnconfirmedIsKept'
    BY <1>5 DEF SlotHolds, UnconfirmedIsKept, SlotIsFree, KeptInv
  <2> QED
    BY <1>5, <2>1, ClientKeepsAwaited
<1>6. CASE SyncSlot \/ SyncSlotFails \/ SyncArchived
  <2>1. /\ client.pc \in {"archiveSync", "slotSync", "saveSync"}
        /\ UNCHANGED << net, work, sent, confirmed >>
        /\ UNCHANGED box \/ box' = Synced(box)
    BY <1>6 DEF SyncSlot, SyncSlotFails, SyncArchived, ClientOnly, serverVars
  <2>2. box'.now = box.now
    BY <2>1 DEF Synced, OnDisk
  <2>3. \/ client'.pc = "idle"
        \/ client'.pkg = client.pkg /\ client'.pc = "send"
        \/ client'.pkg = client.pkg /\ client'.pc = "snapshot" /\ client.pc = "archiveSync"
    BY <1>0, <1>6 DEF SyncSlot, SyncSlotFails, SyncArchived, Resting, ClientType
  <2> QED
    BY <1>5, <2>1, <2>2, <2>3
<1>7. CASE Snapshot
  <2> DEFINE pkg == [id |-> lastId + 1, contract |-> known]
             s == [pkg |-> pkg, receipt |-> None]
  <2>1. /\ UNCHANGED << net, work, sent, confirmed >> /\ client.pc = "snapshot"
        /\ client' = [pc |-> "slotSync", pkg |-> pkg, receipt |-> None]
        /\ box' = Changed(box, [box.now EXCEPT !.slot = s])
    BY <1>7 DEF Snapshot, ClientOnly, serverVars
  <2>6. pkg \in Package
    BY <2>1, DeliveryAssumption DEF KeptInv, DeliveryInv, DeliveryTypeOK, Package, AttemptIds
  <2> HIDE DEF pkg
  <2>2. box'.now.slot = s /\ box'.now.archived = box.now.archived
    BY <1>0, <2>1 DEF Changed, BoxContent
  <2>3. /\ s # None /\ s.pkg = pkg /\ s.receipt = None
        /\ client'.pc = "slotSync" /\ client'.pkg = pkg
    <3>1. s \in Slot
      BY <2>6 DEF Slot
    <3> QED
      BY <2>1, <3>1, DeliveryAssumption
  <2>4. \A p \in sent \ confirmed : p \in box.now.archived
    BY <2>1 DEF KeptInv, SlotHolds, UnconfirmedIsKept, SlotIsFree
  <2>5. SlotHolds' /\ UnconfirmedIsKept'
    BY <2>1, <2>2, <2>3, <2>4 DEF SlotHolds, UnconfirmedIsKept
  <2> QED
    BY <2>1, <2>5, ClientKeepsAwaited
<1>8. CASE Transmit
  <2> DEFINE m == [route |-> "deliver", pkg |-> client.pkg, live |-> TRUE]
  <2>1. /\ UNCHANGED << work, box, confirmed >> /\ client.pc = "send" /\ client'.pc = "wait"
        /\ client'.pkg = client.pkg /\ net' = net \cup {m} /\ sent' = sent \cup {client.pkg}
    BY <1>0, <1>8 DEF Transmit, serverVars, ClientType
  <2>2. SlotHolds' /\ UnconfirmedIsKept'
    BY <2>1 DEF KeptInv, SlotHolds, UnconfirmedIsKept
  <2>3. m.pkg = client.pkg
    OBVIOUS
  <2> HIDE DEF m
  <2>4. (\A x \in net' : LiveIn(x) => x = m) /\ \A w \in Workers : ~LiveJob(w)'
    BY <2>1, NobodyAwaited DEF LiveJob, At, Awaited
  <2>5. OneIsAwaited'
    BY <2>1, <2>3, <2>4 DEF OneIsAwaited, LiveJob, LiveIn, At, Awaited
  <2> QED
    BY <2>2, <2>5
<1>9. CASE SaveReceipt
  <2> DEFINE s == [pkg |-> client.pkg, receipt |-> client.receipt]
  <2>1. /\ UNCHANGED << net, work, sent >> /\ client.pc = "save" /\ client'.pc = "saveSync"
        /\ client'.pkg = client.pkg /\ confirmed' = confirmed \cup {client.pkg}
        /\ box' = Changed(box, [box.now EXCEPT !.slot = s])
    BY <1>0, <1>9 DEF SaveReceipt, ClientOnly, serverVars, ClientType
  <2>2. box'.now.slot = s /\ box'.now.archived = box.now.archived
    BY <1>0, <2>1 DEF Changed, BoxContent
  <2>3. s \in Slot /\ s.pkg = client.pkg
    BY <1>0, <2>1 DEF KeptInv, DeliveryInv, DeliveryTypeOK, ClientType, Slot
  <2>4. box.now.slot.pkg = client.pkg
    BY <2>1 DEF KeptInv, SlotHolds
  <2> HIDE DEF s
  <2>5. SlotHolds' /\ UnconfirmedIsKept'
    <3>1. s # None
      BY <2>3, DeliveryAssumption
    <3> QED
      BY <2>1, <2>2, <2>3, <2>4, <3>1 DEF KeptInv, SlotHolds, UnconfirmedIsKept
  <2> QED
    BY <2>1, <2>5, ClientKeepsAwaited
<1>10. CASE Timeout \/ ClientCrash
  <2>1. /\ Forget /\ client'.pc = "idle" /\ UNCHANGED << box, sent, confirmed >>
    BY <1>10 DEF Timeout, ClientCrash, ClientStops, Resting
  <2>2. OneIsAwaited'
    BY <2>1, ForgetLeavesNone, NoneLive DEF KeptInv
  <2> QED
    BY <2>1, <2>2, SlotStays DEF KeptInv
<1> QED
    BY <1>1, <1>2, <1>3, <1>4, <1>6, <1>7, <1>8, <1>9, <1>10 DEF ClientStep

LEMMA RequestsKeep ==
    ASSUME KeptInv,
           \/ \E id \in AttemptIds, n \in 0 .. MaxRevision : SelectFinal(id, n)
           \/ \E m \in net : RequestLost(m)
    PROVE  OneIsAwaited' /\ SlotHolds' /\ UnconfirmedIsKept'
<1>1. UNCHANGED << work, client, box, sent, confirmed >>
    BY DEF SelectFinal, RequestLost, serverVars, clientVars
<1>2. \A m \in net' : LiveIn(m) => m \in net
    BY DEF SelectFinal, RequestLost, LiveIn
<1> QED
    BY <1>1, <1>2, FewerLive, SlotStays DEF KeptInv, LiveJob, At, Awaited

LEMMA KeptBegins == Init => KeptInv
<1> SUFFICES ASSUME Init PROVE KeptInv
    OBVIOUS
<1>1. /\ net = {} /\ client.pc = "idle" /\ \A w \in Workers : work[w].pc = "idle"
      /\ sent = {r.pkg : r \in FirstReceipts(Delivered, contract)} /\ confirmed = sent
      /\ box.now.slot = SlotAfter(Delivered, contract)
    BY DEF Init, Resting, Idle, OnDisk
<1>2. box.now.slot # None => box.now.slot.pkg \in sent
  <2> SUFFICES ASSUME Delivered # 0 PROVE box.now.slot.pkg \in sent
    BY <1>1 DEF SlotAfter
  <2>1. [pkg |-> [id |-> Delivered, contract |-> contract], sequence |-> Delivered]
           \in FirstReceipts(Delivered, contract)
    BY DeliveryAssumption DEF FirstReceipts
  <2> QED
    BY <1>1, <2>1 DEF SlotAfter
<1>3. OneIsAwaited
    BY <1>1 DEF OneIsAwaited, At
<1>4. SlotHolds /\ UnconfirmedIsKept
    BY <1>1, <1>2 DEF SlotHolds, UnconfirmedIsKept
<1> QED
    BY <1>3, <1>4, DeliveryBegins DEF KeptInv

\* Nothing is lost on either side of a delivery, as long as the student's machine keeps power: what was
\* sent and not confirmed can be sent again (send_assignment archives before it replaces the slot).
THEOREM DeliveriesAreKeptAlways ==
    ASSUME ~ClientPowerLoss
    PROVE  Spec => []DeliveriesAreKept
<1>1. KeptInv /\ [Next]_vars => KeptInv'
  <2> SUFFICES ASSUME KeptInv, [Next]_vars PROVE KeptInv'
    OBVIOUS
  <2>1. DeliveryInv'
    BY DeliveryStep DEF KeptInv
  <2>2. OneIsAwaited' /\ SlotHolds' /\ UnconfirmedIsKept'
    <3>1. CASE UNCHANGED vars
      <4>1. UNCHANGED clientVars /\ UNCHANGED << work, net >>
        BY <3>1 DEF vars, serverVars
      <4> QED
        BY <4>1, HandlingKeeps
    <3>2. CASE Next
      <4>1. ~ClientLosesPower
        BY DEF ClientLosesPower
      <4> QED
        BY <3>2, <4>1, ServerKeeps, ClientStepsKeep, RequestsKeep DEF Next
    <3> QED
      BY <3>1, <3>2
  <2> QED
    BY <2>1, <2>2 DEF KeptInv
<1>2. KeptInv => DeliveriesAreKept
    BY InvMeansSound DEF KeptInv, DeliveriesAreKept
<1> QED
    BY <1>1, <1>2, KeptBegins, PTL DEF Spec

=============================================================================
