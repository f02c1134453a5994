---------------------------- MODULE SourceSnapshots ----------------------------
(***************************************************************************)
(* The Markdown sources of a course, acquired for one operation of the      *)
(* board: the local files, read by a thread that the request abandons when  *)
(* its deadline passes, and the files of a repository at GitHub or GitLab,  *)
(* read at the commit the branch has when the request asks for it.  The     *)
(* bytes of at most MemorySlots operations are in memory at a time: a lease *)
(* is shared by the request, by its reading thread and by the files it      *)
(* returns.  Reading a credential and asking a provider are calls in a      *)
(* thread of a pool, which a deadline abandons too.  An image of a          *)
(* paragraph is served from the commit the course pinned, while the files   *)
(* that verified the paragraph are still held.                              *)
(*                                                                         *)
(* Sizes, encodings and digests are one outcome, the answer that is         *)
(* refused; a deadline may pass at any moment.                              *)
(***************************************************************************)
EXTENDS Faults, Sequences, FiniteSets

CONSTANTS
    Operations,     \* operations of the board that need the sources
    Leases,         \* leases that may exist at a time
    MemorySlots,    \* SNAPSHOT_MEMORY_SLOTS
    LocalSlots,     \* LOCAL_ACQUISITION_SLOTS
    CallSlots,      \* GITHUB_NETWORK_SLOTS and GITHUB_TOKEN_ACQUISITION_SLOTS, by pool
    RemoteFiles,    \* the files of the remote source, in order
    CacheSize,      \* blobs the cache keeps
    MaxHead,        \* bound on commits pushed
    SourceFaults    \* bound on failures and refused answers

ASSUME SourceAssumption == MemorySlots \in Nat /\ None \notin Leases /\ None \notin Nat

VARIABLES
    ask,            \* the acquisition of each operation
    refs,           \* references of each lease; 0: released, None: does not exist
    readers,        \* threads that read local files
    memory,         \* free memory slots
    localFree,      \* free local slots
    callFree,       \* pool -> free slots
    orphans,        \* pool -> abandoned calls that still hold their slot
    cache,          \* blobs, least recently used first
    head            \* the commit of the declared branch

sourceState == << ask, refs, readers, memory, localFree, callFree, orphans, cache, head >>
sourceVars == << sourceState, faults >>

Pools == DOMAIN CallSlots

\* pinned: the commit recorded for the paragraph whose image is asked for, chosen
\* when it is first looked at.
Resting == [pc |-> "idle", late |-> FALSE, lease |-> None, provider |-> None, call |-> FALSE,
            commit |-> None, got |-> << >>, pinned |-> None]

SourceInit ==
    /\ ask = [o \in Operations |-> Resting]
    /\ refs = [l \in Leases |-> None]
    /\ readers = {}
    /\ memory = MemorySlots
    /\ localFree = LocalSlots
    /\ callFree = CallSlots
    /\ orphans = [p \in Pools |-> 0]
    /\ cache = << >>
    /\ head = 0
    /\ faults = 0

---------------------------------------------------------------------------
(* Leases.                                                                 *)

\* A lease that does not exist: which one makes no difference.
NewLease ==
    LET unused == {l \in Leases : refs[l] = None} IN
    IF unused = {} THEN {} ELSE {CHOOSE l \in unused : TRUE}

\* _SnapshotMemoryLease.retain, in a function of references.
Retain(r, l) == [r EXCEPT ![l] = @ + 1]

\* _SnapshotMemoryLease.release: the last reference frees the slot, once.
Released(r, l) == [r EXCEPT ![l] = IF @ = 0 THEN 0 ELSE @ - 1]

Frees(r, l) == IF r[l] = 1 THEN 1 ELSE 0

\* A lease nothing refers to any more is collected.
Collected(r, a, ts) ==
    [l \in Leases |-> IF r[l] = 0 /\ (\A o \in Operations : a[o].lease # l) /\ (\A t \in ts : t.lease # l)
                      THEN None ELSE r[l]]

\* The acquisition of o fails, or its files are dropped: its reference goes.
Fails(o) ==
    LET l == ask[o].lease IN
    /\ ask' = [ask EXCEPT ![o] = Resting]
    /\ IF l = None THEN UNCHANGED << refs, memory >>
       ELSE /\ refs' = Collected(Released(refs, l), ask', readers)
            /\ memory' = memory + Frees(refs, l)

Goes(o, pc) == ask' = [ask EXCEPT ![o].pc = pc]

Expired(o) == ask[o].late

---------------------------------------------------------------------------
(* Calls in a thread of a pool: read a token, ask a provider.              *)

\* Where a call is made, and in which pool.
CallAt == [token |-> "token", commit |-> "network", file |-> "network", blob |-> "network",
           image_token |-> "token", image_file |-> "network", image_blob |-> "network"]

\* A slot of the pool, and the thread.
begin_call(o) ==
    /\ ask[o].pc \in DOMAIN CallAt /\ ~ask[o].call /\ ~Expired(o)
    /\ LET p == CallAt[ask[o].pc] IN
       /\ callFree[p] > 0
       /\ callFree' = [callFree EXCEPT ![p] = @ - 1]
    /\ ask' = [ask EXCEPT ![o].call = TRUE]
    /\ NoFault
    /\ UNCHANGED << refs, readers, memory, localFree, orphans, cache, head >>

\* No slot, or no answer, before the deadline.  The thread is left behind.
call_times_out(o) ==
    /\ ask[o].pc \in DOMAIN CallAt /\ Expired(o)
    /\ IF ask[o].call THEN orphans' = [orphans EXCEPT ![CallAt[ask[o].pc]] = @ + 1] ELSE UNCHANGED orphans
    /\ Fails(o)
    /\ NoFault
    /\ UNCHANGED << readers, localFree, callFree, cache, head >>

\* An abandoned call ends: its socket was shut down, or the file was read.
orphan_ends(p) ==
    /\ orphans[p] > 0
    /\ orphans' = [orphans EXCEPT ![p] = @ - 1]
    /\ callFree' = [callFree EXCEPT ![p] = @ + 1]
    /\ NoFault
    /\ UNCHANGED << ask, refs, readers, memory, localFree, cache, head >>

\* The call of o at pc is answered in time: its slot is free again.
Answered(o, pc) ==
    /\ ask[o].pc = pc /\ ask[o].call
    /\ callFree' = [callFree EXCEPT ![CallAt[pc]] = @ + 1]

\* An answer of the pool p is refused.
Refused(o, p) ==
    /\ \E pc \in DOMAIN CallAt : CallAt[pc] = p /\ Answered(o, pc)
    /\ Fault(SourceFaults)
    /\ Fails(o)
    /\ UNCHANGED << readers, localFree, orphans, cache, head >>

\* The credential file is not private, changed while it was read, is too long.
token_refused(o) == Refused(o, "token")

\* HTTP error, redirect, malformed or too large an answer, wrong digest.
github_refused(o) == ask[o].provider = "github" /\ Refused(o, "network")
gitlab_refused(o) == ask[o].provider = "gitlab" /\ Refused(o, "network")

---------------------------------------------------------------------------
(* course_markdown_source_files.                                           *)

\* The deadline of the operation starts; a remote source needs a credential.
course_markdown_source_files(o) ==
    /\ ask[o].pc = "idle"
    /\ \E provider \in {None, "github", "gitlab"} :
          ask' = [ask EXCEPT ![o].provider = provider,
                             ![o].pc = IF provider = None THEN "memory" ELSE "token"]
    /\ NoFault
    /\ UNCHANGED << refs, readers, memory, localFree, callFree, orphans, cache, head >>

read_provider_markdown_token(o) ==
    /\ \/ Answered(o, "token") /\ ask' = [ask EXCEPT ![o].pc = "memory", ![o].call = FALSE]
       \/ /\ Answered(o, "image_token")
          /\ ask' = [ask EXCEPT ![o].pc = "image_file", ![o].call = FALSE, ![o].late = FALSE]
    /\ NoFault
    /\ UNCHANGED << refs, readers, memory, localFree, orphans, cache, head >>

\* markdown_source_files: a memory slot and a lease with one reference, or
\* the deadline.
markdown_source_files(o) ==
    /\ ask[o].pc = "memory"
    /\ \/ /\ ~Expired(o) /\ memory > 0
          /\ \E l \in NewLease :
                /\ refs' = [refs EXCEPT ![l] = 1]
                /\ ask' = [ask EXCEPT ![o].pc = "local", ![o].lease = l]
          /\ memory' = memory - 1
       \/ Expired(o) /\ Fails(o)
    /\ NoFault
    /\ UNCHANGED << readers, localFree, callFree, orphans, cache, head >>

\* ended: it gave its slot back; alone: nobody takes its result any more.
NewReader(l) == [lease |-> l, pc |-> "stat", bytes |-> FALSE, stale |-> FALSE, ended |-> FALSE, alone |-> FALSE]

\* Mutant of StartsReader: the thread shares the lease without a reference.
MutStartsReader(o) ==
    /\ refs' = refs
    /\ localFree' = localFree - 1
    /\ readers' = readers \cup {NewReader(ask[o].lease)}

\* A local slot, a reference of the thread, and the thread.
StartsReader(o) ==
    /\ refs' = Retain(refs, ask[o].lease)
    /\ localFree' = localFree - 1
    /\ readers' = readers \cup {NewReader(ask[o].lease)}

\* _bounded_local_markdown_source_files: no slot before the deadline, or the
\* thread does not start: what was taken is given back.
bounded_local_markdown_source_files(o) ==
    /\ ask[o].pc = "local"
    /\ \/ /\ ~Expired(o) /\ localFree > 0
          /\ StartsReader(o)
          /\ Goes(o, "waiting")
          /\ NoFault
          /\ UNCHANGED memory
       \/ /\ Expired(o) /\ NoFault /\ Fails(o)
          /\ UNCHANGED << localFree, readers >>
       \/ /\ localFree > 0 /\ Fault(SourceFaults) /\ Fails(o)
          /\ UNCHANGED << localFree, readers >>
    /\ UNCHANGED << callFree, orphans, cache, head >>

ReaderOf(o) == CHOOSE t \in readers : t.lease = ask[o].lease

\* Nobody takes the result of t any more: a thread that ended is gone.
Alone(t, bytes) ==
    (readers \ {t}) \cup (IF t.ended THEN {} ELSE {[t EXCEPT !.alone = TRUE, !.bytes = bytes]})

\* The thread is done: its files, or its error.
local_files_read(o) ==
    /\ ask[o].pc = "waiting"
    /\ LET t == ReaderOf(o) IN
       /\ t.pc \in {"done", "failed"}
       /\ readers' = Alone(t, t.bytes)
       /\ IF t.pc = "failed"
          THEN /\ ask' = [ask EXCEPT ![o] = Resting]
               /\ refs' = Collected(Released(refs, t.lease), ask', readers')
               /\ memory' = memory + Frees(refs, t.lease)
          ELSE /\ Goes(o, IF ask[o].provider = None THEN "returned" ELSE "commit")
               /\ UNCHANGED << refs, memory >>
    /\ NoFault
    /\ UNCHANGED << localFree, callFree, orphans, cache, head >>

\* The deadline: done.wait gives up; the thread may finish right after.
wait_times_out(o) ==
    /\ ask[o].pc = "waiting" /\ Expired(o)
    /\ ReaderOf(o).pc \in {"stat", "reading"}
    /\ Goes(o, "abandon")
    /\ NoFault
    /\ UNCHANGED << refs, readers, memory, localFree, callFree, orphans, cache, head >>

\* abandoned is set; what the thread already read is dropped here.
abandon(o) ==
    LET t == ReaderOf(o) IN
    /\ ask[o].pc = "abandon"
    /\ readers' = Alone(t, t.bytes /\ t.pc \notin {"done", "failed"})
    /\ ask' = [ask EXCEPT ![o] = Resting]
    /\ refs' = Collected(Released(refs, t.lease), ask', readers')
    /\ memory' = memory + Frees(refs, t.lease)
    /\ NoFault
    /\ UNCHANGED << localFree, callFree, orphans, cache, head >>

---------------------------------------------------------------------------
(* The reading thread and the local files.                                 *)

Reader(t, u) == readers' = (readers \ {t}) \cup {u}

ReaderKeeps == UNCHANGED << ask, refs, memory, localFree, callFree, orphans, cache, head >>

\* local_markdown_source_files: which files there are, and what they are.
local_markdown_source_files(t) ==
    /\ t.pc = "stat"
    /\ Reader(t, [t EXCEPT !.pc = "reading", !.bytes = TRUE])
    /\ NoFault
    /\ ReaderKeeps

\* _read_local_markdown_bytes: read twice and compared; a file that changed
\* meanwhile is an error.
read_local_markdown_bytes(t) ==
    /\ t.pc = "reading"
    /\ IF t.stale THEN Reader(t, [t EXCEPT !.pc = "failed", !.bytes = FALSE])
       ELSE Reader(t, [t EXCEPT !.pc = "done"])
    /\ NoFault
    /\ ReaderKeeps

\* Somebody writes a file while it is read.
write_local_file(t) ==
    /\ t.pc = "reading" /\ ~t.stale
    /\ Reader(t, [t EXCEPT !.stale = TRUE])
    /\ Fault(SourceFaults)
    /\ ReaderKeeps

\* bounded_worker ends: it drops the bytes nobody waits for, its reference
\* and its slot; a result that is waited for stays with the request.
bounded_worker(t) ==
    /\ t.pc \in {"done", "failed"} /\ ~t.ended
    /\ readers' = (readers \ {t}) \cup (IF t.alone THEN {} ELSE {[t EXCEPT !.ended = TRUE]})
    /\ refs' = Collected(Released(refs, t.lease), ask, readers')
    /\ memory' = memory + Frees(refs, t.lease)
    /\ localFree' = localFree + 1
    /\ NoFault
    /\ UNCHANGED << ask, callFree, orphans, cache, head >>

---------------------------------------------------------------------------
(* The repository.                                                         *)

push ==
    /\ head < MaxHead
    /\ head' = head + 1
    /\ NoFault
    /\ UNCHANGED << ask, refs, readers, memory, localFree, callFree, orphans, cache >>

\* The commit at which the files are asked for.
CommitOf(o) == ask[o].commit

\* fetch_snapshot: the commit of the declared branch, asked once.
fetch_snapshot(o) ==
    /\ Answered(o, "commit")
    /\ ask' = [ask EXCEPT ![o].pc = "file", ![o].call = FALSE, ![o].commit = head]
    /\ NoFault
    /\ UNCHANGED << refs, readers, memory, localFree, orphans, cache, head >>

\* The blob of the next file: blobs of different commits differ.
NextBlob(o) == << RemoteFiles[Len(ask[o].got) + 1], CommitOf(o) >>

Cached(blob) == \E i \in 1..Len(cache) : cache[i] = blob

\* InMemoryGitHubBlobCache.put: the oldest blobs give way.
Put(c, blob) ==
    LET grown == Append(SelectSeq(c, LAMBDA x : x # blob), blob) IN
    IF Len(grown) > CacheSize THEN Tail(grown) ELSE grown

\* The content of blob is the next file of the snapshot.
TakesBlob(o, blob) ==
    LET got == Append(ask[o].got, blob) IN
    ask' = [ask EXCEPT ![o].got = got, ![o].call = FALSE,
                       ![o].pc = IF Len(got) = Len(RemoteFiles) THEN "returned" ELSE "file"]

\* GitHub: the metadata name the blob, which the cache may have.
github_metadata(o) ==
    /\ ask[o].provider = "github"
    /\ Answered(o, "file")
    /\ IF Cached(NextBlob(o))
       THEN TakesBlob(o, NextBlob(o)) /\ cache' = Put(cache, NextBlob(o))
       ELSE ask' = [ask EXCEPT ![o].pc = "blob", ![o].call = FALSE] /\ UNCHANGED cache
    /\ NoFault
    /\ UNCHANGED << refs, readers, memory, localFree, orphans, head >>

github_blob(o) ==
    /\ Answered(o, "blob")
    /\ TakesBlob(o, NextBlob(o))
    /\ cache' = Put(cache, NextBlob(o))
    /\ NoFault
    /\ UNCHANGED << refs, readers, memory, localFree, orphans, head >>

\* GitLab: the answer carries the content, compared with the cache.
gitlab_file(o) ==
    /\ ask[o].provider = "gitlab"
    /\ Answered(o, "file")
    /\ TakesBlob(o, NextBlob(o))
    /\ cache' = Put(cache, NextBlob(o))
    /\ NoFault
    /\ UNCHANGED << refs, readers, memory, localFree, orphans, head >>

---------------------------------------------------------------------------
(* An image of a paragraph.                                                *)

\* The paragraph is the one the course recorded.
Pinned(o, pinned) == ask[o].commit = pinned

\* heading_asset_snapshot: the paragraph is verified in the files, which are
\* kept; a local image is read by the request itself, a remote one with a
\* credential read again and a deadline of its own.
heading_asset_snapshot(o) ==
    /\ ask[o].pc = "returned"
    /\ \/ ask[o].provider = None /\ Goes(o, "image_local") /\ UNCHANGED << refs, memory >>
       \/ ask[o].provider = None /\ Fails(o)
       \/ /\ ask[o].provider # None
          /\ \E pinned \in 0..head :
               IF Pinned(o, pinned)
               THEN /\ ask' = [ask EXCEPT ![o].pc = "image_token", ![o].late = FALSE,
                                          ![o].pinned = pinned]
                    /\ UNCHANGED << refs, memory >>
               ELSE Fails(o)
    /\ NoFault
    /\ UNCHANGED << readers, localFree, callFree, orphans, cache, head >>

\* _read_local_heading_asset: no thread, no deadline; served or refused.
read_local_heading_asset(o) ==
    /\ ask[o].pc = "image_local"
    /\ Fails(o)
    /\ NoFault
    /\ UNCHANGED << readers, localFree, callFree, orphans, cache, head >>

ImageBlob(o) == << "image", CommitOf(o) >>

TakesImage(o) ==
    /\ ask' = [ask EXCEPT ![o].got = Append(@, ImageBlob(o)), ![o].call = FALSE, ![o].pc = "shown"]
    /\ cache' = Put(cache, ImageBlob(o))

\* fetch_file_at_commit, GitHub: metadata, then the blob unless it is cached.
github_image(o) ==
    /\ ask[o].provider = "github"
    /\ \/ /\ Answered(o, "image_file") /\ ~Cached(ImageBlob(o))
          /\ ask' = [ask EXCEPT ![o].pc = "image_blob", ![o].call = FALSE]
          /\ UNCHANGED cache
       \/ Answered(o, "image_file") /\ Cached(ImageBlob(o)) /\ TakesImage(o)
       \/ Answered(o, "image_blob") /\ TakesImage(o)
    /\ NoFault
    /\ UNCHANGED << refs, readers, memory, localFree, orphans, head >>

\* fetch_file_at_commit, GitLab.
gitlab_image(o) ==
    /\ ask[o].provider = "gitlab"
    /\ Answered(o, "image_file")
    /\ TakesImage(o)
    /\ NoFault
    /\ UNCHANGED << refs, readers, memory, localFree, orphans, head >>

\* The operation has used the files: nothing refers to them any more.
drop_files(o) ==
    /\ ask[o].pc \in {"returned", "shown"}
    /\ Fails(o)
    /\ NoFault
    /\ UNCHANGED << readers, localFree, callFree, orphans, cache, head >>

\* The 30 seconds of the operation are over.
expire(o) ==
    /\ ask[o].pc \notin {"idle", "returned", "image_local", "shown"} /\ ~Expired(o)
    /\ ask' = [ask EXCEPT ![o].late = TRUE]
    /\ NoFault
    /\ UNCHANGED << refs, readers, memory, localFree, callFree, orphans, cache, head >>

\* What the thread of the request does by itself.
Proceeds(o) ==
    \/ begin_call(o) \/ call_times_out(o) \/ markdown_source_files(o)
    \/ bounded_local_markdown_source_files(o) \/ local_files_read(o)
    \/ wait_times_out(o) \/ abandon(o) \/ heading_asset_snapshot(o) \/ drop_files(o)

SourceNext ==
    \/ \E o \in Operations :
          \/ course_markdown_source_files(o) \/ Proceeds(o)
          \/ token_refused(o) \/ github_refused(o) \/ gitlab_refused(o)
          \/ read_provider_markdown_token(o) \/ fetch_snapshot(o)
          \/ github_metadata(o) \/ github_blob(o) \/ gitlab_file(o)
          \/ read_local_heading_asset(o) \/ github_image(o) \/ gitlab_image(o) \/ expire(o)
    \/ \E t \in readers :
          \/ local_markdown_source_files(t) \/ read_local_markdown_bytes(t)
          \/ write_local_file(t) \/ bounded_worker(t)
    \/ \E p \in Pools : orphan_ends(p)
    \/ push

SourceSpec == SourceInit /\ [][SourceNext]_sourceVars
---------------------------------------------------------------------------
HoldsFiles == {"commit", "file", "blob", "returned", "image_local", "image_token", "image_file", "image_blob", "shown"}

\* The leases whose bytes are in memory: in a thread, or with a request.
Bytes ==
    {t.lease : t \in {x \in readers : x.bytes}} \cup
    {ask[o].lease : o \in {x \in Operations : ask[x].pc \in HoldsFiles}}

\* The bytes of at most MemorySlots operations are in memory, abandoned
\* threads that go on reading included.
MemoryIsBounded == Cardinality(Bytes) <= MemorySlots

\* The remote files of a snapshot come from one commit, the one it names,
\* whatever was pushed while they were fetched and whatever the cache holds;
\* the image that is served comes from it too, and it is the pinned one.
SnapshotIsOneCommit ==
    \A o \in Operations :
        /\ \A i \in 1..Len(ask[o].got) : ask[o].got[i][2] = ask[o].commit
        /\ ask[o].pc = "shown" => ask[o].commit = ask[o].pinned

\* Both together, while threads that nobody waits for any more go on.
SnapshotsAreBounded == MemoryIsBounded /\ SnapshotIsOneCommit

=============================================================================
