---------------------------- MODULE CourseProofs ----------------------------
(***************************************************************************)
(* Proofs about the teacher's data: the saved changes of a course design,   *)
(* the calendars of its page, what the course board shows and what its AI   *)
(* operations leave, the imported activities, what the commands on the      *)
(* pilot's data root publish, the removal of a course with its supports,    *)
(* and the snapshots its sources are read from.  The inductive invariant of *)
(* each component comes first, then the lemmas on its actions.              *)
(***************************************************************************)
EXTENDS CourseDocuments, CalendarPage, CourseEditor, PilotRoot, FrameQueue,
        ActivityImport, CourseDeletion, SourceSnapshots, FiniteSetTheorems, TLAPS

-----------------------------------------------------------------------------
(***************************************************************************)
(* The document of a course design (CourseDocuments)                        *)
(***************************************************************************)

DesignContent == [edit : SUBSET Nat, actual : SUBSET Nat]
DesignFiles == [main : DesignContent, backup : DesignContent \cup {None}]

\* Every change that was answered with success is in the design.
Holds(d) == savedChanges \subseteq d.edit \cup d.actual
FilesHold(c) == Holds(c.main) /\ (c.backup # None => Holds(c.backup))

DirectoryHolds ==
    /\ document \in [now : DesignFiles, after : SUBSET DesignFiles]
    /\ document.now \in document.after
    /\ \A c \in document.after : FilesHold(c)

\* What is written has every saved change and its own; the copy that a write relies on is
\* there; a write that may still succeed has its design in place.
WriterHolds ==
    /\ writer.pc \in {"idle", "recover", "backup", "syncBackup", "replace", "syncMain",
                      "syncRestored", "cleanup", "failedCleanup", "giveBack"}
    /\ writer.pc # "idle" =>
          /\ {"pc", "new", "change", "backup"} = DOMAIN writer
          /\ writer.new \in DesignContent /\ Holds(writer.new)
          /\ writer.change \in writer.new.edit \cup writer.new.actual
    /\ writer.pc \in {"syncBackup", "replace", "syncMain"} =>
          document.now.backup \in DesignContent /\ Holds(document.now.backup)
    /\ writer.pc \in {"syncMain", "cleanup"} => document.now.main = writer.new
    /\ writer.pc = "giveBack" =>
          /\ writer.backup \in DesignContent \cup {None}
          /\ writer.backup # None => Holds(writer.backup)

DocumentInv ==
    /\ documentChanges \in Nat
    /\ editorPage \in [Editors -> DesignContent \cup {None}]
    /\ DirectoryHolds /\ WriterHolds

LEMMA NowHolds ==
    ASSUME DocumentInv
    PROVE  /\ document.now \in DesignFiles /\ FilesHold(document.now)
           /\ document.now.main \in DesignContent /\ Holds(document.now.main)
           /\ document.now.backup \in DesignContent \cup {None}
           /\ document.now.backup # None => Holds(document.now.backup)
    BY DEF DocumentInv, DirectoryHolds, DesignFiles, FilesHold

LEMMA ContentChanges ==
    ASSUME DocumentInv, NEW c \in DesignFiles, FilesHold(c), UNCHANGED savedChanges,
           document' = Changed(document, c) \/ document' = OnDisk(c)
    PROVE  DirectoryHolds' /\ document'.now = c
    BY DEF DocumentInv, DirectoryHolds, Changed, OnDisk, FilesHold, Holds

LEMMA ContentStays ==
    ASSUME DocumentInv, UNCHANGED << document, savedChanges >>
    PROVE  DirectoryHolds' /\ document'.now = document.now
    BY DEF DocumentInv, DirectoryHolds, FilesHold, Holds

\* Recovery yields a design that holds the saved changes, and no copy.
LEMMA RecoveredHolds ==
    ASSUME NEW c \in DesignFiles, FilesHold(c)
    PROVE  /\ Recovered(c) \in DesignFiles /\ FilesHold(Recovered(c)) /\ Recovered(c).backup = None
           /\ Holds(Recovered(c).main)
    BY DEF Recovered, DesignFiles, FilesHold

LEMMA FilesChange ==
    ASSUME NEW c \in DesignFiles, FilesHold(c), NEW d \in DesignContent, Holds(d)
    PROVE  /\ [c EXCEPT !.main = d] \in DesignFiles /\ FilesHold([c EXCEPT !.main = d])
           /\ [c EXCEPT !.main = d].main = d /\ [c EXCEPT !.main = d].backup = c.backup
           /\ [c EXCEPT !.backup = d] \in DesignFiles /\ FilesHold([c EXCEPT !.backup = d])
           /\ [c EXCEPT !.backup = d].backup = d /\ [c EXCEPT !.backup = d].main = c.main
    BY DEF DesignFiles, FilesHold

LEMMA CopyRemoved ==
    ASSUME NEW c \in DesignFiles, FilesHold(c)
    PROVE  /\ [c EXCEPT !.backup = None] \in DesignFiles /\ FilesHold([c EXCEPT !.backup = None])
           /\ [c EXCEPT !.backup = None].main = c.main
    BY DEF DesignFiles, FilesHold

\* A step of the directory while no request writes, or one that ends the write.
LEMMA IdleStep ==
    ASSUME DocumentInv, DirectoryHolds', writer'.pc = "idle", documentChanges' = documentChanges,
           editorPage' = editorPage
    PROVE  DocumentInv'
    BY DEF DocumentInv, WriterHolds

LEMMA ReturnIsIdle ==
    ASSUME Return PROVE writer'.pc = "idle"
    BY DEF Return, NoWriter

\* A step of the writer: what it writes stays, its directory fits the new stage.
LEMMA WriterSteps ==
    ASSUME DocumentInv, writer.pc # "idle", DirectoryHolds',
           UNCHANGED << editorPage, documentChanges, savedChanges >>,
           NEW pc \in {"recover", "backup", "syncBackup", "replace", "syncMain", "syncRestored",
                       "cleanup", "failedCleanup"},
           Step(pc),
           pc \in {"syncBackup", "replace", "syncMain"} =>
              document'.now.backup \in DesignContent /\ Holds(document'.now.backup),
           pc \in {"syncMain", "cleanup"} => document'.now.main = writer.new
    PROVE  DocumentInv'
<1>1. /\ DOMAIN writer' = DOMAIN writer /\ writer'.pc = pc
      /\ writer'.new = writer.new /\ writer'.change = writer.change
    BY DEF Step, DocumentInv, WriterHolds
<1>2. WriterHolds'
    BY <1>1 DEF DocumentInv, WriterHolds, Holds
<1> QED
    BY <1>2 DEF DocumentInv

LEMMA StorageKeepsInv ==
    ASSUME DocumentInv, JsonCourseStorage
    PROVE  DocumentInv'
<1> DEFINE c == document.now
<1>1. /\ c \in DesignFiles /\ FilesHold(c) /\ c.backup \in DesignContent /\ Holds(c.backup)
      /\ writer.pc = "idle" /\ UNCHANGED << editorPage, writer, documentChanges, savedChanges >>
    BY NowHolds DEF JsonCourseStorage
<1>2. DirectoryHolds'
  <2>1. CASE document' = OnDisk(Recovered(c)) \/ document' = Changed(document, Recovered(c))
    BY <1>1, <2>1, RecoveredHolds, ContentChanges
  <2>2. CASE document' = document
    BY <1>1, <2>2, ContentStays
  <2>3. CASE document' = Changed(document, [c EXCEPT !.main = c.backup])
    BY <1>1, <2>3, FilesChange, ContentChanges
  <2> QED
    BY <2>1, <2>2, <2>3 DEF JsonCourseStorage
<1> QED
    BY <1>1, <1>2, IdleStep

LEMMA ReadKeepsInv ==
    ASSUME DocumentInv, NEW e \in Editors, read_design(e)
    PROVE  DocumentInv'
<1>1. DirectoryHolds' /\ document.now.main \in DesignContent
    BY ContentStays, NowHolds DEF read_design
<1> QED
    BY <1>1 DEF read_design, DocumentInv, WriterHolds, Holds

\* A write begins with a design that has every saved change and the new one.
LEMMA BeginKeepsInv ==
    ASSUME DocumentInv, NEW d \in DesignContent, Holds(d), documentChanges + 1 \in d.edit \cup d.actual,
           BeginWrite(d)
    PROVE  DocumentInv'
<1>1. DirectoryHolds' /\ UNCHANGED << document, editorPage, savedChanges >>
    BY ContentStays DEF BeginWrite
<1>2. writer' = [pc |-> "recover", new |-> d, change |-> documentChanges + 1, backup |-> None]
    BY DEF BeginWrite
<1>3. WriterHolds'
    BY <1>1, <1>2 DEF WriterHolds, Holds
<1>4. documentChanges' \in Nat
    BY DEF BeginWrite, DocumentInv
<1> QED
    BY <1>1, <1>3, <1>4 DEF DocumentInv

LEMMA SaveKeepsInv ==
    ASSUME DocumentInv, NEW e \in Editors, NEW preserve \in BOOLEAN, write_design_cas(e, preserve)
    PROVE  DocumentInv'
<1> DEFINE latest == document.now.main
           d == [edit |-> editorPage[e].edit \cup {documentChanges + 1},
                 actual |-> IF preserve THEN latest.actual ELSE editorPage[e].actual]
<1>1. latest \in DesignContent /\ Holds(latest) /\ editorPage[e] \in DesignContent /\ documentChanges + 1 \in Nat
    BY NowHolds DEF write_design_cas, DocumentInv
<1>2. d.edit = latest.edit \cup {documentChanges + 1} /\ d.actual = latest.actual
    BY DEF write_design_cas
<1>3. d \in DesignContent
    BY <1>1 DEF DesignContent
<1>4. BeginWrite(d)
    BY DEF write_design_cas
<1> HIDE DEF d, latest
<1>5. Holds(d) /\ documentChanges + 1 \in d.edit \cup d.actual
    BY <1>1, <1>2 DEF Holds
<1> QED
    BY <1>3, <1>4, <1>5, BeginKeepsInv

LEMMA ProgressKeepsInv ==
    ASSUME DocumentInv, NEW e \in Editors, update_uda_actual(e)
    PROVE  DocumentInv'
<1> DEFINE latest == document.now.main
           d == [latest EXCEPT !.actual = @ \cup {documentChanges + 1}]
<1>1. latest \in DesignContent /\ Holds(latest) /\ documentChanges + 1 \in Nat
    BY NowHolds DEF DocumentInv
<1>2. d.edit = latest.edit /\ d.actual = latest.actual \cup {documentChanges + 1} /\ d \in DesignContent
    BY <1>1 DEF DesignContent
<1>3. BeginWrite(d)
    BY DEF update_uda_actual
<1> HIDE DEF d, latest
<1>4. Holds(d) /\ documentChanges + 1 \in d.edit \cup d.actual
    BY <1>1, <1>2 DEF Holds
<1> QED
    BY <1>2, <1>3, <1>4, BeginKeepsInv

LEMMA BackupKeepsInv ==
    ASSUME DocumentInv, write_backup
    PROVE  DocumentInv'
<1> DEFINE n == document.now
           c == Recovered(n)
<1>1. /\ n \in DesignFiles /\ FilesHold(n) /\ n.main \in DesignContent /\ Holds(n.main)
      /\ c \in DesignFiles /\ FilesHold(c) /\ c.main \in DesignContent /\ Holds(c.main)
    BY NowHolds, RecoveredHolds DEF DesignFiles
<1>2. UNCHANGED << editorPage, documentChanges, savedChanges >>
    BY DEF write_backup
<1> HIDE DEF c, n
<1>3. CASE /\ writer.pc = "recover" /\ Step("backup")
           /\ document' = IF c = n THEN document ELSE OnDisk(c)
  <2>1. DirectoryHolds'
    BY <1>1, <1>2, <1>3, ContentChanges, ContentStays
  <2> QED
    BY <1>2, <1>3, <2>1, WriterSteps
<1>4. CASE Return /\ (Directory(c) \/ Directory([n EXCEPT !.main = c.main]))
  <2>1. DirectoryHolds'
    BY <1>1, <1>2, <1>4, FilesChange, ContentChanges, ZenonT(60) DEF Directory
  <2> QED
    BY <1>2, <1>4, <2>1, IdleStep, ReturnIsIdle
<1>5. CASE writer.pc = "backup" /\ Directory([c EXCEPT !.backup = c.main]) /\ Step("syncBackup")
  <2> DEFINE d == [c EXCEPT !.backup = c.main]
  <2>2. d \in DesignFiles /\ FilesHold(d) /\ d.backup = c.main
    BY <1>1, FilesChange
  <2>3. document' = Changed(document, d)
    BY <1>5 DEF Directory
  <2> HIDE DEF d
  <2>1. DirectoryHolds' /\ document'.now.backup = c.main
    BY <1>2, <2>2, <2>3, ContentChanges
  <2> QED
    BY <1>1, <1>2, <1>5, <2>1, WriterSteps
<1>6. CASE UNCHANGED document /\ Return
    BY <1>2, <1>6, ContentStays, IdleStep, ReturnIsIdle
<1>7. CASE writer.pc = "syncBackup" /\ document' = Synced(document) /\ Step("replace")
  <2>1. DirectoryHolds' /\ document'.now = n
    BY <1>1, <1>2, <1>7, ContentChanges DEF Synced, n
  <2>2. n.backup \in DesignContent /\ Holds(n.backup)
    BY <1>7 DEF DocumentInv, WriterHolds, n
  <2> QED
    BY <1>2, <1>7, <2>1, <2>2, WriterSteps
<1>8. CASE Return /\ Directory([n EXCEPT !.backup = None])
  <2>1. DirectoryHolds'
    BY <1>1, <1>2, <1>8, CopyRemoved, ContentChanges DEF Directory
  <2> QED
    BY <1>2, <1>8, <2>1, IdleStep, ReturnIsIdle
<1> QED
    BY <1>3, <1>4, <1>5, <1>6, <1>7, <1>8 DEF write_backup, n, c

LEMMA MainKeepsInv ==
    ASSUME DocumentInv, write_main
    PROVE  DocumentInv'
<1> DEFINE c == document.now
<1>1. /\ c \in DesignFiles /\ FilesHold(c)
      /\ UNCHANGED << editorPage, documentChanges, savedChanges >>
      /\ writer.pc \in {"replace", "syncMain", "syncRestored"}
    BY NowHolds DEF write_main
<1>2. /\ writer.new \in DesignContent /\ Holds(writer.new)
      /\ writer.pc \in {"replace", "syncMain"} => c.backup \in DesignContent /\ Holds(c.backup)
      /\ writer.pc = "syncMain" => c.main = writer.new
    BY <1>1 DEF DocumentInv, WriterHolds
<1> HIDE DEF c
<1>3. CASE writer.pc = "replace" /\ Directory([c EXCEPT !.main = writer.new]) /\ Step("syncMain")
  <2> DEFINE d == [c EXCEPT !.main = writer.new]
  <2>2. /\ d \in DesignFiles /\ FilesHold(d)
        /\ d.main = writer.new /\ d.backup = c.backup
    BY <1>1, <1>2, FilesChange
  <2>3. document' = Changed(document, d)
    BY <1>3 DEF Directory
  <2> HIDE DEF d
  <2>1. DirectoryHolds' /\ document'.now.main = writer.new /\ document'.now.backup = c.backup
    BY <1>1, <2>2, <2>3, ContentChanges
  <2> QED
    BY <1>1, <1>2, <1>3, <2>1, WriterSteps
<1>4. CASE UNCHANGED document /\ Step("failedCleanup")
    BY <1>1, <1>4, ContentStays, WriterSteps
<1>5. CASE writer.pc = "syncMain" /\ document' = Synced(document) /\ Step("cleanup")
  <2>1. DirectoryHolds' /\ document'.now = c
    BY <1>1, <1>5, ContentChanges DEF Synced, c
  <2> QED
    BY <1>1, <1>2, <1>5, <2>1, WriterSteps
<1>6. CASE writer.pc = "syncMain" /\ Directory([c EXCEPT !.main = c.backup]) /\ Step("syncRestored")
  <2>1. DirectoryHolds'
    BY <1>1, <1>2, <1>6, FilesChange, ContentChanges DEF Directory
  <2> QED
    BY <1>1, <1>6, <2>1, WriterSteps
<1>7. CASE document' = Synced(document) /\ Step("failedCleanup")
  <2>1. DirectoryHolds'
    BY <1>1, <1>7, ContentChanges DEF Synced, c
  <2> QED
    BY <1>1, <1>7, <2>1, WriterSteps
<1>8. CASE UNCHANGED document /\ Return
    BY <1>1, <1>8, ContentStays, IdleStep, ReturnIsIdle
<1> QED
    BY <1>3, <1>4, <1>5, <1>6, <1>7, <1>8 DEF write_main, c

\* The commit of a write: its change is in the design that stays.
LEMMA CommitKeepsInv ==
    ASSUME DocumentInv, NEW c \in DesignFiles, document' = OnDisk(c), c.backup = None, Return,
           UNCHANGED << editorPage, documentChanges >>,
           savedChanges' \subseteq c.main.edit \cup c.main.actual
    PROVE  DocumentInv'
<1>1. /\ document'.now = c /\ document'.after = {c}
      /\ document' \in [now : DesignFiles, after : SUBSET DesignFiles]
    BY DEF OnDisk
<1>2. FilesHold(c)'
    BY DEF FilesHold, Holds
<1>3. DirectoryHolds'
    BY <1>1, <1>2 DEF DirectoryHolds, FilesHold, Holds
<1> QED
    BY <1>3, IdleStep, ReturnIsIdle

LEMMA CleanupKeepsInv ==
    ASSUME DocumentInv, write_cleanup
    PROVE  DocumentInv'
<1> DEFINE c == document.now
           bare == [c EXCEPT !.backup = None]
<1>1. /\ c \in DesignFiles /\ FilesHold(c) /\ c.backup \in DesignContent \cup {None}
      /\ c.backup # None => Holds(c.backup)
      /\ Holds(c.main)
      /\ bare \in DesignFiles /\ FilesHold(bare) /\ bare.main = c.main /\ bare.backup = None
    BY NowHolds, CopyRemoved DEF DesignFiles
<1>2. UNCHANGED << editorPage, documentChanges >> /\ writer.pc # "idle"
    BY DEF write_cleanup
<1>3. ASSUME /\ document' = OnDisk(bare) /\ Return /\ writer.pc \in {"cleanup", "failedCleanup"}
             /\ savedChanges' = IF writer.pc = "cleanup" THEN savedChanges \cup {writer.change}
                                ELSE savedChanges
      PROVE  DocumentInv'
  <2>1. writer.pc = "cleanup" =>
          /\ c.main = writer.new
          /\ writer.change \in writer.new.edit \cup writer.new.actual
    BY <1>2 DEF DocumentInv, WriterHolds
  <2>2. savedChanges' \subseteq c.main.edit \cup c.main.actual
    BY <1>1, <1>3, <2>1 DEF Holds
  <2> HIDE DEF bare
  <2> QED
    BY <1>1, <1>2, <1>3, <2>2, CommitKeepsInv
<1>4. ASSUME /\ Directory(bare) /\ UNCHANGED savedChanges
             /\ writer' = [writer EXCEPT !.pc = "giveBack", !.backup = c.backup]
      PROVE  DocumentInv'
  <2>1. DirectoryHolds'
    <3>1. document' = Changed(document, bare)
      BY <1>4 DEF Directory
    <3> HIDE DEF bare
    <3> QED
      BY <1>1, <1>4, <3>1, ContentChanges
  <2>2. DOMAIN writer = {"pc", "new", "change", "backup"}
    BY <1>2 DEF DocumentInv, WriterHolds
  <2>5. /\ DOMAIN writer' = DOMAIN writer /\ writer'.pc = "giveBack"
        /\ writer'.new = writer.new /\ writer'.change = writer.change
        /\ writer'.backup = c.backup
    BY <1>4, <2>2
  <2>6. WriterHolds'
    BY <1>1, <1>2, <1>4, <2>5 DEF DocumentInv, WriterHolds, Holds
  <2> QED
    BY <1>2, <2>1, <2>6 DEF DocumentInv
<1>5. ASSUME writer.pc = "giveBack", Return, UNCHANGED savedChanges,
             \/ document' = OnDisk([c EXCEPT !.backup = writer.backup])
             \/ Directory([c EXCEPT !.backup = writer.backup])
             \/ UNCHANGED document
      PROVE  DocumentInv'
  <2> DEFINE d == [c EXCEPT !.backup = writer.backup]
  <2>1. writer.backup \in DesignContent \cup {None} /\ (writer.backup # None => Holds(writer.backup))
    BY <1>5 DEF DocumentInv, WriterHolds
  <2>2. d \in DesignFiles /\ FilesHold(d)
    BY <1>1, <2>1, FilesChange, CopyRemoved
  <2>3. \/ document' = OnDisk(d) \/ document' = Changed(document, d) \/ UNCHANGED document
    BY <1>5 DEF Directory
  <2> HIDE DEF d
  <2>4. DirectoryHolds'
    BY <1>5, <2>2, <2>3, ContentChanges, ContentStays
  <2> QED
    BY <1>2, <1>5, <2>4, IdleStep, ReturnIsIdle
<1> QED
    BY <1>3, <1>4, <1>5 DEF write_cleanup

LEMMA RestartKeepsInv ==
    ASSUME DocumentInv, DocumentRestart
    PROVE  DocumentInv'
<1>1. PICK c \in document.after : document' \in {document, OnDisk(c)}
    BY DEF DocumentRestart
<1>2. c \in DesignFiles /\ FilesHold(c)
    BY DEF DocumentInv, DirectoryHolds
<1>3. UNCHANGED << editorPage, documentChanges, savedChanges >> /\ Return
    BY DEF DocumentRestart
<1>4. DirectoryHolds'
    BY <1>1, <1>2, <1>3, ContentChanges, ContentStays
<1> QED
    BY <1>3, <1>4, IdleStep, ReturnIsIdle

\* Whatever a crash leaves, recovery yields a design with every change that was answered.
THEOREM SavedChangesSurviveAlways == DocumentSpec => []SavedChangesSurvive
<1>1. DocumentInit => DocumentInv
  <2> SUFFICES ASSUME DocumentInit PROVE DocumentInv
    OBVIOUS
  <2> DEFINE c == [main |-> [edit |-> {}, actual |-> {}], backup |-> None]
  <2>1. c \in DesignFiles /\ FilesHold(c)
    BY DEF DocumentInit, DesignFiles, DesignContent, FilesHold, Holds
  <2>2. document = OnDisk(c)
    BY DEF DocumentInit
  <2> HIDE DEF c
  <2>3. DirectoryHolds
    BY <2>1, <2>2 DEF DirectoryHolds, OnDisk
  <2>4. WriterHolds
    BY DEF DocumentInit, NoWriter, WriterHolds
  <2> QED
    BY <2>3, <2>4 DEF DocumentInit, DocumentInv
<1>2. DocumentInv /\ [DocumentNext]_documentVars => DocumentInv'
  <2> SUFFICES ASSUME DocumentInv, [DocumentNext]_documentVars PROVE DocumentInv'
    OBVIOUS
  <2>1. CASE UNCHANGED documentVars
    <3>1. UNCHANGED << document, editorPage, writer, documentChanges, savedChanges >>
      BY <2>1 DEF documentVars, documentState
    <3> QED
      BY <3>1 DEF DocumentInv, DirectoryHolds, WriterHolds, FilesHold, Holds
  <2> QED
    BY <2>1, StorageKeepsInv, ReadKeepsInv, SaveKeepsInv, ProgressKeepsInv, BackupKeepsInv,
       MainKeepsInv, CleanupKeepsInv, RestartKeepsInv DEF DocumentNext
<1>3. DocumentInv => SavedChangesSurvive
  <2> SUFFICES ASSUME DocumentInv, NEW c \in document.after
               PROVE  savedChanges \subseteq Recovered(c).main.edit \cup Recovered(c).main.actual
    BY DEF SavedChangesSurvive
  <2>1. c \in DesignFiles /\ FilesHold(c)
    BY DEF DocumentInv, DirectoryHolds
  <2> QED
    BY <2>1, RecoveredHolds DEF Holds
<1> QED
    BY <1>1, <1>2, <1>3, PTL DEF DocumentSpec

-----------------------------------------------------------------------------
(***************************************************************************)
(* A page of a calendar and its late answers (CalendarPage)                 *)
(***************************************************************************)

ProgressSaves ==
    [kind : {"actual"}, design : Designs, expected : Contents, content : Contents, cal : BOOLEAN,
     course : BOOLEAN, state : {"sent", "answered", "refused"}]

PageViews ==
    [content : Contents, rev : Contents \cup {None}, name : CalendarIds \cup {None},
     design : Designs, seen : Contents \cup {None}]

Start == [kind |-> "start"]

\* A calendar keeps what was saved in it; one that was never written keeps nothing.
CalendarHolds(content, keeps) == IF content = None THEN keeps = {} ELSE keeps \subseteq content

CalendarsKeep ==
    /\ edits \in 0 .. MaxEdit
    /\ files \in [CalendarIds -> Contents \cup {None}]
    /\ keptFiles \in [CalendarIds -> Contents]
    /\ progress \in [Designs -> Contents]
    /\ \A c \in CalendarIds : CalendarHolds(files[c], keptFiles[c])

\* A load that reads its context has a design, and a calendar that is answered was found.
CalendarLoadHolds(r) ==
    /\ r \in LoadRequests
    /\ r.kind = "calendar" => r.name \in CalendarIds
    /\ r.kind = "calendar" /\ r.state = "answered" => r.got # None
    /\ r.kind = "design" \/ r.state # "sent" => r.design \in Designs

CalendarLoadsHold ==
    /\ DOMAIN loads = LoadKinds
    /\ \A s \in LoadKinds : loads[s] \in {None, Start} \/ CalendarLoadHolds(loads[s])

\* What the page shows, and what it sends, holds the revision it names.
Includes(content, rev) == rev # None => rev \subseteq content

CalendarPageHolds == page \in PageViews /\ Includes(page.content, page.rev)

CalendarSavesHold ==
    /\ save \in SaveRequests \cup {None}
    /\ save # None => Includes(save.content, save.expected)
    /\ actual \in ProgressSaves \cup {None}

CalendarInv == CalendarsKeep /\ CalendarLoadsHold /\ CalendarPageHolds /\ CalendarSavesHold /\ PageComesBack

LEMMA NewLoad ==
    /\ \A c \in CalendarIds : CalendarLoadHolds(Load("calendar", c, None)) /\ Owns(Load("calendar", c, None))
    /\ \A d \in Designs : CalendarLoadHolds(Load("design", None, d)) /\ Owns(Load("design", None, d))
<1>1. \A c \in CalendarIds : Load("calendar", c, None) \in LoadRequests
  BY DEF LoadRequests, Load
<1>2. \A d \in Designs : Load("design", None, d) \in LoadRequests
  BY DEF LoadRequests, Load
<1> QED
  BY <1>1, <1>2, CalendarAssumption DEF CalendarLoadHolds, Load, Owns, Waits

\* A counter that moves leaves a waiting request as it is, but for its flags.
LEMMA MovedLoad ==
    ASSUME NEW r, r \in {None, Start} \/ CalendarLoadHolds(r)
    PROVE  /\ CalMoved(r) \in {None, Start} \/ CalendarLoadHolds(CalMoved(r))
           /\ CourseMoved(r) \in {None, Start} \/ CalendarLoadHolds(CourseMoved(r))
           /\ CalMoved(CourseMoved(r)) \in {None, Start} \/ CalendarLoadHolds(CalMoved(CourseMoved(r)))
<1>1. ASSUME NEW q, q \in {None, Start} \/ CalendarLoadHolds(q)
      PROVE  /\ CalMoved(q) \in {None, Start} \/ CalendarLoadHolds(CalMoved(q))
             /\ CourseMoved(q) \in {None, Start} \/ CalendarLoadHolds(CourseMoved(q))
  BY <1>1 DEF CalMoved, CourseMoved, Waits, Start, CalendarLoadHolds, LoadRequests
<1> QED
  BY <1>1

LEMMA MovedSaves ==
    ASSUME CalendarSavesHold
    PROVE  /\ CalMoved(save) \in SaveRequests \cup {None}
           /\ save # None => CalMoved(save) # None /\ Includes(CalMoved(save).content, CalMoved(save).expected)
           /\ save = None => CalMoved(save) = None
           /\ CalMoved(actual) \in ProgressSaves \cup {None}
           /\ CourseMoved(actual) \in ProgressSaves \cup {None}
           /\ CalMoved(CourseMoved(actual)) \in ProgressSaves \cup {None}
<1>1. ASSUME NEW q \in ProgressSaves \cup {None}
      PROVE  CalMoved(q) \in ProgressSaves \cup {None} /\ CourseMoved(q) \in ProgressSaves \cup {None}
  BY <1>1 DEF CalMoved, CourseMoved, Waits, ProgressSaves
<1>2. save # None => CalMoved(save) # None
  BY CalendarAssumption DEF CalendarSavesHold, CalMoved, Waits, SaveRequests
<1> QED
  BY <1>1, <1>2 DEF CalendarSavesHold, CalMoved, Waits, SaveRequests, Includes

LoadStarts(s) ==
    \/ \E c \in CalendarIds : StartsCalendar(s, c)
    \/ \E d \in Designs, changed \in BOOLEAN : StartsDesign(s, d, changed)

\* A load that starts owns the page, and the requests before it stay well formed.
LEMMA StartKeeps ==
    ASSUME CalendarLoadsHold, CalendarSavesHold, NEW s \in LoadKinds, LoadStarts(s)
    PROVE  CalendarLoadsHold' /\ CalendarSavesHold' /\ (\E k \in LoadKinds : Owns(loads[k]))'
<1>1. CalendarLoadHolds(loads'[s]) /\ Owns(loads'[s]) /\ DOMAIN loads' = LoadKinds
  BY NewLoad DEF LoadStarts, StartsCalendar, StartsDesign
<1>2. ASSUME NEW k \in LoadKinds, k # s
      PROVE  loads'[k] \in {None, Start} \/ CalendarLoadHolds(loads'[k])
  BY <1>2, MovedLoad DEF LoadStarts, StartsCalendar, StartsDesign, CalendarLoadsHold
<1>3. CalendarSavesHold'
  BY MovedSaves DEF CalendarSavesHold, LoadStarts, StartsCalendar, StartsDesign
<1> QED
  BY <1>1, <1>2, <1>3 DEF CalendarLoadsHold

\* A load that takes a step, or ends.
LEMMA LoadBecomes ==
    ASSUME CalendarLoadsHold, NEW s \in LoadKinds, NEW new, new \in {None, Start} \/ CalendarLoadHolds(new),
           loads' = [loads EXCEPT ![s] = new]
    PROVE  /\ CalendarLoadsHold'
           /\ loads'[s] = new
           /\ \A k \in LoadKinds : k # s => loads'[k] = loads[k]
    BY DEF CalendarLoadsHold

\* The page is given back only by the load that owns it.
LEMMA OwnerStays ==
    ASSUME PageComesBack, CalendarLoadsHold, NEW s \in LoadKinds, NEW new,
           loads' = [loads EXCEPT ![s] = new], Owns(loads[s]) => Owns(new),
           locked' = locked, loading' = loading, save' = save
    PROVE  PageComesBack'
    BY DEF PageComesBack, CalendarLoadsHold

LEMMA CalendarTeacherStep ==
    ASSUME CalendarInv,
           \/ edit_calendar
           \/ \E c \in CalendarIds : other_session(c)
           \/ saveActualProgress \/ update_course_uda_actual \/ actualAnswered
    PROVE  CalendarInv'
<1> USE CalendarAssumption DEF CalendarInv, Includes
<1>1. CASE edit_calendar
  <2>1. edits' \in 1 .. MaxEdit
    BY <1>1 DEF edit_calendar, CalendarsKeep
  <2>2. page'.content = page.content \cup {edits'} /\ page'.rev = page.rev /\ page' \in PageViews
    BY <1>1, <2>1 DEF edit_calendar, CalendarPageHolds, PageViews, Contents
  <2> QED
    BY <1>1, <2>1, <2>2 DEF edit_calendar, CalendarsKeep, CalendarPageHolds, CalendarLoadsHold, CalendarSavesHold, PageComesBack
<1>2. ASSUME NEW c \in CalendarIds, other_session(c) PROVE CalendarInv'
  <2>1. edits' \in 1 .. MaxEdit /\ files[c] \in Contents /\ keptFiles[c] \subseteq files[c]
    BY <1>2 DEF other_session, CalendarsKeep, CalendarHolds
  <2>2. files[c] \cup {edits'} \in Contents /\ keptFiles[c] \cup {edits'} \in Contents
    BY <2>1 DEF Contents
  <2>3. /\ edits' \in 0 .. MaxEdit /\ progress' \in [Designs -> Contents]
        /\ files' \in [CalendarIds -> Contents \cup {None}] /\ keptFiles' \in [CalendarIds -> Contents]
    BY <1>2, <2>1, <2>2 DEF other_session, CalendarsKeep
  <2>4. \A k \in CalendarIds \ {c} : files'[k] = files[k] /\ keptFiles'[k] = keptFiles[k]
    BY <1>2 DEF other_session, CalendarsKeep
  <2>5. files'[c] = files[c] \cup {edits'} /\ keptFiles'[c] = keptFiles[c] \cup {edits'}
    BY <1>2 DEF other_session, CalendarsKeep
  <2>6. \A k \in CalendarIds : CalendarHolds(files'[k], keptFiles'[k])
    BY <2>1, <2>2, <2>4, <2>5, CalendarAssumption DEF CalendarsKeep, CalendarHolds
  <2>7. CalendarsKeep'
    BY <2>3, <2>6 DEF CalendarsKeep
  <2> QED
    BY <1>2, <2>7 DEF other_session, CalendarPageHolds, CalendarLoadsHold, CalendarSavesHold, PageComesBack
<1>3. CASE saveActualProgress
  <2>1. edits' \in 1 .. MaxEdit /\ page.seen \in Contents /\ page.design \in Designs
    BY <1>3 DEF saveActualProgress, CalendarsKeep, CalendarPageHolds, PageViews
  <2>2. page.seen \cup {edits'} \in Contents
    BY <2>1 DEF Contents
  <2>3. actual' \in ProgressSaves
    BY <1>3, <2>1, <2>2 DEF saveActualProgress, ProgressSaves
  <2> QED
    BY <1>3, <2>1, <2>3 DEF saveActualProgress, CalendarsKeep, CalendarPageHolds, CalendarLoadsHold, CalendarSavesHold, PageComesBack
<1>4. CASE update_course_uda_actual
  <2>1. actual' \in ProgressSaves /\ progress' \in [Designs -> Contents]
    BY <1>4 DEF update_course_uda_actual, CalendarSavesHold, ProgressSaves, CalendarsKeep
  <2> QED
    BY <1>4, <2>1 DEF update_course_uda_actual, CalendarsKeep, CalendarPageHolds, CalendarLoadsHold, CalendarSavesHold, PageComesBack
<1>5. CASE actualAnswered
  <2>1. actual.content \in Contents /\ actual' = None
    BY <1>5 DEF actualAnswered, CalendarSavesHold, ProgressSaves
  <2>2. page' \in PageViews /\ page'.content = page.content /\ page'.rev = page.rev
    BY <1>5, <2>1 DEF actualAnswered, CalendarPageHolds, PageViews
  <2> QED
    BY <1>5, <2>1, <2>2 DEF actualAnswered, CalendarsKeep, CalendarPageHolds, CalendarLoadsHold, CalendarSavesHold, PageComesBack
<1> QED
  BY <1>1, <1>2, <1>3, <1>4, <1>5

LEMMA CalendarStarts ==
    ASSUME CalendarInv,
           \/ loadCalendarForActiveCourseDesign
           \/ \E c \in CalendarIds : loadSelectedCalendar(c)
           \/ \E d \in Designs : courseDesignSelect(d)
    PROVE  CalendarInv'
<1> USE DEF CalendarInv
<1>1. ASSUME NEW s \in LoadKinds, LoadStarts(s), CalendarPageHolds',
             UNCHANGED << files, progress, edits, keptFiles >>
      PROVE  CalendarInv'
  BY <1>1, StartKeeps DEF PageComesBack, CalendarsKeep
<1>2. "boot" \in LoadKinds /\ "user" \in LoadKinds /\ page.design \in Designs /\ {} \in Contents
  BY DEF LoadKinds, CalendarPageHolds, PageViews, Contents
<1>3. CASE loadCalendarForActiveCourseDesign
  <2>1. CalendarPageHolds'
    BY <1>2, <1>3 DEF loadCalendarForActiveCourseDesign, CalendarPageHolds, PageViews, Includes
  <2>2. LoadStarts("boot")
    BY <1>2, <1>3 DEF loadCalendarForActiveCourseDesign, LoadStarts
  <2> QED
    BY <1>1, <1>2, <1>3, <2>1, <2>2 DEF loadCalendarForActiveCourseDesign
<1>4. ASSUME NEW c \in CalendarIds, loadSelectedCalendar(c) PROVE CalendarInv'
  <2>1. CalendarPageHolds' /\ LoadStarts("user")
    BY <1>4 DEF loadSelectedCalendar, CalendarPageHolds, LoadStarts
  <2> QED
    BY <1>1, <1>2, <1>4, <2>1 DEF loadSelectedCalendar
<1>5. ASSUME NEW d \in Designs, courseDesignSelect(d) PROVE CalendarInv'
  <2>1. CalendarPageHolds' /\ LoadStarts("user")
    BY <1>5 DEF courseDesignSelect, CalendarPageHolds, PageViews, Includes, LoadStarts
  <2> QED
    BY <1>1, <1>2, <1>5, <2>1 DEF courseDesignSelect
<1> QED
  BY <1>3, <1>4, <1>5

LEMMA CalendarLoadStep ==
    ASSUME CalendarInv, NEW s \in LoadKinds,
           \/ read_school_calendar(s) \/ course_calendar_context(s)
           \/ loadIsStale(s) \/ loadCalendarByName(s) \/ loadCourseDesign(s) \/ loadFailed(s)
    PROVE  CalendarInv'
<1> USE CalendarAssumption DEF CalendarInv
<1> DEFINE r == loads[s]
<1>1. ASSUME Waits(r) PROVE CalendarLoadHolds(r)
  BY <1>1 DEF CalendarLoadsHold, Waits, Start
<1>2. None \in {None, Start}
  OBVIOUS
<1>3. CASE read_school_calendar(s)
  <2>1. PICK d \in Designs :
          loads' = [loads EXCEPT ![s] = [r EXCEPT !.state = "context", !.got = files[r.name], !.design = d]]
    BY <1>3 DEF read_school_calendar, CalendarLoadsHold
  <2>2. CalendarLoadHolds([r EXCEPT !.state = "context", !.got = files[r.name], !.design = d])
    BY <1>1, <1>3 DEF read_school_calendar, CalendarLoadHolds, LoadRequests, CalendarsKeep
  <2>3. Owns(r) => Owns([r EXCEPT !.state = "context", !.got = files[r.name], !.design = d])
    BY <1>1, <1>3, <2>2 DEF read_school_calendar, CalendarLoadHolds, LoadRequests, Owns, Waits
  <2>4. CalendarLoadsHold'
    BY <2>1, <2>2, LoadBecomes
  <2>5. PageComesBack'
    BY <1>3, <2>1, <2>3, OwnerStays DEF read_school_calendar
  <2> QED
    BY <1>3, <2>4, <2>5 DEF read_school_calendar, CalendarsKeep, CalendarPageHolds, CalendarSavesHold
<1>4. CASE course_calendar_context(s)
  <2>1. PICK seen \in Contents \cup {None} :
          loads' = [loads EXCEPT ![s] = [r EXCEPT !.state = "answered", !.seen = seen]]
    <3>1. r \in LoadRequests /\ progress[r.design] \in Contents
      BY <1>1, <1>4 DEF course_calendar_context, CalendarLoadHolds, CalendarsKeep
    <3>2. [r EXCEPT !.state = "answered"] = [r EXCEPT !.state = "answered", !.seen = r.seen]
      BY <3>1 DEF LoadRequests
    <3> QED
      BY <1>4, <3>1, <3>2 DEF course_calendar_context, CalendarLoadsHold, LoadRequests
  <2>2. CalendarLoadHolds([r EXCEPT !.state = "answered", !.seen = seen])
    BY <1>1, <1>4 DEF course_calendar_context, CalendarLoadHolds, LoadRequests
  <2>3. Owns(r) => Owns([r EXCEPT !.state = "answered", !.seen = seen])
    BY <1>1, <1>4, <2>2 DEF course_calendar_context, CalendarLoadHolds, LoadRequests, Owns, Waits
  <2>4. CalendarLoadsHold'
    BY <2>1, <2>2, LoadBecomes
  <2>5. PageComesBack'
    BY <1>4, <2>1, <2>3, OwnerStays DEF course_calendar_context
  <2> QED
    BY <1>4, <2>4, <2>5 DEF course_calendar_context, CalendarsKeep, CalendarPageHolds, CalendarSavesHold
<1>5. CASE loadIsStale(s)
  <2>1. CalendarLoadsHold'
    BY <1>2, <1>5, LoadBecomes DEF loadIsStale
  <2>2. ~Owns(r)
    BY <1>1, <1>5 DEF loadIsStale, Owns, CalendarLoadHolds, LoadRequests
  <2>3. PageComesBack'
    BY <1>5, <2>2, OwnerStays DEF loadIsStale
  <2> QED
    BY <1>5, <2>1, <2>3 DEF loadIsStale, CalendarsKeep, CalendarPageHolds, CalendarSavesHold
<1>6. CASE loadCalendarByName(s)
  <2>1. CalendarLoadsHold'
    BY <1>2, <1>6, LoadBecomes DEF loadCalendarByName
  <2>2. page' \in PageViews /\ page'.rev = page'.content
    BY <1>1, <1>6 DEF loadCalendarByName, CalendarLoadHolds, LoadRequests, PageViews
  <2> QED
    BY <1>6, <2>1, <2>2 DEF loadCalendarByName, Unlocks, setCalendarInteractionLocked, CalendarsKeep, CalendarPageHolds,
       CalendarSavesHold, PageComesBack, Includes
<1>7. CASE loadCourseDesign(s)
  <2>1. CalendarLoadsHold'
    BY <1>2, <1>7, LoadBecomes DEF loadCourseDesign
  <2>2. page' \in PageViews /\ page'.rev = page.rev /\ page'.content = page.content
    BY <1>1, <1>7 DEF loadCourseDesign, CalendarLoadHolds, LoadRequests, PageViews, CalendarPageHolds
  <2> QED
    BY <1>7, <2>1, <2>2 DEF loadCourseDesign, Unlocks, setCalendarInteractionLocked, CalendarsKeep, CalendarPageHolds,
       CalendarSavesHold, PageComesBack
<1>8. CASE loadFailed(s)
  <2>1. CalendarLoadsHold'
    BY <1>2, <1>8, LoadBecomes DEF loadFailed
  <2>2. page' \in PageViews /\ page'.rev = page.rev /\ page'.content = page.content
    BY <1>8 DEF loadFailed, PageViews, CalendarPageHolds
  <2>3. PageComesBack'
    <3>1. CASE Owns(r)
      BY <1>8, <3>1 DEF loadFailed, FailureUnlocks, Unlocks, setCalendarInteractionLocked, PageComesBack
    <3>2. CASE ~Owns(r)
      BY <1>8, <3>2, OwnerStays DEF loadFailed, FailureUnlocks
    <3> QED
      BY <3>1, <3>2
  <2> QED
    BY <1>8, <2>1, <2>2, <2>3 DEF loadFailed, CalendarsKeep, CalendarPageHolds, CalendarSavesHold
<1> QED
  BY <1>3, <1>4, <1>5, <1>6, <1>7, <1>8

LEMMA CalendarSaveStep ==
    ASSUME CalendarInv,
           \/ \E c \in CalendarIds : saveCalendar(c)
           \/ write_school_calendar_cas \/ saveAnswered \/ saveLost
    PROVE  CalendarInv'
<1> USE CalendarAssumption DEF CalendarInv
<1>1. ASSUME NEW c \in CalendarIds, saveCalendar(c) PROVE CalendarInv'
  <2>1. save' \in SaveRequests /\ Includes(save'.content, save'.expected)
    BY <1>1 DEF saveCalendar, SaveRequests, CalendarPageHolds, PageViews, Includes
  <2>2. CalendarLoadsHold'
    BY <1>1, MovedLoad DEF saveCalendar, CalendarLoadsHold
  <2>3. actual' \in ProgressSaves \cup {None}
    BY <1>1, MovedSaves DEF saveCalendar
  <2>4. CalendarSavesHold' /\ save' # None /\ ~loading
    BY <1>1, <2>1, <2>3 DEF CalendarSavesHold, saveCalendar
  <2> QED
    BY <1>1, <2>2, <2>4 DEF saveCalendar, CalendarsKeep, CalendarPageHolds, PageComesBack
<1>2. CASE write_school_calendar_cas
  <2>1. save \in SaveRequests /\ Includes(save.content, save.expected)
    BY <1>2 DEF write_school_calendar_cas, CalendarSavesHold
  <2>2. save' \in SaveRequests /\ save'.content = save.content /\ save'.expected = save.expected
    BY <1>2, <2>1 DEF write_school_calendar_cas, SaveRequests
  <2>3. CalendarSavesHold' /\ save' # None
    BY <1>2, <2>1, <2>2 DEF write_school_calendar_cas, CalendarSavesHold
  <2>4. CalendarsKeep'
    <3>1. CASE files[save.name] = save.expected
      <4>1. save.name \in CalendarIds /\ save.content \in Contents
        BY <2>1 DEF SaveRequests
      <4>2. keptFiles[save.name] \subseteq save.content
        BY <2>1, <3>1, <4>1 DEF CalendarsKeep, CalendarHolds, Includes
      <4>3. keptFiles[save.name] \cup save.content = save.content
        BY <4>2
      <4> QED
        BY <1>2, <3>1, <4>1, <4>3 DEF write_school_calendar_cas, CalendarsKeep, CalendarHolds
    <3>2. CASE files[save.name] # save.expected
      BY <1>2, <3>2 DEF write_school_calendar_cas, CalendarsKeep
    <3> QED
      BY <3>1, <3>2
  <2> QED
    BY <1>2, <2>3, <2>4 DEF write_school_calendar_cas, CalendarLoadsHold, CalendarPageHolds, PageComesBack
<1>3. CASE saveAnswered
  <2>1. page' \in PageViews /\ Includes(page'.content, page'.rev)
    BY <1>3 DEF saveAnswered, Taken, CalendarSavesHold, SaveRequests, CalendarPageHolds, PageViews, Includes
  <2> QED
    BY <1>3, <2>1 DEF saveAnswered, setCalendarInteractionLocked, CalendarsKeep, CalendarLoadsHold, CalendarPageHolds, CalendarSavesHold,
       PageComesBack
<1>4. CASE saveLost
  BY <1>4 DEF saveLost, setCalendarInteractionLocked, CalendarsKeep, CalendarLoadsHold, CalendarPageHolds, CalendarSavesHold, PageComesBack
<1> QED
  BY <1>1, <1>2, <1>3, <1>4

\* No calendar that a session has saved is written over by a page that has not loaded
\* it, and no late answer leaves the page locked, however loads, saves and changes of
\* the design overtake each other.
THEOREM CalendarSurvivesAlways == CalendarSpec => []CalendarSurvivesLateAnswers
<1>1. CalendarInit => CalendarInv
  <2> SUFFICES ASSUME CalendarInit PROVE CalendarInv
    OBVIOUS
  <2>1. {} \in Contents /\ AnyDesign \in Designs /\ 0 \in 0 .. MaxEdit
    BY CalendarAssumption DEF Contents, AnyDesign
  <2>2. CalendarsKeep
    BY <2>1 DEF CalendarInit, CalendarsKeep, CalendarHolds
  <2>3. CalendarLoadsHold
    BY DEF CalendarInit, CalendarLoadsHold, Start
  <2>4. CalendarPageHolds /\ CalendarSavesHold /\ PageComesBack
    BY <2>1 DEF CalendarInit, CalendarPageHolds, PageViews, Includes, CalendarSavesHold, PageComesBack
  <2> QED
    BY <2>2, <2>3, <2>4 DEF CalendarInv
<1>2. CalendarInv /\ [CalendarNext]_calendarVars => CalendarInv'
  <2> SUFFICES ASSUME CalendarInv, [CalendarNext]_calendarVars PROVE CalendarInv'
    OBVIOUS
  <2>1. CASE CalendarNext
    BY <2>1, CalendarTeacherStep, CalendarStarts, CalendarLoadStep, CalendarSaveStep DEF CalendarNext
  <2>2. CASE UNCHANGED calendarVars
    BY <2>2 DEF calendarVars, calendarState, CalendarInv, CalendarsKeep, CalendarLoadsHold, CalendarPageHolds, CalendarSavesHold, PageComesBack
  <2> QED
    BY <2>1, <2>2
<1>3. CalendarInv => CalendarSurvivesLateAnswers
  BY DEF CalendarInv, CalendarSurvivesLateAnswers, SavedCalendarSurvives, CalendarsKeep, CalendarHolds
<1> QED
  BY <1>1, <1>2, <1>3, PTL DEF CalendarSpec

-----------------------------------------------------------------------------
(***************************************************************************)
(* The editor of the course board (CourseEditor)                            *)
(***************************************************************************)

Names == Documents \cup {NoName}
Contexts == [name : Names, content : SUBSET Nat, same : BOOLEAN]
EditorLoads ==
    [kind : {"all", "load", "ignored"}, name : Names, ctx : Contexts, latest : BOOLEAN,
     state : {"sent", "answered"}, got : (SUBSET Nat) \cup {None}, listed : SUBSET Archives]
EditorJobs ==
    [kind : {"archive", "current", "delete"}, name : Documents, ctx : Contexts, latest : BOOLEAN,
     state : {"sent", "answered", "refused", "asking", "deleted", "reloaded"},
     got : (SUBSET Nat) \cup {None}, content : SUBSET Nat, expected : (SUBSET Nat) \cup {None},
     opens : BOOLEAN, dirty : BOOLEAN]
Boards ==
    [content : SUBSET Nat, name : Names, rev : SUBSET Nat, cur : SUBSET Nat, clean : SUBSET Nat]

\* What is made of the first n changes.
Made(n) == SUBSET (1 .. n)

\* The answer of a request of which this holds may replace the board: nothing that was
\* on the board when it was sent was typed since the teacher agreed to leave it.
Replaces(r, t) == r.latest /\ r.ctx.same => t \cap r.ctx.content = {}

EditorLoadHolds(r, t, n) ==
    /\ r \in EditorLoads
    /\ r.ctx.content \in Made(n) /\ r.got \in Made(n) \cup {None}
    /\ r.state = "sent" => r.name \in Documents
    /\ Replaces(r, t)

\* A save of the course puts back what it was sent with; a deletion that goes on to the
\* course began with nothing to save.
EditorJobHolds(j, t, n) ==
    /\ j \in EditorJobs
    /\ j.ctx.content \in Made(n) /\ j.got \in Made(n) \cup {None} /\ j.content \in Made(n)
    /\ j.opens \/ (j.kind = "delete" /\ ~j.dirty) => Replaces(j, t)
    /\ j.kind = "current" /\ j.ctx.same => j.content = j.ctx.content
    /\ j.state \in {"deleted", "reloaded"} => j.kind = "delete"
    /\ j.state = "reloaded" => ~j.dirty /\ j.got \in Made(n)
    /\ j.kind = "delete" => j.name \in Archives

BoardHolds ==
    /\ changes \in Nat
    /\ view \in Boards /\ view.content \in Made(changes)
    /\ typed \subseteq view.content

DocumentsHold ==
    /\ documents \in [Documents -> Made(changes) \cup {None}]
    /\ documents[Course] \in Made(changes)

EditorLoadsHold ==
    /\ DOMAIN waiting = Loads
    /\ \A l \in Loads : waiting[l] = None \/ EditorLoadHolds(waiting[l], typed, changes)

EditorJobsHold == job = None \/ EditorJobHolds(job, typed, changes)

EditorInv == BoardHolds /\ DocumentsHold /\ EditorLoadsHold /\ EditorJobsHold

\* A change made later is in nothing that was captured, computed or sent before it.
LEMMA LaterHolds ==
    ASSUME NEW n \in Nat, NEW m \in {n, n + 1}, NEW t, NEW u, u \subseteq t \cup (n + 1 .. m)
    PROVE  /\ Made(n) \subseteq Made(m) /\ Made(n) \subseteq SUBSET Nat
           /\ \A r : EditorLoadHolds(r, t, n) => EditorLoadHolds(r, u, m)
           /\ \A j : EditorJobHolds(j, t, n) => EditorJobHolds(j, u, m)
<1>1. Made(n) \subseteq Made(m) /\ Made(n) \subseteq SUBSET Nat
  BY DEF Made
<1>2. \A c \in Made(n) : t \cap c = {} => u \cap c = {}
  BY DEF Made
<1> QED
  BY <1>1, <1>2 DEF EditorLoadHolds, EditorJobHolds, Replaces

\* The requests that the step leaves alone.
LEMMA RequestsStay ==
    ASSUME BoardHolds, changes' \in {changes, changes + 1},
           typed' \subseteq typed \cup (changes + 1 .. changes')
    PROVE  /\ EditorLoadsHold /\ waiting' = waiting => EditorLoadsHold'
           /\ EditorJobsHold /\ job' = job => EditorJobsHold'
           /\ DocumentsHold /\ documents' = documents => DocumentsHold'
    BY LaterHolds DEF BoardHolds, EditorLoadsHold, EditorJobsHold, DocumentsHold

LEMMA IgnoredHolds ==
    ASSUME NEW t, NEW n \in Nat PROVE EditorLoadHolds(Ignored, t, n)
<1>1. Replaced \in Contexts /\ Replaced.content = {} /\ {} \in Made(n) /\ NoName \in Names
  BY DEF Replaced, Contexts, Names, Made
<1>2. None \in (SUBSET Nat) \cup {None} /\ {} \in SUBSET Archives
  OBVIOUS
<1>3. Ignored \in EditorLoads
  BY <1>1, <1>2 DEF Ignored, EditorLoads
<1> QED
  BY <1>1, <1>3 DEF EditorLoadHolds, Ignored, Replaces

\* The loads that are made to be ignored, with one of them renewed or gone.
LEMMA OutdatedHold ==
    ASSUME EditorLoadsHold, changes' \in Nat, NEW l \in Loads, NEW r,
           r = None \/ EditorLoadHolds(r, typed', changes')
    PROVE  /\ waiting' = Outdated(waiting) => EditorLoadsHold'
           /\ waiting' = [Outdated(waiting) EXCEPT ![l] = r] => EditorLoadsHold'
           /\ waiting' = [k \in Loads |-> IF k = l THEN r ELSE Outdated(waiting)[k]] => EditorLoadsHold'
    BY IgnoredHolds DEF EditorLoadsHold, Outdated

\* A job whose board is replaced, or that is not the latest request any more.
LEMMA MovedHolds ==
    ASSUME EditorJobsHold, changes \in Nat, NEW t
    PROVE  /\ Moved(job) = None \/ EditorJobHolds(Moved(job), t, changes)
           /\ Older(job) = None \/ EditorJobHolds(Older(job), t, changes)
           /\ Older(Moved(job)) = None \/ EditorJobHolds(Older(Moved(job)), t, changes)
<1>1. Replaced \in Contexts /\ Replaced.same = FALSE /\ Replaced.content = {} /\ {} \in Made(changes)
  BY DEF Replaced, Contexts, Names, Made
<1>2. ASSUME NEW j, NEW s, EditorJobHolds(j, s, changes)
      PROVE  EditorJobHolds([j EXCEPT !.ctx = Replaced], t, changes)
             /\ EditorJobHolds([j EXCEPT !.ctx = Replaced, !.latest = FALSE], t, changes)
  BY <1>1, <1>2 DEF EditorJobHolds, EditorJobs, Replaces
<1>3. ASSUME NEW j, NEW s, j = None \/ EditorJobHolds(j, s, changes)
      PROVE  /\ Moved(j) = None \/ EditorJobHolds(Moved(j), t, changes)
             /\ Older(j) = None \/ EditorJobHolds(Older(j), t, changes)
  BY <1>2, <1>3 DEF Moved, Older
<1>4. Moved(job) = None \/ EditorJobHolds(Moved(job), t, changes)
  BY <1>3 DEF EditorJobsHold
<1>5. Older(job) = None \/ EditorJobHolds(Older(job), t, changes)
  BY <1>3 DEF EditorJobsHold
<1>6. Older(Moved(job)) = None \/ EditorJobHolds(Older(Moved(job)), t, changes)
  BY <1>3, <1>4
<1> QED
  BY <1>4, <1>5, <1>6

LEMMA ContextHolds == BoardHolds => captureBoardContext \in Contexts /\ captureBoardContext.content \in Made(changes)
    BY DEF BoardHolds, Boards, Contexts, captureBoardContext

\* A load that is sent once nothing is typed that it could drop.
LEMMA RequestHolds ==
    ASSUME BoardHolds, NEW kind \in {"all", "load"}, NEW n \in Documents,
           NEW ctx \in Contexts, ctx.content \in Made(changes)
    PROVE  /\ EditorLoadHolds([Request(kind, n) EXCEPT !.ctx = ctx], {}, changes)
           /\ EditorLoadHolds(Request(kind, n), {}, changes)
<1> DEFINE r == Request(kind, n)
<1>1. None \in (SUBSET Nat) \cup {None} /\ {} \in SUBSET Archives /\ n \in Names
  BY DEF Names
<1>2. r \in EditorLoads
  BY <1>1, ContextHolds DEF EditorLoads, Request
<1>3. r.ctx = captureBoardContext /\ r.got = None /\ r.name = n
  BY DEF Request
<1> HIDE DEF r
<1>4. EditorLoadHolds(r, {}, changes)
  BY <1>2, <1>3, ContextHolds DEF EditorLoadHolds, Replaces
<1>5. EditorLoadHolds([r EXCEPT !.ctx = ctx], {}, changes)
  BY <1>2, <1>3 DEF EditorLoadHolds, Replaces, EditorLoads
<1> QED
  BY <1>4, <1>5 DEF r

\* A job that is sent, with what is typed once it is.
LEMMA JobStarts ==
    ASSUME BoardHolds, NEW kind \in {"archive", "current", "delete"}, NEW n \in Documents,
           NEW content \in Made(changes), NEW expected \in (SUBSET Nat) \cup {None}, NEW opens \in BOOLEAN,
           NEW t, opens \/ (kind = "delete" /\ view.content = view.clean) => t = {},
           kind = "current" => content = view.content, kind = "delete" => n \in Archives
    PROVE  EditorJobHolds(Job(kind, n, content, expected, opens), t, changes)
<1> DEFINE j == Job(kind, n, content, expected, opens)
<1>1. content \in SUBSET Nat /\ Made(changes) \subseteq SUBSET Nat
  BY DEF BoardHolds, Made
<1>0. None \in (SUBSET Nat) \cup {None} /\ (kind = "delete" /\ hasUnsavedChanges) \in BOOLEAN
  OBVIOUS
<1>2. j \in EditorJobs
  BY <1>0, <1>1, ContextHolds DEF EditorJobs, Job
<1>3. /\ j.ctx = captureBoardContext /\ j.got = None /\ j.content = content /\ j.kind = kind /\ j.name = n
      /\ j.opens = opens /\ j.state = "sent"
  BY DEF Job
<1>4. captureBoardContext.content = view.content
  BY DEF captureBoardContext
<1>5. kind = "delete" /\ ~j.dirty => view.content = view.clean
  BY DEF Job, hasUnsavedChanges
<1> HIDE DEF j
<1>6. j.opens \/ (j.kind = "delete" /\ ~j.dirty) => Replaces(j, t)
  BY <1>3, <1>5 DEF Replaces
<1>7. EditorJobHolds(j, t, changes)
  BY <1>2, <1>3, <1>4, <1>6, ContextHolds DEF EditorJobHolds
<1> QED
  BY <1>7 DEF j

LEMMA LoadKeepsEditor ==
    ASSUME EditorInv, NEW l \in Loads,
           loadAll(l) \/ \E n \in Documents : loadDesignFromMenu(l, n)
    PROVE  EditorInv'
<1> USE DEF EditorInv
<1>1. PICK kind \in {"all", "load"}, n \in Documents :
         Send(l, kind, n) /\ UNCHANGED << documents, view, changes >>
  BY DEF loadAll, loadDesignFromMenu, Documents
<1>2. typed' = {} /\ changes' = changes /\ changes \in Nat
  BY <1>1 DEF Send, BoardHolds
<1>3. BoardHolds' /\ DocumentsHold'
  BY <1>1, <1>2 DEF BoardHolds, DocumentsHold
<1>4. EditorLoadHolds(Request(kind, n), {}, changes)
  BY ContextHolds, RequestHolds
<1> DEFINE r == Request(kind, n)
<1>5. waiting' = [k \in Loads |-> IF k = l THEN r ELSE Outdated(waiting)[k]]
  BY <1>1 DEF Send
<1> HIDE DEF r
<1>6. EditorLoadHolds(r, typed', changes')
  BY <1>2, <1>4 DEF r
<1>7. EditorLoadsHold'
  BY <1>2, <1>5, <1>6, OutdatedHold
<1>8. EditorJobsHold'
  <2>1. Older(job) = None \/ EditorJobHolds(Older(job), {}, changes)
    BY <1>2, MovedHolds
  <2> QED
    BY <1>1, <1>2, <2>1 DEF Send, EditorJobsHold
<1> QED
  BY <1>3, <1>7, <1>8

\* The answer of a load arrives, or is dropped.
LEMMA AnswerKeepsEditor ==
    ASSUME EditorInv, NEW l \in Loads, fetchCourseContext(l) \/ loadIgnored(l) \/ loadFails(l)
    PROVE  EditorInv'
<1> USE DEF EditorInv
<1>1. UNCHANGED << documents, view, job, changes, typed >>
  BY DEF fetchCourseContext, loadIgnored, loadFails
<1>2. PICK r : waiting' = [waiting EXCEPT ![l] = r] /\ (r = None \/ EditorLoadHolds(r, typed, changes))
  <2>1. CASE loadIgnored(l) \/ loadFails(l)
    BY <2>1 DEF loadIgnored, loadFails
  <2>2. CASE fetchCourseContext(l)
    <3> DEFINE r == [waiting[l] EXCEPT !.state = "answered", !.got = documents[waiting[l].name],
                               !.listed = IF waiting[l].kind = "all" THEN {n \in Archives : Exists(n)}
                                             ELSE {}]
    <3>1. waiting' = [waiting EXCEPT ![l] = r]
      BY <2>2 DEF fetchCourseContext, EditorLoadsHold
    <3>2. EditorLoadHolds(waiting[l], typed, changes) /\ documents[waiting[l].name] \in Made(changes) \cup {None}
      BY <2>2 DEF fetchCourseContext, EditorLoadsHold, EditorLoadHolds, DocumentsHold
    <3>3. PICK listed \in SUBSET Archives : r = [waiting[l] EXCEPT !.state = "answered", !.got = documents[waiting[l].name],
                               !.listed = listed]
      OBVIOUS
    <3>4. Made(changes) \subseteq SUBSET Nat
      BY DEF BoardHolds, Made
    <3>5. r \in EditorLoads /\ r.ctx = waiting[l].ctx /\ r.latest = waiting[l].latest /\ r.state = "answered"
          /\ r.got \in Made(changes) \cup {None}
      <4> HIDE DEF r
      <4>1. waiting[l] \in EditorLoads /\ documents[waiting[l].name] \in (SUBSET Nat) \cup {None}
        BY <3>2, <3>4 DEF EditorLoadHolds
      <4> QED
        BY <3>2, <3>3, <4>1 DEF EditorLoads
    <3> HIDE DEF r
    <3>6. EditorLoadHolds(r, typed, changes)
      BY <3>2, <3>5 DEF EditorLoadHolds, Replaces
    <3> QED
      BY <3>1, <3>6
  <2> QED
    BY <2>1, <2>2
<1> QED
  BY <1>1, <1>2 DEF BoardHolds, DocumentsHold, EditorLoadsHold, EditorJobsHold

\* The answer of a load replaces the board, on which nothing was typed in between.
LEMMA ShownKeepsEditor ==
    ASSUME EditorInv, NEW l \in Loads, loadShown(l)
    PROVE  EditorInv'
<1> USE DEF EditorInv
<1> DEFINE r == waiting[l]
<1>1. EditorLoadHolds(r, typed, changes) /\ r.got \in Made(changes) /\ changes \in Nat
      /\ UNCHANGED << documents, changes, typed >>
  BY DEF loadShown, EditorLoadsHold, EditorLoadHolds, BoardHolds
<1>2. typed = {}
  BY <1>1 DEF loadShown, isBoardContextUnchanged, isBoardContextCurrent, EditorLoadHolds, Replaces, BoardHolds
<1>3. Made(changes) \subseteq SUBSET Nat
  BY <1>1 DEF Made
<1>4. BoardHolds'
  BY <1>1, <1>2, <1>3 DEF loadShown, Shows, BoardHolds, Boards, EditorLoadHolds, EditorLoads
<1>5. DocumentsHold'
  BY <1>1 DEF DocumentsHold
<1>6. EditorJobsHold'
  <2>1. /\ Moved(job) = None \/ EditorJobHolds(Moved(job), typed, changes)
        /\ Older(Moved(job)) = None \/ EditorJobHolds(Older(Moved(job)), typed, changes)
    BY <1>1, MovedHolds
  <2> QED
    BY <1>1, <2>1 DEF loadShown, EditorJobsHold
<1>7. EditorLoadsHold'
  <2>1. CASE r.kind = "all" /\ remembered \in r.listed
    <3> DEFINE ctx == [name |-> r.name, content |-> r.got, same |-> TRUE]
               new == [Request("load", remembered) EXCEPT !.ctx = ctx]
    <3>1. ctx \in Contexts /\ ctx.content \in Made(changes) /\ remembered \in Documents
      BY <1>1, <1>3, <2>1 DEF EditorLoadHolds, EditorLoads, Contexts, Documents
    <3> HIDE DEF ctx
    <3>2. EditorLoadHolds(new, {}, changes)
      BY <3>1, RequestHolds
    <3>3. waiting' = [k \in Loads |-> IF k = l THEN new ELSE Outdated(waiting)[k]]
      BY <2>1 DEF loadShown, ctx
    <3> HIDE DEF new
    <3> QED
      BY <1>1, <1>2, <3>2, <3>3, OutdatedHold
  <2>2. CASE ~(r.kind = "all" /\ remembered \in r.listed)
    BY <1>1, <2>2, OutdatedHold DEF loadShown
  <2> QED
    BY <2>1, <2>2
<1> QED
  BY <1>4, <1>5, <1>6, <1>7

LEMMA StartKeepsEditor ==
    ASSUME EditorInv,
           \/ saveArchiveDesign \/ saveCurrentProject \/ persistDesignAsCurrent
           \/ \E n \in Archives : saveArchiveDesignAs(n) \/ newCourseDesign(n)
           \/ deleteArchiveDesign
    PROVE  EditorInv'
<1> USE DEF EditorInv
<1>1. UNCHANGED << documents, view, changes >> /\ changes \in Nat /\ waiting' \in {waiting, Outdated(waiting)}
      /\ typed' \subseteq typed
  BY DEF saveArchiveDesign, saveCurrentProject, persistDesignAsCurrent, saveArchiveDesignAs, newCourseDesign,
     deleteArchiveDesign, BoardHolds
<1>2. BoardHolds' /\ DocumentsHold'
  BY <1>1 DEF BoardHolds, DocumentsHold
<1>3. \A r : EditorLoadHolds(r, typed, changes) => EditorLoadHolds(r, typed', changes')
  BY <1>1, LaterHolds
<1>4. EditorLoadsHold'
  BY <1>1, <1>3, IgnoredHolds DEF EditorLoadsHold, Outdated
<1>5. EditorJobsHold'
  <2>0. /\ view.content \in Made(changes) /\ {} \in Made(changes) /\ view.rev \in SUBSET Nat /\ view.cur \in SUBSET Nat
        /\ Archives \subseteq Documents /\ Course \in Documents
    BY DEF BoardHolds, Boards, Made, Documents
  <2>1. CASE saveArchiveDesign
    BY <1>1, <2>0, <2>1, JobStarts DEF saveArchiveDesign, EditorJobsHold
  <2>2. CASE saveCurrentProject \/ persistDesignAsCurrent
    BY <1>1, <2>0, <2>2, JobStarts DEF saveCurrentProject, persistDesignAsCurrent, EditorJobsHold
  <2>3. ASSUME NEW n \in Archives, saveArchiveDesignAs(n) PROVE EditorJobsHold'
    BY <1>1, <2>0, <2>3, JobStarts DEF saveArchiveDesignAs, EditorJobsHold
  <2>4. ASSUME NEW n \in Archives, newCourseDesign(n) PROVE EditorJobsHold'
    BY <1>1, <2>0, <2>4, JobStarts DEF newCourseDesign, EditorJobsHold
  <2>5. CASE deleteArchiveDesign
    <3>1. view.content = view.clean => typed' = {}
      BY <2>5 DEF deleteArchiveDesign, BoardHolds
    <3> QED
      BY <1>1, <2>0, <2>5, <3>1, JobStarts DEF deleteArchiveDesign, EditorJobsHold
  <2> QED
    BY <2>1, <2>2, <2>3, <2>4, <2>5
<1> QED
  BY <1>2, <1>4, <1>5

\* A job that goes on, or ends, with the board as it is.
LEMMA JobKeepsEditor ==
    ASSUME EditorInv,
           \/ write_design \/ refused \/ answerLost \/ replaceExisting
           \/ delete_design \/ deleteFetchesCourse
    PROVE  EditorInv'
<1> USE DEF EditorInv
<1>1. UNCHANGED << view, waiting, changes, typed >> /\ changes \in Nat /\ job # None
      /\ EditorJobHolds(job, typed, changes) /\ Made(changes) \subseteq SUBSET Nat
  BY DEF write_design, refused, answerLost, replaceExisting, delete_design, deleteFetchesCourse, BoardHolds,
     EditorJobsHold, Made
<1>2. BoardHolds' /\ EditorLoadsHold'
  BY <1>1 DEF BoardHolds, EditorLoadsHold
<1>3. DocumentsHold'
  <2>1. CASE UNCHANGED documents
    BY <1>1, <2>1 DEF DocumentsHold
  <2>2. CASE write_design
    BY <1>1, <2>2 DEF write_design, DocumentsHold, EditorJobHolds, EditorJobs
  <2>3. CASE delete_design
    BY <1>1, <2>3, CourseIsNoArchive DEF delete_design, DocumentsHold, EditorJobHolds, EditorJobs
  <2> QED
    BY <2>1, <2>2, <2>3 DEF refused, answerLost, replaceExisting, deleteFetchesCourse
<1>4. EditorJobsHold'
  <2>1. ASSUME NEW state \in {"answered", "refused", "asking", "sent", "deleted"},
               NEW expected \in (SUBSET Nat) \cup {None},
               state = "deleted" => job.kind = "delete"
        PROVE  /\ EditorJobHolds([job EXCEPT !.state = state], typed, changes)
               /\ EditorJobHolds([job EXCEPT !.state = state, !.expected = expected], typed, changes)
    <3> DEFINE j == [job EXCEPT !.state = state]
               k == [job EXCEPT !.state = state, !.expected = expected]
    <3>1. job \in EditorJobs
      BY <1>1 DEF EditorJobHolds
    <3>2. /\ j \in EditorJobs /\ j.state = state /\ j.kind = job.kind /\ j.name = job.name /\ j.ctx = job.ctx
          /\ j.latest = job.latest /\ j.got = job.got /\ j.content = job.content /\ j.opens = job.opens
          /\ j.dirty = job.dirty
      BY <2>1, <3>1 DEF EditorJobs
    <3>3. /\ k \in EditorJobs /\ k.state = state /\ k.kind = job.kind /\ k.name = job.name /\ k.ctx = job.ctx
          /\ k.latest = job.latest /\ k.got = job.got /\ k.content = job.content /\ k.opens = job.opens
          /\ k.dirty = job.dirty
      BY <2>1, <3>1 DEF EditorJobs
    <3> HIDE DEF j, k
    <3>4. EditorJobHolds(j, typed, changes)
      BY <1>1, <2>1, <3>2 DEF EditorJobHolds, Replaces
    <3>5. EditorJobHolds(k, typed, changes)
      BY <1>1, <2>1, <3>3 DEF EditorJobHolds, Replaces
    <3> QED
      BY <3>4, <3>5 DEF j, k
  <2>2. CASE write_design \/ refused \/ answerLost \/ delete_design
    BY <1>1, <2>1, <2>2 DEF write_design, refused, answerLost, delete_design, EditorJobsHold
  <2>3. CASE replaceExisting
    <3>1. view.rev \in SUBSET Nat
      BY DEF BoardHolds, Boards
    <3>2. Exists(job.name) => documents[job.name] \in SUBSET Nat
      BY <1>1 DEF DocumentsHold, EditorJobHolds, EditorJobs, Exists
    <3> QED
      BY <1>1, <2>1, <2>3, <3>1, <3>2 DEF replaceExisting, EditorJobsHold
  <2>4. CASE deleteFetchesCourse
    <3>1. documents[Course] \in Made(changes) /\ job.kind = "delete"
      BY <1>1, <2>4 DEF deleteFetchesCourse, DocumentsHold, EditorJobHolds
    <3> QED
      BY <1>1, <2>4, <3>1 DEF deleteFetchesCourse, EditorJobHolds, EditorJobs, EditorJobsHold, Replaces
  <2> QED
    BY <2>2, <2>3, <2>4
<1> QED
  BY <1>2, <1>3, <1>4

\* A save or a deletion that ends: what it puts on the board holds all that was typed.
LEMMA EndKeepsEditor ==
    ASSUME EditorInv,
           \/ persistArchiveDesignWithName \/ persistCurrentProject
           \/ reconcileStaleArchiveDelete \/ reconcileDeletedArchive \/ deleteArchiveDesignOnce
    PROVE  EditorInv'
<1> USE DEF EditorInv
<1>1. /\ UNCHANGED << documents, changes, typed >> /\ changes \in Nat /\ job' = None /\ job # None
      /\ waiting' \in {waiting, Outdated(waiting)}
      /\ EditorJobHolds(job, typed, changes) /\ Made(changes) \subseteq SUBSET Nat
  BY DEF persistArchiveDesignWithName, persistCurrentProject, reconcileStaleArchiveDelete,
     reconcileDeletedArchive, deleteArchiveDesignOnce, BoardHolds, EditorJobsHold, Made
<1>2. DocumentsHold' /\ EditorJobsHold'
  BY <1>1 DEF DocumentsHold, EditorJobsHold
<1>3. EditorLoadsHold'
  BY <1>1, IgnoredHolds DEF EditorLoadsHold, Outdated
<1>4. BoardHolds'
  <2>0. job.content \in SUBSET Nat /\ job.name \in Names /\ Course \in Names /\ NoName \in Names
    BY <1>1 DEF EditorJobHolds, EditorJobs, Names, Documents
  <2>1. CASE persistArchiveDesignWithName
    <3>1. CASE view' = [view EXCEPT !.rev = job.content, !.clean = job.content, !.name = job.name,
                                    !.content = IF job.opens THEN job.content ELSE @]
               /\ job.latest
               /\ (IF job.opens THEN isBoardContextUnchanged(job.ctx) ELSE isBoardContextCurrent(job.ctx))
      <4>1. job.opens => typed = {}
        BY <1>1, <3>1 DEF isBoardContextUnchanged, isBoardContextCurrent, EditorJobHolds, Replaces, BoardHolds
      <4> QED
        BY <1>1, <2>0, <3>1, <4>1 DEF BoardHolds, Boards, EditorJobHolds
    <3>2. CASE view' = [view EXCEPT !.rev = job.content]
      BY <1>1, <2>0, <3>2 DEF BoardHolds, Boards
    <3>3. CASE view' = view
      BY <1>1, <3>3 DEF BoardHolds
    <3> QED
      BY <2>1, <3>1, <3>2, <3>3 DEF persistArchiveDesignWithName
  <2>2. CASE persistCurrentProject
    <3>1. CASE isBoardContextUnchanged(job.ctx) /\ Shows(Course, job.content)
      <4>1. job.kind = "current" /\ job.content = view.content
        BY <1>1, <2>2, <3>1 DEF persistCurrentProject, isBoardContextUnchanged, isBoardContextCurrent, EditorJobHolds
      <4> QED
        BY <1>1, <2>0, <3>1, <4>1 DEF Shows, BoardHolds, Boards
    <3>2. CASE view' = [view EXCEPT !.cur = job.content]
      BY <1>1, <2>0, <3>2 DEF BoardHolds, Boards
    <3> QED
      BY <2>2, <3>1, <3>2 DEF persistCurrentProject
  <2>3. CASE reconcileStaleArchiveDelete \/ reconcileDeletedArchive
    BY <1>1, <2>0, <2>3 DEF reconcileStaleArchiveDelete, reconcileDeletedArchive, Detached, BoardHolds, Boards
  <2>4. CASE deleteArchiveDesignOnce
    <3>1. typed = {} /\ job.got \in Made(changes)
      BY <1>1, <2>4 DEF deleteArchiveDesignOnce, isBoardContextUnchanged, isBoardContextCurrent, EditorJobHolds,
         Replaces, BoardHolds
    <3> QED
      BY <1>1, <2>0, <2>4, <3>1 DEF deleteArchiveDesignOnce, Shows, BoardHolds, Boards
  <2> QED
    BY <2>1, <2>2, <2>3, <2>4
<1> QED
  BY <1>2, <1>3, <1>4

LEMMA DialogKeepsEditor ==
    ASSUME EditorInv,
           \/ openSourceDialog \/ previewSourceEditor \/ openCourseAiDialog
           \/ closeDialog \/ generateCourseAiProposal \/ applySourceEditor \/ applyCourseAiProposal
    PROVE  EditorInv'
<1> USE DEF EditorInv
<1>1. /\ UNCHANGED << documents, typed >> /\ changes \in Nat /\ changes' \in {changes, changes + 1}
      /\ \/ changes' = changes /\ view' = view
         \/ changes' = changes + 1 /\ view' = [view EXCEPT !.content = @ \cup {changes'}]
  BY DEF openSourceDialog, previewSourceEditor, openCourseAiDialog, closeDialog, generateCourseAiProposal,
     applySourceEditor, applyCourseAiProposal, BoardHolds
<1>2. BoardHolds'
  <2>1. CASE changes' = changes /\ view' = view
    BY <1>1, <2>1 DEF BoardHolds
  <2>2. CASE changes' = changes + 1 /\ view' = [view EXCEPT !.content = @ \cup {changes'}]
    <3>1. view.content \cup {changes'} \in Made(changes') /\ view.content \cup {changes'} \in SUBSET Nat
      BY <1>1, <2>2 DEF BoardHolds, Made
    <3> QED
      BY <1>1, <2>2, <3>1 DEF BoardHolds, Boards
  <2> QED
    BY <1>1, <2>1, <2>2
<1>3. DocumentsHold'
  BY <1>1, RequestsStay
<1>4. EditorLoadsHold'
  <2>1. CASE waiting' = waiting
    BY <1>1, <2>1, RequestsStay
  <2>2. CASE waiting' = Outdated(waiting)
    BY <1>1, <2>2, IgnoredHolds DEF EditorLoadsHold, Outdated
  <2> QED
    BY <2>1, <2>2 DEF openSourceDialog, previewSourceEditor, openCourseAiDialog, closeDialog,
       generateCourseAiProposal, applySourceEditor, applyCourseAiProposal
<1>5. EditorJobsHold'
  <2>1. CASE job' = job
    BY <1>1, <2>1, RequestsStay
  <2>2. CASE job' = Moved(job)
    <3>1. Moved(job) = None \/ EditorJobHolds(Moved(job), typed, changes)
      BY <1>1, MovedHolds
    <3>2. \A j : EditorJobHolds(j, typed, changes) => EditorJobHolds(j, typed', changes')
      BY <1>1, LaterHolds
    <3> QED
      BY <2>2, <3>1, <3>2 DEF EditorJobsHold
  <2> QED
    BY <2>1, <2>2 DEF openSourceDialog, previewSourceEditor, openCourseAiDialog, closeDialog,
       generateCourseAiProposal, applySourceEditor, applyCourseAiProposal
<1> QED
  BY <1>2, <1>3, <1>4, <1>5

LEMMA EditKeepsEditor ==
    ASSUME EditorInv, edit \/ \E n \in Documents : other_editor(n)
    PROVE  EditorInv'
<1> USE DEF EditorInv
<1>1. changes \in Nat /\ changes' = changes + 1 /\ UNCHANGED << waiting, job >>
      /\ typed' \subseteq typed \cup {changes'} /\ {changes'} = changes + 1 .. changes'
  BY DEF edit, other_editor, BoardHolds
<1>2. EditorLoadsHold' /\ EditorJobsHold'
  BY <1>1, RequestsStay
<1>3. CASE edit
  <2>1. view.content \cup {changes'} \in Made(changes') /\ view.content \cup {changes'} \in SUBSET Nat
    BY <1>1 DEF BoardHolds, Made
  <2>2. BoardHolds'
    BY <1>1, <1>3, <2>1 DEF edit, BoardHolds, Boards
  <2> QED
    BY <1>1, <1>2, <1>3, <2>2, RequestsStay DEF edit
<1>4. ASSUME NEW n \in Documents, other_editor(n) PROVE EditorInv'
  <2>1. Made(changes) \subseteq Made(changes') /\ changes' \in Nat
    BY <1>1 DEF Made
  <2>2. BoardHolds'
    BY <1>1, <1>4, <2>1 DEF other_editor, BoardHolds
  <2>3. documents[n] \cup {changes'} \in Made(changes')
    BY <1>1, <1>4, <2>1 DEF other_editor, Exists, DocumentsHold, Made
  <2>4. DocumentsHold'
    BY <1>4, <2>1, <2>3 DEF other_editor, DocumentsHold
  <2> QED
    BY <1>2, <2>2, <2>4
<1> QED
  BY <1>3, <1>4

\* What the teacher types after agreeing to leave a design stays on the board, whichever
\* answer of an earlier load, save, deletion or dialog arrives next.
THEOREM TypedIsKeptAlways == CourseEditorSpec => []TypedIsKept
<1>1. CourseEditorInit => EditorInv
  <2> SUFFICES ASSUME CourseEditorInit PROVE EditorInv
    OBVIOUS
  <2>1. {} \in Made(0) /\ Course \in Documents /\ Course \in Names
    BY DEF Made, Documents, Names
  <2> QED
    BY <2>1 DEF CourseEditorInit, EditorInv, BoardHolds, Boards, DocumentsHold, EditorLoadsHold, EditorJobsHold
<1>2. EditorInv /\ [CourseEditorNext]_courseEditorVars => EditorInv'
  <2> SUFFICES ASSUME EditorInv, [CourseEditorNext]_courseEditorVars PROVE EditorInv'
    OBVIOUS
  <2>1. CASE UNCHANGED courseEditorVars
    BY <2>1 DEF courseEditorVars, courseEditorState, EditorInv, BoardHolds, DocumentsHold, EditorLoadsHold, EditorJobsHold
  <2>2. CASE CourseEditorNext
    BY <2>2, EditKeepsEditor, LoadKeepsEditor, AnswerKeepsEditor, ShownKeepsEditor, StartKeepsEditor,
       JobKeepsEditor, EndKeepsEditor, DialogKeepsEditor DEF CourseEditorNext
  <2> QED
    BY <2>1, <2>2
<1>3. EditorInv => TypedIsKept
  BY DEF EditorInv, BoardHolds, TypedIsKept
<1> QED
  BY <1>1, <1>2, <1>3, PTL DEF CourseEditorSpec

-----------------------------------------------------------------------------
(***************************************************************************)
(* The commands on the pilot's data root (PilotRoot)                        *)
(***************************************************************************)

Trees == [marker : BOOLEAN, db : Nat, files : Nat, schema : {11, 12}]
Historical == {t \in Trees : t.marker = FALSE /\ t.schema = 11}
CommandType ==
    [pc : {"idle", "mkdir", "fill", "rmtree", "serving", "copy db", "copy files", "publish",
           "restore db", "restore files", "restored", "i1", "i2", "c1", "c2", "v1", "v2", "migrate"},
     existed : BOOLEAN, tree : Trees, seen : Trees]

\* The commands that run under the root's lock.
Locked == {"fill", "serving", "copy db", "copy files", "publish"}

\* A root with its marker is whole, and one that the root was seen in.
RootHolds ==
    /\ root \in Trees \cup {None}
    /\ root # None /\ root.marker => root \in past /\ root.db # 0 /\ root.files # 0

\* A copy under the lock has the root it began with, unless that root is gone; a
\* restore has its backup.
CopyHolds(c) ==
    /\ c.pc = "fill" /\ root # None /\ root.db # 0 => root.files # 0
    /\ c.pc = "copy db" => Gone \/ root \in past
    /\ c.pc = "copy files" => Gone \/ (root \in past /\ c.tree = [root EXCEPT !.files = 0])
    /\ c.pc = "publish" => c.tree \in past
    /\ c.pc \in {"restore db", "restore files", "restored"} => backup # None
    /\ c.pc = "restored" => c.tree = backup

\* What a rehearsal saw is a state of the source, or the source's database has moved on.
RehearsalHolds(c) ==
    /\ c.pc = "i2" => c.seen \in Historical /\ c.seen.db <= source.db
    /\ c.pc \in {"c1", "c2", "v1"} => c.seen \in sourcePast \/ c.seen.db < source.db
    /\ c.pc \in {"v2", "migrate"} => c.tree \in sourcePast

CommandHolds(p) ==
    /\ command[p] \in CommandType
    /\ command[p].pc \in Locked => rootLock = p
    /\ CopyHolds(command[p]) /\ RehearsalHolds(command[p])

SourceHolds ==
    /\ writes \in Nat
    /\ source \in Historical /\ source \in sourcePast
    /\ source.db <= writes /\ source.files <= writes
    /\ sourcePast \subseteq Historical

PublishedHolds ==
    /\ backup # None => backup \in Trees /\ backup \in past
    /\ restored # None => restored = backup
    /\ bundle # None =>
          bundle.preupgrade \in sourcePast /\ bundle.candidate = [bundle.preupgrade EXCEPT !.schema = 12]
    /\ adopted # None => [adopted EXCEPT !.marker = FALSE, !.schema = 11] \in sourcePast

PilotInv ==
    /\ command \in [Commands -> CommandType]
    /\ RootHolds /\ SourceHolds /\ PublishedHolds
    /\ \A p \in Commands : CommandHolds(p)

\* What another command does leaves a command as it was: it may take the root away,
\* or begin a new one, but changes none that is locked.
LEMMA OtherCommand ==
    ASSUME PilotInv, NEW p \in Commands, command'[p] = command[p],
           past \subseteq past', sourcePast \subseteq sourcePast', backup # None => backup' = backup,
           source' \in Historical, source.db <= source'.db, rootLock = p => rootLock' = p,
           root' = root \/ root' = None \/ root' = Empty \/ rootLock # p
    PROVE  CommandHolds(p)'
<1> DEFINE c == command[p]
<1>1. CommandHolds(p) /\ source.db \in Nat /\ source'.db \in Nat /\ c.seen.db \in Nat
  BY DEF PilotInv, SourceHolds, CommandHolds, CommandType, Historical, Trees
<1>2. RehearsalHolds(c)'
  BY <1>1 DEF CommandHolds, RehearsalHolds
<1>3. CopyHolds(c)'
  <2>1. CASE root' = root
    BY <1>1, <2>1 DEF CommandHolds, CopyHolds, Gone
  <2>2. CASE root' = None \/ root' = Empty
    <3>1. Gone' /\ ~(root' # None /\ root'.db # 0)
      BY <2>2 DEF Gone, Empty
    <3> QED
      BY <1>1, <3>1 DEF CommandHolds, CopyHolds
  <2>3. CASE rootLock # p
    BY <1>1, <2>3 DEF CommandHolds, CopyHolds, Locked
  <2> QED
    BY <2>1, <2>2, <2>3
<1> QED
  BY <1>1, <1>2, <1>3 DEF CommandHolds

\* A command that is over, or that has not begun anything, holds.
LEMMA OverHolds ==
    ASSUME NEW p \in Commands, NEW pc \in {"idle", "mkdir", "rmtree", "i1"},
           command[p] \in CommandType,
           command'[p] \in CommandType, command'[p].pc = pc
    PROVE  CommandHolds(p)'
  BY DEF CommandHolds, CopyHolds, RehearsalHolds, Locked

LEMMA NoCommandType == NoCommand \in CommandType /\ Empty \in Trees
<1>1. Empty \in Trees
  BY DEF Empty, Trees
<1> QED
  BY <1>1 DEF NoCommand, CommandType

\* What every step on the root by one command comes down to.
LEMMA CommandStep ==
    ASSUME PilotInv, NEW p \in Commands, NEW c,
           command' = [command EXCEPT ![p] = c],
           CommandHolds(p)', RootHolds', PublishedHolds', SourceHolds',
           past \subseteq past', sourcePast \subseteq sourcePast', backup # None => backup' = backup,
           source' = source,
           \A q \in Commands \ {p} :
              /\ rootLock = q => rootLock' = q
              /\ root' = root \/ root' = None \/ root' = Empty \/ rootLock # q
    PROVE  PilotInv'
<1>1. source' \in Historical /\ source.db <= source'.db
  <2>1. source \in Historical
    BY DEF PilotInv, SourceHolds
  <2>2. source.db \in Nat
    BY <2>1 DEF Historical, Trees
  <2> QED
    BY <2>1, <2>2
<1>2. \A q \in Commands : CommandHolds(q)'
  <2>1. SUFFICES ASSUME NEW q \in Commands \ {p} PROVE CommandHolds(q)'
    OBVIOUS
  <2>2. command'[q] = command[q]
    BY DEF PilotInv
  <2> QED
    BY <1>1, <2>2, OtherCommand
<1>3. command' \in [Commands -> CommandType]
  <2>1. command'[p] = c /\ c \in CommandType
    BY DEF PilotInv, CommandHolds
  <2> QED
    BY <2>1 DEF PilotInv
<1> QED
  BY <1>2, <1>3 DEF PilotInv

LEMMA BootstrapSteps ==
    ASSUME PilotInv, NEW p \in Commands, bootstrap(p) \/ rmtree(p) \/ fill_fails(p) \/ server_stops(p)
                                         \/ kill_command(p)
    PROVE  PilotInv'
<1>1. /\ command[p] \in CommandType
      /\ UNCHANGED << backup, restored, source, bundle, adopted, past, sourcePast, writes >>
      /\ root' \in {root, None}
      /\ \A q \in Commands \ {p} : rootLock = q => rootLock' = q
  BY PilotAssumption DEF PilotInv, CommandHolds, bootstrap, rmtree, fill_fails, server_stops, kill_command, ReleasesRoot
<1>2. RootHolds' /\ PublishedHolds' /\ SourceHolds'
  BY <1>1 DEF PilotInv, RootHolds, PublishedHolds, SourceHolds
<1>3. PICK c \in CommandType :
         command' = [command EXCEPT ![p] = c] /\ c.pc \in {"idle", "mkdir", "rmtree"}
  <2>1. CASE bootstrap(p)
    <3> DEFINE c == [NoCommand EXCEPT !.pc = "mkdir", !.existed = (root # None)]
    <3>1. c \in CommandType /\ c.pc = "mkdir"
      BY NoCommandType DEF CommandType, NoCommand
    <3> QED
      BY <2>1, <3>1 DEF bootstrap
  <2>2. CASE fill_fails(p)
    <3>1. [command[p] EXCEPT !.pc = "rmtree"] \in CommandType
      BY <1>1 DEF CommandType
    <3> QED
      BY <2>2, <3>1, <1>1 DEF fill_fails, Next1, CommandType
  <2>3. CASE rmtree(p) \/ server_stops(p) \/ kill_command(p)
    BY <2>3, NoCommandType DEF rmtree, server_stops, kill_command, Over, NoCommand
  <2> QED
    BY <2>1, <2>2, <2>3
<1>4. command'[p] = c
  BY <1>3 DEF PilotInv
<1>5. CommandHolds(p)'
  BY <1>1, <1>3, <1>4, OverHolds
<1> QED
  BY <1>1, <1>2, <1>3, <1>5, CommandStep

LEMMA TakeKeepsPilot ==
    ASSUME PilotInv, NEW p \in Commands, take_root(p)
    PROVE  PilotInv'
<1> DEFINE found == IF root = None THEN Empty ELSE root
           c == command'[p]
<1>1. /\ CommandHolds(p) /\ RootHolds /\ PublishedHolds /\ SourceHolds /\ command \in [Commands -> CommandType]
      /\ root' = found
      /\ UNCHANGED << backup, restored, source, bundle, adopted, past, sourcePast, writes >>
  BY DEF PilotInv, take_root
<1>2. RootHolds' /\ PublishedHolds' /\ SourceHolds'
  BY <1>1, NoCommandType DEF RootHolds, PublishedHolds, SourceHolds, Empty
<1>3. \/ rootLock' = rootLock /\ c \in CommandType /\ c.pc \in {"idle", "rmtree"}
      \/ rootLock = None /\ rootLock' = p /\ found = Empty /\ c \in CommandType /\ c.pc = "fill"
  <2>1. \A pc \in {"idle", "rmtree", "fill"} : [command[p] EXCEPT !.pc = pc] \in CommandType
    BY <1>1 DEF CommandHolds, CommandType
  <2>2. [command[p] EXCEPT !.pc = "fill", !.existed = FALSE] \in CommandType
    BY <1>1 DEF CommandHolds, CommandType
  <2>3. /\ \A pc \in {"idle", "rmtree", "fill"} : [command EXCEPT ![p].pc = pc][p] = [command[p] EXCEPT !.pc = pc]
        /\ [command EXCEPT ![p].pc = "fill", ![p].existed = FALSE][p]
              = [command[p] EXCEPT !.pc = "fill", !.existed = FALSE]
    BY <1>1 DEF CommandType
  <2>4. CASE rootLock # None
    BY <1>1, <2>1, <2>3, <2>4 DEF take_root, Next1, CommandType
  <2>5. CASE rootLock = None /\ found = Empty
    BY <1>1, <2>2, <2>3, <2>5 DEF take_root, CommandType
  <2>6. CASE rootLock = None /\ found # Empty
    BY <1>1, <2>1, <2>3, <2>6 DEF take_root, Next1, CommandType
  <2> QED
    BY <2>4, <2>5, <2>6
<1>4. CommandHolds(p)'
  <2>1. CASE c.pc # "fill"
    BY <1>1, <1>3, <2>1, OverHolds DEF CommandHolds
  <2>2. CASE c.pc = "fill"
    <3>1. root' = Empty /\ Empty.db = 0
      BY <1>1, <1>3, <2>2 DEF Empty
    <3> QED
      BY <1>3, <2>2, <3>1 DEF CommandHolds, CopyHolds, RehearsalHolds
  <2> QED
    BY <2>1, <2>2
<1>5. command' = [command EXCEPT ![p] = c]
  BY <1>1 DEF take_root, Next1
<1>6. \A q \in Commands \ {p} :
         /\ rootLock = q => rootLock' = q
         /\ root' = root \/ root' = None \/ root' = Empty \/ rootLock # q
  BY <1>1, <1>3, PilotAssumption
<1> QED
  BY <1>1, <1>2, <1>4, <1>5, <1>6, CommandStep

LEMMA FillKeepsPilot ==
    ASSUME PilotInv, NEW p \in Commands, fill_root(p)
    PROVE  PilotInv'
<1>1. /\ CommandHolds(p) /\ RootHolds /\ PublishedHolds /\ SourceHolds /\ command \in [Commands -> CommandType]
      /\ command[p].pc = "fill" /\ rootLock = p /\ root \in Trees /\ root # None
      /\ (root.db # 0 => root.files # 0) /\ past \subseteq past'
      /\ UNCHANGED << backup, restored, source, bundle, adopted, sourcePast, writes >>
  BY DEF PilotInv, fill_root, In, CommandHolds, CopyHolds, RootHolds, Locked
<1>2. /\ RootHolds'
      /\ root' # None /\ root'.db # 0 => root'.files # 0
  <2>1. CASE root.files = 0 /\ root' = [root EXCEPT !.files = 1] /\ past' = past
    <3>1. root' \in Trees /\ ~root'.marker /\ root'.files # 0
      BY <1>1, <2>1 DEF Trees, RootHolds
    <3> QED
      BY <3>1 DEF RootHolds
  <2>2. CASE root.files # 0 /\ root.db = 0 /\ root' = [root EXCEPT !.db = 1] /\ past' = past
    <3>1. root' \in Trees /\ ~root'.marker /\ root'.files # 0
      BY <1>1, <2>2 DEF Trees, RootHolds
    <3> QED
      BY <3>1 DEF RootHolds
  <2>3. CASE root.db # 0 /\ root' = [root EXCEPT !.marker = TRUE] /\ past' = past \cup {root'}
    <3>1. root' \in Trees /\ root'.db # 0 /\ root'.files # 0 /\ root' \in past'
      BY <1>1, <2>3 DEF Trees
    <3> QED
      BY <3>1 DEF RootHolds
  <2>4. CASE UNCHANGED << root, past >>
    BY <1>1, <2>4 DEF RootHolds
  <2> QED
    BY <2>1, <2>2, <2>3, <2>4 DEF fill_root
<1>3. PublishedHolds' /\ SourceHolds'
  BY <1>1 DEF PublishedHolds, SourceHolds
<1>4. \/ UNCHANGED << rootLock, command >>
      \/ /\ command' = [command EXCEPT ![p] = NoCommand] /\ rootLock' = None
         /\ UNCHANGED root
  BY <1>1 DEF fill_root, Over, ReleasesRoot
<1>5. CommandHolds(p)' /\ command' = [command EXCEPT ![p] = command'[p]]
  <2>1. CASE UNCHANGED << rootLock, command >>
    BY <1>1, <1>2, <2>1 DEF CommandHolds, CopyHolds, RehearsalHolds
  <2>2. CASE command' = [command EXCEPT ![p] = NoCommand]
    BY <1>1, <2>2, OverHolds, NoCommandType DEF CommandHolds, NoCommand
  <2> QED
    BY <1>4, <2>1, <2>2
<1>6. \A q \in Commands \ {p} : rootLock # q
  BY <1>1
<1> QED
  BY <1>1, <1>2, <1>3, <1>5, <1>6, CommandStep

LEMMA ServerSteps ==
    ASSUME PilotInv, NEW p \in Commands,
           serve(p) \/ \E part \in {"db", "files"} : server_writes(p, part)
    PROVE  PilotInv'
<1>1. /\ CommandHolds(p) /\ RootHolds /\ PublishedHolds /\ SourceHolds /\ command \in [Commands -> CommandType]
      /\ past \subseteq past'
      /\ UNCHANGED << backup, restored, source, bundle, adopted, sourcePast >>
  BY DEF PilotInv, serve, server_writes
<1>2. PublishedHolds'
  BY <1>1 DEF PublishedHolds
<1>3. CASE serve(p)
  <2>1. [command[p] EXCEPT !.pc = "serving"] \in CommandType
    BY <1>1 DEF CommandHolds, CommandType
  <2>2. /\ command' = [command EXCEPT ![p] = [command[p] EXCEPT !.pc = "serving"]]
        /\ command'[p] \in CommandType /\ command'[p].pc = "serving"
    BY <1>1, <1>3, <2>1 DEF serve, Next1, CommandType
  <2>3. rootLock = None /\ rootLock' = p /\ UNCHANGED << root, past, writes >>
    BY <1>3 DEF serve
  <2>4. CommandHolds(p)'
    BY <2>2, <2>3 DEF CommandHolds, CopyHolds, RehearsalHolds
  <2>5. RootHolds' /\ SourceHolds'
    BY <1>1, <2>3 DEF RootHolds, SourceHolds
  <2> QED
    BY <1>1, <1>2, <2>2, <2>3, <2>4, <2>5, CommandStep, PilotAssumption
<1>4. ASSUME NEW part \in {"db", "files"}, server_writes(p, part) PROVE PilotInv'
  <2>1. /\ command[p].pc = "serving" /\ rootLock = p /\ root # None /\ root \in Trees
        /\ UNCHANGED << rootLock, command >> /\ writes \in Nat /\ writes' = writes + 1
        /\ root' = [root EXCEPT ![part] = writes + 1] /\ past' = past \cup {root'}
    BY <1>1, <1>4 DEF server_writes, In, CommandHolds, Locked, RootHolds, SourceHolds
  <2>2. /\ root' \in Trees /\ root'.marker = root.marker
        /\ root'.db = (IF part = "db" THEN writes + 1 ELSE root.db)
        /\ root'.files = (IF part = "files" THEN writes + 1 ELSE root.files)
    BY <2>1 DEF Trees
  <2>3. RootHolds'
    BY <1>1, <2>1, <2>2 DEF RootHolds
  <2>4. SourceHolds'
    <3>1. source \in Historical /\ source.db <= writes /\ source.files <= writes
      BY <1>1 DEF SourceHolds
    <3>2. source.db \in Nat /\ source.files \in Nat
      BY <3>1 DEF Historical, Trees
    <3>3. source.db <= writes + 1 /\ source.files <= writes + 1
      BY <2>1, <3>1, <3>2
    <3> QED
      BY <1>1, <2>1, <3>3 DEF SourceHolds
  <2>5. CommandHolds(p)'
    BY <1>1, <2>1 DEF CommandHolds, CopyHolds, RehearsalHolds
  <2>6. command' = [command EXCEPT ![p] = command[p]]
    BY <1>1, <2>1
  <2> QED
    BY <1>1, <1>2, <2>1, <2>3, <2>4, <2>5, <2>6, CommandStep
<1> QED
  BY <1>3, <1>4

LEMMA BackupSteps ==
    ASSUME PilotInv, NEW p \in Commands, create_backup(p) \/ copy_payload(p) \/ publish_backup(p)
    PROVE  PilotInv'
<1>1. /\ CommandHolds(p) /\ RootHolds /\ PublishedHolds /\ SourceHolds /\ command \in [Commands -> CommandType]
      /\ UNCHANGED << root, restored, source, bundle, adopted, past, sourcePast, writes >>
      /\ command[p] \in CommandType
  BY DEF PilotInv, create_backup, copy_payload, publish_backup, CommandHolds
<1>2. RootHolds' /\ SourceHolds'
  BY <1>1 DEF RootHolds, SourceHolds
<1>3. ASSUME UNCHANGED backup, command' = [command EXCEPT ![p] = NoCommand], ReleasesRoot(p)
      PROVE  PilotInv'
  <2>1. CommandHolds(p)'
    BY <1>1, <1>3, OverHolds, NoCommandType DEF NoCommand
  <2>2. PublishedHolds'
    BY <1>1, <1>3 DEF PublishedHolds
  <2> QED
    BY <1>1, <1>2, <1>3, <2>1, <2>2, CommandStep DEF ReleasesRoot
<1>4. CASE create_backup(p)
  <2>1. /\ command' = [command EXCEPT ![p] = [NoCommand EXCEPT !.pc = "copy db"]]
        /\ rootLock = None /\ rootLock' = p /\ UNCHANGED backup /\ root \in past
    BY <1>1, <1>4 DEF create_backup, RootHolds
  <2>2. CommandHolds(p)'
    <3>1. command'[p] \in CommandType /\ command'[p].pc = "copy db"
      BY <1>1, <2>1, NoCommandType DEF NoCommand, CommandType
    <3> QED
      BY <1>1, <2>1, <3>1 DEF CommandHolds, CopyHolds, RehearsalHolds
  <2>3. PublishedHolds'
    BY <1>1, <2>1 DEF PublishedHolds
  <2> QED
    BY <1>1, <1>2, <2>1, <2>2, <2>3, CommandStep, PilotAssumption
<1>5. CASE copy_payload(p)
  <2>1. CASE Over(p) /\ ReleasesRoot(p)
    BY <1>3, <1>5, <2>1 DEF copy_payload, Over
  <2>2. CASE /\ command[p].pc = "copy db" /\ ~Gone /\ UNCHANGED rootLock
             /\ command' = [command EXCEPT ![p].tree = [root EXCEPT !.files = 0], ![p].pc = "copy files"]
    <3>1. root \in Trees /\ root \in past /\ rootLock = p
      BY <1>1, <2>2 DEF RootHolds, Gone, CommandHolds, CopyHolds, Locked
    <3> DEFINE c == [command[p] EXCEPT !.tree = [root EXCEPT !.files = 0], !.pc = "copy files"]
    <3>2. c \in CommandType /\ c.pc = "copy files" /\ c.tree = [root EXCEPT !.files = 0]
      BY <1>1, <3>1 DEF CommandType, Trees
    <3>3. command' = [command EXCEPT ![p] = c] /\ command'[p] = c
      BY <1>1, <2>2 DEF CommandType
    <3>4. UNCHANGED backup /\ CommandHolds(p)'
      BY <1>1, <1>5, <2>2, <3>1, <3>2, <3>3 DEF CommandHolds, CopyHolds, RehearsalHolds, copy_payload
    <3>5. PublishedHolds'
      BY <1>1, <3>4 DEF PublishedHolds
    <3> QED
      BY <1>1, <1>2, <2>2, <3>3, <3>4, <3>5, CommandStep
  <2>3. CASE /\ command[p].pc = "copy files" /\ ~Gone /\ UNCHANGED rootLock
             /\ command' = [command EXCEPT ![p].tree.files = root.files, ![p].pc = "publish"]
    <3>1. root \in Trees /\ root \in past /\ rootLock = p /\ command[p].tree = [root EXCEPT !.files = 0]
      BY <1>1, <2>3 DEF RootHolds, Gone, CommandHolds, CopyHolds, Locked
    <3> DEFINE c == [command[p] EXCEPT !.tree.files = root.files, !.pc = "publish"]
    <3>2. c \in CommandType /\ c.pc = "publish" /\ c.tree = root
      BY <1>1, <3>1 DEF CommandType, Trees
    <3>3. command' = [command EXCEPT ![p] = c] /\ command'[p] = c
      BY <1>1, <2>3 DEF CommandType
    <3>4. UNCHANGED backup /\ CommandHolds(p)'
      BY <1>1, <1>5, <2>3, <3>1, <3>2, <3>3 DEF CommandHolds, CopyHolds, RehearsalHolds, copy_payload
    <3>5. PublishedHolds'
      BY <1>1, <3>4 DEF PublishedHolds
    <3> QED
      BY <1>1, <1>2, <2>3, <3>3, <3>4, <3>5, CommandStep
  <2> QED
    BY <1>5, <2>1, <2>2, <2>3 DEF copy_payload, In
<1>6. CASE publish_backup(p)
  <2>1. command[p].tree \in past /\ command[p].tree \in Trees
    BY <1>1, <1>6 DEF publish_backup, In, CommandHolds, CopyHolds, CommandType
  <2>2. CASE backup = None
    <3>1. backup' = command[p].tree /\ restored = None
      BY <1>1, <1>6, <2>2 DEF publish_backup, PublishedHolds
    <3>2. PublishedHolds'
      BY <1>1, <2>1, <3>1 DEF PublishedHolds
    <3>3. CommandHolds(p)'
      BY <1>1, <1>6, OverHolds, NoCommandType DEF publish_backup, Over, NoCommand
    <3> QED
      BY <1>1, <1>2, <1>6, <2>2, <3>2, <3>3, CommandStep DEF publish_backup, Over, ReleasesRoot
  <2>3. CASE backup # None
    BY <1>3, <1>6, <2>3 DEF publish_backup, Over
  <2> QED
    BY <2>2, <2>3
<1> QED
  BY <1>4, <1>5, <1>6

LEMMA RestoreKeepsPilot ==
    ASSUME PilotInv, NEW p \in Commands, restore_backup(p)
    PROVE  PilotInv'
<1>1. /\ CommandHolds(p) /\ RootHolds /\ PublishedHolds /\ SourceHolds /\ command \in [Commands -> CommandType]
      /\ UNCHANGED << root, rootLock, backup, source, bundle, adopted, past, sourcePast, writes >>
      /\ command[p] \in CommandType
  BY DEF PilotInv, restore_backup
<1>2. RootHolds' /\ SourceHolds'
  BY <1>1 DEF RootHolds, SourceHolds
<1>3. PICK c \in CommandType :
         /\ command' = [command EXCEPT ![p] = c]
         /\ c.pc \in {"idle", "restore db", "restore files", "restored"}
         /\ c.pc # "idle" => backup # None
         /\ c.pc = "restored" => c.tree = backup
  <2>1. CASE command[p].pc = "idle"
    <3> DEFINE c == [NoCommand EXCEPT !.pc = "restore db"]
    <3>1. c \in CommandType /\ c.pc = "restore db"
      BY NoCommandType DEF NoCommand, CommandType
    <3> QED
      BY <2>1, <3>1 DEF restore_backup, In, validated_backup
  <2>2. CASE command[p].pc = "restore db"
    <3> DEFINE c == [command[p] EXCEPT !.tree = [backup EXCEPT !.files = 0], !.pc = "restore files"]
    <3>1. backup # None /\ backup \in Trees
      BY <1>1, <2>2 DEF CommandHolds, CopyHolds, PublishedHolds
    <3>2. c \in CommandType /\ c.pc = "restore files"
      BY <1>1, <3>1 DEF CommandType, Trees
    <3>3. command' = [command EXCEPT ![p] = c]
      BY <1>1, <2>2 DEF restore_backup, In, CommandType
    <3> QED
      BY <3>1, <3>2, <3>3
  <2>3. CASE command[p].pc = "restore files"
    <3> DEFINE c == [command[p] EXCEPT !.tree = backup, !.pc = "restored"]
    <3>1. backup # None /\ backup \in Trees
      BY <1>1, <2>3 DEF CommandHolds, CopyHolds, PublishedHolds
    <3>2. c \in CommandType /\ c.pc = "restored" /\ c.tree = backup
      BY <1>1, <3>1 DEF CommandType
    <3>3. command' = [command EXCEPT ![p] = c]
      BY <1>1, <2>3 DEF restore_backup, In, CommandType
    <3> QED
      BY <3>1, <3>2, <3>3
  <2>4. CASE command[p].pc = "restored"
    BY <2>4, NoCommandType DEF restore_backup, In, Over, NoCommand
  <2> QED
    BY <2>1, <2>2, <2>3, <2>4 DEF restore_backup, In
<1>4. CommandHolds(p)'
  BY <1>1, <1>3 DEF CommandHolds, CopyHolds, RehearsalHolds, Locked
<1>5. PublishedHolds'
  BY <1>1 DEF restore_backup, In, PublishedHolds, CommandHolds, CopyHolds
<1> QED
  BY <1>1, <1>2, <1>3, <1>4, <1>5, CommandStep

LEMMA RehearseKeepsPilot ==
    ASSUME PilotInv, NEW p \in Commands, rehearse(p)
    PROVE  PilotInv'
<1>1. /\ CommandHolds(p) /\ RootHolds /\ PublishedHolds /\ SourceHolds /\ command \in [Commands -> CommandType]
      /\ UNCHANGED << root, rootLock, backup, restored, source, bundle, adopted, past, sourcePast, writes >>
      /\ command[p] \in CommandType /\ RehearsalHolds(command[p])
  BY DEF PilotInv, rehearse, CommandHolds
<1>2. RootHolds' /\ SourceHolds' /\ PublishedHolds'
  BY <1>1 DEF RootHolds, SourceHolds, PublishedHolds
<1>3. source \in Historical /\ source \in sourcePast /\ source.db \in Nat /\ source.files \in Nat
  BY <1>1 DEF SourceHolds, Historical, Trees
<1>4. PICK c \in CommandType :
         /\ command' = [command EXCEPT ![p] = c]
         /\ c.pc \in {"idle", "i1", "i2", "c1", "c2", "v1", "v2", "migrate"}
         /\ RehearsalHolds(c)
  <2>1. CASE command[p].pc = "idle"
    <3> DEFINE c == [NoCommand EXCEPT !.pc = "i1"]
    <3>1. c \in CommandType /\ c.pc = "i1"
      BY NoCommandType DEF NoCommand, CommandType
    <3> QED
      BY <2>1, <3>1 DEF rehearse, In, RehearsalHolds
  <2>2. CASE command[p].pc = "i1"
    <3> DEFINE c == [command[p] EXCEPT !.seen = [source EXCEPT !.files = 0], !.pc = "i2"]
    <3>1. [source EXCEPT !.files = 0] \in Historical /\ [source EXCEPT !.files = 0].db = source.db
      BY <1>3 DEF Historical, Trees
    <3>2. [source EXCEPT !.files = 0] \in Trees
      BY <3>1 DEF Historical, Trees
    <3>3. c \in CommandType /\ c.pc = "i2" /\ c.seen = [source EXCEPT !.files = 0]
      BY <1>1, <3>2 DEF CommandType
    <3>4. RehearsalHolds(c)
      <4> HIDE DEF c
      <4>1. c.seen \in Historical /\ c.seen.db = source.db
        BY <3>1, <3>3
      <4>2. source.db <= source.db
        BY <1>3
      <4> QED
        BY <3>3, <4>1, <4>2 DEF RehearsalHolds
    <3>5. command' = [command EXCEPT ![p] = c]
      BY <1>1, <2>2 DEF rehearse, In, CommandType
    <3> QED
      BY <3>3, <3>4, <3>5
  <2>3. CASE command[p].pc = "i2"
    <3> DEFINE c == [command[p] EXCEPT !.seen.files = source.files, !.pc = "c1"]
               seen == [command[p].seen EXCEPT !.files = source.files]
    <3>1. command[p].seen \in Historical /\ command[p].seen.db <= source.db
      BY <1>1, <2>3 DEF RehearsalHolds
    <3>2. command[p].seen.db \in Nat
      BY <1>1 DEF CommandType, Trees
    <3>3. seen \in Historical /\ seen \in Trees /\ seen.db = command[p].seen.db /\ seen.files = source.files
      BY <1>3, <3>1 DEF Historical, Trees
    <3>4. c \in CommandType /\ c.pc = "c1" /\ c.seen = seen
      BY <1>1, <3>3 DEF CommandType
    <3>5. seen = source \/ seen.db < source.db
      <4>1. CASE seen.db = source.db
        BY <1>3, <3>3, <4>1 DEF Historical, Trees
      <4> QED
        BY <1>3, <3>1, <3>2, <3>3, <4>1
    <3>6. RehearsalHolds(c)
      BY <1>3, <3>4, <3>5 DEF RehearsalHolds
    <3>7. command' = [command EXCEPT ![p] = c]
      BY <1>1, <2>3 DEF rehearse, In, CommandType
    <3> QED
      BY <3>4, <3>6, <3>7
  <2>4. CASE command[p].pc = "c1"
    <3> DEFINE c == [command[p] EXCEPT !.tree = [source EXCEPT !.files = 0], !.pc = "c2"]
    <3>1. [source EXCEPT !.files = 0] \in Trees
      BY <1>3 DEF Trees, Historical
    <3>2. c \in CommandType /\ c.pc = "c2" /\ c.seen = command[p].seen
      BY <1>1, <3>1 DEF CommandType
    <3>3. RehearsalHolds(c)
      BY <1>1, <2>4, <3>2 DEF RehearsalHolds
    <3>4. command' = [command EXCEPT ![p] = c]
      BY <1>1, <2>4 DEF rehearse, In, CommandType
    <3> QED
      BY <3>2, <3>3, <3>4
  <2>5. CASE command[p].pc = "c2"
    <3> DEFINE c == [command[p] EXCEPT !.tree.files = source.files, !.pc = "v1"]
    <3>1. [command[p].tree EXCEPT !.files = source.files] \in Trees
      BY <1>1, <1>3 DEF Trees, CommandType
    <3>2. c \in CommandType /\ c.pc = "v1" /\ c.seen = command[p].seen
      BY <1>1, <3>1 DEF CommandType
    <3>3. RehearsalHolds(c)
      BY <1>1, <2>5, <3>2 DEF RehearsalHolds
    <3>4. command' = [command EXCEPT ![p] = c]
      BY <1>1, <2>5 DEF rehearse, In, CommandType
    <3> QED
      BY <3>2, <3>3, <3>4
  <2>6. CASE command' = [command EXCEPT ![p] = NoCommand]
    BY <2>6, NoCommandType DEF NoCommand, RehearsalHolds
  <2>7. CASE /\ command[p].pc = "v1" /\ command' = [command EXCEPT ![p].pc = "v2"]
             /\ command[p].tree = command[p].seen /\ source.db = command[p].seen.db
    <3> DEFINE c == [command[p] EXCEPT !.pc = "v2"]
    <3>1. c \in CommandType /\ c.pc = "v2" /\ c.tree = command[p].seen
      BY <1>1, <2>7 DEF CommandType
    <3>2. command[p].seen \in sourcePast
      BY <1>1, <1>3, <2>7 DEF RehearsalHolds
    <3>3. RehearsalHolds(c)
      BY <3>1, <3>2 DEF RehearsalHolds
    <3>4. command' = [command EXCEPT ![p] = c]
      BY <1>1, <2>7 DEF CommandType
    <3> QED
      BY <3>1, <3>3, <3>4
  <2>8. CASE command[p].pc = "v2" /\ command' = [command EXCEPT ![p].pc = "migrate"]
    <3> DEFINE c == [command[p] EXCEPT !.pc = "migrate"]
    <3>1. c \in CommandType /\ c.pc = "migrate" /\ c.tree = command[p].tree
      BY <1>1 DEF CommandType
    <3>2. RehearsalHolds(c)
      BY <1>1, <2>8, <3>1 DEF RehearsalHolds
    <3>3. command' = [command EXCEPT ![p] = c]
      BY <1>1, <2>8 DEF CommandType
    <3> QED
      BY <3>1, <3>2, <3>3
  <2> QED
    BY <2>1, <2>2, <2>3, <2>4, <2>5, <2>6, <2>7, <2>8 DEF rehearse, In, Next1, Over
<1>5. CommandHolds(p)'
  BY <1>1, <1>4 DEF CommandHolds, CopyHolds, RehearsalHolds, Locked
<1> QED
  BY <1>1, <1>2, <1>4, <1>5, CommandStep

LEMMA PublishSteps ==
    ASSUME PilotInv, NEW p \in Commands, publish_bundle(p) \/ adopt(p)
    PROVE  PilotInv'
<1>1. /\ CommandHolds(p) /\ RootHolds /\ PublishedHolds /\ SourceHolds /\ command \in [Commands -> CommandType]
      /\ UNCHANGED << root, rootLock, backup, restored, source, past, sourcePast, writes >>
      /\ command[p] \in CommandType
  BY DEF PilotInv, publish_bundle, adopt
<1>2. RootHolds' /\ SourceHolds'
  BY <1>1 DEF RootHolds, SourceHolds
<1>3. CASE publish_bundle(p)
  <2>1. command[p].tree \in sourcePast /\ UNCHANGED adopted
    BY <1>1, <1>3 DEF publish_bundle, In, CommandHolds, RehearsalHolds
  <2>2. PublishedHolds'
    BY <1>1, <1>3, <2>1 DEF publish_bundle, PublishedHolds
  <2>3. command' = [command EXCEPT ![p] = NoCommand]
    BY <1>3 DEF publish_bundle, Over
  <2>4. CommandHolds(p)'
    BY <1>1, <2>3, OverHolds, NoCommandType DEF NoCommand
  <2> QED
    BY <1>1, <1>2, <2>2, <2>3, <2>4, CommandStep
<1>4. CASE adopt(p)
  <2>1. bundle # None /\ UNCHANGED << bundle, command >>
        /\ (adopted' = adopted \/ adopted' = [bundle.candidate EXCEPT !.marker = TRUE])
    BY <1>4 DEF adopt
  <2>2. [[bundle.candidate EXCEPT !.marker = TRUE] EXCEPT !.marker = FALSE, !.schema = 11]
           = bundle.preupgrade
    <3>1. bundle.preupgrade \in Historical /\ bundle.candidate = [bundle.preupgrade EXCEPT !.schema = 12]
      BY <1>1, <2>1 DEF PublishedHolds, SourceHolds
    <3> QED
      BY <3>1 DEF Historical, Trees
  <2>3. PublishedHolds'
    BY <1>1, <2>1, <2>2 DEF PublishedHolds
  <2>4. \A q \in Commands : CommandHolds(q)'
    BY <1>1, <2>1 DEF PilotInv, CommandHolds, CopyHolds, RehearsalHolds, Gone
  <2> QED
    BY <1>1, <1>2, <2>1, <2>3, <2>4 DEF PilotInv
<1> QED
  BY <1>3, <1>4

LEMMA SourceKeepsPilot ==
    ASSUME PilotInv, NEW part \in {"db", "files"}, source_changes(part)
    PROVE  PilotInv'
<1>1. /\ RootHolds /\ PublishedHolds /\ SourceHolds /\ command \in [Commands -> CommandType]
      /\ writes \in Nat /\ source \in Historical
      /\ UNCHANGED << root, rootLock, command, backup, restored, bundle, adopted, past >>
      /\ writes' = writes + 1 /\ source' = [source EXCEPT ![part] = writes + 1]
      /\ sourcePast' = sourcePast \cup {source'}
  BY DEF PilotInv, source_changes, SourceHolds
<1>2. source.db \in Nat /\ source.files \in Nat /\ source.db <= writes /\ source.files <= writes
  BY <1>1 DEF SourceHolds, Historical, Trees
<1>3. /\ source' \in Historical
      /\ source'.db = (IF part = "db" THEN writes + 1 ELSE source.db)
      /\ source'.files = (IF part = "files" THEN writes + 1 ELSE source.files)
  <2>1. CASE part = "db"
    BY <1>1, <2>1 DEF Historical, Trees
  <2>2. CASE part = "files"
    BY <1>1, <2>2 DEF Historical, Trees
  <2> QED
    BY <2>1, <2>2
<1>4. source.db <= source'.db /\ source'.db <= writes' /\ source'.files <= writes' /\ writes' \in Nat
  BY <1>1, <1>2, <1>3
<1>5. SourceHolds'
  BY <1>1, <1>3, <1>4 DEF SourceHolds
<1>6. RootHolds' /\ PublishedHolds'
  BY <1>1 DEF RootHolds, PublishedHolds
<1>7. \A q \in Commands : CommandHolds(q)'
  BY <1>1, <1>3, <1>4, OtherCommand
<1> QED
  BY <1>1, <1>5, <1>6, <1>7 DEF PilotInv

\* What a backup, a restore, a rehearsal or an adoption publishes is one state its root
\* was in, whole, whoever wrote in the meantime and wherever a command was killed.
THEOREM PublishedIsAStateAlways == PilotSpec => []PublishedIsAState
<1>1. PilotInit => PilotInv
  <2> SUFFICES ASSUME PilotInit PROVE PilotInv
    OBVIOUS
  <2>1. command \in [Commands -> CommandType] /\ \A p \in Commands : command[p] = NoCommand
    BY NoCommandType DEF PilotInit
  <2>2. \A p \in Commands : CommandHolds(p)
    <3>1. NoCommand.pc = "idle" /\ NoCommand \in CommandType
      BY NoCommandType DEF NoCommand
    <3> QED
      BY <2>1, <3>1 DEF CommandHolds, CopyHolds, RehearsalHolds, Locked
  <2>3. SourceHolds
    BY DEF PilotInit, SourceHolds, Historical, Trees
  <2> QED
    BY <2>1, <2>2, <2>3 DEF PilotInit, PilotInv, RootHolds, PublishedHolds
<1>2. PilotInv /\ [PilotNext]_pilotVars => PilotInv'
  <2> SUFFICES ASSUME PilotInv, [PilotNext]_pilotVars PROVE PilotInv'
    OBVIOUS
  <2>1. CASE UNCHANGED pilotVars
    BY <2>1 DEF pilotVars, pilotState, PilotInv, RootHolds, SourceHolds, PublishedHolds, CommandHolds,
                CopyHolds, RehearsalHolds, Gone
  <2>2. CASE PilotNext
    BY <2>2, BootstrapSteps, TakeKeepsPilot, FillKeepsPilot, ServerSteps, BackupSteps, RestoreKeepsPilot,
       RehearseKeepsPilot, PublishSteps, SourceKeepsPilot DEF PilotNext
  <2> QED
    BY <2>1, <2>2
<1>3. PilotInv => PublishedIsAState
  BY DEF PilotInv, PublishedHolds, PublishedIsAState
<1> QED
  BY <1>1, <1>2, <1>3, PTL DEF PilotSpec

-----------------------------------------------------------------------------
(***************************************************************************)
(* The AI operations on the frames of a design (FrameQueue)                 *)
(***************************************************************************)

\* The texts a field may hold, and the frames of a board.
Known == {"stored", "fixed", "ai"}
FieldType == [text : Typed \cup Known, quality : {"none", "local", "ai"}]
Board == [Frames -> [Keys -> FieldType]]

OperationType ==
    [kind : {"single", "batch", "proofread", "verify"}, item : Frames \cup {None},
     key : Keys \cup {None}, index : Nat, state : {"idle", "sent", "asking"},
     cancelled : BOOLEAN, close : BOOLEAN, context : Board \cup {None}, original : Board,
     applied : [Frames -> [Keys -> FieldType] \cup {None}]]

\* What was typed during the operation is nowhere in the frame x.
IsOlder(x, i) ==
    \A k \in Keys : /\ x[k].text \in used \cup Known
                    /\ hand[i][k] # None => x[k].text # hand[i][k]

\* The frames that the operation compares with were there before the text was typed.
OperationHolds ==
    op # None =>
        /\ op \in OperationType
        /\ op.context # None => \A i \in Frames : IsOlder(op.context[i], i)
        /\ \A i \in Frames : op.applied[i] # None => IsOlder(op.applied[i], i)
        /\ \A i \in Frames, k \in Keys : op.original[i][k].text \in used \cup Known

QueueTypes ==
    /\ frames \in Board
    /\ hand \in [Frames -> [Keys -> Typed \cup {None}]]
    /\ used \subseteq Typed
    /\ check # None => check \in Frames \X Keys

TextsHold ==
    \A i \in Frames, k \in Keys :
        /\ frames[i][k].text \in used \cup Known
        /\ hand[i][k] # None => hand[i][k] \in used

QueueInv == QueueTypes /\ TextsHold /\ OperationHolds /\ HandEditsSurvive

\* On the board as it was, nothing was typed.
LEMMA UnchangedIsUntouched ==
    ASSUME QueueInv, op # None, isUnchanged
    PROVE  hand = Nothing /\ op \in OperationType /\ op.context = frames /\ op.context # None
<1>1. op \in OperationType /\ op.context = frames /\ frames \in Board
  BY DEF QueueInv, OperationHolds, QueueTypes, isUnchanged
<1>2. op.context # None
  BY <1>1, QueueAssumption DEF Board, FieldType, Known
<1>3. ASSUME NEW i \in Frames, NEW k \in Keys PROVE hand[i][k] = None
  BY <1>1, <1>2 DEF QueueInv, OperationHolds, IsOlder, HandEditsSurvive
<1>4. hand = Nothing
  BY <1>3 DEF QueueInv, QueueTypes, Nothing
<1> QED
  BY <1>1, <1>2, <1>4

\* A step that leaves the typed texts alone, and of an operation keeps or drops what
\* it compares with.
LEMMA SameTexts ==
    ASSUME QueueInv, UNCHANGED << used, hand >>, frames' \in Board,
           \A i \in Frames, k \in Keys :
              /\ frames'[i][k].text \in used \cup Known
              /\ hand[i][k] # None => frames'[i][k].text = hand[i][k],
           check' # None => check' \in Frames \X Keys,
           op' # None => /\ op' \in OperationType
                         /\ op'.context # None => \A i \in Frames : IsOlder(op'.context[i], i)
                         /\ \A i \in Frames : op'.applied[i] # None => IsOlder(op'.applied[i], i)
                         /\ \A i \in Frames, k \in Keys : op'.original[i][k].text \in used \cup Known
    PROVE  QueueInv'
<1>1. QueueTypes' /\ TextsHold' /\ HandEditsSurvive'
  BY DEF QueueInv, QueueTypes, TextsHold, HandEditsSurvive
<1>2. OperationHolds'
  BY DEF OperationHolds, IsOlder
<1> QED
  BY <1>1, <1>2 DEF QueueInv

LEMMA StartKeepsQueue ==
    ASSUME QueueInv, NEW kind \in {"single", "batch", "proofread", "verify"},
           NEW i \in Frames \cup {None}, NEW k \in Keys \cup {None}, Starts(kind, i, k)
    PROVE  QueueInv'
<1>1. /\ UNCHANGED << frames, check, used >> /\ hand' = Nothing /\ frames \in Board
      /\ op' = [kind |-> kind, item |-> i, key |-> k, index |-> 1, state |-> "idle",
                cancelled |-> FALSE, close |-> FALSE, context |-> frames,
                original |-> frames, applied |-> [j \in Frames |-> None]]
  BY DEF QueueInv, QueueTypes, Starts
<1>2. op' \in OperationType /\ op'.context = frames /\ op'.original = frames
      /\ \A j \in Frames : op'.applied[j] = None
  BY <1>1 DEF OperationType
<1>3. \A j \in Frames, l \in Keys : hand'[j][l] = None
  BY <1>1 DEF Nothing
<1>4. QueueTypes' /\ TextsHold' /\ HandEditsSurvive'
  BY <1>1, <1>3 DEF QueueInv, QueueTypes, TextsHold, HandEditsSurvive, Nothing
<1>5. OperationHolds'
  BY <1>1, <1>2, <1>3 DEF OperationHolds, IsOlder, QueueInv, TextsHold
<1> QED
  BY <1>4, <1>5 DEF QueueInv

LEMMA TypeKeepsQueue ==
    ASSUME QueueInv, NEW i \in Frames, NEW k \in Keys, NEW t \in Typed, type(i, k, t)
    PROVE  QueueInv'
<1>1. /\ UNCHANGED << op, check >> /\ used' = used \cup {t} /\ t \notin used /\ t \notin Known
      /\ frames' = [frames EXCEPT ![i][k] = Field(t, "none")]
      /\ hand' = [hand EXCEPT ![i][k] = t]
      /\ QueueTypes /\ TextsHold /\ OperationHolds /\ HandEditsSurvive
  BY QueueAssumption DEF QueueInv, type, Known
<1>2. \A j \in Frames, l \in Keys :
         /\ frames'[j][l] = IF j = i /\ l = k THEN Field(t, "none") ELSE frames[j][l]
         /\ hand'[j][l] = IF j = i /\ l = k THEN t ELSE hand[j][l]
  BY <1>1 DEF QueueTypes, Board
<1>3. Field(t, "none") \in FieldType /\ Field(t, "none").text = t
  BY DEF Field, FieldType
<1>4. frames' \in Board /\ hand' \in [Frames -> [Keys -> Typed \cup {None}]]
  BY <1>1, <1>3 DEF QueueTypes, Board
<1>5. QueueTypes' /\ TextsHold' /\ HandEditsSurvive'
  BY <1>1, <1>2, <1>3, <1>4 DEF QueueTypes, TextsHold, HandEditsSurvive
<1>6. ASSUME NEW x, NEW j \in Frames, IsOlder(x, j) PROVE IsOlder(x, j)'
  BY <1>1, <1>2, <1>6 DEF IsOlder
<1>7. OperationHolds'
  BY <1>1, <1>6 DEF OperationHolds
<1> QED
  BY <1>5, <1>7 DEF QueueInv

LEMMA ReloadKeepsQueue == ASSUME QueueInv, reload PROVE QueueInv'
<1>1. /\ op # None /\ UNCHANGED << check, used >> /\ hand' = Nothing
      /\ frames' = [i \in Frames |-> Stored] /\ op' = [op EXCEPT !.context = None]
      /\ op \in OperationType
      /\ QueueTypes /\ TextsHold /\ OperationHolds /\ HandEditsSurvive
  BY DEF QueueInv, reload, OperationHolds
<1>2. op' \in OperationType /\ op'.context = None /\ op'.applied = op.applied /\ op'.original = op.original
  BY <1>1 DEF OperationType
<1>3. \A j \in Frames, l \in Keys : hand'[j][l] = None /\ frames'[j][l] = Field("stored", "none")
  BY <1>1 DEF Nothing, Stored
<1>4. Field("stored", "none") \in FieldType /\ Field("stored", "none").text = "stored"
  BY DEF Field, FieldType, Known
<1>5. frames' \in Board /\ hand' \in [Frames -> [Keys -> Typed \cup {None}]]
  BY <1>1, <1>4 DEF Board, Stored, Nothing
<1>6. QueueTypes' /\ TextsHold' /\ HandEditsSurvive'
  BY <1>1, <1>3, <1>4, <1>5 DEF QueueTypes, TextsHold, HandEditsSurvive, Known
<1>7. OperationHolds'
  BY <1>1, <1>2, <1>3 DEF OperationHolds, IsOlder
<1> QED
  BY <1>6, <1>7 DEF QueueInv

\* The operation as it is.
LEMMA SameOperation ==
    ASSUME QueueInv, op # None
    PROVE  /\ op \in OperationType
           /\ op.context # None => \A i \in Frames : IsOlder(op.context[i], i)
           /\ \A i \in Frames : op.applied[i] # None => IsOlder(op.applied[i], i)
           /\ \A i \in Frames, k \in Keys : op.original[i][k].text \in used \cup Known
           /\ op.original \in Board /\ op.applied \in [Frames -> [Keys -> FieldType] \cup {None}]
  BY DEF QueueInv, OperationHolds, OperationType

LEMMA LocalChecks ==
    ASSUME QueueInv,
           \/ \E i \in Frames, k \in Keys : showTextQuality(i, k)
           \/ \E b \in BOOLEAN : applyLocalFixes(b)
    PROVE  QueueInv'
<1>1. QueueTypes /\ TextsHold /\ OperationHolds /\ HandEditsSurvive /\ frames \in Board
  BY DEF QueueInv, QueueTypes
<1>2. ASSUME NEW i \in Frames, NEW k \in Keys, showTextQuality(i, k) PROVE QueueInv'
  <2>1. UNCHANGED << op, used, hand >> /\ (check' = check \/ check' = << i, k >>)
        /\ (frames' = frames \/ frames' = [frames EXCEPT ![i][k].quality = "local"])
    BY <1>2 DEF showTextQuality
  <2>2. frames[i] \in [Keys -> FieldType] /\ frames[i][k] \in FieldType
    BY <1>1 DEF Board
  <2>3. [frames[i][k] EXCEPT !.quality = "local"] \in FieldType
        /\ [frames[i][k] EXCEPT !.quality = "local"].text = frames[i][k].text
    BY <2>2 DEF FieldType
  <2>4. /\ frames' \in Board
        /\ \A j \in Frames, l \in Keys : frames'[j][l].text = frames[j][l].text
    <3>1. CASE frames' = frames
      BY <1>1, <3>1
    <3>2. CASE frames' = [frames EXCEPT ![i][k].quality = "local"]
      <4>1. frames' = [frames EXCEPT ![i] = [frames[i] EXCEPT ![k] = [frames[i][k] EXCEPT !.quality = "local"]]]
        BY <1>1, <2>2, <3>2 DEF Board
      <4>2. \A j \in Frames, l \in Keys :
               frames'[j][l] = IF j = i /\ l = k THEN [frames[i][k] EXCEPT !.quality = "local"]
                               ELSE frames[j][l]
        BY <1>1, <2>2, <4>1 DEF Board
      <4>3. frames' \in Board
        BY <1>1, <2>2, <2>3, <4>1 DEF Board
      <4>4. \A j \in Frames, l \in Keys : frames'[j][l].text = frames[j][l].text
        BY <2>3, <4>2
      <4> QED
        BY <4>3, <4>4
    <3> QED
      BY <2>1, <3>1, <3>2
  <2>5. check' # None => check' \in Frames \X Keys
    BY <1>1, <2>1 DEF QueueTypes
  <2> QED
    BY <1>1, <2>1, <2>4, <2>5, SameTexts, SameOperation DEF TextsHold, HandEditsSurvive
<1>3. ASSUME NEW b \in BOOLEAN, applyLocalFixes(b) PROVE QueueInv'
  <2>1. check # None /\ check' = None /\ UNCHANGED << op, used >> /\ check \in Frames \X Keys
    BY <1>1, <1>3 DEF applyLocalFixes, QueueTypes
  <2>2. CASE UNCHANGED << frames, hand >>
    BY <1>1, <2>1, <2>2, SameTexts, SameOperation DEF TextsHold, HandEditsSurvive
  <2>3. CASE /\ frames' = [frames EXCEPT ![check[1]][check[2]] = Field("fixed", "local")]
             /\ hand' = [hand EXCEPT ![check[1]][check[2]] = None]
    <3> DEFINE i == check[1]
               k == check[2]
    <3>1. i \in Frames /\ k \in Keys
      BY <2>1
    <3>2. Field("fixed", "local") \in FieldType /\ Field("fixed", "local").text = "fixed"
      BY DEF Field, FieldType, Known
    <3>3. frames' \in Board /\ hand' \in [Frames -> [Keys -> Typed \cup {None}]]
      BY <1>1, <2>3, <3>1, <3>2 DEF QueueTypes, Board
    <3>4. \A j \in Frames, l \in Keys :
             /\ frames'[j][l] = IF j = i /\ l = k THEN Field("fixed", "local") ELSE frames[j][l]
             /\ hand'[j][l] = IF j = i /\ l = k THEN None ELSE hand[j][l]
      BY <1>1, <2>3, <3>1 DEF QueueTypes, Board
    <3>5. QueueTypes' /\ TextsHold' /\ HandEditsSurvive'
      BY <1>1, <2>1, <3>2, <3>3, <3>4 DEF QueueTypes, TextsHold, HandEditsSurvive, Known
    <3>6. ASSUME NEW x, NEW j \in Frames, IsOlder(x, j) PROVE IsOlder(x, j)'
      BY <2>1, <3>4, <3>6 DEF IsOlder
    <3>7. OperationHolds'
      BY <1>1, <2>1, <3>6 DEF OperationHolds
    <3> QED
      BY <3>5, <3>7 DEF QueueInv
  <2> QED
    BY <1>3, <2>2, <2>3 DEF applyLocalFixes
<1> QED
  BY <1>2, <1>3

\* Giving back touches no field that was typed.
LEMMA RestoreHolds ==
    ASSUME QueueInv, op # None, NEW shown \in Board, NEW applied,
           \A i \in Frames : applied[i] # None => IsOlder(applied[i], i),
           \A i \in Frames, k \in Keys :
              /\ shown[i][k].text \in used \cup Known
              /\ hand[i][k] # None => shown[i][k].text = hand[i][k]
    PROVE  LET back == restoreFrameSnapshot(shown, applied) IN
           /\ back \in Board
           /\ \A i \in Frames, k \in Keys :
                 /\ back[i][k].text \in used \cup Known
                 /\ hand[i][k] # None => back[i][k].text = hand[i][k]
<1> DEFINE back == restoreFrameSnapshot(shown, applied)
<1>1. op.original \in Board /\ \A i \in Frames, k \in Keys : op.original[i][k].text \in used \cup Known
  BY SameOperation
<1>2. \A i \in Frames, k \in Keys :
         /\ back[i][k] = IF ~(applied[i] = None \/ op.context = None) /\ shown[i][k] = applied[i][k]
                         THEN op.original[i][k] ELSE shown[i][k]
  <2>1. ASSUME NEW i \in Frames, NEW k \in Keys
        PROVE back[i][k] = IF ~(applied[i] = None \/ op.context = None) /\ shown[i][k] = applied[i][k]
                           THEN op.original[i][k] ELSE shown[i][k]
    <3>1. back[i] = IF applied[i] = None \/ op.context = None THEN shown[i]
                    ELSE [l \in Keys |-> IF shown[i][l] = applied[i][l] THEN op.original[i][l] ELSE shown[i][l]]
      BY DEF restoreFrameSnapshot, restoreQueueOwnedFrameFields
    <3> QED
      BY <3>1
  <2> QED
    BY <2>1
<1>3. back \in Board
  BY <1>1 DEF Board, restoreFrameSnapshot, restoreQueueOwnedFrameFields
<1>4. ASSUME NEW i \in Frames, NEW k \in Keys
      PROVE  /\ back[i][k].text \in used \cup Known
             /\ hand[i][k] # None => back[i][k].text = hand[i][k]
  <2> HIDE DEF back
  <2> QED
    BY <1>1, <1>2 DEF IsOlder
<1> QED
  BY <1>3, <1>4

\* A queue that ends keeps what is shown or gives back.
LEMMA EndKeepsQueue ==
    ASSUME QueueInv, op # None, NEW shown \in Board, NEW applied, Ended(shown, applied),
           UNCHANGED << check, used, hand >>,
           \A i \in Frames : applied[i] # None => IsOlder(applied[i], i),
           \A i \in Frames, k \in Keys :
              /\ shown[i][k].text \in used \cup Known
              /\ hand[i][k] # None => shown[i][k].text = hand[i][k]
    PROVE  QueueInv'
<1> DEFINE back == restoreFrameSnapshot(shown, applied)
<1>1. /\ back \in Board
      /\ \A i \in Frames, k \in Keys :
            /\ back[i][k].text \in used \cup Known
            /\ hand[i][k] # None => back[i][k].text = hand[i][k]
  BY RestoreHolds
<1>2. op' = None /\ (frames' = back \/ frames' = shown)
  BY DEF Ended
<1>3. check' # None => check' \in Frames \X Keys
  BY DEF QueueInv, QueueTypes
<1> HIDE DEF back
<1> QED
  BY <1>1, <1>2, <1>3, SameTexts

\* What the AI writes on a board where nothing was typed.
LEMMA ShownHolds ==
    ASSUME QueueInv, op # None, isUnchanged, NEW shown \in Board,
           \A i \in Frames, k \in Keys : shown[i][k].text \in used \cup Known
    PROVE  /\ \A i \in Frames : IsOlder(shown[i], i)
           /\ \A i \in Frames, k \in Keys : hand[i][k] # None => shown[i][k].text = hand[i][k]
  BY UnchangedIsUntouched DEF IsOlder, Nothing

\* An answer is shown, and the operation ends, or goes on from the board it shows.
LEMMA AnswerKeepsQueue ==
    ASSUME QueueInv, op # None, isUnchanged, NEW shown \in Board, NEW item,
           \A i \in Frames, k \in Keys : shown[i][k].text \in used \cup Known,
           UNCHANGED << check, used, hand >>,
           \/ frames' = shown /\ op' = None
           \/ Ended(shown, recordAppliedFrameSnapshot(item, shown[item]))
           \/ /\ frames' = shown
              /\ op' \in {[op EXCEPT !.index = @ + 1, !.context = shown, !.state = "idle",
                              !.applied = recordAppliedFrameSnapshot(item, shown[item])],
                          [op EXCEPT !.state = "sent", !.cancelled = FALSE, !.context = shown,
                              !.applied = recordAppliedFrameSnapshot(item, shown[item])]}
    PROVE  QueueInv'
<1> DEFINE applied == recordAppliedFrameSnapshot(item, shown[item])
<1>1. /\ \A i \in Frames : IsOlder(shown[i], i)
      /\ \A i \in Frames, k \in Keys : hand[i][k] # None => shown[i][k].text = hand[i][k]
  BY ShownHolds
<1>2. /\ applied \in [Frames -> [Keys -> FieldType] \cup {None}]
      /\ \A i \in Frames : applied[i] # None => IsOlder(applied[i], i)
  <2>1. op.applied \in [Frames -> [Keys -> FieldType] \cup {None}]
        /\ \A i \in Frames : op.applied[i] # None => IsOlder(op.applied[i], i)
    BY SameOperation
  <2>2. \A i \in Frames : applied[i] = IF i = item THEN shown[i] ELSE op.applied[i]
    BY <2>1 DEF recordAppliedFrameSnapshot
  <2>3. DOMAIN applied = Frames /\ applied = [i \in Frames |-> applied[i]]
    BY <2>1 DEF recordAppliedFrameSnapshot
  <2> HIDE DEF applied
  <2> QED
    BY <1>1, <2>1, <2>2, <2>3 DEF Board
<1>3. op \in OperationType /\ \A i \in Frames, k \in Keys : op.original[i][k].text \in used \cup Known
  BY SameOperation
<1>4. check' # None => check' \in Frames \X Keys
  BY DEF QueueInv, QueueTypes
<1> HIDE DEF applied
<1>5. CASE frames' = shown /\ op' = None
  BY <1>1, <1>4, <1>5, SameTexts
<1>6. CASE Ended(shown, applied)
  BY <1>1, <1>2, <1>6, EndKeepsQueue
<1>7. ASSUME frames' = shown,
             op' \in {[op EXCEPT !.index = @ + 1, !.context = shown, !.state = "idle", !.applied = applied],
                      [op EXCEPT !.state = "sent", !.cancelled = FALSE, !.context = shown, !.applied = applied]}
      PROVE  QueueInv'
  <2>1. op' \in OperationType /\ op'.context = shown /\ op'.applied = applied /\ op'.original = op.original
    <3>1. op.index + 1 \in Nat
      BY <1>3 DEF OperationType
    <3>2. CASE op' = [op EXCEPT !.index = @ + 1, !.context = shown, !.state = "idle", !.applied = applied]
      BY <1>2, <1>3, <3>1, <3>2 DEF OperationType
    <3>3. CASE op' = [op EXCEPT !.state = "sent", !.cancelled = FALSE, !.context = shown, !.applied = applied]
      BY <1>2, <1>3, <3>3 DEF OperationType
    <3> QED
      BY <1>7, <3>2, <3>3
  <2> QED
    BY <1>1, <1>2, <1>3, <1>4, <1>7, <2>1, SameTexts
<1> QED
  BY <1>5, <1>6, <1>7 DEF applied

LEMMA GenerateSteps ==
    ASSUME QueueInv, generateFrameForEntry
    PROVE  QueueInv'
<1> DEFINE item == IF op.kind = "single" THEN op.item ELSE Items[op.index]
           frame == [k \in Keys |-> Field("ai", "none")]
           shown == [frames EXCEPT ![item] = frame]
<1>1. op # None /\ isUnchanged /\ UNCHANGED << check, used, hand >> /\ frames \in Board /\ TextsHold
  BY DEF QueueInv, QueueTypes, generateFrameForEntry
<1>2. Field("ai", "none") \in FieldType /\ Field("ai", "none").text = "ai"
  BY DEF Field, FieldType, Known
<1>3. \A i \in Frames : shown[i] = IF i = item THEN frame ELSE frames[i]
  BY <1>1 DEF Board
<1>4. shown \in Board
  BY <1>1, <1>2 DEF Board
<1>5. \A i \in Frames, k \in Keys : shown[i][k].text \in used \cup Known
  BY <1>1, <1>2, <1>3 DEF TextsHold, Known
<1>6. recordAppliedFrameSnapshot(item, frame) = recordAppliedFrameSnapshot(item, shown[item])
  <2>1. CASE item \in Frames
    BY <1>3, <2>1
  <2>2. CASE item \notin Frames
    <3>1. DOMAIN op.applied = Frames
      BY <1>1, SameOperation
    <3> QED
      BY <2>2, <3>1 DEF recordAppliedFrameSnapshot
  <2> QED
    BY <2>1, <2>2
<1>7. \/ frames' = shown /\ op' = None
      \/ Ended(shown, recordAppliedFrameSnapshot(item, frame))
      \/ /\ frames' = shown
         /\ op' = [op EXCEPT !.index = @ + 1, !.applied = recordAppliedFrameSnapshot(item, frame),
                             !.context = shown, !.state = "idle"]
  BY DEF generateFrameForEntry
<1> HIDE DEF shown, item, frame
<1>8. \/ frames' = shown /\ op' = None
      \/ Ended(shown, recordAppliedFrameSnapshot(item, shown[item]))
      \/ /\ frames' = shown
         /\ op' = [op EXCEPT !.index = @ + 1, !.context = shown, !.state = "idle",
                             !.applied = recordAppliedFrameSnapshot(item, shown[item])]
  BY <1>6, <1>7
<1> QED
  BY <1>1, <1>4, <1>5, <1>8, AnswerKeepsQueue

LEMMA VerifySteps ==
    ASSUME QueueInv, NEW b \in BOOLEAN, proofreadFrameFieldForBatch(b) \/ verifyNextFrameField(b)
    PROVE  QueueInv'
<1> DEFINE k == Fields[op.index]
<1>1. op # None /\ UNCHANGED << check, used, hand >> /\ frames \in Board /\ TextsHold
      /\ op \in OperationType
  BY SameOperation DEF QueueInv, QueueTypes, proofreadFrameFieldForBatch, verifyNextFrameField
<1>2. ASSUME NEW new, op.item \in Frames /\ k \in Keys => new \in FieldType /\
                           new.text \in {frames[op.item][k].text} \cup Known
      PROVE  LET shown == [frames EXCEPT ![op.item][k] = new] IN
             shown \in Board /\ \A i \in Frames, l \in Keys : shown[i][l].text \in used \cup Known
  <2> DEFINE shown == [frames EXCEPT ![op.item][k] = new]
  <2>1. \A i \in Frames, l \in Keys :
           shown[i][l] = IF i = op.item /\ l = k THEN new ELSE frames[i][l]
    BY <1>1 DEF Board
  <2>2. shown \in Board
    BY <1>1, <1>2 DEF Board
  <2> HIDE DEF shown
  <2>3. \A i \in Frames, l \in Keys : shown[i][l].text \in used \cup Known
    BY <1>1, <1>2, <2>1 DEF TextsHold
  <2> QED
    BY <2>2, <2>3 DEF shown
<1>3. CASE proofreadFrameFieldForBatch(b)
  <2> DEFINE new == Field(IF b THEN "ai" ELSE frames[op.item][k].text, "ai")
             shown == [frames EXCEPT ![op.item][k] = Field(IF b THEN "ai" ELSE @.text, "ai")]
  <2>1. op.item \in Frames /\ k \in Keys => new \in FieldType /\
           new.text \in {frames[op.item][k].text} \cup Known
    BY <1>1 DEF Board, Field, FieldType, Known
  <2>2. shown = [frames EXCEPT ![op.item][k] = new]
    OBVIOUS
  <2>3. shown \in Board /\ \A i \in Frames, l \in Keys : shown[i][l].text \in used \cup Known
    BY <1>2, <2>1, <2>2
  <2>4. /\ isUnchanged
        /\ \/ Ended(shown, recordAppliedFrameSnapshot(op.item, shown[op.item]))
           \/ /\ frames' = shown
              /\ op' = [op EXCEPT !.index = @ + 1, !.context = shown, !.state = "idle",
                                  !.applied = recordAppliedFrameSnapshot(op.item, shown[op.item])]
    BY <1>3 DEF proofreadFrameFieldForBatch
  <2> HIDE DEF shown
  <2> QED
    BY <1>1, <2>3, <2>4, AnswerKeepsQueue
<1>4. CASE verifyNextFrameField(b)
  <2> DEFINE new == Field(IF b THEN "fixed" ELSE frames[op.item][k].text, "local")
             shown == [frames EXCEPT ![op.item][k] = Field(IF b THEN "fixed" ELSE @.text, "local")]
  <2>1. op.item \in Frames /\ k \in Keys => new \in FieldType /\
           new.text \in {frames[op.item][k].text} \cup Known
    BY <1>1 DEF Board, Field, FieldType, Known
  <2>2. shown = [frames EXCEPT ![op.item][k] = new]
    OBVIOUS
  <2>3. shown \in Board /\ \A i \in Frames, l \in Keys : shown[i][l].text \in used \cup Known
    BY <1>2, <2>1, <2>2
  <2>4. CASE isUnchanged
    <3>1. frames' = shown /\
          op' = [op EXCEPT !.state = "sent", !.cancelled = FALSE, !.context = shown,
                           !.applied = recordAppliedFrameSnapshot(op.item, shown[op.item])]
      BY <1>4, <2>4 DEF verifyNextFrameField
    <3> HIDE DEF shown
    <3> QED
      BY <1>1, <2>3, <2>4, <3>1, AnswerKeepsQueue
  <2>5. CASE ~isUnchanged
    <3>1. op' = None /\ frames' = frames
      BY <1>4, <2>5 DEF verifyNextFrameField
    <3> QED
      BY <1>1, <3>1, SameTexts DEF QueueInv, QueueTypes, TextsHold, HandEditsSurvive
  <2> QED
    BY <2>4, <2>5
<1> QED
  BY <1>3, <1>4

LEMMA FailureKeepsQueue == ASSUME QueueInv, generateFails PROVE QueueInv'
<1>1. op # None /\ Ended(frames, op.applied) /\ UNCHANGED << check, used, hand >> /\ frames \in Board
  BY DEF QueueInv, QueueTypes, generateFails
<1>2. \A i \in Frames : op.applied[i] # None => IsOlder(op.applied[i], i)
  BY <1>1, SameOperation
<1> QED
  BY <1>1, <1>2, EndKeepsQueue DEF QueueInv, TextsHold, HandEditsSurvive

LEMMA ButtonSteps ==
    ASSUME QueueInv, generate \/ closeFrameBatch \/ cancelFrameBatch \/ sendProofread
    PROVE  QueueInv'
<1>1. op # None /\ UNCHANGED << check, used, hand >> /\ frames \in Board /\ op \in OperationType
      /\ (check' # None => check' \in Frames \X Keys)
  BY SameOperation DEF QueueInv, QueueTypes, generate, closeFrameBatch, cancelFrameBatch, sendProofread
<1>2. CASE frames' = frames /\ op' = None
  BY <1>1, <1>2, SameTexts DEF QueueInv, TextsHold, HandEditsSurvive
<1>3. ASSUME NEW s \in {"idle", "sent", "asking"}, NEW c \in BOOLEAN, NEW e \in BOOLEAN,
             frames' = frames, op' = [op EXCEPT !.state = s, !.cancelled = c, !.close = e]
      PROVE  QueueInv'
  <2>1. op' \in OperationType /\ op'.context = op.context /\ op'.applied = op.applied /\ op'.original = op.original
    BY <1>1, <1>3 DEF OperationType
  <2> QED
    BY <1>1, <1>3, <2>1, SameTexts, SameOperation DEF QueueInv, TextsHold, HandEditsSurvive
<1>4. op = [op EXCEPT !.state = op.state, !.cancelled = op.cancelled, !.close = op.close]
      /\ op.state \in {"idle", "sent", "asking"} /\ op.cancelled \in BOOLEAN /\ op.close \in BOOLEAN
  BY <1>1 DEF OperationType
<1>5. CASE generate
  <2>1. CASE isUnchanged
    <3>1. frames' = frames /\ op' = [op EXCEPT !.state = "sent", !.cancelled = FALSE, !.close = FALSE]
      BY <1>5, <2>1 DEF generate
    <3> QED
      BY <3>1, <1>3
  <2> QED
    BY <1>2, <1>5, <2>1 DEF generate
<1>6. CASE closeFrameBatch
  <2>1. CASE op.state = "idle"
    BY <1>2, <1>6, <2>1 DEF closeFrameBatch
  <2>2. CASE op.state # "idle"
    <3> DEFINE c == IF op.kind = "batch" THEN FALSE ELSE op.cancelled
    <3>1. op' = [op EXCEPT !.close = TRUE, !.cancelled = c] /\ frames' = frames
      BY <1>6, <2>2 DEF closeFrameBatch
    <3>2. op' = [op EXCEPT !.state = op.state, !.cancelled = c, !.close = TRUE]
      BY <1>1, <3>1 DEF OperationType
    <3>3. c \in BOOLEAN
      BY <1>4
    <3> HIDE DEF c
    <3> QED
      BY <1>3, <1>4, <3>1, <3>2, <3>3
  <2> QED
    BY <2>1, <2>2
<1>7. CASE cancelFrameBatch
  <2>1. CASE op.state = "idle"
    <3>1. frames' = restoreFrameSnapshot(frames, op.applied) /\ op' = None
      BY <1>7, <2>1 DEF cancelFrameBatch
    <3>2. \A i \in Frames : op.applied[i] # None => IsOlder(op.applied[i], i)
      BY <1>1, SameOperation
    <3>3. LET back == restoreFrameSnapshot(frames, op.applied) IN
           /\ back \in Board
           /\ \A i \in Frames, k \in Keys :
                 /\ back[i][k].text \in used \cup Known
                 /\ hand[i][k] # None => back[i][k].text = hand[i][k]
      BY <1>1, <3>2, RestoreHolds DEF QueueInv, TextsHold, HandEditsSurvive
    <3> QED
      BY <1>1, <3>1, <3>3, SameTexts
  <2>2. CASE op.state # "idle"
    <3>1. op' = [op EXCEPT !.cancelled = TRUE] /\ frames' = frames
      BY <1>7, <2>2 DEF cancelFrameBatch
    <3>2. op' = [op EXCEPT !.state = op.state, !.cancelled = TRUE, !.close = op.close]
      BY <1>1, <3>1 DEF OperationType
    <3> QED
      BY <1>3, <1>4, <3>1, <3>2
  <2> QED
    BY <2>1, <2>2
<1>8. CASE sendProofread
  <2>1. op' = [op EXCEPT !.state = "sent"] /\ frames' = frames
    BY <1>8 DEF sendProofread
  <2>2. op' = [op EXCEPT !.state = "sent", !.cancelled = op.cancelled, !.close = op.close]
    BY <1>1, <2>1 DEF OperationType
  <2> QED
    BY <1>3, <1>4, <2>1, <2>2
<1> QED
  BY <1>5, <1>6, <1>7, <1>8

LEMMA ProofreadSteps ==
    ASSUME QueueInv, proofreadAnswer \/ \E b \in BOOLEAN : applyProofread(b)
    PROVE  QueueInv'
<1>1. op # None /\ UNCHANGED << check, used >> /\ frames \in Board /\ op \in OperationType
      /\ (check' # None => check' \in Frames \X Keys) /\ TextsHold /\ HandEditsSurvive
      /\ hand \in [Frames -> [Keys -> Typed \cup {None}]]
  BY SameOperation DEF QueueInv, QueueTypes, proofreadAnswer, applyProofread
<1>2. CASE proofreadAnswer
  <2>1. CASE frames' = [frames EXCEPT ![op.item][op.key].quality = "ai"] /\ op' = None
    <3>1. \A i \in Frames : frames[i] \in [Keys -> FieldType] /\ \A l \in Keys : frames[i][l] \in FieldType
      BY <1>1 DEF Board
    <3>2. \A x \in FieldType : [x EXCEPT !.quality = "ai"] \in FieldType /\ [x EXCEPT !.quality = "ai"].text = x.text
      BY DEF FieldType
    <3>3. frames' \in Board
      BY <1>1, <2>1, <3>1, <3>2 DEF Board
    <3>4. \A i \in Frames, l \in Keys : frames'[i][l].text = frames[i][l].text
      <4>1. ASSUME NEW i \in Frames, NEW l \in Keys PROVE frames'[i][l].text = frames[i][l].text
        <5>1. frames'[i][l] = frames[i][l] \/ frames'[i][l] = [frames[i][l] EXCEPT !.quality = "ai"]
          BY <1>1, <2>1, <3>1 DEF Board
        <5> QED
          BY <3>1, <3>2, <5>1
      <4> QED
        BY <4>1
    <3> QED
      BY <1>1, <1>2, <2>1, <3>3, <3>4, SameTexts DEF proofreadAnswer, TextsHold, HandEditsSurvive
  <2>2. CASE frames' = frames /\ op' = [op EXCEPT !.state = "asking"]
    <3>1. op' \in OperationType /\ op'.context = op.context /\ op'.applied = op.applied /\ op'.original = op.original
      BY <1>1, <2>2 DEF OperationType
    <3> QED
      BY <1>1, <1>2, <2>2, <3>1, SameTexts, SameOperation DEF proofreadAnswer, TextsHold, HandEditsSurvive
  <2> QED
    BY <1>2, <2>1, <2>2 DEF proofreadAnswer
<1>3. ASSUME NEW b \in BOOLEAN, applyProofread(b) PROVE QueueInv'
  <2>1. CASE UNCHANGED << frames, hand >>
    BY <1>1, <1>3, <2>1, SameTexts DEF applyProofread, TextsHold, HandEditsSurvive
  <2>2. CASE /\ frames' = [frames EXCEPT ![op.item][op.key] = Field("ai", "ai")]
             /\ hand' = [hand EXCEPT ![op.item][op.key] = None]
    <3>1. Field("ai", "ai") \in FieldType /\ Field("ai", "ai").text = "ai"
      BY DEF Field, FieldType, Known
    <3>2. frames' \in Board /\ hand' \in [Frames -> [Keys -> Typed \cup {None}]]
      BY <1>1, <2>2, <3>1 DEF Board
    <3>3. \A i \in Frames, l \in Keys :
             /\ frames'[i][l] = IF i = op.item /\ l = op.key THEN Field("ai", "ai") ELSE frames[i][l]
             /\ hand'[i][l] = IF i = op.item /\ l = op.key THEN None ELSE hand[i][l]
      BY <1>1, <2>2 DEF Board
    <3>4. op' = None
      BY <1>3 DEF applyProofread
    <3>5. QueueTypes' /\ TextsHold' /\ HandEditsSurvive'
      <4>1. QueueTypes'
        BY <1>1, <3>2 DEF QueueInv, QueueTypes
      <4>2. TextsHold' /\ HandEditsSurvive'
        BY <1>1, <3>1, <3>3 DEF TextsHold, HandEditsSurvive, Known
      <4> QED
        BY <4>1, <4>2
    <3> QED
      BY <3>4, <3>5 DEF QueueInv, OperationHolds
  <2> QED
    BY <1>3, <2>1, <2>2 DEF applyProofread
<1> QED
  BY <1>2, <1>3

\* What the teacher types while an operation is under way stays, for any number of
\* frames, fields, texts and operations.
THEOREM HandEditsSurviveAlways == FrameQueueSpec => []HandEditsSurvive
<1>1. FrameQueueInit => QueueInv
  <2> SUFFICES ASSUME FrameQueueInit PROVE QueueInv
    OBVIOUS
  <2>1. Field("stored", "none") \in FieldType /\ Field("stored", "none").text = "stored"
    BY DEF Field, FieldType, Known
  <2>2. frames \in Board /\ hand \in [Frames -> [Keys -> Typed \cup {None}]]
        /\ used = {} /\ check = None /\ op = None
    BY <2>1 DEF FrameQueueInit, Board, Stored, Nothing
  <2>3. \A i \in Frames, k \in Keys : frames[i][k].text = "stored" /\ hand[i][k] = None
    BY <2>1 DEF FrameQueueInit, Stored, Nothing
  <2> QED
    BY <2>2, <2>3 DEF QueueInv, QueueTypes, TextsHold, OperationHolds, HandEditsSurvive, Known
<1>2. QueueInv /\ [FrameQueueNext]_frameQueueVars => QueueInv'
  <2> SUFFICES ASSUME QueueInv, [FrameQueueNext]_frameQueueVars PROVE QueueInv'
    OBVIOUS
  <2>1. CASE UNCHANGED frameQueueVars
    BY <2>1 DEF frameQueueVars, frameQueueState, QueueInv, QueueTypes, TextsHold, OperationHolds,
                IsOlder, HandEditsSurvive
  <2>2. ASSUME NEW i \in Frames, NEW k \in Keys, proofreadTextWithAi(i, k) PROVE QueueInv'
    BY <2>2, StartKeepsQueue DEF proofreadTextWithAi
  <2>3. ASSUME NEW i \in Frames, fillSingleFrameWithAi(i) \/ verifyEntireFrame(i) PROVE QueueInv'
    BY <2>3, StartKeepsQueue DEF fillSingleFrameWithAi, verifyEntireFrame
  <2>4. CASE openFrameBatchQueue
    BY <2>4, StartKeepsQueue DEF openFrameBatchQueue
  <2> QED
    BY <2>1, <2>2, <2>3, <2>4, TypeKeepsQueue, ReloadKeepsQueue, LocalChecks, GenerateSteps, VerifySteps,
       FailureKeepsQueue, ButtonSteps, ProofreadSteps DEF FrameQueueNext
<1>3. QueueInv => HandEditsSurvive
  BY DEF QueueInv
<1> QED
  BY <1>1, <1>2, <1>3, PTL DEF FrameQueueSpec

-----------------------------------------------------------------------------
(***************************************************************************)
(* Importing activities from a public course (ActivityImport)               *)
(***************************************************************************)

\* An active revision is in the history.
IsComplete(c) == \A a \in Activities : c.active[a] # None => c.active[a] \in c.history

Publishing == {"syncPackage", "replace", "syncRegistry"}

\* The registry that a publication is about to write is complete, and names no file that
\* is not there, or, once the package is synced, on disk.
PublicationHolds(s) ==
    slot[s].pc \in Publishing =>
        /\ courseLock = s
        /\ slot[s] = [pc |-> slot[s].pc, token |-> slot[s].token, registry |-> slot[s].registry]
        /\ slot[s].pc = "syncPackage" =>
              IsComplete(slot[s].registry) /\ slot[s].registry.history \subseteq packages.now
        /\ slot[s].pc = "replace" =>
              /\ IsComplete(slot[s].registry)
              /\ \A p \in packages.after : slot[s].registry.history \subseteq p

ImportInv ==
    /\ registry.now \in registry.after /\ packages.now \in packages.after
    /\ slot = [s \in Slots |-> slot[s]]
    /\ HistoryIsOnDisk
    /\ \A s \in Slots : PublicationHolds(s)

\* A step that leaves the disk alone, and takes no publication further.
LEMMA OtherRequest ==
    ASSUME ImportInv, UNCHANGED << registry, packages, courseLock >>,
           NEW s \in Slots, NEW c, slot' = [slot EXCEPT ![s] = c],
           c.pc \notin Publishing, slot[s].pc \notin Publishing
    PROVE  ImportInv'
<1>1. \A q \in Slots : slot'[q] = IF q = s THEN c ELSE slot[q]
  BY DEF ImportInv
<1>2. slot' = [q \in Slots |-> slot'[q]]
  BY DEF ImportInv
<1>3. \A q \in Slots : PublicationHolds(q)'
  BY <1>1 DEF ImportInv, PublicationHolds, IsComplete
<1> QED
  BY <1>2, <1>3 DEF ImportInv, HistoryIsOnDisk

\* A publication goes on: the others are not publishing.
LEMMA PublicationStep ==
    ASSUME ImportInv, NEW s \in Slots, courseLock \in {None, s}, NEW c, slot' = [slot EXCEPT ![s] = c],
           registry'.now \in registry'.after, packages'.now \in packages'.after,
           HistoryIsOnDisk', PublicationHolds(s)'
    PROVE  ImportInv'
<1>1. slot' = [q \in Slots |-> slot'[q]] /\ \A q \in Slots \ {s} : slot'[q] = slot[q]
  BY DEF ImportInv
<1>2. \A q \in Slots \ {s} : slot[q].pc \notin Publishing
  BY ImportAssumption DEF ImportInv, PublicationHolds
<1>3. \A q \in Slots : PublicationHolds(q)'
  BY <1>1, <1>2 DEF PublicationHolds
<1> QED
  BY <1>1, <1>3 DEF ImportInv

LEMMA PreviewKeepsImport ==
    ASSUME ImportInv, NEW s \in Slots,
           \/ \E from \in Sources, ids \in SUBSET Activities \ {{}} : preview(s, from, ids)
           \/ preview_compare(s)
    PROVE  ImportInv'
<1>1. ASSUME NEW from \in Sources, NEW ids \in SUBSET Activities \ {{}}, preview(s, from, ids)
      PROVE  ImportInv'
  <2> DEFINE c == [pc |-> "compare", source |-> from, ids |-> ids,
                   snapshot |-> registry.now, local |-> localDrafts]
  <2>1. /\ slot[s].pc = "idle" /\ slot' = [slot EXCEPT ![s] = c]
        /\ UNCHANGED << registry, packages, courseLock >>
    BY <1>1 DEF preview
  <2>2. c.pc \notin Publishing /\ slot[s].pc \notin Publishing
    BY <2>1 DEF Publishing
  <2> HIDE DEF c
  <2> QED
    BY <2>1, <2>2, OtherRequest
<1>2. CASE preview_compare(s)
  <2>1. /\ slot[s].pc = "compare" /\ slot' = [slot EXCEPT ![s] = IdleSlot]
        /\ UNCHANGED << registry, packages, courseLock >>
    BY <1>2 DEF preview_compare
  <2>2. IdleSlot.pc \notin Publishing /\ slot[s].pc \notin Publishing
    BY <2>1 DEF Publishing, IdleSlot
  <2> QED
    BY <2>1, <2>2, OtherRequest
<1> QED
  BY <1>1, <1>2

LEMMA PublishKeepsImport ==
    ASSUME ImportInv, NEW s \in Slots, NEW t \in Tokens, publish(s, t)
    PROVE  ImportInv'
<1> DEFINE b == previews[t]
           changed == {a \in DOMAIN b.status : b.status[a] # "unchanged"}
           number == 1 + Cardinality({r.package : r \in packages.now})
           added == {[id |-> a, source |-> b.source, package |-> number] : a \in changed}
           new == [active |-> [a \in Activities |->
                                 IF a \in changed
                                 THEN [id |-> a, source |-> b.source, package |-> number]
                                 ELSE registry.now.active[a]],
                   history |-> registry.now.history \cup added,
                   operations |-> registry.now.operations \cup {t}]
           c == [pc |-> IF changed = {} THEN "replace" ELSE "syncPackage",
                 token |-> t, registry |-> new]
<1>1. courseLock = None /\ UNCHANGED registry
      /\ registry.now \in registry.after /\ packages.now \in packages.after /\ HistoryIsOnDisk
  BY DEF publish, ImportInv
<1>2. CASE UNCHANGED << courseLock, slot, packages >>
  BY <1>1, <1>2 DEF ImportInv, PublicationHolds, HistoryIsOnDisk, IsComplete
<1>3. CASE /\ courseLock' = s /\ slot' = [slot EXCEPT ![s] = c]
           /\ packages' = IF changed = {} THEN packages ELSE Changed(packages, packages.now \cup added)
  <2>1. IsComplete(registry.now) /\ \A p \in packages.after : registry.now.history \subseteq p
    BY <1>1 DEF HistoryIsOnDisk, IsComplete
  <2>2. IsComplete(new)
    <3>1. ASSUME NEW a \in Activities, new.active[a] # None PROVE new.active[a] \in new.history
      <4>1. CASE a \in changed
        BY <4>1
      <4>2. CASE a \notin changed
        BY <2>1, <3>1, <4>2 DEF IsComplete
      <4> QED
        BY <4>1, <4>2
    <3> HIDE DEF new
    <3> QED
      BY <3>1 DEF IsComplete
  <2>3. /\ packages'.now \in packages'.after
        /\ \A p \in packages'.after : p \in packages.after \/ packages.now \subseteq p
        /\ changed # {} => new.history \subseteq packages'.now
        /\ changed = {} => new.history = registry.now.history /\ packages' = packages
    <3>1. CASE changed = {}
      <4>1. added = {}
        BY <3>1
      <4> HIDE DEF added, changed
      <4> QED
        BY <1>1, <1>3, <3>1, <4>1
    <3>2. CASE changed # {}
      <4>1. packages' = [now |-> packages.now \cup added,
                         after |-> packages.after \cup {packages.now \cup added}]
        BY <1>3, <3>2 DEF Changed
      <4>2. registry.now.history \subseteq packages.now
        BY <1>1, <2>1
      <4> HIDE DEF added, changed
      <4> QED
        BY <3>2, <4>1, <4>2
    <3> QED
      BY <3>1, <3>2
  <2>4. HistoryIsOnDisk'
    BY <1>1, <2>3 DEF HistoryIsOnDisk
  <2>5. slot'[s] = c
    BY <1>3 DEF ImportInv
  <2>6. c = [pc |-> c.pc, token |-> c.token, registry |-> c.registry] /\ c.registry = new
        /\ c.pc = (IF changed = {} THEN "replace" ELSE "syncPackage")
    OBVIOUS
  <2> HIDE DEF c, new, changed
  <2>7. PublicationHolds(s)'
    <3>1. CASE changed = {}
      BY <1>3, <2>1, <2>2, <2>3, <2>5, <2>6, <3>1 DEF PublicationHolds, IsComplete
    <3>2. CASE changed # {}
      BY <1>3, <2>2, <2>3, <2>5, <2>6, <3>2 DEF PublicationHolds, IsComplete
    <3> QED
      BY <3>1, <3>2
  <2> QED
    BY <1>1, <1>3, <2>3, <2>4, <2>7, PublicationStep
<1> QED
  BY <1>2, <1>3 DEF publish

LEMMA SyncPackageKeepsImport ==
    ASSUME ImportInv, NEW s \in Slots, publish_sync_package(s)
    PROVE  ImportInv'
<1>1. /\ slot[s].pc = "syncPackage" /\ PublicationHolds(s) /\ courseLock = s /\ UNCHANGED registry
      /\ registry.now \in registry.after /\ packages.now \in packages.after /\ HistoryIsOnDisk
  BY DEF ImportInv, PublicationHolds, Publishing, publish_sync_package
<1>2. CASE /\ packages' = Synced(packages) /\ slot' = [slot EXCEPT ![s].pc = "replace"] /\ UNCHANGED courseLock
  <2> DEFINE c == [slot[s] EXCEPT !.pc = "replace"]
  <2>1. c = [pc |-> "replace", token |-> slot[s].token, registry |-> slot[s].registry]
    BY <1>1 DEF PublicationHolds, Publishing
  <2>2. slot' = [slot EXCEPT ![s] = c] /\ slot'[s] = c
    BY <1>2 DEF ImportInv
  <2>3. packages'.now \in packages'.after /\ packages'.after = {packages.now} /\ HistoryIsOnDisk'
    BY <1>1, <1>2 DEF Synced, OnDisk, HistoryIsOnDisk
  <2>4. IsComplete(slot[s].registry) /\ slot[s].registry.history \subseteq packages.now
    BY <1>1 DEF PublicationHolds, Publishing
  <2> HIDE DEF c
  <2>5. PublicationHolds(s)'
    BY <1>1, <1>2, <2>1, <2>2, <2>3, <2>4 DEF PublicationHolds, IsComplete
  <2> QED
    BY <1>1, <2>2, <2>3, <2>5, PublicationStep
<1>3. CASE LeaveImport(s) /\ UNCHANGED packages
  <2>1. slot' = [slot EXCEPT ![s] = IdleSlot] /\ slot'[s].pc \notin Publishing
    BY <1>3 DEF LeaveImport, IdleSlot, Publishing, ImportInv
  <2> QED
    BY <1>1, <1>3, <2>1, PublicationStep DEF PublicationHolds, HistoryIsOnDisk
<1> QED
  BY <1>2, <1>3 DEF publish_sync_package

LEMMA WriteKeepsImport ==
    ASSUME ImportInv, NEW s \in Slots, write(s)
    PROVE  ImportInv'
<1>1. /\ slot[s].pc = "replace" /\ PublicationHolds(s) /\ courseLock = s /\ UNCHANGED packages
      /\ registry.now \in registry.after /\ packages.now \in packages.after /\ HistoryIsOnDisk
  BY DEF ImportInv, PublicationHolds, Publishing, write
<1>2. CASE /\ registry' = Changed(registry, slot[s].registry) /\ slot' = [slot EXCEPT ![s].pc = "syncRegistry"]
           /\ UNCHANGED courseLock
  <2> DEFINE c == [slot[s] EXCEPT !.pc = "syncRegistry"]
  <2>1. c = [pc |-> "syncRegistry", token |-> slot[s].token, registry |-> slot[s].registry]
    BY <1>1 DEF PublicationHolds, Publishing
  <2>2. slot' = [slot EXCEPT ![s] = c] /\ slot'[s] = c
    BY <1>2 DEF ImportInv
  <2>3. registry'.now \in registry'.after /\ registry'.after = registry.after \cup {slot[s].registry}
    BY <1>2 DEF Changed
  <2>4. IsComplete(slot[s].registry) /\ \A p \in packages.after : slot[s].registry.history \subseteq p
    BY <1>1 DEF PublicationHolds, Publishing
  <2>5. HistoryIsOnDisk'
    BY <1>1, <2>3, <2>4 DEF HistoryIsOnDisk, IsComplete
  <2> HIDE DEF c
  <2>6. PublicationHolds(s)'
    BY <1>1, <1>2, <2>1, <2>2 DEF PublicationHolds
  <2> QED
    BY <1>1, <2>2, <2>3, <2>5, <2>6, PublicationStep
<1>3. CASE LeaveImport(s) /\ UNCHANGED registry
  <2>1. slot' = [slot EXCEPT ![s] = IdleSlot] /\ slot'[s].pc \notin Publishing
    BY <1>3 DEF LeaveImport, IdleSlot, Publishing, ImportInv
  <2> QED
    BY <1>1, <1>3, <2>1, PublicationStep DEF PublicationHolds, HistoryIsOnDisk
<1> QED
  BY <1>2, <1>3 DEF write

LEMMA FinishKeepsImport ==
    ASSUME ImportInv, NEW s \in Slots, publish_finish(s)
    PROVE  ImportInv'
<1>1. /\ slot[s].pc = "syncRegistry" /\ courseLock = s /\ UNCHANGED packages
      /\ registry.now \in registry.after /\ packages.now \in packages.after /\ HistoryIsOnDisk
  BY DEF ImportInv, PublicationHolds, Publishing, publish_finish
<1>2. slot' = [slot EXCEPT ![s] = IdleSlot] /\ slot'[s].pc \notin Publishing
  BY DEF publish_finish, LeaveImport, IdleSlot, Publishing, ImportInv
<1>3. /\ registry'.now = registry.now /\ registry'.now \in registry'.after
      /\ registry'.after \subseteq registry.after
  BY <1>1 DEF publish_finish, Synced, OnDisk
<1>4. HistoryIsOnDisk'
  BY <1>1, <1>3 DEF HistoryIsOnDisk
<1> QED
  BY <1>1, <1>2, <1>3, <1>4, PublicationStep DEF PublicationHolds

LEMMA RestartKeepsImport == ASSUME ImportInv, ImportRestart PROVE ImportInv'
<1>1. /\ slot' = [s \in Slots |-> IdleSlot] /\ \A s \in Slots : slot'[s].pc \notin Publishing
      /\ slot' = [s \in Slots |-> slot'[s]]
  BY DEF ImportRestart, IdleSlot, Publishing
<1>2. /\ registry'.now \in registry'.after /\ packages'.now \in packages'.after
      /\ registry'.after \subseteq registry.after /\ packages'.after \subseteq packages.after
  <2>1. CASE UNCHANGED << registry, packages >>
    BY <2>1 DEF ImportInv
  <2>2. CASE /\ \E c \in registry.after : registry' = OnDisk(c)
             /\ \E c \in packages.after : packages' = OnDisk(c)
    BY <2>2 DEF OnDisk
  <2> QED
    BY <2>1, <2>2 DEF ImportRestart
<1>3. HistoryIsOnDisk'
  BY <1>2 DEF ImportInv, HistoryIsOnDisk
<1> QED
  BY <1>1, <1>2, <1>3 DEF ImportInv, PublicationHolds

\* Whatever a power loss leaves, the registry names no revision whose files are missing:
\* for any number of activities, sources, previews, requests and failures.
THEOREM HistoryIsOnDiskAlways == ImportSpec => []HistoryIsOnDisk
<1>1. ImportInit => ImportInv
  <2> SUFFICES ASSUME ImportInit PROVE ImportInv
    OBVIOUS
  <2>1. registry.now = EmptyRegistry /\ registry.after = {EmptyRegistry}
        /\ packages.now = {} /\ packages.after = {{}}
    BY DEF ImportInit, OnDisk
  <2>2. EmptyRegistry.history = {} /\ \A a \in Activities : EmptyRegistry.active[a] = None
    BY DEF EmptyRegistry
  <2>3. HistoryIsOnDisk
    BY <2>1, <2>2 DEF HistoryIsOnDisk
  <2>4. slot = [s \in Slots |-> slot[s]] /\ \A s \in Slots : slot[s].pc \notin Publishing
    BY DEF ImportInit, IdleSlot, Publishing
  <2> QED
    BY <2>1, <2>3, <2>4 DEF ImportInv, PublicationHolds
<1>2. ImportInv /\ [ImportNext]_importVars => ImportInv'
  <2> SUFFICES ASSUME ImportInv, [ImportNext]_importVars PROVE ImportInv'
    OBVIOUS
  <2>1. CASE UNCHANGED << registry, packages, slot, courseLock >>
    BY <2>1 DEF ImportInv, HistoryIsOnDisk, PublicationHolds, IsComplete
  <2>2. ASSUME NEW t \in Tokens, discard(t) PROVE ImportInv'
    BY <2>1, <2>2 DEF discard
  <2>3. CASE LocalChange
    BY <2>1, <2>3 DEF LocalChange
  <2>4. CASE UNCHANGED importVars
    BY <2>1, <2>4 DEF importVars, importState
  <2> QED
    BY <2>2, <2>3, <2>4, PreviewKeepsImport, PublishKeepsImport, SyncPackageKeepsImport, WriteKeepsImport,
       FinishKeepsImport, RestartKeepsImport DEF ImportNext
<1>3. ImportInv => HistoryIsOnDisk
  BY DEF ImportInv
<1> QED
  BY <1>1, <1>2, <1>3, PTL DEF ImportSpec

-----------------------------------------------------------------------------
(***************************************************************************)
(* The removal of a course and its supports (CourseDeletion)                *)
(***************************************************************************)

\* The contents written up to a version.
UpTo(n) == [version : 0..n, born : 0..n] \cup {None}

Staged(x) == {f \in CourseFiles : staging[x].files[f] # None}

\* The transactions whose files belong to the design: those that a recovery undoes, and
\* the one that a failed deletion undoes although it was committed.
Held(x) ==
    /\ x \in Transactions /\ staging[x] # None /\ Staged(x) # {}
    /\ \/ staging[x].state # "committed"
       \/ remover.pc = "rollback" /\ remover.transaction = x

\* The files once x is undone.
Joined(x) == [f \in CourseFiles |-> IF course[f] # None THEN course[f] ELSE staging[x].files[f]]

\* These files are a design with all its calendars, or nothing, and none of them was
\* answered as deleted.
IsWhole(stored) ==
    /\ \A f \in CourseFiles : stored[f] # None => stored[f] \notin toldDeleted
    /\ IF stored[Design] = None
       THEN \A f \in CourseFiles : stored[f] = None
       ELSE \A f \in CourseFiles :
               lastSaved[f] # None /\ lastSaved[f].born = stored[Design].born => stored[f] = lastSaved[f]

RemovalTypeOK ==
    /\ version \in Nat
    /\ course \in [CourseFiles -> UpTo(version)]
    /\ lastSaved \in [CourseFiles -> UpTo(version)]
    /\ toldDeleted \subseteq UpTo(version)
    /\ staging \in [Transactions -> StagingRecords \cup {None}]
    /\ \A x \in Transactions : staging[x] # None => staging[x].files \in [CourseFiles -> UpTo(version)]

\* What the deletion that holds the lock has done.
RemoverHolds ==
    /\ remover.pc \in {"idle", "move", "rollback", "purge", "recover"}
    /\ remover.pc \in {"move", "rollback", "purge"} =>
          remover.transaction \in Transactions /\ staging[remover.transaction] # None
    /\ remover.pc = "move" =>
          /\ staging[remover.transaction].state = "pending"
          /\ remover = [pc |-> "move", transaction |-> remover.transaction,
                        todo |-> {f \in CourseFiles : course[f] # None}]
          /\ course[Design] = None => Held(remover.transaction)
    /\ remover.pc = "rollback" /\ staging[remover.transaction].state = "committed" =>
          Held(remover.transaction) /\ \A f \in CourseFiles : course[f] = None
    /\ remover.pc = "purge" => staging[remover.transaction].state = "committed"

\* At most one transaction holds files, and then the design is one of them.
HeldIsOne ==
    /\ \A x, y \in Transactions : Held(x) /\ Held(y) => x = y
    /\ \A x \in Transactions : Held(x) =>
          Design \in Staged(x) /\ \A f \in Staged(x) : course[f] = None

FilesAreWhole ==
    /\ (\A x \in Transactions : ~Held(x)) => IsWhole(course)
    /\ \A x \in Transactions : Held(x) => IsWhole(Joined(x))

RemovalInv == RemovalTypeOK /\ RemoverHolds /\ HeldIsOne /\ FilesAreWhole

\* A design that is in place is held by no transaction.
LEMMA DesignInPlace ==
    ASSUME RemovalInv, course[Design] # None
    PROVE  (\A x \in Transactions : ~Held(x)) /\ IsWhole(course)
    BY DEF RemovalInv, HeldIsOne, FilesAreWhole

LEMMA WholeImpliesProperty == RemovalInv => DeletionIsAllOrNothing
<1> SUFFICES ASSUME RemovalInv PROVE DeletionIsAllOrNothing
  OBVIOUS
<1>1. ASSUME NEW f \in CourseFiles, course[f] # None PROVE course[f] \notin toldDeleted
  <2>1. CASE \A x \in Transactions : ~Held(x)
    BY <1>1, <2>1 DEF RemovalInv, FilesAreWhole, IsWhole
  <2>2. ASSUME NEW x \in Transactions, Held(x) PROVE course[f] \notin toldDeleted
    <3>1. IsWhole(Joined(x)) /\ Joined(x)[f] = course[f]
      BY <1>1, <2>2 DEF RemovalInv, FilesAreWhole, Joined
    <3> QED
      BY <1>1, <3>1 DEF IsWhole
  <2> QED
    BY <2>1, <2>2
<1>2. ASSUME CourseUnlocked, Interrupted = {} PROVE IsWhole(course)
  <2>1. \A x \in Transactions : ~Held(x)
    BY <1>2 DEF CourseUnlocked, Interrupted, Held
  <2> QED
    BY <2>1 DEF RemovalInv, FilesAreWhole
<1> QED
  BY <1>1, <1>2 DEF DeletionIsAllOrNothing, IsWhole, CourseFiles

\* The last step of a proof: the directories stay, and who holds files.
LEMMA NoFilesMove ==
    ASSUME RemovalInv, UNCHANGED << course, version, lastSaved, toldDeleted >>,
           RemoverHolds',
           staging' \in [Transactions -> StagingRecords \cup {None}],
           \A x \in Transactions : staging'[x] # None => staging'[x].files \in [CourseFiles -> UpTo(version)],
           \A x \in Transactions : Held(x)' <=> Held(x),
           \A x \in Transactions : Held(x) => staging'[x].files = staging[x].files
    PROVE  RemovalInv'
<1>1. ASSUME NEW x \in Transactions, Held(x) PROVE Joined(x)' = Joined(x) /\ Staged(x)' = Staged(x)
  BY <1>1 DEF Joined, Staged
<1>2. \A stored : IsWhole(stored)' <=> IsWhole(stored)
  BY DEF IsWhole
<1>3. RemovalTypeOK'
  BY DEF RemovalInv, RemovalTypeOK
<1>4. HeldIsOne'
  BY <1>1 DEF RemovalInv, HeldIsOne
<1>5. FilesAreWhole'
  BY <1>1, <1>2 DEF RemovalInv, FilesAreWhole
<1> QED
  BY <1>3, <1>4, <1>5 DEF RemovalInv

\* A file is written, and answered, while no transaction holds files.
LEMMA SaveKeepsRemovalInv ==
    ASSUME RemovalInv, \A x \in Transactions : ~Held(x), CourseUnlocked,
           version' = version + 1, NEW f \in CourseFiles, NEW b \in 0..(version + 1),
           Save(f, [version |-> version + 1, born |-> b]),
           IF course[Design] = None THEN f = Design /\ b = version + 1 ELSE b = course[Design].born,
           UNCHANGED << staging, remover, toldDeleted >>
    PROVE  RemovalInv'
<1> DEFINE new == [version |-> version + 1, born |-> b]
<1>1. version \in Nat /\ UpTo(version) \subseteq UpTo(version + 1) /\ new \in UpTo(version + 1)
  BY DEF RemovalInv, RemovalTypeOK, UpTo
<1>2. course' = [course EXCEPT ![f] = new] /\ lastSaved' = [lastSaved EXCEPT ![f] = new]
  BY DEF Save
<1>3. RemovalTypeOK'
  <2>1. course' \in [CourseFiles -> UpTo(version')] /\ lastSaved' \in [CourseFiles -> UpTo(version')]
    BY <1>1, <1>2 DEF RemovalInv, RemovalTypeOK
  <2>2. \A x \in Transactions : staging[x] # None => staging[x].files \in [CourseFiles -> UpTo(version')]
    BY <1>1 DEF RemovalInv, RemovalTypeOK
  <2> QED
    BY <1>1, <2>1, <2>2 DEF RemovalInv, RemovalTypeOK
<1>4. \A x \in Transactions : Held(x)' <=> Held(x)
  BY DEF Held, Staged
<1>5. RemoverHolds' /\ HeldIsOne'
  BY <1>4 DEF RemovalInv, RemoverHolds, HeldIsOne, CourseUnlocked
<1>6. IsWhole(course)'
  <2>1. IsWhole(course) /\ new # None /\ new.born = b /\ new.version = version + 1
    BY <1>1, DeletionAssumption DEF RemovalInv, FilesAreWhole, FileVersions
  <2>2. new \notin toldDeleted
    BY <1>1, <2>1 DEF RemovalInv, RemovalTypeOK, UpTo
  <2>3. course \in [CourseFiles -> UpTo(version)] /\ lastSaved \in [CourseFiles -> UpTo(version)]
        /\ Design \in CourseFiles
    BY DEF RemovalInv, RemovalTypeOK, CourseFiles
  <2>4. \A g \in CourseFiles : course'[g] # None => course'[g] \notin toldDeleted
    BY <1>2, <2>1, <2>2, <2>3 DEF IsWhole
  <2>5. CASE course[Design] = None
    <3>1. \A g \in CourseFiles : lastSaved[g] # None => lastSaved[g].born # version + 1
      BY <1>1, <2>3 DEF UpTo
    <3>2. course'[Design] = new /\ f = Design
      BY <1>2, <2>3, <2>5
    <3> QED
      BY <1>2, <2>1, <2>3, <2>4, <3>1, <3>2 DEF IsWhole
  <2>6. CASE course[Design] # None
    <3>1. course'[Design] # None /\ course'[Design].born = course[Design].born
      BY <1>2, <2>1, <2>3, <2>6
    <3> QED
      BY <1>2, <2>1, <2>3, <2>4, <2>6, <3>1 DEF IsWhole
  <2> QED
    BY <2>5, <2>6
<1> QED
  BY <1>3, <1>4, <1>5, <1>6 DEF RemovalInv, FilesAreWhole

LEMMA DesignKeepsRemovalInv == ASSUME RemovalInv, write_saved_design PROVE RemovalInv'
<1>1. \A x \in Transactions : ~Held(x)
  BY DEF write_saved_design, CourseUnlocked, Interrupted, Held
<1>2. version \in Nat /\ Design \in CourseFiles /\ course[Design] \in UpTo(version)
  BY DEF RemovalInv, RemovalTypeOK, CourseFiles
<1> DEFINE b == IF course[Design] = None THEN version + 1 ELSE course[Design].born
<1>3. b \in 0..(version + 1)
  BY <1>2 DEF UpTo
<1> HIDE DEF b
<1>4. Save(Design, [version |-> version + 1, born |-> b])
  BY DEF write_saved_design, b
<1>5. IF course[Design] = None THEN Design = Design /\ b = version + 1 ELSE b = course[Design].born
  BY DEF b
<1> QED
  BY <1>1, <1>2, <1>3, <1>4, <1>5, SaveKeepsRemovalInv DEF write_saved_design

LEMMA CalendarKeepsRemovalInv ==
    ASSUME RemovalInv, NEW f \in Calendars, write_school_calendar(f) PROVE RemovalInv'
<1>1. \A x \in Transactions : ~Held(x)
  BY DesignInPlace DEF write_school_calendar
<1>2. version \in Nat /\ f \in CourseFiles /\ Design \in CourseFiles /\ course[Design] \in UpTo(version)
  BY DEF RemovalInv, RemovalTypeOK, CourseFiles
<1>3. course[Design].born \in 0..(version + 1) /\ course[Design] # None
  BY <1>2 DEF UpTo, write_school_calendar
<1> QED
  BY <1>1, <1>2, <1>3, SaveKeepsRemovalInv DEF write_school_calendar

\* No transaction holds files only because a rollback is under way.
Settled == remover.pc = "rollback" => staging[remover.transaction].state # "committed"

LEMMA SettledHolds ==
    ASSUME RemovalInv, Settled, NEW x \in Transactions
    PROVE  Held(x) <=> staging[x] # None /\ Staged(x) # {} /\ staging[x].state # "committed"
    BY DEF Held, Settled

\* A transaction directory goes that holds nothing of the design's.
LEMMA GoneKeepsRemovalInv ==
    ASSUME RemovalInv, Settled, NEW x \in Transactions, ~Held(x), staging' = [staging EXCEPT ![x] = None],
           remover'.pc = "idle" \/ (remover.pc = "recover" /\ remover' = remover),
           UNCHANGED << course, version, lastSaved, toldDeleted >>
    PROVE  RemovalInv'
<1>1. \A y \in Transactions : y # x => staging'[y] = staging[y] /\ Staged(y)' = Staged(y)
  BY DEF RemovalInv, RemovalTypeOK, Staged
<1>2. staging'[x] = None /\ remover'.pc \in {"idle", "recover"}
  BY DEF RemovalInv, RemovalTypeOK
<1>3. \A y \in Transactions : Held(y)' <=> Held(y)
  BY <1>1, <1>2, SettledHolds DEF Held
<1>4. RemoverHolds'
  BY <1>2 DEF RemoverHolds
<1>5. \A y \in Transactions : Held(y) => staging'[y].files = staging[y].files
  BY <1>1, <1>2, <1>3 DEF Held
<1>6. staging' \in [Transactions -> StagingRecords \cup {None}]
      /\ \A y \in Transactions : staging'[y] # None => staging'[y].files \in [CourseFiles -> UpTo(version)]
  BY <1>1, <1>2 DEF RemovalInv, RemovalTypeOK
<1> QED
  BY <1>3, <1>4, <1>5, <1>6, NoFilesMove

\* The lock is taken for a recovery, or given back.
LEMMA LockKeepsRemovalInv ==
    ASSUME RemovalInv, Settled, remover'.pc \in {"idle", "recover"},
           UNCHANGED << course, staging, version, lastSaved, toldDeleted >>
    PROVE  RemovalInv'
<1>1. \A x \in Transactions : Held(x)' <=> Held(x)
  BY SettledHolds DEF Held, Staged
<1>2. RemoverHolds'
  BY DEF RemoverHolds
<1> QED
  BY <1>1, <1>2, NoFilesMove DEF RemovalInv, RemovalTypeOK

LEMMA StopKeepsRemovalInv == ASSUME RemovalInv, CourseServerStops PROVE RemovalInv'
<1> DEFINE t == remover.transaction
<1>1. CASE Settled
  BY <1>1, LockKeepsRemovalInv DEF CourseServerStops, NoRemoval
<1>2. CASE ~Settled
  <2>1. Held(t) /\ t \in Transactions /\ staging[t].state = "committed" /\ \A f \in CourseFiles : course[f] = None
    BY <1>2 DEF Settled, RemovalInv, RemoverHolds
  <2>2. \A x \in Transactions : ~Held(x)'
    BY <2>1 DEF RemovalInv, HeldIsOne, CourseServerStops, NoRemoval, Held, Staged
  <2>3. IsWhole(course)'
    BY <2>1 DEF IsWhole, CourseServerStops, CourseFiles
  <2>4. RemoverHolds'
    BY DEF RemoverHolds, CourseServerStops, NoRemoval
  <2> QED
    BY <2>2, <2>3, <2>4 DEF RemovalInv, RemovalTypeOK, HeldIsOne, FilesAreWhole, CourseServerStops
<1> QED
  BY <1>1, <1>2

\* A directory is made, with a manifest and no file.
LEMMA DeleteKeepsRemovalInv ==
    ASSUME RemovalInv, NEW x \in Transactions, delete_saved_design(x) PROVE RemovalInv'
<1> DEFINE new == [state |-> "pending", files |-> NoFiles]
           targets == {f \in CourseFiles : course[f] # None}
<1>1. remover.pc = "idle" /\ course[Design] # None /\ staging[x] = None
      /\ staging' = [staging EXCEPT ![x] = new]
      /\ \/ remover' = [pc |-> "move", transaction |-> x, todo |-> targets]
         \/ remover' = remover
      /\ UNCHANGED << course, version, lastSaved, toldDeleted >>
  BY DEF delete_saved_design, CourseUnlocked
<1>2. new \in StagingRecords /\ new # None /\ new.files \in [CourseFiles -> UpTo(version)]
  BY DeletionAssumption DEF StagingRecords, NoFiles, UpTo
<1>3. staging'[x] = new /\ \A y \in Transactions : y # x => staging'[y] = staging[y] /\ Staged(y)' = Staged(y)
  BY <1>1 DEF RemovalInv, RemovalTypeOK, Staged
<1>4. Staged(x)' = {}
  BY <1>3 DEF Staged, NoFiles
<1>5. \A y \in Transactions : ~Held(y) /\ ~Held(y)'
  <2>1. \A y \in Transactions : ~Held(y)
    BY <1>1, DesignInPlace
  <2>2. remover'.pc # "rollback"
    BY <1>1
  <2> QED
    BY <1>1, <1>3, <1>4, <2>1, <2>2 DEF Held
<1>6. RemoverHolds'
  BY <1>1, <1>2, <1>3 DEF RemovalInv, RemoverHolds
<1>7. staging' \in [Transactions -> StagingRecords \cup {None}]
      /\ \A y \in Transactions : staging'[y] # None => staging'[y].files \in [CourseFiles -> UpTo(version)]
  BY <1>1, <1>2, <1>3 DEF RemovalInv, RemovalTypeOK
<1> QED
  BY <1>1, <1>5, <1>6, <1>7, NoFilesMove

\* A file moves between its place and x: together they are what they were.
LEMMA MoveKeepsRemovalInv ==
    ASSUME RemovalInv, Settled, Settled', NEW x \in Transactions, staging[x] # None,
           staging[x].state # "committed",
           NEW stored \in [CourseFiles -> UpTo(version)],
           staging' = [staging EXCEPT ![x].files = stored],
           course' \in [CourseFiles -> UpTo(version)],
           UNCHANGED << version, lastSaved, toldDeleted >>,
           \A y \in Transactions : Held(y) => y = x,
           \A f \in CourseFiles :
              IF course'[f] # None THEN course'[f] = Joined(x)[f] ELSE stored[f] = Joined(x)[f],
           \A f \in CourseFiles :
              stored[f] # None => course'[f] = None /\ stored[Design] # None,
           staging'[x] = [staging[x] EXCEPT !.files = stored] => RemoverHolds'
    PROVE  RemovalInv'
<1>1. /\ staging[x] \in StagingRecords /\ staging'[x] = [staging[x] EXCEPT !.files = stored]
      /\ staging'[x].files = stored /\ staging'[x].state = staging[x].state
      /\ version \in Nat
  BY DEF RemovalInv, RemovalTypeOK, StagingRecords
<1>2. UpTo(version) \subseteq FileVersions \cup {None}
  BY <1>1 DEF UpTo, FileVersions
<1>3. staging'[x] \in StagingRecords /\ staging'[x] # None
  BY <1>1, <1>2, DeletionAssumption DEF StagingRecords
<1>4. \A y \in Transactions : y # x => staging'[y] = staging[y] /\ Staged(y)' = Staged(y)
  BY DEF RemovalInv, RemovalTypeOK, Staged
<1>5. \A y \in Transactions : y # x => ~Held(y) /\ ~Held(y)'
  <2>1. \A y \in Transactions : Held(y)' <=> staging'[y] # None /\ Staged(y)' # {} /\ staging'[y].state # "committed"
    BY DEF Held, Settled
  <2> QED
    BY <1>4, <2>1, SettledHolds
<1>6. RemovalTypeOK'
  BY <1>1, <1>3, <1>4 DEF RemovalInv, RemovalTypeOK
<1>7. HeldIsOne'
  <2>1. ASSUME Held(x)' PROVE Design \in Staged(x)' /\ \A f \in Staged(x)' : course'[f] = None
    <3>1. PICK f \in CourseFiles : stored[f] # None
      BY <1>1, <2>1 DEF Held, Staged
    <3> QED
      BY <1>1, <3>1 DEF Staged, CourseFiles
  <2> QED
    BY <1>5, <2>1 DEF HeldIsOne
<1>8. course \in [CourseFiles -> UpTo(version)] /\ Design \in CourseFiles
  BY DEF RemovalInv, RemovalTypeOK, CourseFiles
<1>9. IsWhole(Joined(x))
  <2>1. CASE Held(x)
    BY <2>1 DEF RemovalInv, FilesAreWhole
  <2>2. CASE ~Held(x)
    <3>1. Staged(x) = {} /\ IsWhole(course)
      BY <1>5, <2>2 DEF RemovalInv, FilesAreWhole, Held
    <3>2. \A f \in CourseFiles : Joined(x)[f] = course[f]
      BY <3>1 DEF Joined, Staged
    <3> QED
      BY <1>8, <3>1, <3>2 DEF IsWhole
  <2> QED
    BY <2>1, <2>2
<1>10. \A f \in CourseFiles : Joined(x)'[f] = Joined(x)[f]
  BY <1>1 DEF Joined
<1>11. IsWhole(Joined(x)')
  BY <1>8, <1>9, <1>10 DEF IsWhole
<1>12. FilesAreWhole'
  <2>1. \A g : IsWhole(g)' <=> IsWhole(g)
    BY DEF IsWhole
  <2>2. CASE Held(x)'
    BY <1>5, <1>11, <2>1, <2>2 DEF FilesAreWhole
  <2>3. CASE ~Held(x)'
    <3>1. Staged(x)' = {}
      BY <1>1, <1>3, <2>3 DEF Held
    <3>2. \A f \in CourseFiles : Joined(x)'[f] = course'[f]
      BY <1>1, <3>1 DEF Joined, Staged
    <3>3. IsWhole(course')
      BY <1>8, <1>11, <3>2 DEF IsWhole
    <3> QED
      BY <1>5, <2>1, <2>3, <3>3 DEF FilesAreWhole
  <2> QED
    BY <2>2, <2>3
<1> QED
  BY <1>1, <1>6, <1>7, <1>12 DEF RemovalInv

\* move_target: the file leaves its place.
LEMMA TargetKeepsRemovalInv ==
    ASSUME RemovalInv, NEW f \in CourseFiles, move_target(f) PROVE RemovalInv'
<1>0. PICK x \in Transactions : x = remover.transaction
  BY DEF move_target, RemovalInv, RemoverHolds
<1> DEFINE stored == [staging[x].files EXCEPT ![f] = course[f]]
           todo == {g \in CourseFiles : course[g] # None}
<1>1. /\ x \in Transactions /\ staging[x] # None /\ staging[x].state = "pending"
      /\ remover = [pc |-> "move", transaction |-> x, todo |-> todo]
      /\ f \in todo /\ (Design \in todo => f = Design)
      /\ course[Design] = None => Held(x)
      /\ UNCHANGED << version, lastSaved, toldDeleted >>
  BY <1>0 DEF move_target, RemovalInv, RemoverHolds
<1>2. /\ course \in [CourseFiles -> UpTo(version)] /\ staging[x] \in StagingRecords
      /\ staging[x].files \in [CourseFiles -> UpTo(version)] /\ Design \in CourseFiles
      /\ version \in Nat /\ None \in UpTo(version)
  BY <1>1 DEF RemovalInv, RemovalTypeOK, CourseFiles, UpTo
<1>3. Settled
  BY <1>1 DEF Settled
<1>4. \/ /\ course' = [course EXCEPT ![f] = None] /\ staging' = [staging EXCEPT ![x].files = stored]
         /\ \/ remover' = [remover EXCEPT !.todo = @ \ {f}]
            \/ remover' = [remover EXCEPT !.pc = "rollback"]
      \/ /\ UNCHANGED << course, staging >>
         /\ remover' = [remover EXCEPT !.pc = "rollback"]
  BY <1>0 DEF move_target, Move
<1>5. CASE UNCHANGED << course, staging >> /\ remover' = [remover EXCEPT !.pc = "rollback"]
  <2>1. remover'.pc = "rollback" /\ remover'.transaction = x
    BY <1>1, <1>5
  <2>2. \A y \in Transactions : Held(y)' <=> Held(y)
    BY <1>1, <1>5, <2>1 DEF Held, Staged
  <2>3. RemoverHolds'
    BY <1>1, <1>5, <2>1 DEF RemoverHolds
  <2> QED
    BY <1>1, <1>5, <2>2, <2>3, NoFilesMove DEF RemovalInv, RemovalTypeOK
<1>6. CASE /\ course' = [course EXCEPT ![f] = None] /\ staging' = [staging EXCEPT ![x].files = stored]
           /\ \/ remover' = [remover EXCEPT !.todo = @ \ {f}]
              \/ remover' = [remover EXCEPT !.pc = "rollback"]
  <2>1. stored \in [CourseFiles -> UpTo(version)] /\ course' \in [CourseFiles -> UpTo(version)]
    BY <1>2, <1>6
  <2>2. \A y \in Transactions : Held(y) => y = x
    <3>1. CASE course[Design] = None
      BY <1>1, <3>1 DEF RemovalInv, HeldIsOne
    <3>2. CASE course[Design] # None
      BY <3>2, DesignInPlace
    <3> QED
      BY <3>1, <3>2
  <2>3. stored[Design] # None
    <3>1. CASE f = Design
      BY <1>1, <1>2, <3>1
    <3>2. CASE f # Design
      <4>1. Held(x)
        BY <1>1, <1>2, <3>2
      <4>2. Design \in Staged(x)
        BY <1>1, <4>1 DEF RemovalInv, HeldIsOne
      <4> QED
        BY <1>2, <3>2, <4>2 DEF Staged
    <3> QED
      BY <3>1, <3>2
  <2>4. \A g \in CourseFiles : staging[x].files[g] # None => course[g] = None
    <3>1. CASE Held(x)
      BY <1>1, <3>1 DEF RemovalInv, HeldIsOne, Staged
    <3>2. CASE ~Held(x)
      BY <1>1, <3>2 DEF Held, Staged
    <3> QED
      BY <3>1, <3>2
  <2>5. \A g \in CourseFiles : stored[g] # None => course'[g] = None
    BY <1>2, <1>6, <2>4
  <2>6. \A g \in CourseFiles :
           IF course'[g] # None THEN course'[g] = Joined(x)[g] ELSE stored[g] = Joined(x)[g]
    BY <1>1, <1>2, <1>6, <2>4 DEF Joined
  <2>7. remover'.transaction = x /\ remover'.pc \in {"move", "rollback"}
    BY <1>1, <1>6
  <2>8. staging'[x] = [staging[x] EXCEPT !.files = stored] /\ staging'[x].state = "pending" /\ staging'[x].files = stored
    BY <1>1, <1>2, <1>6 DEF RemovalInv, RemovalTypeOK, StagingRecords
  <2>9. Settled'
    BY <2>7, <2>8 DEF Settled
  <2>10. staging'[x] # None
    <3>1. UpTo(version) \subseteq FileVersions \cup {None}
      BY <1>2 DEF UpTo, FileVersions
    <3> QED
      BY <1>2, <2>1, <2>8, <3>1, DeletionAssumption DEF StagingRecords
  <2>11. RemoverHolds'
    <3>1. Held(x)'
      BY <1>1, <1>2, <2>3, <2>8, <2>10 DEF Held, Staged
    <3>2. remover'.pc = "move" => remover' = [pc |-> "move", transaction |-> x, todo |-> todo \ {f}]
      BY <1>1, <1>6
    <3>3. {g \in CourseFiles : course'[g] # None} = todo \ {f}
      BY <1>2, <1>6
    <3> QED
      BY <1>1, <2>7, <2>8, <2>10, <3>1, <3>2, <3>3 DEF RemoverHolds
  <2> HIDE DEF stored
  <2> QED
    BY <1>1, <1>3, <1>6, <2>1, <2>2, <2>3, <2>5, <2>6, <2>9, <2>11, MoveKeepsRemovalInv, ZenonT(60)
<1> QED
  BY <1>4, <1>5, <1>6

\* A file goes back to its place, the design last.
LEMMA PutBackKeepsRemovalInv ==
    ASSUME RemovalInv, NEW x \in Transactions, staging[x] # None, staging[x].state # "committed",
           remover.pc \in {"rollback", "recover"},
           remover.pc = "rollback" => remover.transaction = x, remover' = remover,
           NEW f \in Undone(Staged(x)),
           course' = [course EXCEPT ![f] = staging[x].files[f]],
           staging' = [staging EXCEPT ![x].files = [staging[x].files EXCEPT ![f] = None]],
           UNCHANGED << version, lastSaved, toldDeleted >>
    PROVE  RemovalInv'
<1> DEFINE stored == [staging[x].files EXCEPT ![f] = None]
<1>1. /\ course \in [CourseFiles -> UpTo(version)] /\ staging[x] \in StagingRecords
      /\ staging[x].files \in [CourseFiles -> UpTo(version)] /\ Design \in CourseFiles
      /\ version \in Nat /\ None \in UpTo(version) /\ f \in CourseFiles /\ f \in Staged(x)
  BY DEF RemovalInv, RemovalTypeOK, CourseFiles, UpTo, Undone, Staged
<1>2. Held(x)
  BY <1>1 DEF Held
<1>3. Design \in Staged(x) /\ \A g \in CourseFiles : staging[x].files[g] # None => course[g] = None
  BY <1>2 DEF RemovalInv, HeldIsOne, Staged
<1>4. \A y \in Transactions : Held(y) => y = x
  BY <1>2 DEF RemovalInv, HeldIsOne
<1>5. stored \in [CourseFiles -> UpTo(version)] /\ course' \in [CourseFiles -> UpTo(version)]
  BY <1>1
<1>6. \A g \in CourseFiles : stored[g] # None => course'[g] = None /\ stored[Design] # None
  BY <1>1, <1>3 DEF Undone, Staged
<1>7. \A g \in CourseFiles :
         IF course'[g] # None THEN course'[g] = Joined(x)[g] ELSE stored[g] = Joined(x)[g]
  BY <1>1, <1>3 DEF Joined, Staged
<1>8. Settled
  BY DEF Settled
<1>9. ASSUME staging'[x] = [staging[x] EXCEPT !.files = stored] PROVE Settled' /\ RemoverHolds'
  <2>1. staging'[x].state # "committed"
    BY <1>1, <1>9 DEF StagingRecords
  <2>2. UpTo(version) \subseteq FileVersions \cup {None}
    BY <1>1 DEF UpTo, FileVersions
  <2>3. staging'[x] # None
    BY <1>1, <1>5, <1>9, <2>2, DeletionAssumption DEF StagingRecords
  <2> QED
    BY <2>1, <2>3 DEF Settled, RemoverHolds, RemovalInv
<1>10. staging'[x] = [staging[x] EXCEPT !.files = stored]
  BY DEF RemovalInv, RemovalTypeOK
<1> HIDE DEF stored
<1> QED
  BY <1>4, <1>5, <1>6, <1>7, <1>8, <1>9, <1>10, MoveKeepsRemovalInv, ZenonT(60) DEF stored

\* The commit, and its failure.
LEMMA CommitKeepsRemovalInv == ASSUME RemovalInv, commit_removal PROVE RemovalInv'
<1>0. PICK x \in Transactions : x = remover.transaction
  BY DEF commit_removal, RemovalInv, RemoverHolds
<1> DEFINE committed == [staging EXCEPT ![x].state = "committed"]
<1>1. /\ staging[x] # None /\ staging[x].state = "pending" /\ staging[x] \in StagingRecords
      /\ remover = [pc |-> "move", transaction |-> x, todo |-> {}]
      /\ (\A f \in CourseFiles : course[f] = None) /\ Held(x)
      /\ UNCHANGED << course, version, lastSaved >>
  BY <1>0 DEF commit_removal, RemovalInv, RemovalTypeOK, RemoverHolds, CourseFiles
<1>2. /\ committed[x] = [staging[x] EXCEPT !.state = "committed"]
      /\ committed[x].files = staging[x].files /\ committed[x].state = "committed"
      /\ committed[x] # None /\ committed[x] \in StagingRecords
      /\ \A y \in Transactions : y # x => committed[y] = staging[y]
      /\ committed \in [Transactions -> StagingRecords \cup {None}]
  <2>1. staging \in [Transactions -> StagingRecords \cup {None}]
    BY DEF RemovalInv, RemovalTypeOK
  <2>2. [staging[x] EXCEPT !.state = "committed"] \in StagingRecords
    BY <1>1 DEF StagingRecords
  <2>3. committed[x] = [staging[x] EXCEPT !.state = "committed"]
    BY <2>1
  <2> QED
    BY <1>1, <2>1, <2>2, <2>3, DeletionAssumption DEF StagingRecords
<1>3. \/ /\ staging' = committed /\ remover' = [remover EXCEPT !.pc = "purge"]
         /\ toldDeleted' = toldDeleted \cup {staging[x].files[f] : f \in CourseFiles}
      \/ /\ staging' \in {staging, committed} /\ remover' = [remover EXCEPT !.pc = "rollback"]
         /\ UNCHANGED toldDeleted
  BY <1>0 DEF commit_removal
<1> HIDE DEF committed
<1>4. CASE /\ staging' = committed /\ remover' = [remover EXCEPT !.pc = "purge"]
           /\ toldDeleted' = toldDeleted \cup {staging[x].files[f] : f \in CourseFiles}
  <2>1. remover'.pc = "purge" /\ remover'.transaction = x
    BY <1>1, <1>4
  <2>2. \A y \in Transactions : ~Held(y)'
    <3>1. ~Held(x)'
      BY <1>2, <1>4, <2>1 DEF Held
    <3>2. ASSUME NEW y \in Transactions, y # x PROVE ~Held(y)'
      <4>1. ~Held(y) /\ staging'[y] = staging[y] /\ Staged(y)' = Staged(y)
        BY <1>1, <1>2, <1>4, <3>2 DEF RemovalInv, HeldIsOne, Staged
      <4> QED
        BY <1>1, <4>1, <2>1 DEF Held
    <3> QED
      BY <3>1, <3>2
  <2>3. IsWhole(course)'
    BY <1>1 DEF IsWhole, CourseFiles
  <2>4. RemoverHolds'
    BY <1>2, <1>4, <2>1 DEF RemoverHolds
  <2>5. RemovalTypeOK'
    <3>1. staging[x].files \in [CourseFiles -> UpTo(version)] /\ toldDeleted \subseteq UpTo(version)
      BY <1>1 DEF RemovalInv, RemovalTypeOK
    <3>2. toldDeleted' \subseteq UpTo(version)
      BY <1>4, <3>1
    <3>3. \A y \in Transactions : staging'[y] # None => staging'[y].files \in [CourseFiles -> UpTo(version)]
      BY <1>2, <1>4, <3>1 DEF RemovalInv, RemovalTypeOK
    <3> QED
      BY <1>1, <1>2, <1>4, <3>2, <3>3 DEF RemovalInv, RemovalTypeOK
  <2> QED
    BY <2>2, <2>3, <2>4, <2>5 DEF RemovalInv, HeldIsOne, FilesAreWhole
<1>5. CASE /\ staging' \in {staging, committed} /\ remover' = [remover EXCEPT !.pc = "rollback"]
           /\ UNCHANGED toldDeleted
  <2>1. remover'.pc = "rollback" /\ remover'.transaction = x
    BY <1>1, <1>5
  <2>2. /\ staging'[x] # None /\ staging'[x].files = staging[x].files
        /\ \A y \in Transactions : y # x => staging'[y] = staging[y]
    BY <1>1, <1>2, <1>5
  <2>3. \A y \in Transactions : Staged(y)' = Staged(y)
    BY <2>2 DEF Staged
  <2>4. \A y \in Transactions : Held(y)' <=> Held(y)
    BY <1>1, <2>1, <2>2, <2>3 DEF Held
  <2>5. RemoverHolds'
    BY <1>1, <2>1, <2>2, <2>4 DEF RemoverHolds
  <2>6. staging' \in [Transactions -> StagingRecords \cup {None}]
        /\ \A y \in Transactions : staging'[y] # None => staging'[y].files \in [CourseFiles -> UpTo(version)]
    BY <1>1, <1>2, <1>5, <2>2 DEF RemovalInv, RemovalTypeOK
  <2>7. \A y \in Transactions : Held(y) => staging'[y].files = staging[y].files
    BY <2>2
  <2> QED
    BY <1>1, <1>5, <2>4, <2>5, <2>6, <2>7, NoFilesMove
<1> QED
  BY <1>3, <1>4, <1>5

LEMMA RollbackKeepsRemovalInv == ASSUME RemovalInv, rollback_removal PROVE RemovalInv'
<1>0. PICK x \in Transactions : x = remover.transaction
  BY DEF rollback_removal, RemovalInv, RemoverHolds
<1>1. /\ remover.pc = "rollback" /\ staging[x] # None /\ staging[x] \in StagingRecords
      /\ staging[x].state = "committed" => Held(x) /\ \A f \in CourseFiles : course[f] = None
      /\ UNCHANGED << version, lastSaved, toldDeleted >>
  BY <1>0 DEF rollback_removal, RemovalInv, RemovalTypeOK, RemoverHolds
<1>2. CASE /\ staging[x].state = "committed"
           /\ remover' = remover \/ remover' = NoRemoval
           /\ staging' = [staging EXCEPT ![x].state = "rolling-back"] /\ UNCHANGED course
  <2>1. /\ staging'[x] = [staging[x] EXCEPT !.state = "rolling-back"]
        /\ \A y \in Transactions : y # x => staging'[y] = staging[y]
    BY <1>2 DEF RemovalInv, RemovalTypeOK
  <2>2. /\ staging'[x] \in StagingRecords /\ staging'[x].files = staging[x].files
        /\ staging'[x].state = "rolling-back" /\ staging'[x] # None
    BY <1>1, <2>1, DeletionAssumption DEF StagingRecords
  <2>3. \A y \in Transactions : Staged(y)' = Staged(y)
    BY <2>1, <2>2 DEF Staged
  <2>4. Held(x) /\ Held(x)'
    BY <1>1, <1>2, <2>2, <2>3 DEF Held
  <2>5. \A y \in Transactions : y # x => ~Held(y) /\ ~Held(y)'
    <3>1. \A y \in Transactions : y # x => ~Held(y)
      BY <2>4 DEF RemovalInv, HeldIsOne
    <3>2. remover'.pc = "rollback" => remover'.transaction = x
      BY <1>0, <1>2 DEF NoRemoval
    <3> QED
      BY <2>1, <2>3, <3>1, <3>2 DEF Held
  <2>6. RemoverHolds'
    BY <1>0, <1>1, <1>2, <2>2 DEF RemoverHolds, NoRemoval
  <2>7. \A y \in Transactions : Held(y) => staging'[y].files = staging[y].files
    BY <2>1, <2>2
  <2>8. staging' \in [Transactions -> StagingRecords \cup {None}]
        /\ \A y \in Transactions : staging'[y] # None => staging'[y].files \in [CourseFiles -> UpTo(version)]
    BY <1>1, <1>2, <2>1, <2>2 DEF RemovalInv, RemovalTypeOK
  <2> QED
    BY <1>1, <1>2, <2>4, <2>5, <2>6, <2>7, <2>8, NoFilesMove
<1>3. CASE staging[x].state # "committed"
  <2>1. Settled
    BY <1>0, <1>3 DEF Settled
  <2>2. ASSUME NEW f \in Undone(Staged(x)), Move([course EXCEPT ![f] = staging[x].files[f]],
                                                  [staging[x].files EXCEPT ![f] = None]), UNCHANGED remover
        PROVE  RemovalInv'
    BY <1>0, <1>1, <1>3, <2>2, PutBackKeepsRemovalInv DEF Move
  <2>3. ASSUME Staged(x) = {}, UNCHANGED course, remover' = NoRemoval, staging' = [staging EXCEPT ![x] = None]
        PROVE  RemovalInv'
    BY <1>1, <2>1, <2>3, GoneKeepsRemovalInv DEF Held, NoRemoval
  <2>4. ASSUME UNCHANGED << course, staging >>, remover' = NoRemoval PROVE RemovalInv'
    BY <1>1, <2>1, <2>4, LockKeepsRemovalInv DEF NoRemoval
  <2> QED
    BY <1>0, <1>3, <2>2, <2>3, <2>4 DEF rollback_removal, Staged
<1> QED
  BY <1>0, <1>2, <1>3 DEF rollback_removal

\* The files of a committed directory are the design's no more.
LEMMA PurgeKeepsRemovalInv == ASSUME RemovalInv, purge_removal PROVE RemovalInv'
<1>0. PICK x \in Transactions : x = remover.transaction
  BY DEF purge_removal, RemovalInv, RemoverHolds
<1>1. /\ remover.pc = "purge" /\ staging[x] # None /\ staging[x] \in StagingRecords
      /\ staging[x].state = "committed" /\ remover' = NoRemoval
      /\ UNCHANGED << course, version, lastSaved, toldDeleted >>
  BY <1>0 DEF purge_removal, RemovalInv, RemovalTypeOK, RemoverHolds
<1>2. ~Held(x) /\ Settled
  BY <1>1 DEF Held, Settled
<1>3. CASE staging' = [staging EXCEPT ![x] = None]
  BY <1>1, <1>2, <1>3, GoneKeepsRemovalInv DEF NoRemoval
<1>4. ASSUME NEW left \in SUBSET CourseFiles,
             staging' = [staging EXCEPT ![x].files = [f \in CourseFiles |-> IF f \in left THEN @[f] ELSE None]]
      PROVE  RemovalInv'
  <2> DEFINE stored == [f \in CourseFiles |-> IF f \in left THEN staging[x].files[f] ELSE None]
  <2>1. /\ staging'[x] = [staging[x] EXCEPT !.files = stored]
        /\ \A y \in Transactions : y # x => staging'[y] = staging[y]
    BY <1>4 DEF RemovalInv, RemovalTypeOK
  <2>2. stored \in [CourseFiles -> UpTo(version)] /\ UpTo(version) \subseteq FileVersions \cup {None}
    BY <1>1 DEF RemovalInv, RemovalTypeOK, UpTo, FileVersions
  <2> HIDE DEF stored
  <2>3. staging'[x] \in StagingRecords /\ staging'[x].files = stored /\ staging'[x].state = "committed"
    BY <1>1, <2>1, <2>2 DEF StagingRecords
  <2>4. \A y \in Transactions : y # x => Staged(y)' = Staged(y)
    BY <2>1 DEF Staged
  <2>5. \A y \in Transactions : Held(y)' <=> Held(y)
    BY <1>1, <1>2, <2>1, <2>3, <2>4, SettledHolds DEF Held, NoRemoval
  <2>6. RemoverHolds'
    BY <1>1 DEF RemoverHolds, NoRemoval
  <2>7. staging' \in [Transactions -> StagingRecords \cup {None}]
        /\ \A y \in Transactions : staging'[y] # None => staging'[y].files \in [CourseFiles -> UpTo(version)]
    BY <1>4, <2>1, <2>2, <2>3 DEF RemovalInv, RemovalTypeOK
  <2>8. \A y \in Transactions : Held(y) => staging'[y].files = staging[y].files
    BY <1>2, <2>1
  <2> QED
    BY <1>1, <2>5, <2>6, <2>7, <2>8, NoFilesMove
<1> QED
  BY <1>0, <1>3, <1>4 DEF purge_removal

LEMMA RecoverKeepsRemovalInv ==
    ASSUME RemovalInv, NEW x \in Transactions, recover_delete_transaction(x) PROVE RemovalInv'
<1>1. /\ remover.pc = "recover" /\ staging[x] # None /\ Settled
      /\ UNCHANGED << version, lastSaved, toldDeleted >>
  BY DEF recover_delete_transaction, Settled
<1>2. ASSUME staging[x].state = "committed" \/ Staged(x) = {}, staging' = [staging EXCEPT ![x] = None],
             remover' = NoRemoval \/ remover' = remover, UNCHANGED course
      PROVE  RemovalInv'
  <2>1. ~Held(x)
    BY <1>1, <1>2 DEF Held
  <2>2. remover'.pc = "idle" \/ (remover.pc = "recover" /\ remover' = remover)
    BY <1>1, <1>2 DEF NoRemoval
  <2> QED
    BY <1>1, <1>2, <2>1, <2>2, GoneKeepsRemovalInv
<1>3. ASSUME UNCHANGED << course, staging >>, remover' = NoRemoval PROVE RemovalInv'
  BY <1>1, <1>3, LockKeepsRemovalInv DEF NoRemoval
<1>4. ASSUME NEW f \in Undone(Staged(x)), staging[x].state # "committed", remover' = remover,
             course' = [course EXCEPT ![f] = staging[x].files[f]],
             staging' = [staging EXCEPT ![x].files[f] = None]
      PROVE  RemovalInv'
  <2>1. staging' = [staging EXCEPT ![x].files = [staging[x].files EXCEPT ![f] = None]]
    BY <1>4
  <2> QED
    BY <1>1, <1>4, <2>1, PutBackKeepsRemovalInv
<1> QED
  BY <1>2, <1>3, <1>4 DEF recover_delete_transaction, Staged

\* A deletion of a design with its calendars is whole or not at all, and final once it
\* was answered, for any number of transactions and failing calls.
THEOREM DeletionIsAllOrNothingAlways == CourseSpec => []DeletionIsAllOrNothing
<1>1. CourseInit => RemovalInv
  <2> SUFFICES ASSUME CourseInit PROVE RemovalInv
    OBVIOUS
  <2>1. \A x \in Transactions : ~Held(x)
    BY DEF CourseInit, Held
  <2> QED
    BY <2>1 DEF CourseInit, RemovalInv, RemovalTypeOK, RemoverHolds, HeldIsOne, FilesAreWhole, IsWhole,
                NoFiles, NoRemoval, UpTo, CourseFiles
<1>2. RemovalInv /\ [CourseNext]_courseVars => RemovalInv'
  <2> SUFFICES ASSUME RemovalInv, [CourseNext]_courseVars PROVE RemovalInv'
    OBVIOUS
  <2>1. ASSUME open_course_storage PROVE RemovalInv'
    BY <2>1, LockKeepsRemovalInv DEF open_course_storage, CourseUnlocked, Settled
  <2>2. CASE UNCHANGED courseVars
    BY <2>2, NoFilesMove DEF courseVars, courseState, RemovalInv, RemovalTypeOK, RemoverHolds, Held, Staged
  <2> QED
    BY <2>1, <2>2, DesignKeepsRemovalInv, CalendarKeepsRemovalInv, DeleteKeepsRemovalInv,
       RecoverKeepsRemovalInv, TargetKeepsRemovalInv, CommitKeepsRemovalInv, RollbackKeepsRemovalInv,
       PurgeKeepsRemovalInv, StopKeepsRemovalInv DEF CourseNext
<1> QED
  BY <1>1, <1>2, WholeImpliesProperty, PTL DEF CourseSpec

-----------------------------------------------------------------------------
(***************************************************************************)
(* The snapshots of course sources (SourceSnapshots)                        *)
(***************************************************************************)

\* Before the lease, and while the reading thread is waited for.
BeforeLease == {"idle", "token", "memory"}
Waiting == {"waiting", "abandon"}
WithImage == {"image_token", "image_file", "image_blob", "shown"}
BeforeFiles == BeforeLease \cup Waiting \cup {"local", "commit"}
AskStages == BeforeFiles \cup {"file", "blob", "returned", "image_local"} \cup WithImage

BlobNames == {RemoteFiles[i] : i \in Nat} \cup {"image"}

Acquisitions ==
    [pc : AskStages, late : BOOLEAN, lease : Leases \cup {None}, provider : {None, "github", "gitlab"},
     call : BOOLEAN, commit : Nat \cup {None}, got : Seq(BlobNames \X (Nat \cup {None})),
     pinned : Nat \cup {None}]

\* What an operation has at each of its stages: every file is of the commit it asked
\* for, and its image is of the pinned one.
AcquisitionHolds(r) ==
    /\ r \in Acquisitions
    /\ r.lease = None <=> r.pc \in BeforeLease
    /\ r.pc \in BeforeFiles => r.got = << >>
    /\ \A i \in 1..Len(r.got) : r.got[i][2] = r.commit
    /\ r.pc \in WithImage => r.commit = r.pinned

ReadingThreads == [lease : Leases, pc : {"stat", "reading", "done", "failed"}, bytes : BOOLEAN,
                   stale : BOOLEAN, ended : BOOLEAN, alone : BOOLEAN]

\* An operation has its lease for itself; a thread shares one, is waited for by the
\* operation of that lease or by nobody, and stays after its end only if it is waited for.
SharesHold ==
    /\ DOMAIN ask = Operations /\ \A o \in Operations : AcquisitionHolds(ask[o])
    /\ \A o, p \in Operations : ask[o].lease = ask[p].lease /\ ask[o].lease # None => o = p
    /\ readers \subseteq ReadingThreads
    /\ \A t, u \in readers : t.lease = u.lease => t = u
    /\ \A t \in readers : t.ended => ~t.alone
    /\ \A t \in readers :
          ~t.alone <=> \E o \in Operations : ask[o].lease = t.lease /\ ask[o].pc \in Waiting
    /\ \A o \in Operations : ask[o].pc \in Waiting => \E t \in readers : t.lease = ask[o].lease
    /\ \A o \in Operations : ask[o].pc = "local" => \A t \in readers : t.lease # ask[o].lease

\* The leases that an operation, and that a thread, holds a reference of.
OperationLeases == {ask[o].lease : o \in Operations} \ {None}
ThreadLeases == {t.lease : t \in {u \in readers : ~u.ended}}
Live == OperationLeases \cup ThreadLeases

Counted ==
    [l \in Leases |-> IF l \in OperationLeases \cap ThreadLeases THEN 2 ELSE IF l \in Live THEN 1 ELSE None]

\* Each reference is counted once, and each lease has its slot.
SlotsHold ==
    /\ refs = Counted
    /\ IsFiniteSet(Live) /\ memory \in Nat /\ memory + Cardinality(Live) = MemorySlots

SourceInv == head \in Nat /\ SharesHold /\ SlotsHold

\* A thread that ended, and is kept, is waited for.
LeasesAreLive == \A t \in readers : t.lease \in Live

LEMMA ThreadsAreLive == SharesHold => LeasesAreLive
<1> SUFFICES ASSUME SharesHold, NEW t \in readers PROVE t.lease \in Live
  BY DEF LeasesAreLive
<1>1. CASE t.ended
  <2>1. PICK o \in Operations : ask[o].lease = t.lease
    BY <1>1 DEF SharesHold
  <2> QED
    BY <2>1, SourceAssumption DEF SharesHold, ReadingThreads, Live, OperationLeases
<1>2. CASE ~t.ended
  BY <1>2 DEF Live, ThreadLeases
<1> QED
  BY <1>1, <1>2

LEMMA BoundFollows == SourceInv => SnapshotsAreBounded
<1> SUFFICES ASSUME SourceInv PROVE SnapshotsAreBounded
  OBVIOUS
<1>1. Bytes \subseteq Live
  <2>1. \A t \in readers : t.lease \in Live
    BY ThreadsAreLive DEF SourceInv, LeasesAreLive
  <2>2. ASSUME NEW o \in Operations, ask[o].pc \in HoldsFiles PROVE ask[o].lease \in Live
    BY <2>2 DEF HoldsFiles, SourceInv, SharesHold, AcquisitionHolds, BeforeLease, Live, OperationLeases
  <2> QED
    BY <2>1, <2>2 DEF Bytes
<1>2. MemoryIsBounded
  <2>1. IsFiniteSet(Live) /\ Cardinality(Live) \in Nat /\ Cardinality(Live) <= MemorySlots
    BY FS_CardinalityType, SourceAssumption DEF SourceInv, SlotsHold
  <2>2. Cardinality(Bytes) <= Cardinality(Live) /\ IsFiniteSet(Bytes)
    BY <1>1, <2>1, FS_Subset
  <2> QED
    BY <2>1, <2>2, FS_CardinalityType, SourceAssumption DEF MemoryIsBounded
<1>3. SnapshotIsOneCommit
  BY DEF SnapshotIsOneCommit, SourceInv, SharesHold, AcquisitionHolds, WithImage
<1> QED
  BY <1>2, <1>3 DEF SnapshotsAreBounded

\* A step of an operation that neither takes nor gives back anything.
LEMMA AskKeepsSourceInv ==
    ASSUME SourceInv, NEW o \in Operations, NEW r, AcquisitionHolds(r), ask' = [ask EXCEPT ![o] = r],
           r.lease = ask[o].lease, r.pc \in Waiting <=> ask[o].pc \in Waiting,
           r.pc = "local" => ask[o].pc = "local", UNCHANGED << refs, readers, memory, head >>
    PROVE  SourceInv'
<1>1. ask'[o] = r /\ DOMAIN ask' = Operations /\ \A p \in Operations : p # o => ask'[p] = ask[p]
  BY DEF SourceInv, SharesHold
<1>2. \A p \in Operations : ask'[p].lease = ask[p].lease /\ (ask'[p].pc \in Waiting <=> ask[p].pc \in Waiting)
                             /\ (ask'[p].pc = "local" => ask[p].pc = "local") /\ AcquisitionHolds(ask'[p])
  BY <1>1 DEF SourceInv, SharesHold
<1>3. SharesHold'
  BY <1>1, <1>2 DEF SourceInv, SharesHold
<1>4. OperationLeases' = OperationLeases /\ ThreadLeases' = ThreadLeases
  BY <1>2 DEF OperationLeases, ThreadLeases
<1>5. Live' = Live /\ Counted' = Counted
  BY <1>4 DEF Live, Counted
<1> QED
  BY <1>3, <1>5 DEF SourceInv, SlotsHold

\* A reference of l is given back, by its operation or by its thread: what is counted
\* stays what is held, and the slot of the last reference is free.
LEMMA ReleaseCounts ==
    ASSUME SourceInv, NEW l \in Leases, l \in Live,
           \/ l \in OperationLeases /\ OperationLeases' = OperationLeases \ {l} /\ ThreadLeases' = ThreadLeases
           \/ l \in ThreadLeases /\ ThreadLeases' = ThreadLeases \ {l} /\ OperationLeases' = OperationLeases,
           \A t \in readers' : t.lease \in Live',
           \A o \in Operations : ask'[o].lease \in Live' \cup {None},
           refs' = Collected(Released(refs, l), ask', readers'),
           memory' = memory + Frees(refs, l)
    PROVE  SlotsHold'
<1>1. /\ refs = Counted /\ IsFiniteSet(Live) /\ memory \in Nat /\ memory + Cardinality(Live) = MemorySlots
      /\ None \notin Leases /\ 1 # None /\ 2 # None /\ 0 # None
  BY SourceAssumption DEF SourceInv, SlotsHold
<1>2. \A q \in Leases : refs[q] = IF q \in OperationLeases \cap ThreadLeases THEN 2 ELSE IF q \in Live THEN 1 ELSE None
  BY <1>1 DEF Counted
<1> DEFINE left == Released(refs, l)
           unheld(q) == (\A o \in Operations : ask'[o].lease # q) /\ (\A t \in readers' : t.lease # q)
<1>3. /\ left[l] = IF l \in OperationLeases \cap ThreadLeases THEN 1 ELSE 0
      /\ \A q \in Leases : q # l => left[q] = refs[q] /\ left[q] # 0
  BY <1>1, <1>2 DEF Released, Counted
<1>4. \A q \in Leases : q \notin Live' => unheld(q)
  BY <1>1
<1>5. \A q \in Leases : refs'[q] = IF left[q] = 0 /\ unheld(q) THEN None ELSE left[q]
  BY DEF Collected
<1>6. refs' = Counted'
  <2>1. ASSUME NEW q \in Leases PROVE refs'[q] = Counted'[q]
    <3>1. CASE q = l
      BY <1>1, <1>3, <1>4, <1>5, <3>1 DEF Counted, Live
    <3>2. CASE q # l
      BY <1>1, <1>2, <1>3, <1>5, <3>2 DEF Counted, Live
    <3> QED
      BY <3>1, <3>2
  <2>2. refs' = [q \in Leases |-> refs'[q]]
    BY DEF Collected
  <2> QED
    BY <2>1, <2>2 DEF Counted
<1>7. IsFiniteSet(Live') /\ memory' \in Nat /\ memory' + Cardinality(Live') = MemorySlots
  <2>1. CASE l \in OperationLeases \cap ThreadLeases
    <3>1. Live' = Live /\ refs[l] = 2
      BY <1>2, <2>1 DEF Live
    <3> QED
      BY <1>1, <3>1 DEF Frees
  <2>2. CASE l \notin OperationLeases \cap ThreadLeases
    <3>1. Live' = Live \ {l} /\ refs[l] = 1
      BY <1>2, <2>2 DEF Live
    <3>2. IsFiniteSet(Live \ {l}) /\ Cardinality(Live \ {l}) = Cardinality(Live) - 1
      BY <1>1, FS_RemoveElement
    <3>3. Cardinality(Live) \in Nat
      BY <1>1, FS_CardinalityType
    <3> QED
      BY <1>1, <3>1, <3>2, <3>3 DEF Frees
  <2> QED
    BY <2>1, <2>2
<1> QED
  BY <1>6, <1>7 DEF SlotsHold

LEMMA RestingHolds == AcquisitionHolds(Resting)
<1>1. << >> \in Seq(BlobNames \X (Nat \cup {None})) /\ Len(<< >>) = 0
  OBVIOUS
<1> QED
  BY <1>1 DEF AcquisitionHolds, Resting, Acquisitions, AskStages, BeforeFiles, BeforeLease, WithImage

\* The lease of an operation is no other operation's.
LEMMA OwnLease ==
    ASSUME SourceInv, NEW o \in Operations, ask[o].lease # None, NEW r, r.lease = None,
           ask' = [ask EXCEPT ![o] = r]
    PROVE  /\ ask[o].lease \in Leases /\ ask[o].lease \in OperationLeases
           /\ OperationLeases' = OperationLeases \ {ask[o].lease}
    BY SourceAssumption DEF SourceInv, SharesHold, AcquisitionHolds, Acquisitions, OperationLeases

\* An acquisition that no thread is waited for ends.
LEMMA FailsKeepsSourceInv ==
    ASSUME SourceInv, NEW o \in Operations, Fails(o), ask[o].pc \notin Waiting, UNCHANGED << readers, head >>
    PROVE  SourceInv'
<1>1. ask'[o] = Resting /\ DOMAIN ask' = Operations /\ \A p \in Operations : p # o => ask'[p] = ask[p]
  BY DEF SourceInv, SharesHold, Fails
<1>2. Resting.lease = None /\ Resting.pc = "idle"
  BY DEF Resting
<1>3. SharesHold'
  <2>1. \A p \in Operations : ask'[p].pc \in Waiting => ask[p].pc \in Waiting /\ ask'[p] = ask[p]
    BY <1>1, <1>2 DEF Waiting
  <2>2. \A p \in Operations : ask[p].pc \in Waiting => ask'[p] = ask[p]
    BY <1>1
  <2>3. \A p \in Operations : ask'[p].pc = "local" => ask'[p] = ask[p]
    BY <1>1, <1>2
  <2>4. \A t \in readers' : ~t.alone <=> \E p \in Operations : ask'[p].lease = t.lease /\ ask'[p].pc \in Waiting
    BY <2>1, <2>2 DEF SourceInv, SharesHold
  <2> QED
    BY <1>1, <1>2, <2>1, <2>3, <2>4, RestingHolds DEF SourceInv, SharesHold
<1>4. CASE ask[o].lease = None
  <2>1. OperationLeases' = OperationLeases
    BY <1>1, <1>2, <1>4 DEF OperationLeases
  <2>2. ThreadLeases' = ThreadLeases
    BY DEF ThreadLeases
  <2>3. Live' = Live /\ Counted' = Counted
    BY <2>1, <2>2 DEF Live, Counted
  <2>4. UNCHANGED << refs, memory >>
    BY <1>4 DEF Fails
  <2> QED
    BY <1>3, <2>3, <2>4 DEF SourceInv, SlotsHold
<1>5. CASE ask[o].lease # None
  <2> DEFINE l == ask[o].lease
  <2>1. l \in Leases /\ l \in OperationLeases /\ OperationLeases' = OperationLeases \ {l}
    BY <1>2, <1>5, OwnLease DEF Fails
  <2>2. ThreadLeases' = ThreadLeases
    BY DEF ThreadLeases
  <2>3. \A t \in readers' : t.lease \in Live'
    <3>1. SharesHold' => LeasesAreLive'
      BY ThreadsAreLive, PTL
    <3> QED
      BY <1>3, <3>1 DEF LeasesAreLive
  <2>4. \A p \in Operations : ask'[p].lease \in Live' \cup {None}
    BY DEF Live, OperationLeases
  <2>5. refs' = Collected(Released(refs, l), ask', readers') /\ memory' = memory + Frees(refs, l)
    BY <1>5 DEF Fails
  <2>6. l \in Live
    BY <2>1 DEF Live
  <2>7. SlotsHold'
    BY <2>1, <2>2, <2>3, <2>4, <2>5, <2>6, ReleaseCounts
  <2> QED
    BY <1>3, <2>7 DEF SourceInv
<1> QED
  BY <1>4, <1>5

\* A lease with its slot, for an operation.
LEMMA LeaseKeepsSourceInv ==
    ASSUME SourceInv, NEW o \in Operations, ask[o].pc = "memory", memory > 0, NEW l \in NewLease,
           refs' = [refs EXCEPT ![l] = 1],
           ask' = [ask EXCEPT ![o].pc = "local", ![o].lease = l],
           memory' = memory - 1, UNCHANGED << readers, head >>
    PROVE  SourceInv'
<1>1. l \in Leases /\ refs[l] = None
  BY DEF NewLease
<1>2. /\ refs = Counted /\ IsFiniteSet(Live) /\ memory \in Nat /\ memory + Cardinality(Live) = MemorySlots
      /\ None \notin Leases /\ 1 # None /\ 2 # None
  BY SourceAssumption DEF SourceInv, SlotsHold
<1>3. l \notin Live /\ l \notin OperationLeases /\ l \notin ThreadLeases
  BY <1>1, <1>2 DEF Counted, Live
<1> DEFINE r == [ask[o] EXCEPT !.pc = "local", !.lease = l]
<1>4. AcquisitionHolds(ask[o]) /\ ask[o].lease = None
  BY DEF SourceInv, SharesHold, AcquisitionHolds, BeforeLease
<1>5. AcquisitionHolds(r) /\ r.lease = l /\ r.pc = "local"
  BY <1>1, <1>2, <1>4 DEF AcquisitionHolds, Acquisitions, AskStages, BeforeFiles, BeforeLease, Waiting, WithImage
<1>6. ask'[o] = r /\ DOMAIN ask' = Operations /\ \A p \in Operations : p # o => ask'[p] = ask[p]
  BY DEF SourceInv, SharesHold
<1> HIDE DEF r
<1>7. \A t \in readers : t.lease # l
  BY <1>3, ThreadsAreLive DEF SourceInv, LeasesAreLive
<1>8. \A p \in Operations : ask[p].lease # l
  BY <1>1, <1>2, <1>3 DEF OperationLeases
<1>9. ask[o].pc \notin Waiting /\ r.pc \notin Waiting
  BY <1>5 DEF Waiting
<1>10. SharesHold'
  BY <1>1, <1>5, <1>6, <1>7, <1>8, <1>9, SourceAssumption DEF SourceInv, SharesHold
<1>11. OperationLeases' = OperationLeases \cup {l} /\ ThreadLeases' = ThreadLeases
  BY <1>1, <1>2, <1>4, <1>5, <1>6 DEF OperationLeases, ThreadLeases
<1>12. Live' = Live \cup {l}
  BY <1>11 DEF Live
<1>13. IsFiniteSet(Live') /\ Cardinality(Live') = Cardinality(Live) + 1 /\ Cardinality(Live) \in Nat
  BY <1>2, <1>3, <1>12, FS_AddElement, FS_CardinalityType
<1>14. refs' = Counted'
  BY <1>1, <1>2, <1>3, <1>11, <1>12 DEF Counted
<1> QED
  BY <1>2, <1>10, <1>13, <1>14 DEF SourceInv, SlotsHold

\* The reading thread starts, with a reference of its own.
LEMMA ReaderStartsKeepsSourceInv ==
    ASSUME SourceInv, NEW o \in Operations, ask[o].pc = "local", StartsReader(o), Goes(o, "waiting"),
           UNCHANGED << memory, head >>
    PROVE  SourceInv'
<1> DEFINE l == ask[o].lease
           r == [ask[o] EXCEPT !.pc = "waiting"]
           u == NewReader(l)
<1>1. AcquisitionHolds(ask[o]) /\ l \in Leases /\ l # None /\ l \in OperationLeases
  BY SourceAssumption DEF SourceInv, SharesHold, AcquisitionHolds, Acquisitions, BeforeLease, OperationLeases
<1>2. AcquisitionHolds(r) /\ r.lease = l /\ r.pc = "waiting"
  BY <1>1 DEF AcquisitionHolds, Acquisitions, AskStages, BeforeFiles, BeforeLease, Waiting, WithImage
<1>3. ask'[o] = r /\ DOMAIN ask' = Operations /\ \A p \in Operations : p # o => ask'[p] = ask[p]
  BY DEF SourceInv, SharesHold, Goes
<1>4. u \in ReadingThreads /\ u.lease = l /\ ~u.ended /\ ~u.alone
  BY <1>1 DEF NewReader, ReadingThreads
<1>5. readers' = readers \cup {u} /\ refs' = [refs EXCEPT ![l] = @ + 1]
  BY DEF StartsReader, Retain
<1>6. \A t \in readers : t.lease # l
  BY DEF SourceInv, SharesHold
<1>7. \A p \in Operations : p # o => ask[p].lease # l
  BY <1>1 DEF SourceInv, SharesHold
<1>8. l \notin ThreadLeases
  BY <1>6 DEF ThreadLeases
<1> HIDE DEF r, u
<1>9. SharesHold'
  <2>1. r.pc \in Waiting
    BY <1>2 DEF Waiting
  <2>2. \A p \in Operations : AcquisitionHolds(ask'[p]) /\ ask'[p].lease = ask[p].lease
    BY <1>2, <1>3 DEF SourceInv, SharesHold
  <2>3. \A p, q \in Operations : ask'[p].lease = ask'[q].lease /\ ask'[p].lease # None => p = q
    BY <2>2 DEF SourceInv, SharesHold
  <2>4. ASSUME NEW t \in readers' PROVE
           ~t.alone <=> \E p \in Operations : ask'[p].lease = t.lease /\ ask'[p].pc \in Waiting
    <3>1. CASE t = u
      BY <1>2, <1>3, <1>4, <2>1, <3>1
    <3>2. CASE t \in readers
      <4>1. ~t.alone <=> \E p \in Operations : ask[p].lease = t.lease /\ ask[p].pc \in Waiting
        BY <3>2 DEF SourceInv, SharesHold
      <4> QED
        BY <1>2, <1>3, <1>6, <3>2, <4>1
    <3> QED
      BY <1>5, <3>1, <3>2
  <2>5. \A p \in Operations : ask'[p].pc \in Waiting => \E t \in readers' : t.lease = ask'[p].lease
    BY <1>2, <1>3, <1>4, <1>5, <2>2 DEF SourceInv, SharesHold
  <2>6. \A p \in Operations : ask'[p].pc = "local" => \A t \in readers' : t.lease # ask'[p].lease
    BY <1>2, <1>3, <1>4, <1>5, <1>7 DEF SourceInv, SharesHold
  <2>7. /\ readers' \subseteq ReadingThreads /\ \A t \in readers' : t.ended => ~t.alone
        /\ \A s, t \in readers' : s.lease = t.lease => s = t
    BY <1>4, <1>5, <1>6 DEF SourceInv, SharesHold
  <2> QED
    BY <1>3, <2>2, <2>3, <2>4, <2>5, <2>6, <2>7 DEF SharesHold
<1>10. OperationLeases' = OperationLeases
  BY <1>2, <1>3 DEF OperationLeases
<1>11. ThreadLeases' = ThreadLeases \cup {l}
  BY <1>4, <1>5 DEF ThreadLeases
<1>12. Live' = Live
  BY <1>1, <1>10, <1>11 DEF Live
<1>13. refs = Counted /\ 1 # None /\ 2 # None
  BY SourceAssumption DEF SourceInv, SlotsHold
<1>14. refs' = Counted'
  <2>1. refs[l] = 1
    BY <1>1, <1>8, <1>13 DEF Counted, Live
  <2>2. refs' = [refs EXCEPT ![l] = 2]
    BY <1>5, <2>1
  <2> QED
    BY <1>1, <1>8, <1>10, <1>11, <1>12, <1>13, <2>2 DEF Counted
<1> QED
  BY <1>9, <1>12, <1>14 DEF SourceInv, SlotsHold

\* Nothing is left of a wait: the result of the thread is taken, or given up.
LEMMA WaitEnds ==
    ASSUME SourceInv, NEW o \in Operations, ask[o].pc \in Waiting, NEW bytes \in BOOLEAN,
           readers' = Alone(ReaderOf(o), bytes), NEW r, AcquisitionHolds(r),
           r.lease \in {None, ask[o].lease}, r.pc \notin Waiting, r.pc # "local",
           ask' = [ask EXCEPT ![o] = r], head' = head
    PROVE  /\ ReaderOf(o) \in readers /\ ReaderOf(o).lease = ask[o].lease
           /\ SharesHold' /\ ThreadLeases' = ThreadLeases
<1> DEFINE l == ask[o].lease
           t == ReaderOf(o)
<1>1. t \in readers /\ t.lease = l /\ t \in ReadingThreads
  BY DEF SourceInv, SharesHold, ReaderOf
<1>2. l \in Leases /\ l # None
  BY <1>1, SourceAssumption DEF ReadingThreads
<1>3. ~t.alone
  BY <1>1 DEF SourceInv, SharesHold
<1> DEFINE u == [t EXCEPT !.alone = TRUE, !.bytes = bytes]
<1>4. u \in ReadingThreads /\ u.lease = l /\ u.alone /\ (u.ended <=> t.ended)
  BY <1>1 DEF ReadingThreads
<1>5. readers' = (readers \ {t}) \cup (IF t.ended THEN {} ELSE {u})
  BY DEF Alone
<1>6. \A s \in readers : s # t => s.lease # l
  BY <1>1 DEF SourceInv, SharesHold
<1>7. ask'[o] = r /\ DOMAIN ask' = Operations /\ \A p \in Operations : p # o => ask'[p] = ask[p]
  BY DEF SourceInv, SharesHold
<1>8. \A p \in Operations : p # o => ask[p].lease # l
  BY <1>2 DEF SourceInv, SharesHold
<1> HIDE DEF u, t, l
<1>9. ThreadLeases' = ThreadLeases
  BY <1>1, <1>4, <1>5 DEF ThreadLeases
<1>10. SharesHold'
  <2>1. \A p \in Operations : AcquisitionHolds(ask'[p])
    BY <1>7 DEF SourceInv, SharesHold
  <2>2. \A p, q \in Operations : ask'[p].lease = ask'[q].lease /\ ask'[p].lease # None => p = q
    BY <1>7 DEF SourceInv, SharesHold, l
  <2>3. /\ readers' \subseteq ReadingThreads /\ \A s \in readers' : s.ended => ~s.alone
        /\ \A s, v \in readers' : s.lease = v.lease => s = v
    BY <1>4, <1>5, <1>6 DEF SourceInv, SharesHold
  <2>4. ASSUME NEW s \in readers' PROVE
           ~s.alone <=> \E p \in Operations : ask'[p].lease = s.lease /\ ask'[p].pc \in Waiting
    <3>1. CASE s.lease = l
      <4>1. s = u
        BY <1>5, <1>6, <3>1
      <4>2. ASSUME NEW p \in Operations, ask'[p].lease = l, ask'[p].pc \in Waiting PROVE FALSE
        BY <1>7, <1>8, <4>2
      <4> QED
        BY <1>4, <3>1, <4>1, <4>2
    <3>2. CASE s.lease # l
      <4>1. s \in readers
        BY <1>4, <1>5, <3>2
      <4>2. ~s.alone <=> \E p \in Operations : ask[p].lease = s.lease /\ ask[p].pc \in Waiting
        BY <4>1 DEF SourceInv, SharesHold
      <4> QED
        BY <1>7, <3>2, <4>2 DEF l
    <3> QED
      BY <3>1, <3>2
  <2>5. ASSUME NEW p \in Operations, ask'[p].pc \in Waiting PROVE \E s \in readers' : s.lease = ask'[p].lease
    <3>1. p # o /\ ask'[p] = ask[p] /\ ask[p].lease # l
      BY <1>7, <1>8, <2>5
    <3>2. PICK s \in readers : s.lease = ask[p].lease
      BY <2>5, <3>1 DEF SourceInv, SharesHold
    <3> QED
      BY <1>1, <1>5, <3>1, <3>2
  <2>6. ASSUME NEW p \in Operations, ask'[p].pc = "local", NEW s \in readers' PROVE s.lease # ask'[p].lease
    <3>1. p # o /\ ask'[p] = ask[p] /\ ask[p].lease # l
      BY <1>7, <1>8, <2>6
    <3> QED
      BY <1>4, <1>5, <2>6, <3>1 DEF SourceInv, SharesHold
  <2> QED
    BY <1>7, <2>1, <2>2, <2>3, <2>4, <2>5, <2>6 DEF SharesHold
<1> QED
  BY <1>1, <1>9, <1>10 DEF t, l

\* The request goes, and its reference with it.
LEMMA WaiterGoesKeepsSourceInv ==
    ASSUME SourceInv, NEW o \in Operations, ask[o].pc \in Waiting, NEW bytes \in BOOLEAN,
           readers' = Alone(ReaderOf(o), bytes), ask' = [ask EXCEPT ![o] = Resting], head' = head,
           refs' = Collected(Released(refs, ReaderOf(o).lease), ask', readers'),
           memory' = memory + Frees(refs, ReaderOf(o).lease)
    PROVE  SourceInv'
<1>1. /\ Resting.lease = None /\ Resting.pc \notin Waiting /\ Resting.pc # "local"
  BY DEF Resting, Waiting
<1>2. ReaderOf(o).lease = ask[o].lease /\ SharesHold' /\ ThreadLeases' = ThreadLeases /\ ReaderOf(o) \in readers
  BY <1>1, RestingHolds, WaitEnds
<1> DEFINE l == ask[o].lease
<1>3. l # None
  BY <1>2, SourceAssumption DEF SourceInv, SharesHold, ReadingThreads
<1>4. l \in Leases /\ l \in OperationLeases /\ OperationLeases' = OperationLeases \ {l}
  BY <1>1, <1>3, OwnLease
<1>5. \A t \in readers' : t.lease \in Live'
  <2>1. SharesHold' => LeasesAreLive'
    BY ThreadsAreLive, PTL
  <2> QED
    BY <1>2, <2>1 DEF LeasesAreLive
<1>6. \A p \in Operations : ask'[p].lease \in Live' \cup {None}
  BY DEF Live, OperationLeases
<1>7. l \in Live
  BY <1>4 DEF Live
<1>8. refs' = Collected(Released(refs, l), ask', readers') /\ memory' = memory + Frees(refs, l)
  BY <1>2
<1>9. SlotsHold'
  BY <1>2, <1>4, <1>5, <1>6, <1>7, <1>8, ReleaseCounts
<1> QED
  BY <1>2, <1>9 DEF SourceInv

LEMMA ReadKeepsSourceInv == ASSUME SourceInv, NEW o \in Operations, local_files_read(o) PROVE SourceInv'
<1> DEFINE t == ReaderOf(o)
<1>1. ask[o].pc = "waiting" /\ ask[o].pc \in Waiting /\ readers' = Alone(t, t.bytes) /\ UNCHANGED head
  BY DEF local_files_read, Waiting
<1>2. t \in readers /\ t.bytes \in BOOLEAN
  BY <1>1 DEF SourceInv, SharesHold, ReaderOf, ReadingThreads
<1>3. CASE t.pc = "failed"
  BY <1>1, <1>2, <1>3, WaiterGoesKeepsSourceInv DEF local_files_read
<1>4. CASE t.pc # "failed"
  <2> DEFINE pc == IF ask[o].provider = None THEN "returned" ELSE "commit"
             r == [ask[o] EXCEPT !.pc = pc]
  <2>1. ask' = [ask EXCEPT ![o] = r] /\ UNCHANGED << refs, memory >>
    BY <1>4 DEF local_files_read, Goes
  <2>2. AcquisitionHolds(ask[o]) /\ pc \in {"returned", "commit"}
    BY DEF SourceInv, SharesHold
  <2> HIDE DEF pc
  <2>3. AcquisitionHolds(r) /\ r.lease = ask[o].lease /\ r.pc \notin Waiting /\ r.pc # "local"
    BY <1>1, <2>2 DEF AcquisitionHolds, Acquisitions, AskStages, BeforeFiles, BeforeLease, Waiting, WithImage
  <2> HIDE DEF r
  <2>4. SharesHold' /\ ThreadLeases' = ThreadLeases
    BY <1>1, <1>2, <2>1, <2>3, WaitEnds
  <2>5. OperationLeases' = OperationLeases
    BY <2>1, <2>3 DEF SourceInv, SharesHold, OperationLeases
  <2>6. Live' = Live /\ Counted' = Counted
    BY <2>4, <2>5 DEF Live, Counted
  <2> QED
    BY <1>1, <2>1, <2>4, <2>6 DEF SourceInv, SlotsHold
<1> QED
  BY <1>3, <1>4

LEMMA AbandonKeepsSourceInv == ASSUME SourceInv, NEW o \in Operations, abandon(o) PROVE SourceInv'
<1> DEFINE t == ReaderOf(o)
           bytes == t.bytes /\ t.pc \notin {"done", "failed"}
<1>1. ask[o].pc \in Waiting
  BY DEF abandon, Waiting
<1>2. bytes \in BOOLEAN
  OBVIOUS
<1> QED
  BY <1>1, <1>2, WaiterGoesKeepsSourceInv DEF abandon

\* A thread reads on: it keeps its lease, and who waits for it.
LEMMA ReaderKeepsSourceInv ==
    ASSUME SourceInv, NEW t \in readers, NEW u \in ReadingThreads, Reader(t, u), ReaderKeeps,
           u.lease = t.lease, u.ended = t.ended, u.alone = t.alone
    PROVE  SourceInv'
<1>1. readers' = (readers \ {t}) \cup {u} /\ UNCHANGED << ask, refs, memory, head >>
  BY DEF Reader, ReaderKeeps
<1>2. SharesHold'
  BY <1>1 DEF SourceInv, SharesHold
<1>3. OperationLeases' = OperationLeases /\ ThreadLeases' = ThreadLeases
  BY <1>1 DEF OperationLeases, ThreadLeases
<1>4. Live' = Live /\ Counted' = Counted
  BY <1>3 DEF Live, Counted
<1> QED
  BY <1>1, <1>2, <1>4 DEF SourceInv, SlotsHold

LEMMA WorkerKeepsSourceInv == ASSUME SourceInv, NEW t \in readers, bounded_worker(t) PROVE SourceInv'
<1> DEFINE l == t.lease
           u == [t EXCEPT !.ended = TRUE]
<1>1. t \in ReadingThreads /\ l \in Leases /\ ~t.ended /\ UNCHANGED << ask, head >>
  BY DEF SourceInv, SharesHold, ReadingThreads, bounded_worker
<1>2. readers' = (readers \ {t}) \cup (IF t.alone THEN {} ELSE {u})
  BY DEF bounded_worker
<1>3. u \in ReadingThreads /\ u.lease = l /\ u.ended /\ u.alone = t.alone
  BY <1>1 DEF ReadingThreads
<1>4. \A s \in readers : s # t => s.lease # l
  BY DEF SourceInv, SharesHold
<1> HIDE DEF u
<1>5. SharesHold'
  <2>1. /\ readers' \subseteq ReadingThreads /\ \A s \in readers' : s.ended => ~s.alone
        /\ \A s, v \in readers' : s.lease = v.lease => s = v
    BY <1>2, <1>3, <1>4 DEF SourceInv, SharesHold
  <2>2. \A s \in readers' :
           ~s.alone <=> \E p \in Operations : ask[p].lease = s.lease /\ ask[p].pc \in Waiting
    BY <1>2, <1>3 DEF SourceInv, SharesHold
  <2>3. ASSUME NEW p \in Operations, ask[p].pc \in Waiting PROVE \E s \in readers' : s.lease = ask[p].lease
    <3>1. PICK s \in readers : s.lease = ask[p].lease
      BY <2>3 DEF SourceInv, SharesHold
    <3>2. CASE s = t
      <4>1. ~t.alone
        BY <2>3, <3>1, <3>2 DEF SourceInv, SharesHold
      <4> QED
        BY <1>2, <1>3, <3>1, <3>2, <4>1
    <3>3. CASE s # t
      BY <1>2, <3>1, <3>3
    <3> QED
      BY <3>2, <3>3
  <2>4. \A p \in Operations : ask[p].pc = "local" => \A s \in readers' : s.lease # ask[p].lease
    BY <1>2, <1>3 DEF SourceInv, SharesHold
  <2> QED
    BY <1>1, <2>1, <2>2, <2>3, <2>4 DEF SourceInv, SharesHold
<1>6. OperationLeases' = OperationLeases
  BY <1>1 DEF OperationLeases
<1>7. ThreadLeases' = ThreadLeases \ {l} /\ l \in ThreadLeases
  BY <1>1, <1>2, <1>3, <1>4 DEF ThreadLeases
<1>8. \A s \in readers' : s.lease \in Live'
  <2>1. SharesHold' => LeasesAreLive'
    BY ThreadsAreLive, PTL
  <2> QED
    BY <1>5, <2>1 DEF LeasesAreLive
<1>9. \A p \in Operations : ask'[p].lease \in Live' \cup {None}
  BY DEF Live, OperationLeases
<1>10. l \in Live
  BY <1>7 DEF Live
<1>11. refs' = Collected(Released(refs, l), ask', readers') /\ memory' = memory + Frees(refs, l)
  BY <1>1 DEF bounded_worker
<1>12. SlotsHold'
  BY <1>1, <1>6, <1>7, <1>8, <1>9, <1>10, <1>11, ReleaseCounts
<1> QED
  BY <1>1, <1>5, <1>12 DEF SourceInv

LEMMA ReadingKeepsSourceInv ==
    ASSUME SourceInv, NEW t \in readers,
           \/ local_markdown_source_files(t) \/ read_local_markdown_bytes(t) \/ write_local_file(t)
    PROVE  SourceInv'
<1>1. t \in ReadingThreads
  BY DEF SourceInv, SharesHold
<1>2. CASE local_markdown_source_files(t)
  <2> DEFINE u == [t EXCEPT !.pc = "reading", !.bytes = TRUE]
  <2>1. u \in ReadingThreads /\ u.lease = t.lease /\ u.ended = t.ended /\ u.alone = t.alone
    BY <1>1 DEF ReadingThreads
  <2> QED
    BY <1>2, <2>1, ReaderKeepsSourceInv DEF local_markdown_source_files
<1>3. CASE read_local_markdown_bytes(t)
  <2> DEFINE u == [t EXCEPT !.pc = "failed", !.bytes = FALSE]
             v == [t EXCEPT !.pc = "done"]
  <2>1. /\ u \in ReadingThreads /\ u.lease = t.lease /\ u.ended = t.ended /\ u.alone = t.alone
        /\ v \in ReadingThreads /\ v.lease = t.lease /\ v.ended = t.ended /\ v.alone = t.alone
    BY <1>1 DEF ReadingThreads
  <2> QED
    BY <1>3, <2>1, ReaderKeepsSourceInv DEF read_local_markdown_bytes
<1>4. CASE write_local_file(t)
  <2> DEFINE u == [t EXCEPT !.stale = TRUE]
  <2>1. u \in ReadingThreads /\ u.lease = t.lease /\ u.ended = t.ended /\ u.alone = t.alone
    BY <1>1 DEF ReadingThreads
  <2> QED
    BY <1>4, <2>1, ReaderKeepsSourceInv DEF write_local_file
<1> QED
  BY <1>2, <1>3, <1>4

-----------------------------------------------------------------------------
\* The steps of an operation that change only how far it is.
LEMMA StageKeepsSourceInv ==
    ASSUME SourceInv, NEW o \in Operations, NEW r \in Acquisitions, ask' = [ask EXCEPT ![o] = r],
           r.lease = ask[o].lease, r.got = ask[o].got,
           r.pc \in Waiting <=> ask[o].pc \in Waiting, r.pc = "local" => ask[o].pc = "local",
           r.pc \in BeforeLease <=> ask[o].pc \in BeforeLease,
           r.commit = ask[o].commit \/ ask[o].pc \in BeforeFiles,
           r.pc \in BeforeFiles => ask[o].pc \in BeforeFiles,
           r.pc \in WithImage => r.commit = r.pinned,
           UNCHANGED << refs, readers, memory, head >>
    PROVE  SourceInv'
<1>1. AcquisitionHolds(ask[o])
  BY DEF SourceInv, SharesHold
<1>2. AcquisitionHolds(r)
  BY <1>1 DEF AcquisitionHolds
<1> QED
  BY <1>2, AskKeepsSourceInv

LEMMA CallsKeepSourceInv ==
    ASSUME SourceInv, NEW o \in Operations,
           \/ course_markdown_source_files(o) \/ begin_call(o) \/ read_provider_markdown_token(o)
           \/ wait_times_out(o) \/ expire(o) \/ fetch_snapshot(o)
    PROVE  SourceInv'
<1>1. AcquisitionHolds(ask[o]) /\ ask[o] \in Acquisitions /\ head \in Nat
  BY DEF SourceInv, SharesHold, AcquisitionHolds
<1>2. ASSUME NEW p \in {None, "github", "gitlab"}, ask[o].pc = "idle", UNCHANGED << refs, readers, memory, head >>,
             ask' = [ask EXCEPT ![o].provider = p, ![o].pc = IF p = None THEN "memory" ELSE "token"]
      PROVE  SourceInv'
  <2> DEFINE pc == IF p = None THEN "memory" ELSE "token"
             r == [ask[o] EXCEPT !.provider = p, !.pc = pc]
  <2>1. pc \in {"memory", "token"} /\ ask' = [ask EXCEPT ![o] = r]
    BY <1>2
  <2> HIDE DEF pc
  <2>2. r \in Acquisitions /\ r.lease = ask[o].lease /\ r.got = ask[o].got /\ r.commit = ask[o].commit /\ r.pc = pc
    BY <1>1, <2>1 DEF Acquisitions, AskStages, BeforeFiles, BeforeLease
  <2> HIDE DEF r
  <2> QED
    BY <1>2, <2>1, <2>2, StageKeepsSourceInv DEF BeforeFiles, BeforeLease, Waiting, WithImage
<1>3. CASE begin_call(o)
  <2> DEFINE r == [ask[o] EXCEPT !.call = TRUE]
  <2>1. r \in Acquisitions /\ r.lease = ask[o].lease /\ r.got = ask[o].got /\ r.commit = ask[o].commit
        /\ r.pc = ask[o].pc /\ r.pinned = ask[o].pinned
    BY <1>1 DEF Acquisitions
  <2>2. ask' = [ask EXCEPT ![o] = r]
    BY <1>3 DEF begin_call
  <2> HIDE DEF r
  <2> QED
    BY <1>1, <1>3, <2>1, <2>2, StageKeepsSourceInv DEF begin_call, AcquisitionHolds
<1>4. CASE Answered(o, "token") /\ ask' = [ask EXCEPT ![o].pc = "memory", ![o].call = FALSE]
           /\ UNCHANGED << refs, readers, memory, head >>
  <2> DEFINE r == [ask[o] EXCEPT !.pc = "memory", !.call = FALSE]
  <2>1. r \in Acquisitions /\ r.lease = ask[o].lease /\ r.got = ask[o].got /\ r.commit = ask[o].commit
        /\ r.pc = "memory"
    BY <1>1 DEF Acquisitions, AskStages, BeforeFiles, BeforeLease
  <2>2. ask' = [ask EXCEPT ![o] = r] /\ ask[o].pc = "token"
    BY <1>4 DEF Answered
  <2> HIDE DEF r
  <2> QED
    BY <1>4, <2>1, <2>2, StageKeepsSourceInv DEF BeforeFiles, BeforeLease, Waiting, WithImage
<1>5. CASE Answered(o, "image_token") /\ UNCHANGED << refs, readers, memory, head >>
           /\ ask' = [ask EXCEPT ![o].pc = "image_file", ![o].call = FALSE, ![o].late = FALSE]
  <2> DEFINE r == [ask[o] EXCEPT !.pc = "image_file", !.call = FALSE, !.late = FALSE]
  <2>1. r \in Acquisitions /\ r.lease = ask[o].lease /\ r.got = ask[o].got /\ r.commit = ask[o].commit
        /\ r.pc = "image_file" /\ r.pinned = ask[o].pinned
    BY <1>1 DEF Acquisitions, AskStages, WithImage
  <2>2. ask' = [ask EXCEPT ![o] = r] /\ ask[o].pc = "image_token"
    BY <1>5 DEF Answered
  <2>3. r.commit = r.pinned
    BY <1>1, <2>1, <2>2 DEF AcquisitionHolds, WithImage
  <2> HIDE DEF r
  <2> QED
    BY <1>5, <2>1, <2>2, <2>3, StageKeepsSourceInv DEF BeforeFiles, BeforeLease, Waiting, WithImage
<1>6. CASE wait_times_out(o)
  <2> DEFINE r == [ask[o] EXCEPT !.pc = "abandon"]
  <2>1. r \in Acquisitions /\ r.lease = ask[o].lease /\ r.got = ask[o].got /\ r.commit = ask[o].commit
        /\ r.pc = "abandon"
    BY <1>1 DEF Acquisitions, AskStages, BeforeFiles, Waiting
  <2>2. ask' = [ask EXCEPT ![o] = r] /\ ask[o].pc = "waiting"
    BY <1>6 DEF wait_times_out, Goes
  <2> HIDE DEF r
  <2> QED
    BY <1>6, <2>1, <2>2, StageKeepsSourceInv DEF wait_times_out, BeforeFiles, BeforeLease, Waiting, WithImage
<1>7. CASE expire(o)
  <2> DEFINE r == [ask[o] EXCEPT !.late = TRUE]
  <2>1. r \in Acquisitions /\ r.lease = ask[o].lease /\ r.got = ask[o].got /\ r.commit = ask[o].commit
        /\ r.pc = ask[o].pc /\ r.pinned = ask[o].pinned
    BY <1>1 DEF Acquisitions
  <2>2. ask' = [ask EXCEPT ![o] = r]
    BY <1>7 DEF expire
  <2> HIDE DEF r
  <2> QED
    BY <1>1, <1>7, <2>1, <2>2, StageKeepsSourceInv, ZenonT(60) DEF expire, AcquisitionHolds
<1>8. CASE fetch_snapshot(o)
  <2> DEFINE r == [ask[o] EXCEPT !.pc = "file", !.call = FALSE, !.commit = head]
  <2>1. r \in Acquisitions /\ r.lease = ask[o].lease /\ r.got = ask[o].got /\ r.commit = head /\ r.pc = "file"
    BY <1>1 DEF Acquisitions, AskStages
  <2>2. ask' = [ask EXCEPT ![o] = r] /\ ask[o].pc = "commit"
    BY <1>8 DEF fetch_snapshot, Answered
  <2> HIDE DEF r
  <2> QED
    BY <1>8, <2>1, <2>2, StageKeepsSourceInv DEF fetch_snapshot, BeforeFiles, BeforeLease, Waiting, WithImage
<1> QED
  BY <1>2, <1>3, <1>4, <1>5, <1>6, <1>7, <1>8 DEF course_markdown_source_files, read_provider_markdown_token

-----------------------------------------------------------------------------
\* The steps that take a file of the commit.
LEMMA TakesKeepSourceInv ==
    ASSUME SourceInv, NEW o \in Operations, ask[o].pc \notin BeforeFiles,
           NEW file \in BlobNames, NEW pc \in AskStages \ BeforeFiles,
           pc \in WithImage => ask[o].pc \in WithImage,
           ask' = [ask EXCEPT ![o].got = Append(ask[o].got, << file, CommitOf(o) >>), ![o].call = FALSE, ![o].pc = pc],
           UNCHANGED << refs, readers, memory, head >>
    PROVE  SourceInv'
<1> DEFINE blob == << file, CommitOf(o) >>
           got == Append(ask[o].got, blob)
           r == [ask[o] EXCEPT !.got = got, !.call = FALSE, !.pc = pc]
<1>1. AcquisitionHolds(ask[o]) /\ ask[o] \in Acquisitions
  BY DEF SourceInv, SharesHold, AcquisitionHolds
<1>2. blob \in BlobNames \X (Nat \cup {None}) /\ blob[2] = ask[o].commit
  BY <1>1 DEF CommitOf, Acquisitions
<1>3. ask[o].got \in Seq(BlobNames \X (Nat \cup {None}))
  BY <1>1 DEF Acquisitions
<1>4. /\ got \in Seq(BlobNames \X (Nat \cup {None})) /\ Len(got) = Len(ask[o].got) + 1
      /\ Len(ask[o].got) \in Nat /\ got[Len(ask[o].got) + 1] = blob
      /\ \A i \in 1..Len(ask[o].got) : got[i] = ask[o].got[i]
  BY <1>2, <1>3
<1>5. \A i \in 1..Len(got) : got[i][2] = ask[o].commit
  <2> SUFFICES ASSUME NEW i \in 1..Len(got) PROVE got[i][2] = ask[o].commit
    OBVIOUS
  <2>1. CASE i = Len(ask[o].got) + 1
    BY <1>2, <1>4, <2>1
  <2>2. CASE i # Len(ask[o].got) + 1
    BY <1>1, <1>4, <2>2 DEF AcquisitionHolds
  <2> QED
    BY <2>1, <2>2
<1> HIDE DEF blob, got
<1>6. /\ r \in Acquisitions /\ r.got = got /\ r.pc = pc /\ r.lease = ask[o].lease /\ r.commit = ask[o].commit
      /\ r.pinned = ask[o].pinned
  BY <1>1, <1>4 DEF Acquisitions
<1>7. ask' = [ask EXCEPT ![o] = r]
  BY DEF got, blob
<1> HIDE DEF r
<1>8. AcquisitionHolds(r)
  BY <1>1, <1>5, <1>6 DEF AcquisitionHolds, BeforeFiles
<1> QED
  BY <1>6, <1>7, <1>8, AskKeepsSourceInv DEF BeforeFiles

LEMMA FilesKeepSourceInv ==
    ASSUME SourceInv, NEW o \in Operations,
           \/ github_metadata(o) \/ github_blob(o) \/ gitlab_file(o) \/ github_image(o) \/ gitlab_image(o)
    PROVE  SourceInv'
<1>1. AcquisitionHolds(ask[o]) /\ ask[o] \in Acquisitions
  BY DEF SourceInv, SharesHold, AcquisitionHolds
<1>2. ASSUME ask[o].pc \in {"file", "blob"}, TakesBlob(o, NextBlob(o)), UNCHANGED << refs, readers, memory, head >>
      PROVE  SourceInv'
  <2> DEFINE file == RemoteFiles[Len(ask[o].got) + 1]
             pc == IF Len(Append(ask[o].got, NextBlob(o))) = Len(RemoteFiles) THEN "returned" ELSE "file"
  <2>1. Len(ask[o].got) + 1 \in Nat
    BY <1>1 DEF Acquisitions
  <2>2. file \in BlobNames
    BY <2>1 DEF BlobNames
  <2>3. pc \in AskStages \ BeforeFiles /\ pc \notin WithImage /\ ask[o].pc \notin BeforeFiles
    BY <1>2 DEF AskStages, BeforeFiles, BeforeLease, Waiting, WithImage
  <2>4. ask' = [ask EXCEPT ![o].got = Append(ask[o].got, << file, CommitOf(o) >>), ![o].call = FALSE, ![o].pc = pc]
    BY <1>2 DEF TakesBlob, NextBlob
  <2> HIDE DEF file, pc
  <2> QED
    BY <1>2, <2>2, <2>3, <2>4, TakesKeepSourceInv
<1>3. ASSUME ask[o].pc \in {"image_file", "image_blob"}, TakesImage(o), UNCHANGED << refs, readers, memory, head >>
      PROVE  SourceInv'
  <2>1. ask' = [ask EXCEPT ![o].got = Append(ask[o].got, << "image", CommitOf(o) >>), ![o].call = FALSE, ![o].pc = "shown"]
    BY <1>3 DEF TakesImage, ImageBlob
  <2>2. "image" \in BlobNames /\ "shown" \in AskStages \ BeforeFiles /\ ask[o].pc \notin BeforeFiles
        /\ ask[o].pc \in WithImage
    BY <1>3 DEF BlobNames, AskStages, BeforeFiles, BeforeLease, Waiting, WithImage
  <2> QED
    BY <1>3, <2>1, <2>2, TakesKeepSourceInv
<1>4. ASSUME ask[o].pc = "file", ask' = [ask EXCEPT ![o].pc = "blob", ![o].call = FALSE],
             UNCHANGED << refs, readers, memory, head >>
      PROVE  SourceInv'
  <2> DEFINE r == [ask[o] EXCEPT !.pc = "blob", !.call = FALSE]
  <2>1. r \in Acquisitions /\ r.lease = ask[o].lease /\ r.got = ask[o].got /\ r.commit = ask[o].commit
        /\ r.pc = "blob"
    BY <1>1 DEF Acquisitions, AskStages
  <2>2. ask' = [ask EXCEPT ![o] = r]
    BY <1>4
  <2> HIDE DEF r
  <2> QED
    BY <1>4, <2>1, <2>2, StageKeepsSourceInv DEF BeforeFiles, BeforeLease, Waiting, WithImage
<1>5. ASSUME ask[o].pc = "image_file", ask' = [ask EXCEPT ![o].pc = "image_blob", ![o].call = FALSE],
             UNCHANGED << refs, readers, memory, head >>
      PROVE  SourceInv'
  <2> DEFINE r == [ask[o] EXCEPT !.pc = "image_blob", !.call = FALSE]
  <2>1. r \in Acquisitions /\ r.lease = ask[o].lease /\ r.got = ask[o].got /\ r.commit = ask[o].commit
        /\ r.pc = "image_blob" /\ r.pinned = ask[o].pinned
    BY <1>1 DEF Acquisitions, AskStages, WithImage
  <2>2. ask' = [ask EXCEPT ![o] = r]
    BY <1>5
  <2>3. r.commit = r.pinned
    BY <1>1, <1>5, <2>1 DEF AcquisitionHolds, WithImage
  <2> HIDE DEF r
  <2> QED
    BY <1>5, <2>1, <2>2, <2>3, StageKeepsSourceInv DEF BeforeFiles, BeforeLease, Waiting, WithImage
<1>6. CASE github_metadata(o)
  BY <1>2, <1>4, <1>6 DEF github_metadata, Answered
<1>7. CASE github_blob(o) \/ gitlab_file(o)
  BY <1>2, <1>7 DEF github_blob, gitlab_file, Answered
<1>8. CASE github_image(o)
  BY <1>3, <1>5, <1>8 DEF github_image, Answered
<1>9. CASE gitlab_image(o)
  BY <1>3, <1>9 DEF gitlab_image, Answered
<1> QED
  BY <1>6, <1>7, <1>8, <1>9

LEMMA EndsKeepSourceInv ==
    ASSUME SourceInv, NEW o \in Operations,
           \/ call_times_out(o) \/ token_refused(o) \/ github_refused(o) \/ gitlab_refused(o)
           \/ read_local_heading_asset(o) \/ drop_files(o)
    PROVE  SourceInv'
<1>1. \A pc \in DOMAIN CallAt : pc \notin Waiting
  BY DEF CallAt, Waiting
<1>2. Fails(o) /\ UNCHANGED << readers, head >> /\ ask[o].pc \notin Waiting
  BY <1>1 DEF call_times_out, token_refused, github_refused, gitlab_refused, Refused, Answered,
              read_local_heading_asset, drop_files, Waiting
<1> QED
  BY <1>2, FailsKeepsSourceInv

LEMMA TurnsKeepSourceInv ==
    ASSUME SourceInv, NEW o \in Operations,
           \/ markdown_source_files(o) \/ bounded_local_markdown_source_files(o) \/ heading_asset_snapshot(o)
    PROVE  SourceInv'
<1>1. AcquisitionHolds(ask[o]) /\ ask[o] \in Acquisitions /\ head \in Nat
  BY DEF SourceInv, SharesHold, AcquisitionHolds
<1>2. CASE markdown_source_files(o)
  <2>1. ask[o].pc \notin Waiting
    BY <1>2 DEF markdown_source_files, Waiting
  <2> QED
    BY <1>2, <2>1, LeaseKeepsSourceInv, FailsKeepsSourceInv DEF markdown_source_files
<1>3. CASE bounded_local_markdown_source_files(o)
  <2>1. ask[o].pc \notin Waiting
    BY <1>3 DEF bounded_local_markdown_source_files, Waiting
  <2> QED
    BY <1>3, <2>1, ReaderStartsKeepsSourceInv, FailsKeepsSourceInv DEF bounded_local_markdown_source_files
<1>4. CASE heading_asset_snapshot(o)
  <2>1. ask[o].pc = "returned" /\ ask[o].pc \notin Waiting /\ UNCHANGED << readers, head >>
    BY <1>4 DEF heading_asset_snapshot, Waiting
  <2>2. ASSUME Fails(o) PROVE SourceInv'
    BY <2>1, <2>2, FailsKeepsSourceInv
  <2>3. ASSUME Goes(o, "image_local"), UNCHANGED << refs, memory >> PROVE SourceInv'
    <3> DEFINE r == [ask[o] EXCEPT !.pc = "image_local"]
    <3>1. r \in Acquisitions /\ r.lease = ask[o].lease /\ r.got = ask[o].got /\ r.commit = ask[o].commit
          /\ r.pc = "image_local"
      BY <1>1 DEF Acquisitions, AskStages
    <3>2. ask' = [ask EXCEPT ![o] = r]
      BY <2>3 DEF Goes
    <3> HIDE DEF r
    <3> QED
      BY <2>1, <2>3, <3>1, <3>2, StageKeepsSourceInv DEF BeforeFiles, BeforeLease, Waiting, WithImage
  <2>4. ASSUME NEW pinned \in 0..head, Pinned(o, pinned), UNCHANGED << refs, memory >>,
               ask' = [ask EXCEPT ![o].pc = "image_token", ![o].late = FALSE, ![o].pinned = pinned]
        PROVE  SourceInv'
    <3> DEFINE r == [ask[o] EXCEPT !.pc = "image_token", !.late = FALSE, !.pinned = pinned]
    <3>1. r \in Acquisitions /\ r.lease = ask[o].lease /\ r.got = ask[o].got /\ r.commit = ask[o].commit
          /\ r.pc = "image_token" /\ r.pinned = pinned
      BY <1>1, <2>4, pinned \in Nat DEF Acquisitions, AskStages, WithImage
    <3>2. ask' = [ask EXCEPT ![o] = r] /\ r.commit = r.pinned
      BY <2>4, <3>1 DEF Pinned
    <3> HIDE DEF r
    <3> QED
      BY <2>1, <2>4, <3>1, <3>2, StageKeepsSourceInv DEF BeforeFiles, BeforeLease, Waiting, WithImage
  <2> QED
    BY <1>4, <2>2, <2>3, <2>4 DEF heading_asset_snapshot
<1> QED
  BY <1>2, <1>3, <1>4

\* The bytes of no more operations are in memory than there are slots, and a snapshot is
\* of one commit, whatever threads are abandoned, for any number of operations and pools.
THEOREM SnapshotsAreBoundedAlways == SourceSpec => []SnapshotsAreBounded
<1>1. SourceInit => SourceInv
  <2> SUFFICES ASSUME SourceInit PROVE SourceInv
    OBVIOUS
  <2>1. \A o \in Operations : ask[o] = Resting
    BY DEF SourceInit
  <2>2. Resting.lease = None /\ Resting.pc = "idle"
    BY DEF Resting
  <2>3. SharesHold
    BY <2>1, <2>2, RestingHolds DEF SourceInit, SharesHold, Waiting
  <2>4. Live = {} /\ OperationLeases = {} /\ ThreadLeases = {}
    BY <2>1, <2>2 DEF SourceInit, Live, OperationLeases, ThreadLeases
  <2>5. IsFiniteSet(Live) /\ Cardinality(Live) = 0
    BY <2>4, FS_EmptySet
  <2> QED
    BY <2>3, <2>4, <2>5, SourceAssumption DEF SourceInit, SourceInv, SlotsHold, Counted
<1>2. SourceInv /\ [SourceNext]_sourceVars => SourceInv'
  <2> SUFFICES ASSUME SourceInv, [SourceNext]_sourceVars PROVE SourceInv'
    OBVIOUS
  <2>1. ASSUME ask' = ask, UNCHANGED << refs, readers, memory >>, head' \in Nat PROVE SourceInv'
    BY <2>1 DEF SourceInv, SharesHold, SlotsHold, Counted, Live, OperationLeases, ThreadLeases
  <2>2. CASE UNCHANGED sourceVars
    BY <2>1, <2>2 DEF sourceVars, sourceState, SourceInv
  <2>3. CASE push \/ \E p \in Pools : orphan_ends(p)
    BY <2>1, <2>3 DEF push, orphan_ends, SourceInv
  <2>4. ASSUME NEW t \in readers, \/ local_markdown_source_files(t) \/ read_local_markdown_bytes(t)
                                   \/ write_local_file(t) \/ bounded_worker(t)
        PROVE  SourceInv'
    BY <2>4, ReadingKeepsSourceInv, WorkerKeepsSourceInv
  <2>5. ASSUME NEW o \in Operations, Proceeds(o) PROVE SourceInv'
    BY <2>5, CallsKeepSourceInv, EndsKeepSourceInv, TurnsKeepSourceInv, ReadKeepsSourceInv,
       AbandonKeepsSourceInv DEF Proceeds
  <2> QED
    BY <2>2, <2>3, <2>4, <2>5, CallsKeepSourceInv, EndsKeepSourceInv, FilesKeepSourceInv DEF SourceNext
<1> QED
  BY <1>1, <1>2, BoundFollows, PTL DEF SourceSpec

=============================================================================
